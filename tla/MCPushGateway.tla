--------------------------- MODULE MCPushGateway ---------------------------
(***************************************************************************)
(* Two requests, of the page or of others, and two servers: two calls of   *)
(* PickServer can overlap and the selector wraps around, and a second push *)
(* of the page comes before, during and after the end of the first.        *)
(***************************************************************************)
EXTENDS PushPage
=============================================================================
