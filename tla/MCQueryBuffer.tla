--------------------------- MODULE MCQueryBuffer ---------------------------
(***************************************************************************)
(* A header of 2 bytes, a "short link" mark of 4 and ints up to 7: all     *)
(* ways to cut a request into reads.  A body of 1 reaches the mark with    *)
(* bytes to spare; with one of 5 the buffer's free wraps around, and more  *)
(* bytes may arrive than its len can count, before the mark is reached;    *)
(* header and body of 6 together do not fit an int, nor does a body of 8.  *)
(* Two answers of up to 2 bytes and a send buffer of 1: writes are whole,  *)
(* partial and held up by a full buffer.                                   *)
(***************************************************************************)
EXTENDS ReplyWriter
=============================================================================
