-------------------------- MODULE MCSignalingConn --------------------------
(***************************************************************************)
(* Three clients, two descriptors and two workers: a descriptor is reused  *)
(* by the same and by another worker, twice in a row and while a close is  *)
(* under way, and accept() runs out of descriptors.                        *)
(***************************************************************************)
EXTENDS SignalingConn, TLC

Symmetry == Permutations(Clients) \union Permutations(Addrs)
=============================================================================
