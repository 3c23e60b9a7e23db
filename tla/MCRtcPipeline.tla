--------------------------- MODULE MCRtcPipeline ---------------------------
(***************************************************************************)
(* Small instances of RtcPipeline.  MCRtcPipeline.cfg: two signaling and   *)
(* two rtc workers, three requests of which two name the same stream, one  *)
(* new connection and pipes of one token, so that every write blocks in    *)
(* some behaviour.  MCBlocking.cfg: one worker of each kind, pipes of two  *)
(* tokens and one request less than a circular wait needs.                 *)
(***************************************************************************)
EXTENDS RtcPipeline, TLC

CONSTANTS m1, m2, m3, m4, m5, m6, s1, s2

TwoStreams  == m1 :> s1 @@ m2 :> s1 @@ m3 :> s2
OneStream   == [m \in Msgs |-> s1]
Checksums   == [s \in Streams |-> IF s = s1 THEN 4 ELSE 7]
Symmetry    == Permutations(Msgs)
=============================================================================
