---------------------------- MODULE FifoChannel ----------------------------
(***************************************************************************)
(* What every hand-over between two threads of xrtc_server promises: the   *)
(* items put in by one side come out on the other side once each and in    *)
(* the order they went in.  Items are numbered by the order of the puts,   *)
(* so "in" is how many went in and "out" how many came out last.           *)
(***************************************************************************)
EXTENDS Naturals, Sequences

VARIABLES in,     \* number of items put so far: item n is the n-th put
          out     \* the items taken so far, in the order they were taken

vars == <<in, out>>

Init == in = 0 /\ out = <<>>

Put == in' = in + 1 /\ UNCHANGED out

\* The item taken is the oldest one that has not been taken.
Get == /\ Len(out) < in
       /\ out' = Append(out, Len(out) + 1)
       /\ UNCHANGED in

Next == Put \/ Get

Spec == Init /\ [][Next]_vars
=============================================================================
