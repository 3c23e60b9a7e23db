---------------------------- MODULE MCLifecycle ----------------------------
(***************************************************************************)
(* Two workers and any three events: connections that wait for answers     *)
(* while a signal comes, a second signal in every phase of the stop, a jam *)
(* in every thread, three messages, two and a file moved away, and two     *)
(* and a log thread that is jammed between them.                           *)
(***************************************************************************)
EXTENDS Lifecycle
=============================================================================
