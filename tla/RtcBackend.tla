----------------------------- MODULE RtcBackend -----------------------------
(***************************************************************************)
(* What the signaling workers are promised by everything behind            *)
(* RtcServer::send_rtc_msg: a request that a worker submits is answered at *)
(* most once, and the answer comes back to the worker that submitted it.   *)
(* A request may also be dropped without an answer: RtcServer::            *)
(* _process_rtc_msg returns early when no certificate can be generated.    *)
(***************************************************************************)
CONSTANTS Msgs,          \* the RtcMsg objects
          SigWorkers,    \* the signaling worker threads
          None           \* no worker

VARIABLES status,        \* how far each request is
          origin         \* msg->woeker: the worker that submitted it

vars == <<status, origin>>

Statuses == {"new", "pending", "answered", "dropped", "delivered"}

Init == /\ status = [m \in Msgs |-> "new"]
        /\ origin = [m \in Msgs |-> None]

Submit(m, w) == /\ status[m] = "new"
                /\ status' = [status EXCEPT ![m] = "pending"]
                /\ origin' = [origin EXCEPT ![m] = w]

Move(m, from, to) == /\ status[m] = from
                     /\ status' = [status EXCEPT ![m] = to]
                     /\ UNCHANGED origin

Answer(m) == Move(m, "pending", "answered")
Drop(m)   == Move(m, "pending", "dropped")

\* The answer reaches a worker only if that worker submitted the request.
Deliver(m, w) == w = origin[m] /\ Move(m, "answered", "delivered")

Next == \E m \in Msgs :
            \/ \E w \in SigWorkers : Submit(m, w) \/ Deliver(m, w)
            \/ Answer(m)
            \/ Drop(m)

Spec == Init /\ [][Next]_vars
=============================================================================
