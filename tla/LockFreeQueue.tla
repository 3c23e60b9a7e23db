--------------------------- MODULE LockFreeQueue ---------------------------
(***************************************************************************)
(* LockFreeQueue<T> (xrtc_server/src/base/lock_free_queue.h) together with *)
(* the wake-up pipe it is always used with: RtcWorker::send_rtc_msg and    *)
(* SignalingServerWorker::notify_new_conn call produce() and then write    *)
(* one token; the worker calls consume() once for every token it reads.    *)
(*                                                                         *)
(* first, divider, last and Node::next are plain pointers that one thread  *)
(* writes while the other reads: a data race.  On the ARM64 build the      *)
(* stores of a thread may become visible to the other one late and in any  *)
(* order, until the next sequentially consistent ++_size / --_size or the  *)
(* next pipe write.  The saw* variables are what the other thread's loads  *)
(* return; the Show* actions let the stores through one by one.            *)
(*                                                                         *)
(* Node n is the n-th node allocated and holds the n-th item (0 is the     *)
(* constructor's dummy).  Giving each allocation a fresh number is sound   *)
(* because MemorySafe says that a deleted node is never touched again.     *)
(***************************************************************************)
EXTENDS Integers, Sequences

CONSTANT MaxItems        \* bound on the number of produce() calls

ASSUME MaxItemsAssumption == MaxItems \in Nat

VARIABLES
    ppc,          \* where the producer thread is in produce()/notify
    cpc,          \* where the consumer thread is in its wake-up/consume()
    first, last,  \* the producer's pointers
    divider,      \* the consumer's pointer
    heap,         \* nodes that are allocated and not deleted
    sawNode,      \* nodes whose constructor's stores the consumer sees
    sawNext,      \* nodes n for which the consumer sees (n-1)->next = n
    sawLast,      \* what the consumer loads from last
    sawDivider,   \* what the producer loads from divider
    size,         \* _size
    tokens,       \* wake-ups in the pipe
    missed,       \* has a consume() returned false?
    taken         \* the items consume() has returned

producerVars == <<ppc, first, last>>
memoryVars   == <<sawNode, sawNext, sawLast, sawDivider>>
consumerVars == <<cpc, divider, missed, taken>>
vars == <<producerVars, memoryVars, consumerVars, heap, size, tokens>>

Node == 0 .. MaxItems

\* The constructor runs before either thread exists: everything is visible.
Init ==
    /\ ppc = "idle" /\ cpc = "idle"
    /\ first = 0 /\ divider = 0 /\ last = 0
    /\ heap = {0}
    /\ sawNode = {0} /\ sawNext = {} /\ sawLast = 0 /\ sawDivider = 0
    /\ size = 0 /\ tokens = 0
    /\ missed = FALSE /\ taken = <<>>

(***************************************************************************)
(* The producer thread.                                                    *)
(***************************************************************************)

\* last->next = new Node(t)
Link ==
    /\ ppc = "idle" /\ last < MaxItems
    /\ IF last \in heap
       THEN ppc' = "advance" /\ heap' = heap \union {last + 1}
       ELSE ppc' = "fault"   /\ UNCHANGED heap
    /\ UNCHANGED <<first, last, memoryVars, consumerVars, size, tokens>>

\* last = last->next
Advance ==
    /\ ppc = "advance"
    /\ last' = last + 1 /\ ppc' = "count"
    /\ UNCHANGED <<first, memoryVars, consumerVars, heap, size, tokens>>

\* ++_size, which is also a release: the producer's earlier stores are visible.
Count ==
    /\ ppc = "count"
    /\ last \in sawNode /\ last \in sawNext /\ sawLast = last
    /\ size' = size + 1 /\ ppc' = "trim"
    /\ UNCHANGED <<first, last, memoryVars, consumerVars, heap, tokens>>

TrimToLast == last

\* How far the trimming loop may go: while (divider != first).
TrimLimit == sawDivider

TrimWithoutDelete ==
    /\ ppc = "trim" /\ first # TrimLimit
    /\ first' = first + 1
    /\ UNCHANGED <<ppc, last, memoryVars, consumerVars, heap, size, tokens>>

\* One turn of the loop that deletes the nodes the consumer has left behind.
Trim ==
    /\ ppc = "trim" /\ first # TrimLimit
    /\ IF first \in heap
       THEN first' = first + 1 /\ heap' = heap \ {first} /\ UNCHANGED ppc
       ELSE ppc' = "fault" /\ UNCHANGED <<first, heap>>
    /\ UNCHANGED <<last, memoryVars, consumerVars, size, tokens>>

EndWithoutNotify ==
    /\ ppc = "trim" /\ first = TrimLimit
    /\ ppc' = "idle"
    /\ UNCHANGED <<first, last, memoryVars, consumerVars, heap, size, tokens>>

EndTrim ==
    /\ ppc = "trim" /\ first = TrimLimit
    /\ ppc' = "notify"
    /\ UNCHANGED <<first, last, memoryVars, consumerVars, heap, size, tokens>>

NotifyTwice ==
    /\ ppc = "notify"
    /\ tokens' = tokens + 2 /\ ppc' = "idle"
    /\ UNCHANGED <<first, last, memoryVars, consumerVars, heap, size>>

\* notify(...): one token into the pipe, after produce() has returned.
Notify ==
    /\ ppc = "notify"
    /\ tokens' = tokens + 1 /\ ppc' = "idle"
    /\ UNCHANGED <<first, last, memoryVars, consumerVars, heap, size>>

(***************************************************************************)
(* The consumer thread.                                                    *)
(***************************************************************************)

\* The event loop reads one token and calls consume().
Wake ==
    /\ cpc = "idle" /\ tokens > 0
    /\ tokens' = tokens - 1 /\ cpc' = "test"
    /\ UNCHANGED <<producerVars, memoryVars, divider, missed, taken, heap, size>>

\* if (divider != last) ... else return false
Test ==
    /\ cpc = "test"
    /\ IF divider # sawLast
       THEN cpc' = "load" /\ UNCHANGED missed
       ELSE cpc' = "idle" /\ missed' = TRUE
    /\ UNCHANGED <<producerVars, memoryVars, divider, taken, heap, size, tokens>>

\* divider->next may be read: divider is allocated, its link is visible.
NextReadable == divider \in heap /\ divider + 1 \in sawNext

LoadDivider ==
    /\ cpc = "load"
    /\ cpc' = "step" /\ taken' = Append(taken, divider)
    /\ UNCHANGED <<producerVars, memoryVars, divider, missed, heap, size, tokens>>

\* *result = divider->next->value
Load ==
    /\ cpc = "load"
    /\ IF NextReadable /\ divider + 1 \in heap /\ divider + 1 \in sawNode
       THEN cpc' = "step"  /\ taken' = Append(taken, divider + 1)
       ELSE cpc' = "fault" /\ UNCHANGED taken
    /\ UNCHANGED <<producerVars, memoryVars, divider, missed, heap, size, tokens>>

\* divider = divider->next
Step ==
    /\ cpc = "step"
    /\ IF NextReadable
       THEN cpc' = "uncount" /\ divider' = divider + 1
       ELSE cpc' = "fault"   /\ UNCHANGED divider
    /\ UNCHANGED <<producerVars, memoryVars, missed, taken, heap, size, tokens>>

UncountDropped ==
    /\ cpc = "uncount" /\ sawDivider = divider
    /\ cpc' = "idle"
    /\ UNCHANGED <<producerVars, memoryVars, divider, missed, taken, heap, size, tokens>>

\* --_size, which is also a release: the store to divider is visible.
Uncount ==
    /\ cpc = "uncount" /\ sawDivider = divider
    /\ size' = size - 1 /\ cpc' = "idle"
    /\ UNCHANGED <<producerVars, memoryVars, divider, missed, taken, heap, tokens>>

(***************************************************************************)
(* The memory system: any pending store may become visible at any time;    *)
(* stores to one location become visible in the order they were made.      *)
(***************************************************************************)

ShowNode ==
    /\ \E n \in heap \ sawNode : sawNode' = sawNode \union {n}
    /\ UNCHANGED <<producerVars, consumerVars, heap, size, tokens,
                   sawNext, sawLast, sawDivider>>

ShowNext ==
    /\ \E n \in heap \ (sawNext \union {0}) : sawNext' = sawNext \union {n}
    /\ UNCHANGED <<producerVars, consumerVars, heap, size, tokens,
                   sawNode, sawLast, sawDivider>>

ShowLast ==
    /\ \E n \in sawLast + 1 .. last : sawLast' = n
    /\ UNCHANGED <<producerVars, consumerVars, heap, size, tokens,
                   sawNode, sawNext, sawDivider>>

ShowDivider ==
    /\ \E n \in sawDivider + 1 .. divider : sawDivider' = n
    /\ UNCHANGED <<producerVars, consumerVars, heap, size, tokens,
                   sawNode, sawNext, sawLast>>

Producer == Link \/ Advance \/ Count \/ Trim \/ EndTrim \/ Notify
Consumer == Wake \/ Test \/ Load \/ Step \/ Uncount
Memory   == ShowNode \/ ShowNext \/ ShowLast \/ ShowDivider

Next == Producer \/ Consumer \/ Memory

\* Threads are scheduled and stores reach memory.  Whether another item is
\* produced is up to the callers, so Link has no fairness.
Fairness ==
    /\ WF_vars(Advance \/ Count \/ Trim \/ EndTrim \/ Notify)
    /\ WF_vars(Consumer)
    /\ WF_vars(ShowNode) /\ WF_vars(ShowNext)
    /\ WF_vars(ShowLast) /\ WF_vars(ShowDivider)

Spec     == Init /\ [][Next]_vars
FairSpec == Spec /\ Fairness

(***************************************************************************)
(* Properties.                                                             *)
(***************************************************************************)

\* The newest node that is linked, and the newest one that produce() has
\* published with ++_size.
Newest   == IF ppc = "advance" THEN last + 1 ELSE last
Released == IF ppc = "count"   THEN last - 1 ELSE last

\* Every variable keeps its type; _size never goes negative and there are
\* never more wake-ups in the pipe than there were produce() calls.
TypeOK ==
    /\ ppc \in {"idle", "advance", "count", "trim", "notify", "fault"}
    /\ cpc \in {"idle", "test", "load", "step", "uncount", "fault"}
    /\ first \in Node /\ last \in Node /\ divider \in Node
    /\ heap \subseteq Node /\ sawNode \subseteq Node /\ sawNext \subseteq Node
    /\ sawLast \in Node /\ sawDivider \in Node
    /\ size \in 0 .. MaxItems /\ tokens \in 0 .. MaxItems
    /\ missed \in BOOLEAN
    /\ taken \in Seq(Node)

\* Although the three pointers are not atomic, neither thread ever follows a
\* pointer into a deleted node or one whose stores it does not see yet
\* (produce's trimming loop against consume's two reads of divider->next).
MemorySafe == ppc # "fault" /\ cpc # "fault"

\* A consume() made for a wake-up never returns false: the item the token
\* stands for is always visible, so no descriptor or message is left behind
\* by the callers, which ignore a false result.
NoMissedWakeup == ~missed

\* Every node allocated by produce() and not deleted is still reachable from
\* first, and every node before first is deleted: produce's trimming loop leaks
\* no node.  (That it leaves the consumer's nodes alone is MemorySafe.)
NothingLeaks == heap = first .. Newest

\* Once both sides are between calls, _size is the number of items that are
\* in the queue: the ++ and -- of the two threads never get lost.
SizeCountsBacklog ==
    ppc = "idle" /\ cpc = "idle" => size = last - divider

\* The queue is a FIFO channel: an item enters when produce() moves last and
\* leaves when consume() copies its value.
Fifo == INSTANCE FifoChannel WITH in <- last, out <- taken
IsFifo == Fifo!Spec

\* Every item that is produced is consumed: produce and notify together
\* never leave an item in the queue with nobody to wake the consumer.
EveryItemTaken ==
    \A n \in 1 .. MaxItems : (last = n) ~> (Len(taken) >= n)
=============================================================================
