------------------------ MODULE LockFreeQueueProofs ------------------------
(***************************************************************************)
(* Proofs that, for any number of items, LockFreeQueue is memory safe      *)
(* under late and reordered stores, that no wake-up finds it empty, and    *)
(* that it implements FifoChannel.                                         *)
(*                                                                         *)
(* The heart of the inductive invariant is Accounting: what the producer   *)
(* has published and the consumer has not stepped over is exactly what the *)
(* tokens in the pipe, the token about to be written and the token just    *)
(* read stand for.  So a consumer that has read a token stays strictly     *)
(* behind a node whose stores ++_size has already released.                *)
(***************************************************************************)
EXTENDS LockFreeQueue, TLAPS

\* 1 while the thread is in one of the given places, 0 otherwise.
At(pc, places) == IF pc \in places THEN 1 ELSE 0

Types ==
    /\ ppc \in {"idle", "advance", "count", "trim", "notify"}
    /\ cpc \in {"idle", "test", "load", "step", "uncount"}
    /\ first \in Nat /\ last \in Nat /\ divider \in Nat
    /\ sawLast \in Nat /\ sawDivider \in Nat
    /\ size \in Int /\ tokens \in Nat
    /\ missed = FALSE
    /\ taken \in Seq(Nat)
    /\ sawNode \subseteq Node /\ sawNext \subseteq Node

\* The pointers keep their order in the list, each one's stale copy included.
Order ==
    /\ first <= sawDivider /\ sawDivider <= divider
    /\ divider <= sawLast /\ sawLast <= last /\ last <= MaxItems
    /\ ppc = "advance" => last < MaxItems
    /\ cpc = "uncount" => divider > 0

\* What is allocated, and what of it the consumer is sure to see.
Visible ==
    /\ heap = first .. Newest
    /\ Released <= sawLast
    /\ \A n \in 1 .. Released : n \in sawNode /\ n \in sawNext

Accounting ==
    /\ Released - divider =
         tokens + At(ppc, {"trim", "notify"}) + At(cpc, {"test", "load", "step"})
    /\ size = Released - divider + At(cpc, {"uncount"})

History ==
    /\ Len(taken) = divider + At(cpc, {"step"})
    /\ \A i \in 1 .. Len(taken) : taken[i] = i

Inv == Types /\ Order /\ Visible /\ Accounting /\ History

\* Linking a node extends the interval of allocated nodes.
LEMMA IntervalExtend ==
  ASSUME NEW a \in Nat, NEW b \in Nat, a <= b
  PROVE  (a .. b) \union {b + 1} = a .. (b + 1)
  OBVIOUS

\* Deleting the first node shortens the interval.
LEMMA IntervalDrop ==
  ASSUME NEW a \in Nat, NEW b \in Nat, a <= b
  PROVE  (a .. b) \ {a} = (a + 1) .. b
  OBVIOUS

USE MaxItemsAssumption

\* The constructor's state satisfies the invariant.
LEMMA InitInv == Init => Inv
  BY DEF Init, Inv, Types, Order, Visible, Accounting, History, At, Newest,
         Released, Node

\* Every step of either thread and of the memory system keeps the invariant.
LEMMA NextInv == Inv /\ [Next]_vars => Inv'
<1> SUFFICES ASSUME Inv, [Next]_vars PROVE Inv'
  OBVIOUS
<1> USE DEF Inv, Types, Order, Visible, Accounting, History, At, Newest,
            Released, Node, producerVars, memoryVars, consumerVars
<1>1. CASE Link
  <2>1. last \in heap
    BY <1>1 DEF Link
  <2>2. heap' = first .. (last + 1)
    <3> HIDE DEF Inv
    <3>1. heap' = (first .. last) \union {last + 1}
      BY <1>1, <2>1 DEF Link, Inv
    <3>2. first \in Nat /\ last \in Nat /\ first <= last
      BY DEF Inv
    <3> QED
      BY <3>1, <3>2, IntervalExtend
  <2>3. Visible'
    BY <1>1, <2>1, <2>2 DEF Link
  <2> QED
    BY <1>1, <2>1, <2>3 DEF Link
<1>2. CASE Advance
  BY <1>2 DEF Advance
<1>3. CASE Count
  BY <1>3 DEF Count
<1>4. CASE Trim
  <2>1. first < last /\ first \in heap
    BY <1>4 DEF Trim, TrimLimit
  <2>2. heap' = (first + 1) .. last
    <3> HIDE DEF Inv
    <3>1. heap' = (first .. last) \ {first}
      BY <1>4, <2>1 DEF Trim, TrimLimit, Inv
    <3>2. first \in Nat /\ last \in Nat /\ first <= last
      BY DEF Inv
    <3> QED
      BY <3>1, <3>2, IntervalDrop
  <2>3. Visible'
    BY <1>4, <2>1, <2>2 DEF Trim, TrimLimit
  <2> QED
    BY <1>4, <2>1, <2>3 DEF Trim, TrimLimit
<1>5. CASE EndTrim
  BY <1>5 DEF EndTrim
<1>6. CASE Notify
  BY <1>6 DEF Notify
<1>7. CASE Wake
  BY <1>7 DEF Wake
<1>8. CASE Test
  BY <1>8 DEF Test
<1>9. CASE Load
  <2>1. divider < Released /\ Released <= last /\ last <= Newest
    BY <1>9 DEF Load
  <2>2. NextReadable /\ divider + 1 \in heap /\ divider + 1 \in sawNode
    BY <1>9, <2>1 DEF Load, NextReadable
  <2>3. cpc' = "step" /\ taken' = Append(taken, divider + 1)
    BY <1>9, <2>2 DEF Load
  <2>4. UNCHANGED <<producerVars, memoryVars, divider, missed, heap, size, tokens>>
    BY <1>9 DEF Load
  <2>5. History'
    BY <1>9, <2>3, <2>4 DEF Load
  <2>6. Types'
    BY <2>3, <2>4
  <2> QED
    BY <1>9, <2>3, <2>4, <2>5, <2>6 DEF Load
<1>10. CASE Step
  BY <1>10 DEF Step, NextReadable
<1>11. CASE Uncount
  BY <1>11 DEF Uncount
<1>12. CASE ShowNode
  BY <1>12 DEF ShowNode
<1>13. CASE ShowNext
  BY <1>13 DEF ShowNext
<1>14. CASE ShowLast
  BY <1>14 DEF ShowLast
<1>15. CASE ShowDivider
  BY <1>15 DEF ShowDivider
<1>16. CASE UNCHANGED vars
  BY <1>16 DEF vars
<1> QED
  BY <1>1, <1>2, <1>3, <1>4, <1>5, <1>6, <1>7, <1>8, <1>9, <1>10, <1>11,
     <1>12, <1>13, <1>14, <1>15, <1>16 DEF Next, Producer, Consumer, Memory

\* The invariant holds throughout.
THEOREM Invariance == Spec => []Inv
  BY InitInv, NextInv, PTL DEF Spec

\* For any number of items: every variable keeps its type, _size never goes
\* negative and the pipe never holds more wake-ups than there were items.
THEOREM TypeCorrect == Spec => []TypeOK
<1>1. Inv => TypeOK
  <2> SUFFICES ASSUME Inv PROVE TypeOK
    OBVIOUS
  <2>1. heap \subseteq Node
    BY DEF Inv, Types, Order, Visible, Newest, Node
  <2>2. taken \in Seq(Node)
    <3>1. Len(taken) <= MaxItems
      BY DEF Inv, Types, Order, Accounting, History, Released, At
    <3>2. \A i \in 1 .. Len(taken) : taken[i] \in Node
      BY <3>1 DEF Inv, Types, History, Node
    <3> QED
      BY <3>2 DEF Inv, Types
  <2>3. size \in 0 .. MaxItems /\ tokens \in 0 .. MaxItems
    <3>1. Released \in Int /\ Released <= MaxItems /\ divider \in Nat
      BY DEF Inv, Types, Order, Released
    <3>2. At(cpc, {"uncount"}) \in {0, 1} /\ At(cpc, {"uncount"}) <= divider
      BY <3>1 DEF At, Inv, Order
    <3>3. At(ppc, {"trim", "notify"}) \in Nat /\ At(cpc, {"test", "load", "step"}) \in Nat
      BY DEF At
    <3> QED
      BY <3>1, <3>2, <3>3 DEF Inv, Types, Accounting
  <2>4. /\ first \in Node /\ last \in Node /\ divider \in Node
        /\ sawLast \in Node /\ sawDivider \in Node
    BY DEF Inv, Types, Order, Node
  <2> QED
    BY <2>1, <2>2, <2>3, <2>4 DEF Inv, Types, TypeOK
<1> QED
  BY <1>1, Invariance, PTL

\* For any number of items and any order in which stores become visible: no
\* thread follows a pointer to a deleted or not yet visible node.
THEOREM NoFault == Spec => []MemorySafe
<1>1. Inv => MemorySafe
  BY DEF Inv, Types, MemorySafe
<1> QED
  BY <1>1, Invariance, PTL

\* For any number of items: a consume() made for a wake-up finds its item.
THEOREM WakeupsFindItems == Spec => []NoMissedWakeup
<1>1. Inv => NoMissedWakeup
  BY DEF Inv, Types, NoMissedWakeup
<1> QED
  BY <1>1, Invariance, PTL

\* For any number of items: the allocated nodes are those reachable from first.
THEOREM NoLeak == Spec => []NothingLeaks
<1>1. Inv => NothingLeaks
  BY DEF Inv, Visible, NothingLeaks
<1> QED
  BY <1>1, Invariance, PTL

\* For any number of items: _size is the backlog whenever both sides are idle.
THEOREM SizeIsBacklog == Spec => []SizeCountsBacklog
<1>1. Inv => SizeCountsBacklog
  BY DEF Inv, Types, Accounting, SizeCountsBacklog, Released, At
<1> QED
  BY <1>1, Invariance, PTL

\* For any number of items: the queue implements the FIFO channel.  Moving last
\* is the Put, copying the value is the Get, every other step stutters.
THEOREM Refinement == Spec => IsFifo
<1>1. Init => Fifo!Init
  BY DEF Init, Fifo!Init
<1>2. Inv /\ [Next]_vars => [Fifo!Next]_(Fifo!vars)
  <2> SUFFICES ASSUME Inv, [Next]_vars PROVE [Fifo!Next]_(Fifo!vars)
    OBVIOUS
  <2> USE DEF Fifo!Next, Fifo!vars, producerVars, consumerVars, memoryVars
  <2>1. CASE Advance
    BY <2>1 DEF Advance, Fifo!Put
  <2>2. CASE Load
    <3>1. Len(taken) = divider /\ divider < last
      BY <2>2 DEF Load, Inv, Types, Order, Accounting, History, Released, At
    <3> QED
      BY <2>2, <3>1 DEF Load, Fifo!Get
  <2>3. CASE Link \/ Count \/ Trim \/ EndTrim \/ Notify
    BY <2>3 DEF Link, Count, Trim, EndTrim, Notify
  <2>4. CASE Wake \/ Test \/ Step \/ Uncount
    BY <2>4 DEF Wake, Test, Step, Uncount
  <2>5. CASE Memory
    BY <2>5 DEF Memory, ShowNode, ShowNext, ShowLast, ShowDivider
  <2>6. CASE UNCHANGED vars
    BY <2>6 DEF vars
  <2> QED
    BY <2>1, <2>2, <2>3, <2>4, <2>5, <2>6 DEF Next, Producer, Consumer
<1> QED
  BY <1>1, <1>2, Invariance, PTL DEF Spec, IsFifo, Fifo!Spec
=============================================================================
