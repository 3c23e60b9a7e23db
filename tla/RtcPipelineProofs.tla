------------------------- MODULE RtcPipelineProofs -------------------------
(***************************************************************************)
(* Proofs about RtcPipeline for any number of signaling and rtc workers,   *)
(* requests, streams, connections and certificates, any checksum and any   *)
(* pipe size.                                                              *)
(*                                                                         *)
(* The inductive invariant has four parts.  The accounts: each queue is as *)
(* long as its pipe's tokens and the threads between push and notify are   *)
(* many, so no wake-up finds a queue empty.  The order: what is further    *)
(* along the way to the same rtc worker was submitted earlier; because a   *)
(* request is submitted once, this also says that no message is in two     *)
(* places.  Certified: what is in an rtc worker's queue has a certificate. *)
(* Gone and Answers: a request given up is nowhere any more, and an answer *)
(* waits for, or has reached, the worker that asked.  The last three let   *)
(* the cases of Status exclude one another, on which the refinement rests; *)
(* that queues share no message bounds what a circle of blocked threads    *)
(* can hold, on which NoCircularWait rests.                                *)
(***************************************************************************)
EXTENDS RtcPipeline, FunctionTheorems, FiniteSetTheorems, SequenceTheorems, TLAPS

\* A request that some signaling worker has read.
Known(m) == m \in Msgs /\ m \notin unsent

\* A message on its way has been read by a signaling worker, which it names.
Placed ==
    /\ \A m \in Msgs : m \notin unsent => woeker[m] \in SigWorkers
    /\ \A i \in DOMAIN rsQueue : Known(rsQueue[i])
    /\ rsAt \in {"check", "notify"} => Known(rsMsg)
    /\ \A r \in RtcWorkers : \A i \in DOMAIN rwQueue[r] : Known(rwQueue[r][i])
    /\ \A r \in RtcWorkers : rwAt[r] # "idle" => Known(rwMsg[r])

\* A remainder is below its divisor.
LEMMA ModRange ==
  ASSUME NEW n \in Nat \ {0}, NEW k \in Nat
  PROVE  k % n \in 0 .. n - 1
  OBVIOUS

\* Every stream hashes to some rtc worker.
LEMMA WorkerRange ==
  ASSUME NEW m \in Msgs
  PROVE  RtcWorkerOf(m) \in RtcWorkers
  BY ConstantsAssumption, ModRange DEF RtcWorkerOf, RtcWorkers

\* What appending does to the elements of a queue.
LEMMA AppendElems ==
  ASSUME NEW S, NEW s \in Seq(S), NEW e \in S
  PROVE  /\ Append(s, e) \in Seq(S) /\ Len(Append(s, e)) = Len(s) + 1
         /\ \A i \in DOMAIN s : i \in DOMAIN Append(s, e) /\ Append(s, e)[i] = s[i]
         /\ \A i \in DOMAIN Append(s, e) :
               \/ i \in DOMAIN s /\ Append(s, e)[i] = s[i]
               \/ i = Len(s) + 1 /\ Append(s, e)[i] = e
  OBVIOUS

\* What taking the first element does to the others.
LEMMA TailElems ==
  ASSUME NEW S, NEW s \in Seq(S), s # <<>>
  PROVE  /\ Tail(s) \in Seq(S) /\ Len(s) > 0 /\ Len(Tail(s)) = Len(s) - 1
         /\ 1 \in DOMAIN s /\ Head(s) = s[1] /\ Head(s) \in S
         /\ \A i \in DOMAIN Tail(s) :
               i \in Nat \ {0} /\ i + 1 \in DOMAIN s /\ Tail(s)[i] = s[i + 1]
  OBVIOUS

\* The threads start with every variable in its type.
LEMMA TypeInit == Init => TypeOK /\ Placed
<1> SUFFICES ASSUME Init PROVE TypeOK /\ Placed
    OBVIOUS
<1> USE ConstantsAssumption DEF Init, SigWorkers, RtcWorkers
<1>1. SwTypeOK  BY DEF SwTypeOK
<1>2. RsTypeOK  BY DEF RsTypeOK
<1>3. RwTypeOK  BY DEF RwTypeOK
<1>4. accepted \in 0 .. MaxConns /\ acceptTo \in SigWorkers \union {None}
    OBVIOUS
<1>5. expired \in BOOLEAN  OBVIOUS
<1>6. Placed  BY DEF Placed, Known
<1> QED  BY <1>1, <1>2, <1>3, <1>4, <1>5, <1>6, Zenon DEF TypeOK

\* Every step keeps the types and says where messages may be.
LEMMA TypeStep == TypeOK /\ Placed /\ [Next]_vars => TypeOK' /\ Placed'
<1> SUFFICES ASSUME SwTypeOK, RsTypeOK, RwTypeOK, expired \in BOOLEAN,
                    accepted \in 0 .. MaxConns /\ acceptTo \in SigWorkers \union {None},
                    Placed, [Next]_vars
             PROVE  /\ SwTypeOK' /\ RsTypeOK' /\ RwTypeOK' /\ (expired \in BOOLEAN)'
                    /\ (accepted \in 0 .. MaxConns /\ acceptTo \in SigWorkers \union {None})'
                    /\ Placed'
    BY Zenon DEF TypeOK
<1> DEFINE A == accepted \in 0 .. MaxConns /\ acceptTo \in SigWorkers \union {None}
           Goal == SwTypeOK' /\ RsTypeOK' /\ RwTypeOK' /\ A' /\ Placed'
<1> USE ConstantsAssumption DEF swVars, rsVars, rwVars, acceptVars, PipeFull
<1>1. ASSUME NEW w \in SigWorkers, NEW m \in Msgs, SwPush(w, m) PROVE Goal
    <2>1. SwTypeOK'  BY <1>1, SMTT(30) DEF SwPush, SwTypeOK
    <2>2. RsTypeOK' /\ RwTypeOK' /\ A'  BY <1>1, SMTT(30) DEF SwPush, RsTypeOK, RwTypeOK
    <2>3. /\ rsQueue' = Append(rsQueue, m) /\ unsent' = unsent \ {m}
          /\ woeker' = [woeker EXCEPT ![m] = w]
          /\ UNCHANGED <<rsAt, rsMsg, rwQueue, rwAt, rwMsg>>
        BY <1>1 DEF SwPush
    <2>4. \A x : Known(x) => Known(x)'  BY <2>3 DEF Known
    <2>5. Known(m)'  BY <2>3 DEF Known
    <2>6. (\A i \in DOMAIN rsQueue : Known(rsQueue[i]))'
        <3>1. \A i \in DOMAIN rsQueue' :
                 (i \in DOMAIN rsQueue /\ rsQueue'[i] = rsQueue[i]) \/ rsQueue'[i] = m
            BY <2>3, AppendElems, SMTT(30) DEF RsTypeOK
        <3>2. \A i \in DOMAIN rsQueue : Known(rsQueue[i])  BY DEF Placed
        <3> QED  BY <3>1, <3>2, <2>3, <2>4, <2>5 DEF Known
    <2>7. \A x \in Msgs : x \notin unsent' => woeker'[x] \in SigWorkers
        BY <2>3 DEF Placed, SwTypeOK
    <2>8. Placed'  BY <2>3, <2>4, <2>6, <2>7 DEF Placed, Known
    <2> QED  BY <2>1, <2>2, <2>8
<1>2. ASSUME NEW w \in SigWorkers, SwNotify(w) PROVE Goal
    <2>1. SwTypeOK'  BY <1>2, SMTT(30) DEF SwNotify, SwTypeOK
    <2>2. RsTypeOK' /\ RwTypeOK' /\ A'  BY <1>2, SMTT(30) DEF SwNotify, RsTypeOK, RwTypeOK
    <2>3. Placed'  BY <1>2 DEF SwNotify, Placed, Known
    <2> QED  BY <2>1, <2>2, <2>3
<1>3. ASSUME NEW w \in SigWorkers, SwTakeMsg(w) PROVE Goal
    <2>0. /\ Tail(swPipe[w]) \in Seq({"NEW_CONN", "RTC_MSG"})
          /\ Len(Tail(swPipe[w])) <= PipeCap
          /\ swQueue[w] # <<>> => Tail(swQueue[w]) \in Seq(Msgs) /\ Head(swQueue[w]) \in Msgs
        BY <1>3, TailElems DEF SwTakeMsg, SwTypeOK
    <2>1. SwTypeOK'
        <3>1. CASE swQueue[w] = <<>>  BY <1>3, <2>0, <3>1 DEF SwTakeMsg, SwTypeOK
        <3>2. CASE swQueue[w] # <<>>
            <4> DEFINE m == Head(swQueue[w])  q == Tail(swQueue[w])  p == Tail(swPipe[w])
            <4>1. /\ swPipe' = [swPipe EXCEPT ![w] = p]
                  /\ swQueue' = [swQueue EXCEPT ![w] = q]
                  /\ delivered' = delivered \union {<<m, w>>}
                  /\ UNCHANGED <<unsent, woeker, swBusy, connQueue, submitted>>
                BY <1>3, <3>2 DEF SwTakeMsg
            <4>2. /\ m \in Msgs /\ q \in Seq(Msgs)
                  /\ p \in Seq({"NEW_CONN", "RTC_MSG"}) /\ Len(p) <= PipeCap
                BY <2>0, <3>2
            <4> HIDE DEF m, q, p
            <4>3. (/\ swPipe \in [SigWorkers -> Seq({"NEW_CONN", "RTC_MSG"})]
                   /\ \A v \in SigWorkers : Len(swPipe[v]) <= PipeCap)'
                BY <4>1, <4>2 DEF SwTypeOK
            <4>4. (swQueue \in [SigWorkers -> Seq(Msgs)])'  BY <4>1, <4>2 DEF SwTypeOK
            <4>5. (delivered \subseteq Msgs \X SigWorkers)'  BY <4>1, <4>2 DEF SwTypeOK
            <4> QED  BY <4>1, <4>3, <4>4, <4>5 DEF SwTypeOK
        <3> QED  BY <3>1, <3>2
    <2>2. RsTypeOK' /\ RwTypeOK' /\ A'  BY <1>3, SMTT(30) DEF SwTakeMsg, RsTypeOK, RwTypeOK
    <2>3. Placed'  BY <1>3 DEF SwTakeMsg, Placed, Known
    <2> QED  BY <2>1, <2>2, <2>3
<1>4. ASSUME NEW w \in SigWorkers, SwTakeConn(w) PROVE Goal
    <2>1. SwTypeOK'  BY <1>4, SMTT(30) DEF SwTakeConn, SwTypeOK
    <2>2. RsTypeOK' /\ RwTypeOK' /\ A'  BY <1>4, SMTT(30) DEF SwTakeConn, RsTypeOK, RwTypeOK
    <2>3. Placed'  BY <1>4 DEF SwTakeConn, Placed, Known
    <2> QED  BY <2>1, <2>2, <2>3
<1>5. ASSUME RsTake PROVE Goal
    <2>0. rsQueue # <<>> =>
            /\ Tail(rsQueue) \in Seq(Msgs)
            /\ Head(rsQueue) = rsQueue[1] /\ 1 \in DOMAIN rsQueue
            /\ \A i \in DOMAIN Tail(rsQueue) :
                  i + 1 \in DOMAIN rsQueue /\ Tail(rsQueue)[i] = rsQueue[i + 1]
        BY TailElems DEF RsTypeOK
    <2>1. RsTypeOK'
        <3>1. CASE rsQueue = <<>>  BY <1>5, <3>1 DEF RsTake, RsTypeOK
        <3>2. CASE rsQueue # <<>>
            <4>0. rsMsg' = Head(rsQueue) /\ rsQueue' = Tail(rsQueue) /\ rsAt' = "check"
                BY <1>5, <3>2 DEF RsTake
            <4>1. rsQueue' \in Seq(Msgs) /\ rsMsg' \in Msgs /\ rsAt' = "check"
                BY <4>0, <3>2, TailElems DEF RsTypeOK
            <4>2. /\ rsTokens' = rsTokens - 1 /\ rsTokens > 0
                  /\ UNCHANGED <<cert, nextCert, certOf, dropped>>
                BY <1>5 DEF RsTake
            <4> QED  BY <4>1, <4>2 DEF RsTypeOK
        <3> QED  BY <3>1, <3>2
    <2>2. SwTypeOK' /\ RwTypeOK' /\ A'  BY <1>5, SMTT(30) DEF RsTake, SwTypeOK, RwTypeOK
    <2>3. Placed'
        <3>1. CASE rsQueue = <<>>  BY <1>5, <3>1 DEF RsTake, Placed, Known
        <3>2. CASE rsQueue # <<>>  BY <1>5, <2>0, <3>2 DEF RsTake, Placed, Known
        <3> QED  BY <3>1, <3>2
    <2> QED  BY <2>1, <2>2, <2>3
<1>6. ASSUME NEW c \in 0 .. MaxCerts, rsAt = "check", Forward(c),
             cert' \in 0 .. MaxCerts, nextCert' \in 1 .. MaxCerts + 1
      PROVE Goal
    <2>0. rsMsg \in Msgs /\ RtcWorkerOf(rsMsg) \in RtcWorkers
        BY <1>6, WorkerRange DEF Placed, Known
    <2>1. RsTypeOK'  BY <1>6, <2>0, SMTT(30) DEF Forward, RsTypeOK
    <2>2. SwTypeOK' /\ RwTypeOK' /\ A'  BY <1>6, <2>0, SMTT(30) DEF Forward, SwTypeOK, RwTypeOK
    <2>3. Placed'  BY <1>6, <2>0 DEF Forward, RwTypeOK, Placed, Known
    <2> QED  BY <2>1, <2>2, <2>3
<1>7. ASSUME RsKeepCert PROVE Goal
    BY <1>7, <1>6 DEF RsKeepCert, RsTypeOK
<1>8. ASSUME RsNewCert PROVE Goal
    BY <1>8, <1>6, ConstantsAssumption DEF RsNewCert, RsTypeOK
<1>9. ASSUME RsNoCert PROVE Goal
    <2>1. RsTypeOK'  BY <1>9, SMTT(30) DEF RsNoCert, RsTypeOK, Placed, Known
    <2>2. SwTypeOK' /\ RwTypeOK' /\ A'  BY <1>9, SMTT(30) DEF RsNoCert, SwTypeOK, RwTypeOK
    <2>3. Placed'  BY <1>9 DEF RsNoCert, Placed, Known
    <2> QED  BY <2>1, <2>2, <2>3
<1>10. ASSUME RsNotify PROVE Goal
    <2>0. rsMsg \in Msgs /\ RtcWorkerOf(rsMsg) \in RtcWorkers
        BY <1>10, WorkerRange DEF RsNotify, Placed, Known
    <2>1. RsTypeOK'  BY <1>10, SMTT(30) DEF RsNotify, RsTypeOK
    <2>2. SwTypeOK' /\ A'  BY <1>10, SMTT(30) DEF RsNotify, SwTypeOK
    <2>4. RwTypeOK'  BY <1>10, <2>0, SMTT(30) DEF RsNotify, RwTypeOK
    <2>3. Placed'  BY <1>10 DEF RsNotify, Placed, Known
    <2> QED  BY <2>1, <2>2, <2>3, <2>4
<1>11. ASSUME Expire PROVE Goal
    BY <1>11 DEF Expire, SwTypeOK, RsTypeOK, RwTypeOK, Placed, Known
<1>12. ASSUME NEW r \in RtcWorkers, RwTake(r) PROVE Goal
    <2>0. rwQueue[r] # <<>> =>
            /\ Tail(rwQueue[r]) \in Seq(Msgs) /\ Head(rwQueue[r]) \in Msgs
            /\ Head(rwQueue[r]) = rwQueue[r][1] /\ 1 \in DOMAIN rwQueue[r]
            /\ \A i \in DOMAIN Tail(rwQueue[r]) :
                  i + 1 \in DOMAIN rwQueue[r] /\ Tail(rwQueue[r])[i] = rwQueue[r][i + 1]
        BY TailElems DEF RwTypeOK
    <2>1. RwTypeOK'
        <3>1. CASE rwQueue[r] = <<>>  BY <1>12, <3>1 DEF RwTake, RwTypeOK
        <3>2. CASE rwQueue[r] # <<>>
            <4> DEFINE m == Head(rwQueue[r])  q == Tail(rwQueue[r])
            <4>1. /\ rwMsg' = [rwMsg EXCEPT ![r] = m] /\ rwQueue' = [rwQueue EXCEPT ![r] = q]
                  /\ rwAt' = [rwAt EXCEPT ![r] = "push"] /\ created' = created
                  /\ rwTokens[r] > 0 /\ rwTokens' = [rwTokens EXCEPT ![r] = @ - 1]
                BY <1>12, <3>2 DEF RwTake
            <4>2. m \in Msgs /\ q \in Seq(Msgs)  BY <2>0, <3>2
            <4> HIDE DEF m, q
            <4>3. (rwQueue \in [RtcWorkers -> Seq(Msgs)])'  BY <4>1, <4>2 DEF RwTypeOK
            <4>4. (rwTokens \in [RtcWorkers -> 0 .. PipeCap])'  BY <4>1 DEF RwTypeOK
            <4>5. (/\ rwAt \in [RtcWorkers -> {"idle", "push", "notify"}]
                   /\ rwMsg \in [RtcWorkers -> Msgs \union {None}])'
                BY <4>1, <4>2 DEF RwTypeOK
            <4> QED  BY <4>1, <4>3, <4>4, <4>5 DEF RwTypeOK
        <3> QED  BY <3>1, <3>2
    <2>2. SwTypeOK' /\ RsTypeOK' /\ A'  BY <1>12, SMTT(30) DEF RwTake, SwTypeOK, RsTypeOK
    <2>3. Placed'
        <3>1. CASE rwQueue[r] = <<>>  BY <1>12, <3>1 DEF RwTake, Placed, Known
        <3>2. CASE rwQueue[r] # <<>>
            <4> DEFINE m == Head(rwQueue[r])  q == Tail(rwQueue[r])
            <4>1. /\ rwMsg' = [rwMsg EXCEPT ![r] = m] /\ rwQueue' = [rwQueue EXCEPT ![r] = q]
                  /\ rwAt' = [rwAt EXCEPT ![r] = "push"]
                  /\ UNCHANGED <<unsent, woeker, rsQueue, rsAt, rsMsg>>
                BY <1>12, <3>2 DEF RwTake
            <4>2. Known(m) /\ \A i \in DOMAIN q : Known(q[i])
                BY <2>0, <3>2 DEF Placed
            <4> HIDE DEF m, q
            <4> QED  BY <4>1, <4>2 DEF RwTypeOK, Placed, Known
        <3> QED  BY <3>1, <3>2
    <2> QED  BY <2>1, <2>2, <2>3
<1>13. ASSUME NEW r \in RtcWorkers, RwAnswer(r) PROVE Goal
    <2>0. Known(rwMsg[r]) /\ woeker[rwMsg[r]] \in SigWorkers
        BY <1>13 DEF RwAnswer, Placed, Known
    <2>1. SwTypeOK'  BY <1>13, <2>0, SMTT(30) DEF RwAnswer, SwTypeOK, Known
    <2>2. RwTypeOK' /\ RsTypeOK' /\ A'
        BY <1>13, <2>0, SMTT(30) DEF RwAnswer, RwTypeOK, RsTypeOK, Known
    <2>3. Placed'  BY <1>13 DEF RwAnswer, RwTypeOK, Placed, Known
    <2> QED  BY <2>1, <2>2, <2>3
<1>14. ASSUME NEW r \in RtcWorkers, RwNotify(r) PROVE Goal
    <2>0. woeker[rwMsg[r]] \in SigWorkers
        BY <1>14 DEF RwNotify, Placed, Known
    <2>1. SwTypeOK'
        <3> DEFINE v == woeker[rwMsg[r]]
        <3>1. /\ Append(swPipe[v], "RTC_MSG") \in Seq({"NEW_CONN", "RTC_MSG"})
              /\ Len(Append(swPipe[v], "RTC_MSG")) <= PipeCap
            BY <1>14, <2>0, AppendElems DEF RwNotify, SwTypeOK
        <3> QED  BY <1>14, <2>0, <3>1 DEF RwNotify, SwTypeOK
    <2>2. RwTypeOK' /\ RsTypeOK' /\ A'  BY <1>14, SMTT(30) DEF RwNotify, RwTypeOK, RsTypeOK
    <2>3. Placed'  BY <1>14 DEF RwNotify, RwTypeOK, Placed, Known
    <2> QED  BY <2>1, <2>2, <2>3
<1>15. ASSUME AcceptPush PROVE Goal
    <2>0. accepted % NumSig \in SigWorkers
        BY ConstantsAssumption, ModRange DEF SigWorkers
    <2>1. SwTypeOK'  BY <1>15, <2>0, SMTT(30) DEF AcceptPush, SwTypeOK
    <2>2. RsTypeOK' /\ RwTypeOK'  BY <1>15, SMTT(30) DEF AcceptPush, RwTypeOK, RsTypeOK
    <2>3. A'  BY <1>15, <2>0, ConstantsAssumption DEF AcceptPush
    <2>4. Placed'  BY <1>15 DEF AcceptPush, Placed, Known
    <2> QED  BY <2>1, <2>2, <2>3, <2>4
<1>16. ASSUME AcceptNotify PROVE Goal
    <2>1. SwTypeOK'  BY <1>16, SMTT(30) DEF AcceptNotify, SwTypeOK
    <2>2. RsTypeOK' /\ RwTypeOK' /\ A'  BY <1>16, SMTT(30) DEF AcceptNotify, RwTypeOK, RsTypeOK
    <2>3. Placed'  BY <1>16 DEF AcceptNotify, Placed, Known
    <2> QED  BY <2>1, <2>2, <2>3
<1>17. ASSUME UNCHANGED vars PROVE Goal
    BY <1>17 DEF vars, SwTypeOK, RsTypeOK, RwTypeOK, Placed, Known
<1>18. (expired \in BOOLEAN)'
    BY Zenon DEF Next, SwHandle, RsHandle, RwHandle, vars, SwPush, SwNotify, SwTakeMsg,
       SwTakeConn, RsTake, RsKeepCert, RsNewCert, RsNoCert, RsNotify, Expire, RwTake,
       RwAnswer, RwNotify, AcceptPush, AcceptNotify
<1> QED
    BY <1>1, <1>2, <1>3, <1>4, <1>5, <1>7, <1>8, <1>9, <1>10, <1>11, <1>12, <1>13, <1>14,
       <1>15, <1>16, <1>17, <1>18
       DEF Next, SwHandle, RsHandle, RwHandle


(***************************************************************************)
(* One token per message.                                                  *)
(***************************************************************************)

\* How often k occurs in a pipe.
Count(s, k) == Cardinality({i \in DOMAIN s : s[i] = k})

\* The places of a kind of token in a pipe are finitely many.
LEMMA CountFinite ==
  ASSUME NEW S, NEW s \in Seq(S), NEW k
  PROVE  /\ IsFiniteSet({i \in DOMAIN s : s[i] = k})
         /\ Count(s, k) \in Nat /\ Count(s, k) <= Len(s)
<1> DEFINE T == {i \in DOMAIN s : s[i] = k}
<1>1. DOMAIN s = 1 .. Len(s) /\ Len(s) \in Nat  BY LenProperties
<1>2. IsFiniteSet(1 .. Len(s)) /\ Cardinality(1 .. Len(s)) = Len(s)
    BY <1>1, FS_Interval, SMTT(30)
<1>3. T \in SUBSET (1 .. Len(s))  BY <1>1
<1> HIDE DEF T
<1>4. IsFiniteSet(T) /\ Cardinality(T) <= Len(s)
    BY <1>2, <1>3, FS_Subset
<1>5. Cardinality(T) \in Nat  BY <1>4, FS_CardinalityType
<1> QED  BY <1>4, <1>5 DEF Count, T

\* Writing a token.
LEMMA CountAppend ==
  ASSUME NEW S, NEW s \in Seq(S), NEW x \in S, NEW k
  PROVE  /\ x = k => Count(Append(s, x), k) = Count(s, k) + 1
         /\ x # k => Count(Append(s, x), k) = Count(s, k)
<1> DEFINE T == {i \in DOMAIN s : s[i] = k}
           U == {i \in DOMAIN Append(s, x) : Append(s, x)[i] = k}
<1>1. DOMAIN s = 1 .. Len(s) /\ Len(s) \in Nat  BY LenProperties
<1>2. /\ DOMAIN Append(s, x) = 1 .. Len(s) + 1 /\ Append(s, x)[Len(s) + 1] = x
      /\ \A i \in 1 .. Len(s) : Append(s, x)[i] = s[i]
    BY <1>1
<1>3. /\ IsFiniteSet(T) /\ Cardinality(T) \in Nat
      /\ Count(s, k) = Cardinality(T) /\ Count(Append(s, x), k) = Cardinality(U)
    BY CountFinite DEF Count
<1>4. Len(s) + 1 \notin T  BY <1>1
<1>5. CASE x = k
    <2>1. U = T \union {Len(s) + 1}  BY <1>1, <1>2, <1>5
    <2> HIDE DEF T, U
    <2> QED  BY <2>1, <1>3, <1>4, <1>5, FS_AddElement
<1>6. CASE x # k
    <2>1. U = T  BY <1>1, <1>2, <1>6
    <2> HIDE DEF T, U
    <2> QED  BY <2>1, <1>3, <1>6
<1> QED  BY <1>5, <1>6

\* Reading a token.
LEMMA CountTail ==
  ASSUME NEW S, NEW s \in Seq(S), s # <<>>, NEW k
  PROVE  /\ Head(s) = k => Count(Tail(s), k) = Count(s, k) - 1
         /\ Head(s) # k => Count(Tail(s), k) = Count(s, k)
<1> DEFINE T == {i \in DOMAIN s : s[i] = k}
           U == {i \in DOMAIN Tail(s) : Tail(s)[i] = k}
           V == T \ {1}
           f == [i \in U |-> i + 1]
<1>1. /\ DOMAIN s = 1 .. Len(s) /\ Len(s) \in Nat \ {0}
      /\ DOMAIN Tail(s) = 1 .. Len(s) - 1 /\ Head(s) = s[1]
      /\ \A i \in 1 .. Len(s) - 1 : Tail(s)[i] = s[i + 1]
    BY LenProperties, EmptySeq, HeadTailProperties
<1>2. /\ IsFiniteSet(T) /\ IsFiniteSet(U) /\ Cardinality(T) \in Nat
      /\ Count(s, k) = Cardinality(T) /\ Count(Tail(s), k) = Cardinality(U)
    <2>1. Tail(s) \in Seq(S)  BY TailElems
    <2>2. IsFiniteSet(T) /\ Count(s, k) \in Nat  BY CountFinite
    <2>3. IsFiniteSet(U)  BY <2>1, CountFinite
    <2> QED  BY <2>2, <2>3 DEF Count
<1>3. f \in Bijection(U, V)
    <2>1. \A i \in U : i \in Int /\ i + 1 \in V  BY <1>1
    <2>2. f \in [U -> V]  BY <2>1
    <2>3. \A a, b \in U : f[a] = f[b] => a = b  BY <2>1
    <2>4. \A v \in V : \E i \in U : f[i] = v
        <3> SUFFICES ASSUME NEW v \in V PROVE v - 1 \in U /\ f[v - 1] = v
            OBVIOUS
        <3>1. v \in 2 .. Len(s) /\ s[v] = k  BY <1>1
        <3>2. v - 1 \in U  BY <1>1, <3>1
        <3> QED  BY <3>1, <3>2
    <2>5. f \in Surjection(U, V)  BY <2>2, <2>4, Fun_IsSurj
    <2>6. f \in Injection(U, V)  BY <2>2, <2>3, Fun_IsInj
    <2> QED  BY <2>5, <2>6 DEF Bijection
<1>4. Cardinality(U) = Cardinality(V)
    <2> HIDE DEF f, U, V
    <2>1. ExistsBijection(U, V)  BY <1>3 DEF ExistsBijection
    <2> QED  BY <2>1, <1>2, FS_Bijection
<1>5. Cardinality(V) = IF 1 \in T THEN Cardinality(T) - 1 ELSE Cardinality(T)
    BY <1>2, FS_RemoveElement
<1>6. 1 \in T <=> Head(s) = k  BY <1>1
<1> HIDE DEF T, U, V
<1> QED  BY <1>2, <1>4, <1>5, <1>6

\* One account per queue; Notifiers(w) have yet to write a token to w's pipe.
RsAccount == Len(rsQueue) = rsTokens + Cardinality(swBusy)

RwAccount ==
    \A r \in RtcWorkers : Len(rwQueue[r]) = rwTokens[r] + (IF RsNotifying(r) THEN 1 ELSE 0)

Notifiers(w) == {r \in RtcWorkers : Notifying(r, w)}

SwAccount ==
    \A w \in SigWorkers :
        Len(swQueue[w]) = Count(swPipe[w], "RTC_MSG") + Cardinality(Notifiers(w))

ConnAccount ==
    \A w \in SigWorkers :
        connQueue[w] = Count(swPipe[w], "NEW_CONN") + (IF acceptTo = w THEN 1 ELSE 0)

\* The four parts are what TokenPerMessage says.
LEMMA Accounts == TokenPerMessage <=> RsAccount /\ RwAccount /\ SwAccount /\ ConnAccount
  BY DEF TokenPerMessage, RsAccount, RwAccount, SwAccount, ConnAccount, Notifiers, Tokens,
         Count

\* The workers are finitely many.
LEMMA WorkersFinite == IsFiniteSet(SigWorkers) /\ IsFiniteSet(RtcWorkers)
  BY ConstantsAssumption, FS_Interval DEF SigWorkers, RtcWorkers

\* RtcServer's queue: a signaling worker between push_msg and notify stands for
\* a token, so RtcServer never takes one without a message.
LEMMA RsAccountStep ==
  ASSUME TypeOK, RsAccount, NullPopUnreachable, [Next]_vars
  PROVE  RsAccount' /\ NullPopUnreachable'
<1>0. /\ IsFiniteSet(swBusy) /\ Cardinality(swBusy) \in Nat /\ rsTokens \in Nat
      /\ rsQueue \in Seq(Msgs)
    <2>1. IsFiniteSet(swBusy)
        BY WorkersFinite, FS_Subset DEF TypeOK, SwTypeOK
    <2> QED  BY <2>1, FS_CardinalityType, ConstantsAssumption DEF TypeOK, RsTypeOK
<1>1. ASSUME NEW w \in SigWorkers, NEW m \in Msgs, SwPush(w, m)
      PROVE  RsAccount' /\ NullPopUnreachable'
    <2>1. Len(rsQueue') = Len(rsQueue) + 1
        BY <1>0, <1>1, AppendElems DEF SwPush
    <2>2. Cardinality(swBusy') = Cardinality(swBusy) + 1
        BY <1>0, <1>1, FS_AddElement DEF SwPush
    <2> QED  BY <1>0, <1>1, <2>1, <2>2 DEF SwPush, RsAccount, NullPopUnreachable
<1>2. ASSUME NEW w \in SigWorkers, SwNotify(w)
      PROVE  RsAccount' /\ NullPopUnreachable'
    <2>1. Cardinality(swBusy') = Cardinality(swBusy) - 1
        BY <1>0, <1>2, FS_RemoveElement DEF SwNotify
    <2> QED  BY <1>0, <1>2, <2>1 DEF SwNotify, RsAccount, NullPopUnreachable
<1>3. ASSUME RsTake PROVE RsAccount' /\ NullPopUnreachable'
    <2>1. rsQueue # <<>>  BY <1>0, <1>3 DEF RsTake, RsAccount
    <2>2. Len(Tail(rsQueue)) = Len(rsQueue) - 1  BY <1>0, <2>1, TailElems
    <2>3. rsQueue' = Tail(rsQueue) /\ rsAt' = "check" /\ rsTokens' = rsTokens - 1
          /\ swBusy' = swBusy
        BY <1>3, <2>1 DEF RsTake, swVars
    <2> QED  BY <1>0, <2>2, <2>3 DEF RsAccount, NullPopUnreachable
<1>4. ASSUME UNCHANGED <<rsQueue, rsTokens, swBusy>>, rsAt' = rsAt \/ rsAt' # "fault"
      PROVE  RsAccount' /\ NullPopUnreachable'
    BY <1>4 DEF RsAccount, NullPopUnreachable
<1>5. \/ \E w \in SigWorkers : SwNotify(w) \/ \E m \in Msgs : SwPush(w, m)
      \/ RsTake
      \/ UNCHANGED <<rsQueue, rsTokens, swBusy>> /\ (rsAt' = rsAt \/ rsAt' # "fault")
    BY DEF Next, SwHandle, RsHandle, RwHandle, vars, swVars, rsVars, rwVars, acceptVars,
       SwTakeMsg, SwTakeConn, RsKeepCert, RsNewCert, Forward, RsNoCert, RsNotify, Expire,
       RwTake, RwAnswer, RwNotify, AcceptPush, AcceptNotify
<1> QED  BY <1>1, <1>2, <1>3, <1>4, <1>5

\* The rtc workers' queues.
LEMMA RwAccountStep ==
  ASSUME TypeOK, Placed, RwAccount, [Next]_vars
  PROVE  RwAccount'
<1>0. /\ rwQueue \in [RtcWorkers -> Seq(Msgs)] /\ rwTokens \in [RtcWorkers -> Nat]
    BY ConstantsAssumption DEF TypeOK, RwTypeOK
<1>1. ASSUME NEW c, rsAt = "check", Forward(c) PROVE RwAccount'
    <2> DEFINE q == RtcWorkerOf(rsMsg)
    <2>1. rsMsg \in Msgs /\ q \in RtcWorkers
        BY <1>1, WorkerRange DEF Placed, Known
    <2>2. /\ Len(Append(rwQueue[q], rsMsg)) = Len(rwQueue[q]) + 1
          /\ Len(rwQueue[q]) \in Nat
        BY <1>0, <2>1, AppendElems
    <2>3. /\ rwQueue' = [rwQueue EXCEPT ![q] = Append(@, rsMsg)] /\ rwTokens' = rwTokens
          /\ rsAt' = "notify" /\ rsMsg' = rsMsg
        BY <1>1 DEF Forward
    <2>4. \A r \in RtcWorkers : ~RsNotifying(r) /\ (RsNotifying(r)' <=> r = q)
        BY <1>1, <2>3 DEF RsNotifying, RtcWorkerOf
    <2> HIDE DEF q
    <2> QED  BY <1>0, <2>1, <2>2, <2>3, <2>4 DEF RwAccount
<1>2. ASSUME RsNotify PROVE RwAccount'
    <2> DEFINE q == RtcWorkerOf(rsMsg)
    <2>1. q \in RtcWorkers
        BY <1>2, WorkerRange DEF RsNotify, Placed, Known
    <2>2. rwTokens' = [rwTokens EXCEPT ![q] = @ + 1] /\ rwQueue' = rwQueue
        BY <1>2 DEF RsNotify
    <2>3. \A r \in RtcWorkers : ~RsNotifying(r)' /\ (RsNotifying(r) <=> r = q)
        BY <1>2 DEF RsNotify, RsNotifying
    <2> HIDE DEF q
    <2> QED  BY <1>0, <2>1, <2>2, <2>3 DEF RwAccount
<1>3. ASSUME NEW r \in RtcWorkers, RwTake(r) PROVE RwAccount'
    <2>1. rwTokens[r] > 0 /\ rwTokens' = [rwTokens EXCEPT ![r] = @ - 1]
        BY <1>3 DEF RwTake
    <2>2. rwQueue[r] # <<>>
        BY <1>0, <2>1 DEF RwAccount
    <2>3. rwQueue' = [rwQueue EXCEPT ![r] = Tail(@)]
        BY <1>3, <2>2 DEF RwTake
    <2>4. Len(Tail(rwQueue[r])) = Len(rwQueue[r]) - 1 /\ Len(rwQueue[r]) \in Nat
        BY <1>0, <2>2, TailElems
    <2>5. \A q \in RtcWorkers : RsNotifying(q)' <=> RsNotifying(q)
        BY <1>3 DEF RwTake, rsVars, RsNotifying, RtcWorkerOf
    <2> QED  BY <1>0, <2>1, <2>3, <2>4, <2>5 DEF RwAccount
<1>4. ASSUME UNCHANGED <<rwQueue, rwTokens>>,
             UNCHANGED <<rsAt, rsMsg>> \/ (rsAt # "notify" /\ rsAt' # "notify")
      PROVE  RwAccount'
    BY <1>4 DEF RwAccount, RsNotifying, RtcWorkerOf
<1>5. \/ rsAt = "check" /\ \E c : Forward(c)
      \/ RsNotify
      \/ \E r \in RtcWorkers : RwTake(r)
      \/ /\ UNCHANGED <<rwQueue, rwTokens>>
         /\ UNCHANGED <<rsAt, rsMsg>> \/ (rsAt # "notify" /\ rsAt' # "notify")
    BY DEF Next, SwHandle, RsHandle, RwHandle, vars, swVars, rsVars, rwVars, acceptVars,
       SwPush, SwNotify, SwTakeMsg, SwTakeConn, RsTake, RsKeepCert, RsNewCert, RsNoCert,
       Expire, RwAnswer, RwNotify, AcceptPush, AcceptNotify
<1> QED  BY <1>1, <1>2, <1>3, <1>4, <1>5

\* The rtc workers that have yet to notify a signaling worker are finitely many.
LEMMA NotifiersFinite ==
  ASSUME NEW w
  PROVE  IsFiniteSet(Notifiers(w)) /\ Cardinality(Notifiers(w)) \in Nat
<1>1. IsFiniteSet(Notifiers(w))
    BY WorkersFinite, FS_Subset DEF Notifiers
<1> QED  BY <1>1, FS_CardinalityType

\* The signaling workers' queues of answers.
LEMMA SwAccountStep ==
  ASSUME TypeOK, Placed, SwAccount, [Next]_vars
  PROVE  SwAccount'
<1> DEFINE Kind == {"NEW_CONN", "RTC_MSG"}
<1>0. /\ swQueue \in [SigWorkers -> Seq(Msgs)] /\ swPipe \in [SigWorkers -> Seq(Kind)]
      /\ rwAt \in [RtcWorkers -> {"idle", "push", "notify"}]
      /\ rwMsg \in [RtcWorkers -> Msgs \union {None}]
    BY DEF TypeOK, SwTypeOK, RwTypeOK
<1>c. \A w \in SigWorkers : Count(swPipe[w], "RTC_MSG") \in Nat /\ Len(swQueue[w]) \in Nat
    <2> TAKE w \in SigWorkers
    <2>1. swPipe[w] \in Seq(Kind) /\ swQueue[w] \in Seq(Msgs)  BY <1>0
    <2> QED  BY <2>1, CountFinite, LenProperties
<1>1. ASSUME NEW w \in SigWorkers, NEW m \in Msgs, SwPush(w, m) PROVE SwAccount'
    <2>1. \A x \in SigWorkers : Notifiers(x)' = Notifiers(x)
        BY <1>0, <1>1 DEF SwPush, rwVars, Notifiers, Notifying, Placed, Known, TypeOK, SwTypeOK
    <2> QED  BY <1>1, <2>1 DEF SwPush, SwAccount
<1>2. ASSUME NEW w \in SigWorkers, SwTakeMsg(w) PROVE SwAccount'
    <2>1. Count(Tail(swPipe[w]), "RTC_MSG") = Count(swPipe[w], "RTC_MSG") - 1
        BY <1>0, <1>2, CountTail DEF SwTakeMsg
    <2>2. Tail(swPipe[w]) \in Seq(Kind)
        BY <1>0, <1>2, TailElems DEF SwTakeMsg
    <2>3. Count(Tail(swPipe[w]), "RTC_MSG") \in Nat
        BY <2>2, CountFinite
    <2>4. swQueue[w] # <<>> /\ Len(Tail(swQueue[w])) = Len(swQueue[w]) - 1
        <3>1. Len(swQueue[w]) > 0
            BY <2>1, <2>3, <1>c, NotifiersFinite DEF SwAccount
        <3>2. swQueue[w] # <<>>  BY <3>1
        <3> QED  BY <1>0, <3>2, TailElems
    <2>5. /\ swPipe' = [swPipe EXCEPT ![w] = Tail(@)]
          /\ swQueue' = [swQueue EXCEPT ![w] = Tail(@)]
          /\ UNCHANGED <<woeker, rwAt, rwMsg>>
        BY <1>2, <2>4 DEF SwTakeMsg, rwVars
    <2>6. \A x \in SigWorkers : Notifiers(x)' = Notifiers(x)
        BY <2>5 DEF Notifiers, Notifying
    <2> QED  BY <1>0, <1>c, <2>1, <2>4, <2>5, <2>6, NotifiersFinite, SMTT(30) DEF SwAccount
<1>3. ASSUME NEW w \in SigWorkers, NEW s \in Seq(Kind), swPipe' = [swPipe EXCEPT ![w] = s],
             Count(s, "RTC_MSG") = Count(swPipe[w], "RTC_MSG"),
             UNCHANGED <<swQueue, woeker, rwAt, rwMsg>>
      PROVE  SwAccount'
    <2>1. \A x \in SigWorkers : Notifiers(x)' = Notifiers(x)
        BY <1>3 DEF Notifiers, Notifying
    <2> QED  BY <1>0, <1>3, <2>1 DEF SwAccount
<1>4. ASSUME NEW w \in SigWorkers, SwTakeConn(w) PROVE SwAccount'
    <2>1. Tail(swPipe[w]) \in Seq(Kind)
        BY <1>0, <1>4, TailElems DEF SwTakeConn
    <2>2. Count(Tail(swPipe[w]), "RTC_MSG") = Count(swPipe[w], "RTC_MSG")
        BY <1>0, <1>c, <1>4, CountTail DEF SwTakeConn
    <2> QED  BY <1>3, <1>4, <2>1, <2>2 DEF SwTakeConn, rwVars
<1>5. ASSUME AcceptNotify PROVE SwAccount'
    <2>0. acceptTo \in SigWorkers  BY <1>5 DEF AcceptNotify, TypeOK
    <2>1. Append(swPipe[acceptTo], "NEW_CONN") \in Seq(Kind)
        BY <1>0, <2>0, AppendElems
    <2>2. Count(Append(swPipe[acceptTo], "NEW_CONN"), "RTC_MSG")
          = Count(swPipe[acceptTo], "RTC_MSG")
        <3>1. swPipe[acceptTo] \in Seq(Kind)  BY <1>0, <2>0
        <3> QED  BY <3>1, CountAppend
    <2> QED  BY <1>3, <1>5, <2>0, <2>1, <2>2 DEF AcceptNotify, rwVars
<1>6. ASSUME NEW r \in RtcWorkers, RwTake(r) PROVE SwAccount'
    <2>1. \A x \in SigWorkers : Notifiers(x)' = Notifiers(x)
        <3>1. /\ rwAt[r] = "idle" /\ rwAt'[r] \in {"idle", "push"} /\ woeker' = woeker
              /\ \A q \in RtcWorkers \ {r} : rwAt'[q] = rwAt[q] /\ rwMsg'[q] = rwMsg[q]
            BY <1>0, <1>6 DEF RwTake, swVars
        <3> QED  BY <3>1 DEF Notifiers, Notifying
    <2> QED  BY <1>6, <2>1 DEF RwTake, swVars, SwAccount
<1>7. ASSUME NEW r \in RtcWorkers, RwAnswer(r) PROVE SwAccount'
    <2>a. woeker[rwMsg[r]] \in SigWorkers /\ rwMsg[r] \in Msgs
        BY <1>7 DEF RwAnswer, Placed, Known
    <2>0. PICK v \in SigWorkers : v = woeker[rwMsg[r]]
        BY <2>a
    <2>1. /\ swQueue' = [swQueue EXCEPT ![v] = Append(@, rwMsg[r])]
          /\ rwAt[r] = "push" /\ rwAt' = [rwAt EXCEPT ![r] = "notify"]
          /\ UNCHANGED <<swPipe, woeker, rwMsg>>
        BY <1>7, <2>0 DEF RwAnswer
    <2>2. Len(Append(swQueue[v], rwMsg[r])) = Len(swQueue[v]) + 1
        BY <1>0, <2>a, AppendElems
    <2>3. r \notin Notifiers(v) /\ Notifiers(v)' = Notifiers(v) \union {r}
        BY <1>0, <2>0, <2>1 DEF Notifiers, Notifying
    <2>4. \A x \in SigWorkers : x # v => Notifiers(x)' = Notifiers(x)
        BY <1>0, <2>0, <2>1 DEF Notifiers, Notifying
    <2>5. Cardinality(Notifiers(v)') = Cardinality(Notifiers(v)) + 1
        BY <2>3, NotifiersFinite, FS_AddElement
    <2> QED  BY <1>0, <1>c, <2>0, <2>1, <2>2, <2>4, <2>5, NotifiersFinite, SMTT(30) DEF SwAccount
<1>8. ASSUME NEW r \in RtcWorkers, RwNotify(r) PROVE SwAccount'
    <2>0. PICK v \in SigWorkers : v = woeker[rwMsg[r]]
        BY <1>8 DEF RwNotify, Placed, Known
    <2>1. /\ swPipe' = [swPipe EXCEPT ![v] = Append(@, "RTC_MSG")]
          /\ rwAt[r] = "notify" /\ rwAt' = [rwAt EXCEPT ![r] = "idle"]
          /\ rwMsg' = [rwMsg EXCEPT ![r] = None] /\ UNCHANGED <<swQueue, woeker>>
        BY <1>8, <2>0 DEF RwNotify
    <2>2. Count(Append(swPipe[v], "RTC_MSG"), "RTC_MSG") = Count(swPipe[v], "RTC_MSG") + 1
        BY <1>0, <2>0, CountAppend
    <2>3. r \in Notifiers(v) /\ Notifiers(v)' = Notifiers(v) \ {r}
        BY <1>0, <2>0, <2>1 DEF Notifiers, Notifying
    <2>4. \A x \in SigWorkers : x # v => Notifiers(x)' = Notifiers(x)
        BY <1>0, <2>0, <2>1 DEF Notifiers, Notifying
    <2>5. Cardinality(Notifiers(v)') = Cardinality(Notifiers(v)) - 1
        BY <2>3, NotifiersFinite, FS_RemoveElement
    <2> QED  BY <1>0, <1>c, <2>0, <2>1, <2>2, <2>4, <2>5, NotifiersFinite, SMTT(30) DEF SwAccount
<1>9. ASSUME UNCHANGED <<swQueue, swPipe, woeker, rwAt, rwMsg>> PROVE SwAccount'
    BY <1>9 DEF SwAccount, Notifiers, Notifying
<1>10. \/ \E w \in SigWorkers : \/ \E m \in Msgs : SwPush(w, m)
                                \/ SwTakeMsg(w) \/ SwTakeConn(w)
       \/ AcceptNotify
       \/ \E r \in RtcWorkers : RwTake(r) \/ RwAnswer(r) \/ RwNotify(r)
       \/ UNCHANGED <<swQueue, swPipe, woeker, rwAt, rwMsg>>
    BY DEF Next, SwHandle, RsHandle, RwHandle, vars, swVars, rsVars, rwVars, acceptVars,
       SwNotify, RsTake, RsKeepCert, RsNewCert, Forward, RsNoCert, RsNotify, Expire, AcceptPush
<1> QED  BY <1>1, <1>2, <1>4, <1>5, <1>6, <1>7, <1>8, <1>9, <1>10

\* The signaling workers' queues of new connections.
LEMMA ConnAccountStep ==
  ASSUME TypeOK, Placed, ConnAccount, [Next]_vars
  PROVE  ConnAccount'
<1> DEFINE Kind == {"NEW_CONN", "RTC_MSG"}
<1>0. /\ connQueue \in [SigWorkers -> Nat] /\ swPipe \in [SigWorkers -> Seq(Kind)]
      /\ acceptTo \in SigWorkers \union {None}
    BY DEF TypeOK, SwTypeOK
<1>c. \A w \in SigWorkers : Count(swPipe[w], "NEW_CONN") \in Nat
    BY <1>0, CountFinite
<1>1. ASSUME NEW w \in SigWorkers, SwTakeConn(w) PROVE ConnAccount'
    <2>1. Count(Tail(swPipe[w]), "NEW_CONN") = Count(swPipe[w], "NEW_CONN") - 1
        BY <1>0, <1>1, CountTail DEF SwTakeConn
    <2>2. Tail(swPipe[w]) \in Seq(Kind)
        BY <1>0, <1>1, TailElems DEF SwTakeConn
    <2>3. Count(Tail(swPipe[w]), "NEW_CONN") \in Nat
        BY <2>2, CountFinite
    <2>4. connQueue[w] > 0  BY <1>0, <1>c, <2>1, <2>3 DEF ConnAccount
    <2>5. /\ swPipe' = [swPipe EXCEPT ![w] = Tail(@)]
          /\ \A x \in SigWorkers : connQueue'[x] = IF x = w THEN connQueue[w] - 1
                                                            ELSE connQueue[x]
          /\ acceptTo' = acceptTo
        BY <1>0, <1>1, <2>4 DEF SwTakeConn, acceptVars
    <2> QED  BY <1>0, <1>c, <2>1, <2>5 DEF ConnAccount
<1>2. ASSUME NEW w \in SigWorkers, NEW s \in Seq(Kind), swPipe' = [swPipe EXCEPT ![w] = s],
             Count(s, "NEW_CONN") = Count(swPipe[w], "NEW_CONN"),
             UNCHANGED <<connQueue, acceptTo>>
      PROVE  ConnAccount'
    BY <1>0, <1>2 DEF ConnAccount
<1>3. ASSUME NEW w \in SigWorkers, SwTakeMsg(w) PROVE ConnAccount'
    <2>1. Tail(swPipe[w]) \in Seq(Kind)
        BY <1>0, <1>3, TailElems DEF SwTakeMsg
    <2>2. Count(Tail(swPipe[w]), "NEW_CONN") = Count(swPipe[w], "NEW_CONN")
        BY <1>0, <1>c, <1>3, CountTail DEF SwTakeMsg
    <2> QED  BY <1>2, <1>3, <2>1, <2>2 DEF SwTakeMsg, acceptVars
<1>4. ASSUME NEW r \in RtcWorkers, RwNotify(r) PROVE ConnAccount'
    <2> DEFINE v == woeker[rwMsg[r]]
    <2>0. v \in SigWorkers
        BY <1>4 DEF RwNotify, Placed, Known
    <2>1. Append(swPipe[v], "RTC_MSG") \in Seq(Kind)
        BY <1>0, <2>0, AppendElems
    <2>2. Count(Append(swPipe[v], "RTC_MSG"), "NEW_CONN") = Count(swPipe[v], "NEW_CONN")
        BY <1>0, <1>c, <2>0, CountAppend
    <2>3. swPipe' = [swPipe EXCEPT ![v] = Append(@, "RTC_MSG")]
          /\ UNCHANGED <<connQueue, acceptTo>>
        BY <1>4 DEF RwNotify, acceptVars
    <2> HIDE DEF v
    <2> QED  BY <1>2, <2>0, <2>1, <2>2, <2>3
<1>5. ASSUME AcceptPush PROVE ConnAccount'
    <2> DEFINE v == accepted % NumSig
    <2>0. v \in SigWorkers /\ None \notin SigWorkers
        BY ConstantsAssumption, ModRange DEF TypeOK, SigWorkers
    <2>1. /\ acceptTo = None /\ acceptTo' = v /\ swPipe' = swPipe
          /\ connQueue' = [connQueue EXCEPT ![v] = @ + 1]
        BY <1>5 DEF AcceptPush
    <2> HIDE DEF v
    <2> QED  BY <1>0, <1>c, <2>0, <2>1 DEF ConnAccount
<1>6. ASSUME AcceptNotify PROVE ConnAccount'
    <2>0. acceptTo \in SigWorkers /\ None \notin SigWorkers
        BY <1>6, ConstantsAssumption DEF AcceptNotify, TypeOK, SigWorkers
    <2>1. /\ swPipe' = [swPipe EXCEPT ![acceptTo] = Append(@, "NEW_CONN")]
          /\ acceptTo' = None /\ connQueue' = connQueue
        BY <1>6 DEF AcceptNotify
    <2>2. Count(Append(swPipe[acceptTo], "NEW_CONN"), "NEW_CONN")
          = Count(swPipe[acceptTo], "NEW_CONN") + 1
        BY <1>0, <2>0, CountAppend
    <2> QED  BY <1>0, <1>c, <2>0, <2>1, <2>2 DEF ConnAccount
<1>7. ASSUME UNCHANGED <<connQueue, swPipe, acceptTo>> PROVE ConnAccount'
    BY <1>7 DEF ConnAccount
<1>8. \/ \E w \in SigWorkers : SwTakeMsg(w) \/ SwTakeConn(w)
      \/ \E r \in RtcWorkers : RwNotify(r)
      \/ AcceptPush \/ AcceptNotify
      \/ UNCHANGED <<connQueue, swPipe, acceptTo>>
    BY DEF Next, SwHandle, RsHandle, RwHandle, vars, swVars, rsVars, rwVars, acceptVars,
       SwPush, SwNotify, RsTake, RsKeepCert, RsNewCert, Forward, RsNoCert, RsNotify, Expire,
       RwTake, RwAnswer
<1> QED  BY <1>1, <1>3, <1>4, <1>5, <1>6, <1>7, <1>8

(***************************************************************************)
(* The order of the messages.  Everything one thread hands to the next     *)
(* stays behind what it handed over before, up to the streams it creates.  *)
(***************************************************************************)

In(s, a) == \E k \in DOMAIN s : s[k] = a

Earlier(s, a, b) == \E k, l \in DOMAIN s : k < l /\ s[k] = a /\ s[l] = b

\* A longer history keeps the order, and its last element comes after all others.
LEMMA EarlierAppend ==
  ASSUME NEW S, NEW s \in Seq(S), NEW e \in S
  PROVE  /\ \A a, b : Earlier(s, a, b) => Earlier(Append(s, e), a, b)
         /\ \A a : In(s, a) => In(Append(s, e), a) /\ Earlier(Append(s, e), a, e)
         /\ In(Append(s, e), e)
<1>1. /\ Len(s) \in Nat /\ DOMAIN s = 1 .. Len(s)
      /\ DOMAIN Append(s, e) = 1 .. Len(s) + 1
      /\ \A i \in 1 .. Len(s) : Append(s, e)[i] = s[i]
      /\ Append(s, e)[Len(s) + 1] = e
    BY AppendProperties, LenProperties
<1> QED  BY <1>1 DEF Earlier, In

\* Without repetitions the order is irreflexive.
LEMMA EarlierIrreflexive ==
  ASSUME NEW S, NEW s \in Seq(S), \A k, l \in DOMAIN s : s[k] = s[l] => k = l
  PROVE  \A a : ~Earlier(s, a, a)
  BY LenProperties DEF Earlier

B(a, b) == Earlier(submitted, a, b)

\* The history holds each request that has been read, and holds it once.
History ==
    /\ \A m \in Msgs : m \notin unsent => In(submitted, m)
    /\ \A k \in DOMAIN submitted : submitted[k] \notin unsent
    /\ \A k, l \in DOMAIN submitted : submitted[k] = submitted[l] => k = l
    /\ \A i \in DOMAIN created : Known(created[i])

\* x comes before all that RtcServer still has.
AheadOfRs(x) ==
    /\ rsAt = "check" => B(x, rsMsg)
    /\ \A j \in DOMAIN rsQueue : B(x, rsQueue[j])

\* x comes before all that rtc worker r still has.
AheadOfRw(x, r) ==
    /\ rwAt[r] = "push" => B(x, rwMsg[r])
    /\ \A j \in DOMAIN rwQueue[r] : B(x, rwQueue[r][j])

RsOrder ==
    /\ \A i, j \in DOMAIN rsQueue : i < j => B(rsQueue[i], rsQueue[j])
    /\ rsAt = "check" => \A j \in DOMAIN rsQueue : B(rsMsg, rsQueue[j])

RwOrder ==
    \A r \in RtcWorkers :
        /\ \A i, j \in DOMAIN rwQueue[r] : i < j => B(rwQueue[r][i], rwQueue[r][j])
        /\ \A i \in DOMAIN rwQueue[r] :
              RtcWorkerOf(rwQueue[r][i]) = r /\ AheadOfRs(rwQueue[r][i])
        /\ rwAt[r] = "push" =>
              /\ RtcWorkerOf(rwMsg[r]) = r /\ AheadOfRs(rwMsg[r])
              /\ \A j \in DOMAIN rwQueue[r] : B(rwMsg[r], rwQueue[r][j])

CreatedOrder ==
    /\ \A i \in DOMAIN created :
          AheadOfRs(created[i]) /\ AheadOfRw(created[i], RtcWorkerOf(created[i]))
    /\ \A i, j \in DOMAIN created :
          i < j /\ RtcWorkerOf(created[i]) = RtcWorkerOf(created[j])
          => B(created[i], created[j])

InOrder == History /\ RsOrder /\ RwOrder /\ CreatedOrder

\* Everything is empty at first.
LEMMA OrderInit == Init => InOrder
  BY DEF Init, InOrder, History, RsOrder, RwOrder, CreatedOrder, AheadOfRs, AheadOfRw

\* Every step keeps the messages in order.
LEMMA OrderStep ==
  ASSUME TypeOK, Placed, InOrder, [Next]_vars
  PROVE  InOrder'
<1>0. /\ submitted \in Seq(Msgs) /\ rsQueue \in Seq(Msgs) /\ created \in Seq(Msgs)
      /\ rwQueue \in [RtcWorkers -> Seq(Msgs)] /\ rwMsg \in [RtcWorkers -> Msgs \union {None}]
      /\ rwAt \in [RtcWorkers -> {"idle", "push", "notify"}] /\ unsent \subseteq Msgs
    BY DEF TypeOK, SwTypeOK, RsTypeOK, RwTypeOK
<1> USE DEF InOrder
<1>1. ASSUME NEW w \in SigWorkers, NEW m \in Msgs, SwPush(w, m) PROVE InOrder'
    <2>1. /\ m \in unsent /\ unsent' = unsent \ {m} /\ submitted' = Append(submitted, m)
          /\ rsQueue' = Append(rsQueue, m)
          /\ UNCHANGED <<created, rsAt, rsMsg, rwQueue, rwAt, rwMsg>>
        BY <1>1 DEF SwPush, rwVars
    <2>2. /\ \A a, b : B(a, b) => B(a, b)'
          /\ \A a : Known(a) => B(a, m)'
          /\ \A a : In(submitted, a) => In(submitted', a)
          /\ In(submitted', m)
        BY <1>0, <2>1, EarlierAppend DEF B, Known, History
    <2>3. /\ \A i, j \in DOMAIN rsQueue' :
                i < j => (i \in DOMAIN rsQueue /\ rsQueue'[i] = rsQueue[i])
          /\ \A i \in DOMAIN rsQueue' :
                (i \in DOMAIN rsQueue /\ rsQueue'[i] = rsQueue[i]) \/ rsQueue'[i] = m
        <3>1. Len(rsQueue) \in Nat /\ DOMAIN rsQueue = 1 .. Len(rsQueue)
            BY <1>0, LenProperties
        <3>2. /\ DOMAIN rsQueue' = 1 .. Len(rsQueue) + 1 /\ rsQueue'[Len(rsQueue) + 1] = m
              /\ \A i \in 1 .. Len(rsQueue) : rsQueue'[i] = rsQueue[i]
            BY <1>0, <2>1, <3>1, AppendProperties, LenProperties
        <3> QED  BY <3>1, <3>2
    <2>4. \A x : Known(x) /\ AheadOfRs(x) => AheadOfRs(x)'
        BY <2>1, <2>2, <2>3 DEF AheadOfRs
    <2>5. History'
        <3>1. \A k \in DOMAIN submitted' :
                 \/ k \in DOMAIN submitted /\ submitted'[k] = submitted[k]
                 \/ k = Len(submitted) + 1 /\ submitted'[k] = m
            BY <1>0, <2>1, AppendElems
        <3>2. \A k \in DOMAIN submitted : submitted[k] # m
            BY <2>1 DEF History
        <3>3. (\A k \in DOMAIN submitted : submitted[k] \notin unsent)'
            BY <2>1, <3>1 DEF History
        <3>4. (\A k, l \in DOMAIN submitted : submitted[k] = submitted[l] => k = l)'
            BY <3>1, <3>2 DEF History
        <3>5. (\A x \in Msgs : x \notin unsent => In(submitted, x))'
            BY <2>1, <2>2 DEF History
        <3>6. (\A i \in DOMAIN created : Known(created[i]))'
            BY <2>1 DEF History, Known
        <3> QED  BY <3>3, <3>4, <3>5, <3>6 DEF History
    <2>6. RsOrder'
        <3>1. (\A i, j \in DOMAIN rsQueue : i < j => B(rsQueue[i], rsQueue[j]))'
            BY <2>2, <2>3 DEF RsOrder, Placed
        <3>2. (rsAt = "check" => \A j \in DOMAIN rsQueue : B(rsMsg, rsQueue[j]))'
            BY <2>1, <2>2, <2>3 DEF RsOrder, Placed
        <3> QED  BY <3>1, <3>2 DEF RsOrder
    <2>7. RwOrder'  BY <2>1, <2>2, <2>4 DEF RwOrder, Placed, RtcWorkerOf
    <2>8. CreatedOrder'
        <3>1. \A x, r : AheadOfRw(x, r) => AheadOfRw(x, r)'
            BY <2>1, <2>2 DEF AheadOfRw
        <3> QED  BY <2>1, <2>2, <2>4, <3>1 DEF CreatedOrder, History, RtcWorkerOf
    <2> QED  BY <2>5, <2>6, <2>7, <2>8
<1>2. ASSUME submitted' = submitted PROVE \A a, b : B(a, b)' <=> B(a, b)
    BY <1>2 DEF B
<1>3. ASSUME RsTake, rsQueue # <<>> PROVE InOrder'
    <2>1. /\ rsMsg' = rsQueue[1] /\ 1 \in DOMAIN rsQueue /\ rsAt' = "check" /\ rsAt = "idle"
          /\ \A j \in DOMAIN rsQueue' :
                j \in Nat \ {0} /\ j + 1 \in DOMAIN rsQueue /\ rsQueue'[j] = rsQueue[j + 1]
        BY <1>0, <1>3, TailElems DEF RsTake
    <2>2. UNCHANGED <<unsent, submitted, created, rwQueue, rwAt, rwMsg>>
        BY <1>3 DEF RsTake, swVars, rwVars
    <2>3. \A a, b : B(a, b)' <=> B(a, b)  BY <1>2, <2>2
    <2>4. RsOrder'  BY <2>1, <2>3 DEF RsOrder
    <2>5. \A x : AheadOfRs(x) => AheadOfRs(x)'  BY <2>1, <2>3 DEF AheadOfRs
    <2>6. \A x, r : AheadOfRw(x, r) => AheadOfRw(x, r)'  BY <2>2, <2>3 DEF AheadOfRw
    <2>7. RwOrder'  BY <2>2, <2>3, <2>5 DEF RwOrder, RtcWorkerOf
    <2>8. CreatedOrder'  BY <2>2, <2>3, <2>5, <2>6 DEF CreatedOrder, RtcWorkerOf
    <2>9. History'  BY <2>2 DEF History, Known
    <2> QED  BY <2>4, <2>7, <2>8, <2>9
<1>4. ASSUME NEW c, rsAt = "check", Forward(c) PROVE InOrder'
    <2>1. Known(rsMsg) /\ RtcWorkerOf(rsMsg) \in RtcWorkers
        BY <1>4, WorkerRange DEF Placed, Known
    <2>2. PICK q \in RtcWorkers : q = RtcWorkerOf(rsMsg)
        BY <2>1
    <2>3. /\ rsAt' = "notify"
          /\ UNCHANGED <<unsent, submitted, created, rsQueue, rsMsg, rwAt, rwMsg>>
          /\ rwQueue' = [rwQueue EXCEPT ![q] = Append(@, rsMsg)]
        BY <1>4, <2>2 DEF Forward, swVars
    <2>4. /\ \A r \in RtcWorkers : r # q => rwQueue'[r] = rwQueue[r]
          /\ \A i, j \in DOMAIN rwQueue'[q] :
                i < j => (i \in DOMAIN rwQueue[q] /\ rwQueue'[q][i] = rwQueue[q][i])
          /\ \A i \in DOMAIN rwQueue'[q] :
                (i \in DOMAIN rwQueue[q] /\ rwQueue'[q][i] = rwQueue[q][i])
                \/ rwQueue'[q][i] = rsMsg
        <3>1. rwQueue'[q] = Append(rwQueue[q], rsMsg) /\ rwQueue[q] \in Seq(Msgs)
            BY <1>0, <2>3
        <3>2. Len(rwQueue[q]) \in Nat /\ DOMAIN rwQueue[q] = 1 .. Len(rwQueue[q])
            BY <3>1, LenProperties
        <3>3. /\ DOMAIN rwQueue'[q] = 1 .. Len(rwQueue[q]) + 1
              /\ rwQueue'[q][Len(rwQueue[q]) + 1] = rsMsg
              /\ \A i \in 1 .. Len(rwQueue[q]) : rwQueue'[q][i] = rwQueue[q][i]
            BY <2>1, <3>1, <3>2, AppendProperties, LenProperties DEF Known
        <3>4. \A r \in RtcWorkers : r # q => rwQueue'[r] = rwQueue[r]
            BY <1>0, <2>3
        <3> QED  BY <3>2, <3>3, <3>4
    <2>5. \A a, b : B(a, b)' <=> B(a, b)  BY <1>2, <2>3
    <2>6. \A x : AheadOfRs(x) => AheadOfRs(x)' /\ B(x, rsMsg)
        BY <1>4, <2>3, <2>5 DEF AheadOfRs
    <2>7. AheadOfRs(rsMsg)'
        BY <1>4, <2>3, <2>5 DEF AheadOfRs, RsOrder
    <2>8. RsOrder'  BY <2>3, <2>5 DEF RsOrder
    <2>9. RwOrder'
        <3> SUFFICES ASSUME NEW r \in RtcWorkers
                     PROVE  /\ (\A i, j \in DOMAIN rwQueue[r] :
                                  i < j => B(rwQueue[r][i], rwQueue[r][j]))'
                            /\ (\A i \in DOMAIN rwQueue[r] :
                                  RtcWorkerOf(rwQueue[r][i]) = r /\ AheadOfRs(rwQueue[r][i]))'
                            /\ (rwAt[r] = "push" =>
                                  /\ RtcWorkerOf(rwMsg[r]) = r /\ AheadOfRs(rwMsg[r])
                                  /\ \A j \in DOMAIN rwQueue[r] : B(rwMsg[r], rwQueue[r][j]))'
            BY DEF RwOrder
        <3>1. CASE r # q
            BY <3>1, <2>3, <2>4, <2>5, <2>6 DEF RwOrder, RtcWorkerOf
        <3>2. CASE r = q
            <4>1. (\A i, j \in DOMAIN rwQueue[r] : i < j => B(rwQueue[r][i], rwQueue[r][j]))'
                BY <3>2, <2>4, <2>5, <2>6 DEF RwOrder
            <4>2. (\A i \in DOMAIN rwQueue[r] :
                      RtcWorkerOf(rwQueue[r][i]) = r /\ AheadOfRs(rwQueue[r][i]))'
                <5>1. \A y : (y = rsMsg \/ \E i \in DOMAIN rwQueue[q] : y = rwQueue[q][i])
                             => RtcWorkerOf(y) = q /\ AheadOfRs(y)'
                    <6>1. RtcWorkerOf(rsMsg) = q  BY <2>2
                    <6>2. \A y : y = rsMsg => AheadOfRs(y)'
                        BY <2>3, <2>7 DEF AheadOfRs
                    <6>3. \A i \in DOMAIN rwQueue[q] :
                             RtcWorkerOf(rwQueue[q][i]) = q /\ AheadOfRs(rwQueue[q][i])
                        BY DEF RwOrder
                    <6> QED  BY <2>6, <6>1, <6>2, <6>3
                <5>2. \A i \in DOMAIN rwQueue'[q] :
                         \E y : y = rwQueue'[q][i] /\ RtcWorkerOf(y) = q /\ AheadOfRs(y)'
                    BY <2>4, <5>1
                <5> QED  BY <3>2, <5>2 DEF RtcWorkerOf, AheadOfRs
            <4>3. (rwAt[r] = "push" =>
                      /\ RtcWorkerOf(rwMsg[r]) = r /\ AheadOfRs(rwMsg[r])
                      /\ \A j \in DOMAIN rwQueue[r] : B(rwMsg[r], rwQueue[r][j]))'
                BY <3>2, <2>3, <2>4, <2>5, <2>6 DEF RwOrder, RtcWorkerOf
            <4> QED  BY <4>1, <4>2, <4>3
        <3> QED  BY <3>1, <3>2
    <2>10. CreatedOrder'
        <3>1. \A i \in DOMAIN created :
                 AheadOfRw(created[i], RtcWorkerOf(created[i]))'
            <4> SUFFICES ASSUME NEW i \in DOMAIN created
                         PROVE  AheadOfRw(created[i], RtcWorkerOf(created[i]))'
                OBVIOUS
            <4> DEFINE x == created[i]
            <4>1. x \in Msgs /\ RtcWorkerOf(x) \in RtcWorkers
                BY WorkerRange DEF History, Known
            <4>2. AheadOfRw(x, RtcWorkerOf(x)) /\ B(x, rsMsg)
                BY <2>6 DEF CreatedOrder
            <4>3. x' = x  BY <2>3
            <4> HIDE DEF x
            <4> QED  BY <2>3, <2>4, <2>5, <4>1, <4>2, <4>3 DEF AheadOfRw, RtcWorkerOf, x
        <3> QED  BY <2>3, <2>5, <2>6, <3>1 DEF CreatedOrder, RtcWorkerOf
    <2>11. History'  BY <2>3 DEF History, Known
    <2> QED  BY <2>8, <2>9, <2>10, <2>11
<1>5. ASSUME NEW r \in RtcWorkers, RwTake(r), rwQueue[r] # <<>> PROVE InOrder'
    <2>1. /\ rwMsg' = [rwMsg EXCEPT ![r] = Head(rwQueue[r])]
          /\ rwQueue' = [rwQueue EXCEPT ![r] = Tail(@)]
          /\ rwAt[r] = "idle" /\ rwAt' = [rwAt EXCEPT ![r] = "push"]
          /\ UNCHANGED <<unsent, submitted, created, rsQueue, rsAt, rsMsg>>
        BY <1>5 DEF RwTake, swVars, rsVars
    <2>2. /\ rwMsg'[r] = rwQueue[r][1] /\ 1 \in DOMAIN rwQueue[r]
          /\ \A j \in DOMAIN rwQueue'[r] :
                /\ j \in Nat \ {0} /\ j + 1 \in DOMAIN rwQueue[r]
                /\ rwQueue'[r][j] = rwQueue[r][j + 1]
        <3>1. rwQueue[r] \in Seq(Msgs) /\ rwQueue'[r] = Tail(rwQueue[r])
              /\ rwMsg'[r] = Head(rwQueue[r])
            BY <1>0, <2>1
        <3> QED  BY <1>5, <3>1, TailElems
    <2>3. \A q \in RtcWorkers : q # r =>
             rwQueue'[q] = rwQueue[q] /\ rwAt'[q] = rwAt[q] /\ rwMsg'[q] = rwMsg[q]
        BY <1>0, <2>1
    <2>4. \A a, b : B(a, b)' <=> B(a, b)  BY <1>2, <2>1
    <2>5. \A x : AheadOfRs(x)' <=> AheadOfRs(x)  BY <2>1, <2>4 DEF AheadOfRs
    <2>6. \A x : \A q \in RtcWorkers : AheadOfRw(x, q) => AheadOfRw(x, q)'
        <3> SUFFICES ASSUME NEW x, NEW q \in RtcWorkers, AheadOfRw(x, q) PROVE AheadOfRw(x, q)'
            OBVIOUS
        <3>1. CASE q = r  BY <3>1, <2>2, <2>4 DEF AheadOfRw
        <3>2. CASE q # r  BY <3>2, <2>3, <2>4 DEF AheadOfRw
        <3> QED  BY <3>1, <3>2
    <2>7. RwOrder'
        <3> SUFFICES ASSUME NEW q \in RtcWorkers
                     PROVE  /\ (\A i, j \in DOMAIN rwQueue[q] :
                                  i < j => B(rwQueue[q][i], rwQueue[q][j]))'
                            /\ (\A i \in DOMAIN rwQueue[q] :
                                  RtcWorkerOf(rwQueue[q][i]) = q /\ AheadOfRs(rwQueue[q][i]))'
                            /\ (rwAt[q] = "push" =>
                                  /\ RtcWorkerOf(rwMsg[q]) = q /\ AheadOfRs(rwMsg[q])
                                  /\ \A j \in DOMAIN rwQueue[q] : B(rwMsg[q], rwQueue[q][j]))'
            BY DEF RwOrder
        <3>1. CASE q # r
            BY <3>1, <2>3, <2>4, <2>5 DEF RwOrder, RtcWorkerOf
        <3>2. CASE q = r
            <4>1. (\A i, j \in DOMAIN rwQueue[q] : i < j => B(rwQueue[q][i], rwQueue[q][j]))'
                BY <3>2, <2>2, <2>4 DEF RwOrder
            <4>2. (\A i \in DOMAIN rwQueue[q] :
                      RtcWorkerOf(rwQueue[q][i]) = q /\ AheadOfRs(rwQueue[q][i]))'
                BY <3>2, <2>2, <2>5 DEF RwOrder, RtcWorkerOf
            <4>3. (/\ RtcWorkerOf(rwMsg[q]) = q /\ AheadOfRs(rwMsg[q])
                   /\ \A j \in DOMAIN rwQueue[q] : B(rwMsg[q], rwQueue[q][j]))'
                BY <3>2, <2>2, <2>4, <2>5 DEF RwOrder, RtcWorkerOf
            <4> QED  BY <4>1, <4>2, <4>3
        <3> QED  BY <3>1, <3>2
    <2>8. CreatedOrder'
        <3>1. \A i \in DOMAIN created : RtcWorkerOf(created[i]) \in RtcWorkers
            BY WorkerRange DEF History, Known
        <3> QED  BY <2>1, <2>4, <2>5, <2>6, <3>1 DEF CreatedOrder, RtcWorkerOf
    <2>9. RsOrder' /\ History'  BY <2>1, <2>4 DEF RsOrder, History, Known
    <2> QED  BY <2>7, <2>8, <2>9
<1>6. ASSUME NEW r \in RtcWorkers, RwAnswer(r) PROVE InOrder'
    <2>1. Known(rwMsg[r])  BY <1>6 DEF RwAnswer, Placed
    <2>2. PICK x \in Msgs : x = rwMsg[r]  BY <2>1 DEF Known
    <2>3. /\ rwAt[r] = "push" /\ rwAt' = [rwAt EXCEPT ![r] = "notify"]
          /\ created' = Append(created, x)
          /\ UNCHANGED <<unsent, submitted, rsQueue, rsAt, rsMsg, rwQueue, rwMsg>>
        BY <1>6, <2>2 DEF RwAnswer, rsVars
    <2>4. /\ \A i, j \in DOMAIN created' :
                i < j => (i \in DOMAIN created /\ created'[i] = created[i])
          /\ \A i \in DOMAIN created' :
                (i \in DOMAIN created /\ created'[i] = created[i]) \/ created'[i] = x
        <3>1. Len(created) \in Nat /\ DOMAIN created = 1 .. Len(created)
            BY <1>0, LenProperties
        <3>2. /\ DOMAIN created' = 1 .. Len(created) + 1 /\ created'[Len(created) + 1] = x
              /\ \A i \in 1 .. Len(created) : created'[i] = created[i]
            BY <1>0, <2>3, <3>1, AppendProperties, LenProperties
        <3> QED  BY <3>1, <3>2
    <2>5. \A a, b : B(a, b)' <=> B(a, b)  BY <1>2, <2>3
    <2>6. \A y : AheadOfRs(y)' <=> AheadOfRs(y)  BY <2>3, <2>5 DEF AheadOfRs
    <2>7. \A q \in RtcWorkers : rwAt'[q] = "push" => q # r /\ rwAt[q] = "push"
        BY <1>0, <2>3
    <2>8. \A y : \A q \in RtcWorkers : AheadOfRw(y, q) => AheadOfRw(y, q)'
        BY <2>3, <2>5, <2>7 DEF AheadOfRw
    <2>9. RtcWorkerOf(x) = r /\ AheadOfRs(x) /\ AheadOfRw(x, r)'
        BY <2>2, <2>3, <2>5, <2>7 DEF RwOrder, AheadOfRw
    <2>10. \A i \in DOMAIN created : RtcWorkerOf(created[i]) = r => B(created[i], x)
        BY <2>2, <2>3 DEF CreatedOrder, AheadOfRw
    <2>11. CreatedOrder'
        <3>1. \A i \in DOMAIN created : RtcWorkerOf(created[i]) \in RtcWorkers
            BY WorkerRange DEF History, Known
        <3>2. \A y : RtcWorkerOf(y)' = RtcWorkerOf(y)  BY DEF RtcWorkerOf
        <3>3. (\A i \in DOMAIN created :
                  AheadOfRs(created[i]) /\ AheadOfRw(created[i], RtcWorkerOf(created[i])))'
            BY <2>4, <2>6, <2>8, <2>9, <3>1, <3>2 DEF CreatedOrder
        <3>4. (\A i, j \in DOMAIN created :
                  i < j /\ RtcWorkerOf(created[i]) = RtcWorkerOf(created[j])
                  => B(created[i], created[j]))'
            BY <2>4, <2>5, <2>9, <2>10, <3>2 DEF CreatedOrder
        <3> QED  BY <3>3, <3>4 DEF CreatedOrder
    <2>12. RwOrder'  BY <2>3, <2>5, <2>6, <2>7 DEF RwOrder, RtcWorkerOf
    <2>13. History'  BY <2>1, <2>2, <2>3, <2>4 DEF History, Known
    <2>14. RsOrder'  BY <2>3, <2>5 DEF RsOrder
    <2> QED  BY <2>11, <2>12, <2>13, <2>14
<1>7. ASSUME UNCHANGED <<unsent, submitted, created, rsQueue, rwQueue>>,
             UNCHANGED <<rsAt, rsMsg>> \/ rsAt' # "check",
             \A r \in RtcWorkers :
                (rwAt'[r] = rwAt[r] /\ rwMsg'[r] = rwMsg[r]) \/ rwAt'[r] # "push"
      PROVE  InOrder'
    <2>1. \A a, b : B(a, b)' <=> B(a, b)  BY <1>2, <1>7
    <2>2. \A y : AheadOfRs(y) => AheadOfRs(y)'  BY <1>7, <2>1 DEF AheadOfRs
    <2>3. \A y : \A q \in RtcWorkers : AheadOfRw(y, q) => AheadOfRw(y, q)'
        BY <1>7, <2>1 DEF AheadOfRw
    <2>4. \A i \in DOMAIN created : RtcWorkerOf(created[i]) \in RtcWorkers
        BY WorkerRange DEF History, Known
    <2>5. RwOrder'  BY <1>7, <2>1, <2>2 DEF RwOrder, RtcWorkerOf
    <2>6. CreatedOrder'  BY <1>7, <2>1, <2>2, <2>3, <2>4 DEF CreatedOrder, RtcWorkerOf
    <2>7. RsOrder' /\ History'  BY <1>7, <2>1 DEF RsOrder, History, Known
    <2> QED  BY <2>5, <2>6, <2>7
<1>8. ASSUME NEW r \in RtcWorkers, RwNotify(r) PROVE InOrder'
    BY <1>0, <1>7, <1>8 DEF RwNotify, rsVars
<1>9. \/ \E w \in SigWorkers : \E m \in Msgs : SwPush(w, m)
      \/ RsTake /\ rsQueue # <<>>
      \/ rsAt = "check" /\ \E c : Forward(c)
      \/ \E r \in RtcWorkers :
            (RwTake(r) /\ rwQueue[r] # <<>>) \/ RwAnswer(r) \/ RwNotify(r)
      \/ /\ UNCHANGED <<unsent, submitted, created, rsQueue, rwQueue, rwAt, rwMsg>>
         /\ UNCHANGED <<rsAt, rsMsg>> \/ rsAt' # "check"
    BY DEF Next, SwHandle, RsHandle, RwHandle, vars, swVars, rsVars, rwVars, acceptVars,
       SwNotify, SwTakeMsg, SwTakeConn, RsTake, RsKeepCert, RsNewCert, RsNoCert, RsNotify,
       Expire, RwTake, AcceptPush, AcceptNotify
<1> QED  BY <1>1, <1>3, <1>4, <1>5, <1>6, <1>7, <1>8, <1>9

(***************************************************************************)
(* Certificates, requests given up, and answers.                           *)
(***************************************************************************)

\* A message is forwarded with a certificate or not at all.
Certified ==
    \A r \in RtcWorkers :
        /\ \A i \in DOMAIN rwQueue[r] : certOf[rwQueue[r][i]] # 0
        /\ rwAt[r] = "push" => certOf[rwMsg[r]] # 0

\* A certificate is in place before the message is in an rtc worker's queue.
LEMMA CertifiedStep ==
  ASSUME TypeOK, Placed, Certified, [Next]_vars
  PROVE  Certified'
<1>0. /\ certOf \in [Msgs -> 0 .. MaxCerts] /\ nextCert > 0
      /\ rwQueue \in [RtcWorkers -> Seq(Msgs)] /\ rwMsg \in [RtcWorkers -> Msgs \union {None}]
      /\ rwAt \in [RtcWorkers -> {"idle", "push", "notify"}]
    BY ConstantsAssumption, SMTT(30) DEF TypeOK, RsTypeOK, RwTypeOK
<1>1. ASSUME NEW c, c # 0, rsAt = "check", Forward(c) PROVE Certified'
    <2>1. rsMsg \in Msgs /\ RtcWorkerOf(rsMsg) \in RtcWorkers
        BY <1>1, WorkerRange DEF Placed, Known
    <2>2. PICK q \in RtcWorkers : q = RtcWorkerOf(rsMsg)
        BY <2>1
    <2>3. /\ certOf' = [certOf EXCEPT ![rsMsg] = c] /\ UNCHANGED <<rwAt, rwMsg>>
          /\ rwQueue' = [rwQueue EXCEPT ![q] = Append(@, rsMsg)]
        BY <1>1, <2>2 DEF Forward
    <2>4. certOf'[rsMsg] # 0 /\ \A m \in Msgs : certOf[m] # 0 => certOf'[m] # 0
        BY <1>0, <1>1, <2>1, <2>3
    <2>5. \A r \in RtcWorkers : \A i \in DOMAIN rwQueue'[r] :
             (i \in DOMAIN rwQueue[r] /\ rwQueue'[r][i] = rwQueue[r][i]) \/ rwQueue'[r][i] = rsMsg
        BY <1>0, <2>1, <2>3, AppendElems
    <2>6. \A r \in RtcWorkers : \A i \in DOMAIN rwQueue[r] : rwQueue[r][i] \in Msgs
        BY <1>0, ElementOfSeq, LenProperties
    <2> QED  BY <2>3, <2>4, <2>5, <2>6 DEF Certified, Placed, Known
<1>2. ASSUME NEW r \in RtcWorkers, RwTake(r), rwQueue[r] # <<>> PROVE Certified'
    <2>1. /\ rwMsg' = [rwMsg EXCEPT ![r] = Head(rwQueue[r])]
          /\ rwQueue' = [rwQueue EXCEPT ![r] = Tail(@)]
          /\ rwAt' = [rwAt EXCEPT ![r] = "push"] /\ certOf' = certOf
        BY <1>2 DEF RwTake, rsVars
    <2>2. /\ rwMsg'[r] = rwQueue[r][1] /\ 1 \in DOMAIN rwQueue[r]
          /\ \A j \in DOMAIN rwQueue'[r] :
                j + 1 \in DOMAIN rwQueue[r] /\ rwQueue'[r][j] = rwQueue[r][j + 1]
        <3>1. /\ rwQueue[r] \in Seq(Msgs) /\ rwQueue'[r] = Tail(rwQueue[r])
              /\ rwMsg'[r] = Head(rwQueue[r])
            BY <1>0, <2>1
        <3> QED  BY <1>2, <3>1, TailElems
    <2>3. \A q \in RtcWorkers : q # r =>
             rwQueue'[q] = rwQueue[q] /\ rwAt'[q] = rwAt[q] /\ rwMsg'[q] = rwMsg[q]
        BY <1>0, <2>1
    <2> QED  BY <2>1, <2>2, <2>3 DEF Certified
<1>3. ASSUME UNCHANGED <<certOf, rwQueue>>,
             \A r \in RtcWorkers :
                (rwAt'[r] = rwAt[r] /\ rwMsg'[r] = rwMsg[r]) \/ rwAt'[r] # "push"
      PROVE  Certified'
    BY <1>3 DEF Certified
<1>4. ASSUME NEW r \in RtcWorkers, RwAnswer(r) \/ RwNotify(r) PROVE Certified'
    BY <1>0, <1>3, <1>4 DEF RwAnswer, RwNotify, rsVars
<1>5. ASSUME RsKeepCert \/ RsNewCert PROVE Certified'
    BY <1>0, <1>1, <1>5 DEF RsKeepCert, RsNewCert
<1>6. \/ RsKeepCert \/ RsNewCert
      \/ \E r \in RtcWorkers :
            (RwTake(r) /\ rwQueue[r] # <<>>) \/ RwAnswer(r) \/ RwNotify(r)
      \/ UNCHANGED <<certOf, rwQueue, rwAt, rwMsg>>
    BY DEF Next, SwHandle, RsHandle, RwHandle, vars, swVars, rsVars, rwVars, acceptVars,
       SwPush, SwNotify, SwTakeMsg, SwTakeConn, RsTake, RsNoCert, RsNotify, Expire, RwTake,
       AcceptPush, AcceptNotify
<1> QED  BY <1>2, <1>3, <1>4, <1>5, <1>6

\* A request that has been given up is nowhere any more.
Gone ==
    \A d \in dropped :
        /\ Known(d) /\ AheadOfRs(d) /\ ~In(created, d)
        /\ \A r \in RtcWorkers : ~In(rwQueue[r], d) /\ (rwAt[r] = "push" => rwMsg[r] # d)

\* The same message is not in two places.
LEMMA OnePlace ==
  ASSUME TypeOK, InOrder
  PROVE  \A a : ~B(a, a)
  BY EarlierIrreflexive DEF TypeOK, SwTypeOK, InOrder, History, B

\* No step brings back a request that has been given up.
LEMMA GoneStep ==
  ASSUME TypeOK, Placed, InOrder, Gone, [Next]_vars
  PROVE  Gone'
<1>0. /\ submitted \in Seq(Msgs) /\ rsQueue \in Seq(Msgs) /\ created \in Seq(Msgs)
      /\ rwQueue \in [RtcWorkers -> Seq(Msgs)] /\ rwMsg \in [RtcWorkers -> Msgs \union {None}]
      /\ rwAt \in [RtcWorkers -> {"idle", "push", "notify"}] /\ dropped \subseteq Msgs
    BY DEF TypeOK, SwTypeOK, RsTypeOK, RwTypeOK
<1>1. ASSUME NEW w \in SigWorkers, NEW m \in Msgs, SwPush(w, m) PROVE Gone'
    <2>1. /\ unsent' = unsent \ {m} /\ submitted' = Append(submitted, m)
          /\ rsQueue' = Append(rsQueue, m)
          /\ UNCHANGED <<created, dropped, rsAt, rsMsg, rwQueue, rwAt, rwMsg>>
        BY <1>1 DEF SwPush, rwVars
    <2>2. (\A a, b : B(a, b) => B(a, b)') /\ \A a : Known(a) => B(a, m)' /\ Known(a)'
        BY <1>0, <2>1, EarlierAppend DEF B, Known, InOrder, History
    <2>3. \A i \in DOMAIN rsQueue' :
             (i \in DOMAIN rsQueue /\ rsQueue'[i] = rsQueue[i]) \/ rsQueue'[i] = m
        BY <1>0, <2>1, AppendElems
    <2>4. \A x : Known(x) /\ AheadOfRs(x) => AheadOfRs(x)'
        BY <2>1, <2>2, <2>3 DEF AheadOfRs
    <2> QED  BY <2>1, <2>2, <2>4 DEF Gone
<1>2. ASSUME submitted' = submitted PROVE \A a, b : B(a, b)' <=> B(a, b)
    BY <1>2 DEF B
<1>3. ASSUME RsTake, rsQueue # <<>> PROVE Gone'
    <2>1. /\ rsMsg' = rsQueue[1] /\ 1 \in DOMAIN rsQueue /\ rsAt' = "check"
          /\ \A j \in DOMAIN rsQueue' :
                j \in Nat \ {0} /\ j + 1 \in DOMAIN rsQueue /\ rsQueue'[j] = rsQueue[j + 1]
        BY <1>0, <1>3, TailElems DEF RsTake
    <2>2. UNCHANGED <<unsent, submitted, created, dropped, rwQueue, rwAt, rwMsg>>
        BY <1>3 DEF RsTake, swVars, rwVars
    <2>3. \A x : AheadOfRs(x) => AheadOfRs(x)'  BY <1>2, <2>1, <2>2 DEF AheadOfRs
    <2> QED  BY <2>2, <2>3 DEF Gone, Known
<1>4. ASSUME NEW c, rsAt = "check", Forward(c) PROVE Gone'
    <2>1. Known(rsMsg) /\ RtcWorkerOf(rsMsg) \in RtcWorkers
        BY <1>4, WorkerRange DEF Placed, Known
    <2>2. PICK q \in RtcWorkers : q = RtcWorkerOf(rsMsg)
        BY <2>1
    <2>3. /\ rsAt' = "notify"
          /\ UNCHANGED <<unsent, submitted, created, dropped, rsQueue, rsMsg, rwAt, rwMsg>>
          /\ rwQueue' = [rwQueue EXCEPT ![q] = Append(@, rsMsg)]
        BY <1>4, <2>2 DEF Forward, swVars
    <2>4. \A r \in RtcWorkers : \A i \in DOMAIN rwQueue'[r] :
             (i \in DOMAIN rwQueue[r] /\ rwQueue'[r][i] = rwQueue[r][i]) \/ rwQueue'[r][i] = rsMsg
        BY <1>0, <2>1, <2>3, AppendElems DEF Known
    <2>5. \A d \in dropped : d # rsMsg
        BY <1>4, OnePlace DEF Gone, AheadOfRs
    <2>6. \A x : AheadOfRs(x) => AheadOfRs(x)'  BY <1>2, <1>4, <2>3 DEF AheadOfRs
    <2> QED  BY <2>3, <2>4, <2>5, <2>6 DEF Gone, Known, In
<1>5. ASSUME RsNoCert PROVE Gone'
    <2>1. /\ rsAt = "check" /\ rsAt' = "idle" /\ dropped' = dropped \union {rsMsg}
          /\ UNCHANGED <<unsent, submitted, created, rsQueue, rwQueue, rwAt, rwMsg>>
        BY <1>5 DEF RsNoCert, swVars, rwVars
    <2>2. Known(rsMsg)  BY <2>1 DEF Placed
    <2>3. PICK x \in Msgs : x = rsMsg  BY <2>2 DEF Known
    <2>4. \A y : AheadOfRs(y) => y # x /\ AheadOfRs(y)'
        BY <1>2, <2>1, <2>3, OnePlace DEF AheadOfRs
    <2>5. AheadOfRs(x)'
        <3>1. \A j \in DOMAIN rsQueue : B(x, rsQueue[j])
            BY <2>1, <2>3 DEF InOrder, RsOrder
        <3> QED  BY <1>2, <2>1, <3>1 DEF AheadOfRs
    <2>6. /\ ~In(created, x)
          /\ \A r \in RtcWorkers : ~In(rwQueue[r], x) /\ (rwAt[r] = "push" => rwMsg[r] # x)
        BY <2>4 DEF InOrder, RwOrder, CreatedOrder, In
    <2>7. dropped' = dropped \union {x} /\ Known(x)  BY <2>1, <2>2, <2>3
    <2>8. \A y : Known(y)' <=> Known(y)  BY <2>1 DEF Known
    <2> QED  BY <2>1, <2>4, <2>5, <2>6, <2>7, <2>8 DEF Gone
<1>6. ASSUME NEW r \in RtcWorkers, RwTake(r), rwQueue[r] # <<>> PROVE Gone'
    <2>1. /\ rwMsg' = [rwMsg EXCEPT ![r] = Head(rwQueue[r])]
          /\ rwQueue' = [rwQueue EXCEPT ![r] = Tail(@)]
          /\ rwAt' = [rwAt EXCEPT ![r] = "push"]
          /\ UNCHANGED <<unsent, submitted, created, dropped, rsQueue, rsAt, rsMsg>>
        BY <1>6 DEF RwTake, swVars, rsVars
    <2>2. /\ rwMsg'[r] = rwQueue[r][1] /\ 1 \in DOMAIN rwQueue[r]
          /\ \A j \in DOMAIN rwQueue'[r] :
                j + 1 \in DOMAIN rwQueue[r] /\ rwQueue'[r][j] = rwQueue[r][j + 1]
        <3>1. /\ rwQueue[r] \in Seq(Msgs) /\ rwQueue'[r] = Tail(rwQueue[r])
              /\ rwMsg'[r] = Head(rwQueue[r])
            BY <1>0, <2>1
        <3> QED  BY <1>6, <3>1, TailElems
    <2>3. \A q \in RtcWorkers : q # r =>
             rwQueue'[q] = rwQueue[q] /\ rwAt'[q] = rwAt[q] /\ rwMsg'[q] = rwMsg[q]
        BY <1>0, <2>1
    <2>4. \A y : (Known(y)' <=> Known(y)) /\ (AheadOfRs(y)' <=> AheadOfRs(y))
        BY <1>2, <2>1 DEF Known, AheadOfRs
    <2>5. \A d \in dropped : \A q \in RtcWorkers :
             ~In(rwQueue'[q], d) /\ (rwAt'[q] = "push" => rwMsg'[q] # d)
        <3> SUFFICES ASSUME NEW d \in dropped, NEW q \in RtcWorkers
                     PROVE  ~In(rwQueue'[q], d) /\ (rwAt'[q] = "push" => rwMsg'[q] # d)
            OBVIOUS
        <3>1. ~In(rwQueue[q], d) /\ (rwAt[q] = "push" => rwMsg[q] # d)
            BY DEF Gone
        <3>2. CASE q = r  BY <3>1, <3>2, <2>2 DEF In
        <3>3. CASE q # r  BY <3>1, <3>3, <2>3
        <3> QED  BY <3>2, <3>3
    <2> QED  BY <2>1, <2>4, <2>5 DEF Gone
<1>7. ASSUME NEW r \in RtcWorkers, RwAnswer(r) PROVE Gone'
    <2>1. Known(rwMsg[r])  BY <1>7 DEF RwAnswer, Placed
    <2>2. PICK x \in Msgs : x = rwMsg[r]  BY <2>1 DEF Known
    <2>3. /\ rwAt[r] = "push" /\ rwAt' = [rwAt EXCEPT ![r] = "notify"]
          /\ created' = Append(created, x)
          /\ UNCHANGED <<unsent, submitted, dropped, rsQueue, rsAt, rsMsg, rwQueue, rwMsg>>
        BY <1>7, <2>2 DEF RwAnswer, rsVars
    <2>4. \A i \in DOMAIN created' :
             (i \in DOMAIN created /\ created'[i] = created[i]) \/ created'[i] = x
        BY <1>0, <2>3, AppendElems
    <2>5. \A d \in dropped : ~In(created', d)
        BY <2>2, <2>3, <2>4 DEF Gone, In
    <2>6. \A y : (Known(y)' <=> Known(y)) /\ (AheadOfRs(y)' <=> AheadOfRs(y))
        BY <1>2, <2>3 DEF Known, AheadOfRs
    <2>7. \A q \in RtcWorkers : rwAt'[q] = "push" => rwAt[q] = "push"
        BY <1>0, <2>3
    <2> QED  BY <2>3, <2>5, <2>6, <2>7 DEF Gone
<1>8. ASSUME UNCHANGED <<unsent, submitted, created, dropped, rsQueue, rwQueue>>,
             UNCHANGED <<rsAt, rsMsg>> \/ rsAt' # "check",
             \A r \in RtcWorkers :
                (rwAt'[r] = rwAt[r] /\ rwMsg'[r] = rwMsg[r]) \/ rwAt'[r] # "push"
      PROVE  Gone'
    <2>1. \A y : (Known(y)' <=> Known(y)) /\ (AheadOfRs(y) => AheadOfRs(y)')
        BY <1>2, <1>8 DEF Known, AheadOfRs
    <2> QED  BY <1>8, <2>1 DEF Gone
<1>9. ASSUME NEW r \in RtcWorkers, RwNotify(r) PROVE Gone'
    BY <1>0, <1>8, <1>9 DEF RwNotify, rsVars
<1>10. \/ \E w \in SigWorkers : \E m \in Msgs : SwPush(w, m)
       \/ RsTake /\ rsQueue # <<>>
       \/ rsAt = "check" /\ \E c : Forward(c)
       \/ RsNoCert
       \/ \E r \in RtcWorkers :
             (RwTake(r) /\ rwQueue[r] # <<>>) \/ RwAnswer(r) \/ RwNotify(r)
       \/ /\ UNCHANGED <<unsent, submitted, created, dropped, rsQueue, rwQueue, rwAt, rwMsg>>
          /\ UNCHANGED <<rsAt, rsMsg>> \/ rsAt' # "check"
    BY DEF Next, SwHandle, RsHandle, RwHandle, vars, swVars, rsVars, rwVars, acceptVars,
       SwNotify, SwTakeMsg, SwTakeConn, RsTake, RsKeepCert, RsNewCert, RsNotify,
       Expire, RwTake, AcceptPush, AcceptNotify
<1> QED  BY <1>1, <1>3, <1>4, <1>5, <1>6, <1>7, <1>8, <1>9, <1>10

\* The message an rtc worker is about to answer has not been answered before.
LEMMA FreshAnswer ==
  ASSUME TypeOK, InOrder, NEW r \in RtcWorkers, rwAt[r] = "push"
  PROVE  ~In(created, rwMsg[r])
<1>1. RtcWorkerOf(rwMsg[r]) = r  BY DEF InOrder, RwOrder
<1>2. ~B(rwMsg[r], rwMsg[r])  BY OnePlace
<1> QED  BY <1>1, <1>2 DEF InOrder, CreatedOrder, AheadOfRw, In

\* An answer waits, once, for the worker that asked, or it has been delivered there.
Answers ==
    /\ \A w \in SigWorkers : \A i \in DOMAIN swQueue[w] :
          In(created, swQueue[w][i]) /\ woeker[swQueue[w][i]] = w
    /\ \A w \in SigWorkers : \A i, j \in DOMAIN swQueue[w] :
          swQueue[w][i] = swQueue[w][j] => i = j
    /\ \A m \in Msgs, w \in SigWorkers :
          <<m, w>> \in delivered => In(created, m) /\ woeker[m] = w /\ ~In(swQueue[w], m)

\* No answer is lost on the way, doubled or handed to another worker.
LEMMA AnswersStep ==
  ASSUME TypeOK, Placed, InOrder, Answers, [Next]_vars
  PROVE  Answers'
<1>0. /\ swQueue \in [SigWorkers -> Seq(Msgs)] /\ created \in Seq(Msgs)
      /\ delivered \subseteq Msgs \X SigWorkers
      /\ woeker \in [Msgs -> SigWorkers \union {None}]
    BY DEF TypeOK, SwTypeOK, RwTypeOK
<1>1. ASSUME NEW w \in SigWorkers, NEW m \in Msgs, SwPush(w, m) PROVE Answers'
    <2>1. /\ m \in unsent /\ woeker' = [woeker EXCEPT ![m] = w]
          /\ UNCHANGED <<created, swQueue, delivered>>
        BY <1>1 DEF SwPush, rwVars
    <2>2. \A x : In(created, x) => x \in Msgs /\ woeker'[x] = woeker[x]
        BY <1>0, <2>1 DEF In, InOrder, History, Known
    <2> QED  BY <2>1, <2>2 DEF Answers
<1>2. ASSUME NEW w \in SigWorkers, SwTakeMsg(w), swQueue[w] # <<>> PROVE Answers'
    <2>1. /\ swQueue' = [swQueue EXCEPT ![w] = Tail(@)]
          /\ delivered' = delivered \union {<<Head(swQueue[w]), w>>}
          /\ UNCHANGED <<created, woeker>>
        BY <1>2 DEF SwTakeMsg, rwVars
    <2>2. /\ swQueue[w] \in Seq(Msgs) /\ swQueue'[w] = Tail(swQueue[w])
          /\ \A v \in SigWorkers : v # w => swQueue'[v] = swQueue[v]
        BY <1>0, <2>1
    <2>3. PICK h \in Msgs : h = Head(swQueue[w])  BY <1>2, <2>2, TailElems
    <2>4. /\ h = swQueue[w][1] /\ 1 \in DOMAIN swQueue[w]
          /\ \A j \in DOMAIN swQueue'[w] :
                /\ j \in Nat \ {0} /\ j + 1 \in DOMAIN swQueue[w]
                /\ swQueue'[w][j] = swQueue[w][j + 1]
        BY <1>2, <2>2, <2>3, TailElems
    <2>5. ~In(swQueue'[w], h)
        <3> SUFFICES ASSUME NEW j \in DOMAIN swQueue'[w], swQueue'[w][j] = h PROVE FALSE
            BY DEF In
        <3>1. j + 1 = 1  BY <2>4 DEF Answers
        <3> QED  BY <2>4, <3>1
    <2>6. In(created, h) /\ woeker[h] = w  BY <2>4 DEF Answers
    <2>7. \A v \in SigWorkers : \A i \in DOMAIN swQueue'[v] :
             In(created, swQueue'[v][i]) /\ woeker[swQueue'[v][i]] = v
        <3>1. \A i \in DOMAIN swQueue'[w] :
                 In(created, swQueue'[w][i]) /\ woeker[swQueue'[w][i]] = w
            BY <2>4 DEF Answers
        <3>2. \A v \in SigWorkers : v # w => \A i \in DOMAIN swQueue'[v] :
                 In(created, swQueue'[v][i]) /\ woeker[swQueue'[v][i]] = v
            BY <2>2 DEF Answers
        <3> QED  BY <3>1, <3>2
    <2>8. \A v \in SigWorkers : \A i, j \in DOMAIN swQueue'[v] :
             swQueue'[v][i] = swQueue'[v][j] => i = j
        <3>1. \A i, j \in DOMAIN swQueue'[w] : swQueue'[w][i] = swQueue'[w][j] => i = j
            <4> SUFFICES ASSUME NEW i \in DOMAIN swQueue'[w], NEW j \in DOMAIN swQueue'[w],
                                swQueue'[w][i] = swQueue'[w][j]
                         PROVE  i = j
                OBVIOUS
            <4>1. i + 1 = j + 1  BY <2>4 DEF Answers
            <4> QED  BY <2>4, <4>1
        <3>2. \A v \in SigWorkers : v # w => \A i, j \in DOMAIN swQueue'[v] :
                 swQueue'[v][i] = swQueue'[v][j] => i = j
            BY <2>2 DEF Answers
        <3> QED  BY <3>1, <3>2
    <2>9. \A x \in Msgs, v \in SigWorkers : <<x, v>> \in delivered' =>
             In(created, x) /\ woeker[x] = v /\ ~In(swQueue'[v], x)
        <3> SUFFICES ASSUME NEW x \in Msgs, NEW v \in SigWorkers, <<x, v>> \in delivered'
                     PROVE  In(created, x) /\ woeker[x] = v /\ ~In(swQueue'[v], x)
            OBVIOUS
        <3>1. CASE x = h /\ v = w  BY <3>1, <2>5, <2>6
        <3>2. CASE <<x, v>> \in delivered
            <4>1. In(created, x) /\ woeker[x] = v /\ ~In(swQueue[v], x)
                BY <3>2 DEF Answers
            <4>2. CASE v = w
                <5>1. \A j \in DOMAIN swQueue'[w] : swQueue'[w][j] # x
                    BY <4>1, <4>2, <2>4 DEF In
                <5> QED  BY <4>1, <4>2, <5>1 DEF In
            <4>3. CASE v # w  BY <4>1, <4>3, <2>2
            <4> QED  BY <4>2, <4>3
        <3> QED  BY <3>1, <3>2, <2>1, <2>3
    <2> QED  BY <2>1, <2>7, <2>8, <2>9 DEF Answers
<1>3. ASSUME NEW r \in RtcWorkers, RwAnswer(r) PROVE Answers'
    <2>1. Known(rwMsg[r]) /\ rwAt[r] = "push"  BY <1>3 DEF RwAnswer, Placed
    <2>2. PICK x \in Msgs : x = rwMsg[r]  BY <2>1 DEF Known
    <2>3. PICK w \in SigWorkers : w = woeker[x]  BY <2>1, <2>2 DEF Placed, Known
    <2>4. /\ created' = Append(created, x)
          /\ swQueue' = [swQueue EXCEPT ![w] = Append(@, x)]
          /\ UNCHANGED <<woeker, delivered>>
        BY <1>3, <2>2, <2>3 DEF RwAnswer
    <2>5. ~In(created, x)  BY <2>1, <2>2, FreshAnswer
    <2>6. In(created', x) /\ \A y : In(created, y) => In(created', y)
        BY <1>0, <2>4, EarlierAppend
    <2>7. /\ swQueue[w] \in Seq(Msgs) /\ swQueue'[w] = Append(swQueue[w], x)
          /\ \A v \in SigWorkers : v # w => swQueue'[v] = swQueue[v]
        BY <1>0, <2>4
    <2>8. \A i \in DOMAIN swQueue'[w] :
             \/ i \in DOMAIN swQueue[w] /\ swQueue'[w][i] = swQueue[w][i]
             \/ i = Len(swQueue[w]) + 1 /\ swQueue'[w][i] = x
        BY <2>7, AppendElems
    <2>9. \A v \in SigWorkers : \A i \in DOMAIN swQueue'[v] :
             In(created', swQueue'[v][i]) /\ woeker[swQueue'[v][i]] = v
        <3>1. \A i \in DOMAIN swQueue'[w] :
                 In(created', swQueue'[w][i]) /\ woeker[swQueue'[w][i]] = w
            BY <2>3, <2>6, <2>8 DEF Answers
        <3>2. \A v \in SigWorkers : v # w => \A i \in DOMAIN swQueue'[v] :
                 In(created', swQueue'[v][i]) /\ woeker[swQueue'[v][i]] = v
            BY <2>6, <2>7 DEF Answers
        <3> QED  BY <3>1, <3>2
    <2>10. \A i \in DOMAIN swQueue[w] : swQueue[w][i] # x  BY <2>5 DEF Answers
    <2>11. \A v \in SigWorkers : \A i, j \in DOMAIN swQueue'[v] :
              swQueue'[v][i] = swQueue'[v][j] => i = j
        <3>1. \A i, j \in DOMAIN swQueue'[w] : swQueue'[w][i] = swQueue'[w][j] => i = j
            BY <2>8, <2>10 DEF Answers
        <3>2. \A v \in SigWorkers : v # w => \A i, j \in DOMAIN swQueue'[v] :
                 swQueue'[v][i] = swQueue'[v][j] => i = j
            BY <2>7 DEF Answers
        <3> QED  BY <3>1, <3>2
    <2>12. \A y \in Msgs, v \in SigWorkers : <<y, v>> \in delivered =>
              In(created', y) /\ woeker[y] = v /\ ~In(swQueue'[v], y)
        <3> SUFFICES ASSUME NEW y \in Msgs, NEW v \in SigWorkers, <<y, v>> \in delivered
                     PROVE  In(created', y) /\ woeker[y] = v /\ ~In(swQueue'[v], y)
            OBVIOUS
        <3>1. In(created, y) /\ woeker[y] = v /\ ~In(swQueue[v], y)  BY DEF Answers
        <3>2. y # x  BY <2>5, <3>1
        <3> QED  BY <2>6, <2>7, <2>8, <3>1, <3>2 DEF In
    <2> QED  BY <2>4, <2>9, <2>11, <2>12 DEF Answers
<1>4. ASSUME UNCHANGED <<created, swQueue, delivered, woeker>> PROVE Answers'
    BY <1>4 DEF Answers
<1>5. \/ \E w \in SigWorkers : \E m \in Msgs : SwPush(w, m)
      \/ \E w \in SigWorkers : SwTakeMsg(w) /\ swQueue[w] # <<>>
      \/ \E r \in RtcWorkers : RwAnswer(r)
      \/ UNCHANGED <<created, swQueue, delivered, woeker>>
    BY DEF Next, SwHandle, RsHandle, RwHandle, vars, swVars, rsVars, rwVars, acceptVars,
       SwNotify, SwTakeMsg, SwTakeConn, RsTake, RsKeepCert, RsNewCert, Forward, RsNoCert,
       RsNotify, Expire, RwTake, RwNotify, AcceptPush, AcceptNotify
<1> QED  BY <1>1, <1>2, <1>3, <1>4, <1>5

\* A worker's descriptors are among the accepted ones.
ConnBound == \A w \in SigWorkers : connQueue[w] <= accepted

\* Only accept adds a descriptor.
LEMMA ConnBoundStep ==
  ASSUME TypeOK, ConnBound, [Next]_vars
  PROVE  ConnBound'
<1>0. connQueue \in [SigWorkers -> Nat] /\ accepted \in Nat
    BY ConstantsAssumption DEF TypeOK, SwTypeOK
<1>1. CASE AcceptPush
    <2>1. /\ accepted' = accepted + 1
          /\ connQueue' = [connQueue EXCEPT ![accepted % NumSig] = @ + 1]
        BY <1>1 DEF AcceptPush
    <2> QED  BY <1>0, <2>1 DEF ConnBound
<1>2. ASSUME NEW w \in SigWorkers, SwTakeConn(w) PROVE ConnBound'
    <2>1. /\ connQueue' = [connQueue EXCEPT ![w] = IF @ = 0 THEN 0 ELSE @ - 1]
          /\ accepted' = accepted
        BY <1>2 DEF SwTakeConn, acceptVars
    <2> QED  BY <1>0, <2>1 DEF ConnBound
<1>3. CASE UNCHANGED <<connQueue, accepted>>
    BY <1>3 DEF ConnBound
<1>4. \/ AcceptPush \/ (\E w \in SigWorkers : SwTakeConn(w))
      \/ UNCHANGED <<connQueue, accepted>>
    BY DEF Next, SwHandle, RsHandle, RwHandle, vars, swVars, rsVars, rwVars, acceptVars,
       SwPush, SwNotify, SwTakeMsg, RsTake, RsKeepCert, RsNewCert, Forward, RsNoCert,
       RsNotify, Expire, RwTake, RwAnswer, RwNotify, AcceptNotify
<1> QED  BY <1>1, <1>2, <1>3, <1>4

(***************************************************************************)
(* The inductive invariant.                                                *)
(***************************************************************************)

IInv ==
    /\ TypeOK /\ Placed /\ NullPopUnreachable
    /\ RsAccount /\ RwAccount /\ SwAccount /\ ConnAccount
    /\ InOrder /\ Certified /\ Gone /\ Answers /\ ConnBound

\* The program starts with empty queues and a certificate.
LEMMA InvInit == Init => IInv
<1> SUFFICES ASSUME Init PROVE IInv
    OBVIOUS
<1>1. TypeOK /\ Placed  BY TypeInit
<1>2. InOrder  BY OrderInit
<1>3. RsAccount /\ NullPopUnreachable
    <2>1. Cardinality(swBusy) = 0  BY FS_EmptySet DEF Init
    <2> QED  BY <2>1 DEF Init, RsAccount, NullPopUnreachable
<1>4. RwAccount  BY DEF Init, RwAccount, RsNotifying
<1>5. \A k : Count(<<>>, k) = 0
    <2>1. \A k : {i \in DOMAIN <<>> : <<>>[i] = k} = {}  OBVIOUS
    <2> QED  BY <2>1, FS_EmptySet DEF Count
<1>6. SwAccount
    <2>1. \A w \in SigWorkers : Notifiers(w) = {}  BY DEF Init, Notifiers, Notifying
    <2>2. \A w \in SigWorkers : Cardinality(Notifiers(w)) = 0  BY <2>1, FS_EmptySet
    <2>3. \A w \in SigWorkers : Len(swQueue[w]) = 0 /\ swPipe[w] = <<>>  BY DEF Init
    <2> QED  BY <1>5, <2>2, <2>3 DEF SwAccount
<1>7. ConnAccount
    <2>1. \A w \in SigWorkers : acceptTo # w
        BY ConstantsAssumption DEF Init, SigWorkers
    <2> QED  BY <1>5, <2>1 DEF Init, ConnAccount
<1>8. Certified /\ Gone /\ Answers /\ ConnBound
    BY DEF Init, Certified, Gone, Answers, ConnBound
<1> QED  BY <1>1, <1>2, <1>3, <1>4, <1>6, <1>7, <1>8 DEF IInv

\* Every step of every thread keeps the invariant.
LEMMA InvStep == IInv /\ [Next]_vars => IInv'
<1> SUFFICES ASSUME IInv, [Next]_vars PROVE IInv'
    OBVIOUS
<1> USE DEF IInv
<1>1. TypeOK' /\ Placed'  BY TypeStep
<1>2. RsAccount' /\ NullPopUnreachable'  BY RsAccountStep
<1>3. RwAccount' /\ SwAccount' /\ ConnAccount'
    BY RwAccountStep, SwAccountStep, ConnAccountStep
<1>4. InOrder' /\ Certified'  BY OrderStep, CertifiedStep
<1>5. Gone' /\ Answers' /\ ConnBound'  BY GoneStep, AnswersStep, ConnBoundStep
<1> QED  BY <1>1, <1>2, <1>3, <1>4, <1>5

\* The invariant holds in every state the threads can reach.
THEOREM Invariance == Spec => []IInv
<1> QED  BY InvInit, InvStep, PTL DEF Spec

(***************************************************************************)
(* What follows from it.                                                   *)
(***************************************************************************)

\* For any number of workers, requests, connections and certificates and any
\* size of the pipes, every variable of the threads keeps its type.
THEOREM TypeCorrect == Spec => []TypeOK
<1>1. IInv => TypeOK  BY DEF IInv
<1> QED  BY <1>1, Invariance, PTL

\* RtcServer never dereferences the null message of an empty queue.
THEOREM NoNullPop == Spec => []NullPopUnreachable
<1>1. IInv => NullPopUnreachable  BY DEF IInv
<1> QED  BY <1>1, Invariance, PTL

\* Every queued message and descriptor has its token, in the pipe or on the way.
THEOREM OneTokenEach == Spec => []TokenPerMessage
<1>1. IInv => TokenPerMessage  BY Accounts DEF IInv
<1> QED  BY <1>1, Invariance, PTL

\* No offer is made without a certificate.
THEOREM Certificates == Spec => []OfferHasCertificate
<1>1. IInv => OfferHasCertificate  BY DEF IInv, Certified, OfferHasCertificate
<1> QED  BY <1>1, Invariance, PTL

\* Pushes of one stream are processed in the order of their submission.
THEOREM Ordered == Spec => []StreamsInOrder
<1>1. IInv => StreamsInOrder
    <2> SUFFICES ASSUME IInv, NEW i \in DOMAIN created, NEW j \in DOMAIN created, i < j,
                        StreamOf[created[i]] = StreamOf[created[j]]
                 PROVE  Earlier(submitted, created[i], created[j])
        BY DEF StreamsInOrder, Earlier
    <2> QED  BY DEF IInv, InOrder, CreatedOrder, RtcWorkerOf, B
<1> QED  BY <1>1, Invariance, PTL

Elems(s) == {s[i] : i \in DOMAIN s}

\* A queue without repetitions holds as many messages as it is long.
LEMMA ElemsCount ==
  ASSUME NEW S, NEW s \in Seq(S), \A i, j \in DOMAIN s : s[i] = s[j] => i = j
  PROVE  Elems(s) \subseteq S /\ IsFiniteSet(Elems(s)) /\ Cardinality(Elems(s)) = Len(s)
<1> DEFINE D == 1 .. Len(s)
           E == Elems(s)
<1>1. DOMAIN s = D /\ Len(s) \in Nat /\ s \in [D -> S]  BY LenProperties
<1>2. IsFiniteSet(D) /\ Cardinality(D) = Len(s)  BY <1>1, FS_Interval, SMTT(30)
<1>3. E \subseteq S /\ s \in [D -> E]  BY <1>1 DEF Elems
<1>4. ExistsBijection(D, E)
    <2>1. s \in Surjection(D, E)  BY <1>1, <1>3, Fun_IsSurj DEF Elems
    <2>2. s \in Injection(D, E)  BY <1>1, <1>3, Fun_IsInj
    <2> QED  BY <2>1, <2>2 DEF Bijection, ExistsBijection
<1> HIDE DEF D, E
<1>5. IsFiniteSet(E) /\ Cardinality(E) = Len(s)  BY <1>2, <1>4, FS_Bijection
<1> QED  BY <1>3, <1>5 DEF E

\* Disjoint sets add up.
LEMMA DisjointUnion ==
  ASSUME NEW S, NEW T, IsFiniteSet(S), IsFiniteSet(T), S \intersect T = {}
  PROVE  /\ IsFiniteSet(S \union T)
         /\ Cardinality(S \union T) = Cardinality(S) + Cardinality(T)
<1>1. /\ IsFiniteSet(S \union T)
      /\ Cardinality(S \union T) = Cardinality(S) + Cardinality(T) - Cardinality(S \intersect T)
    BY FS_Union
<1>2. Cardinality(S \intersect T) = 0  BY FS_EmptySet
<1>3. Cardinality(S) \in Nat /\ Cardinality(T) \in Nat  BY FS_CardinalityType
<1> QED  BY <1>1, <1>2, <1>3

\* A signaling worker's pipe holds tokens of two kinds.
LEMMA CountKinds ==
  ASSUME NEW s \in Seq({"NEW_CONN", "RTC_MSG"})
  PROVE  Len(s) = Count(s, "RTC_MSG") + Count(s, "NEW_CONN")
<1> DEFINE T == {i \in DOMAIN s : s[i] = "RTC_MSG"}
           U == {i \in DOMAIN s : s[i] = "NEW_CONN"}
<1>1. DOMAIN s = 1 .. Len(s) /\ Len(s) \in Nat
      /\ \A i \in 1 .. Len(s) : s[i] \in {"NEW_CONN", "RTC_MSG"}
    BY LenProperties, ElementOfSeq
<1>2. T \union U = 1 .. Len(s) /\ T \intersect U = {}  BY <1>1
<1>3. Cardinality(1 .. Len(s)) = Len(s)  BY <1>1, FS_Interval, SMTT(30)
<1>4. /\ IsFiniteSet(T) /\ IsFiniteSet(U)
      /\ Cardinality(T) \in Nat /\ Cardinality(U) \in Nat
      /\ Count(s, "RTC_MSG") = Cardinality(T) /\ Count(s, "NEW_CONN") = Cardinality(U)
    BY CountFinite DEF Count
<1> HIDE DEF T, U
<1>5. Cardinality(T \union U) = Cardinality(T) + Cardinality(U)
    BY <1>2, <1>4, DisjointUnion
<1> QED  BY <1>2, <1>3, <1>4, <1>5

\* The messages in three queues along a circle are different messages.
LEMMA ThreeQueues ==
  ASSUME IInv, NEW r \in RtcWorkers, NEW w \in SigWorkers
  PROVE  Len(rsQueue) + Len(rwQueue[r]) + Len(swQueue[w]) <= Cardinality(Msgs)
<1> DEFINE X == Elems(rsQueue)
           Y == Elems(rwQueue[r])
           Z == Elems(swQueue[w])
<1>0. /\ rsQueue \in Seq(Msgs) /\ rwQueue[r] \in Seq(Msgs) /\ swQueue[w] \in Seq(Msgs)
      /\ Len(rsQueue) \in Nat /\ Len(rwQueue[r]) \in Nat /\ Len(swQueue[w]) \in Nat
      /\ DOMAIN rsQueue = 1 .. Len(rsQueue) /\ DOMAIN rwQueue[r] = 1 .. Len(rwQueue[r])
    BY LenProperties DEF IInv, TypeOK, SwTypeOK, RsTypeOK, RwTypeOK
<1>1. \A a, b : B(a, b) => a # b  BY OnePlace DEF IInv
<1>2. X \subseteq Msgs /\ IsFiniteSet(X) /\ Cardinality(X) = Len(rsQueue)
    <2>1. \A i, j \in DOMAIN rsQueue : i < j => rsQueue[i] # rsQueue[j]
        BY <1>1 DEF IInv, InOrder, RsOrder
    <2>2. \A i, j \in DOMAIN rsQueue : rsQueue[i] = rsQueue[j] => i = j
        BY <1>0, <2>1
    <2> QED  BY <1>0, <2>2, ElemsCount
<1>3. Y \subseteq Msgs /\ IsFiniteSet(Y) /\ Cardinality(Y) = Len(rwQueue[r])
    <2>1. \A i, j \in DOMAIN rwQueue[r] : i < j => rwQueue[r][i] # rwQueue[r][j]
        BY <1>1 DEF IInv, InOrder, RwOrder
    <2>2. \A i, j \in DOMAIN rwQueue[r] : rwQueue[r][i] = rwQueue[r][j] => i = j
        BY <1>0, <2>1
    <2> QED  BY <1>0, <2>2, ElemsCount
<1>4. Z \subseteq Msgs /\ IsFiniteSet(Z) /\ Cardinality(Z) = Len(swQueue[w])
    BY <1>0, ElemsCount DEF IInv, Answers
<1>5. X \intersect Y = {}
    BY <1>1 DEF Elems, IInv, InOrder, RwOrder, AheadOfRs
<1>6. \A z \in Z : In(created, z)  BY DEF Elems, IInv, Answers
<1>7. X \intersect Z = {}
    <2>1. \A z : In(created, z) => AheadOfRs(z)  BY DEF IInv, InOrder, CreatedOrder, In
    <2> QED  BY <1>1, <1>6, <2>1 DEF Elems, AheadOfRs
<1>8. Y \intersect Z = {}
    <2> SUFFICES ASSUME NEW y \in Y, In(created, y) PROVE FALSE
        BY <1>6
    <2>1. PICK j \in DOMAIN rwQueue[r] : y = rwQueue[r][j]  BY DEF Elems
    <2>2. RtcWorkerOf(y) = r  BY <2>1 DEF IInv, InOrder, RwOrder
    <2>3. AheadOfRw(y, r)  BY <2>2 DEF IInv, InOrder, CreatedOrder, In
    <2> QED  BY <1>1, <2>1, <2>3 DEF AheadOfRw
<1>9. /\ IsFiniteSet(Msgs) /\ Cardinality(Msgs) \in Nat /\ Cardinality({}) = 0
    BY ConstantsAssumption, FS_CardinalityType, FS_EmptySet
<1> HIDE DEF X, Y, Z
<1>10. IsFiniteSet(X \union Y) /\ Cardinality(X \union Y) = Cardinality(X) + Cardinality(Y)
    BY <1>2, <1>3, <1>5, DisjointUnion
<1>11. Cardinality((X \union Y) \union Z) = Cardinality(X \union Y) + Cardinality(Z)
    <2>1. (X \union Y) \intersect Z = {}  BY <1>7, <1>8
    <2> DEFINE W == X \union Y
    <2>2. IsFiniteSet(W) /\ W \intersect Z = {}  BY <1>10, <2>1
    <2> HIDE DEF W
    <2>3. Cardinality(W \union Z) = Cardinality(W) + Cardinality(Z)
        BY <1>4, <2>2, DisjointUnion
    <2> QED  BY <2>3 DEF W
<1>12. (X \union Y) \union Z \in SUBSET Msgs  BY <1>2, <1>3, <1>4
<1>13. Cardinality((X \union Y) \union Z) <= Cardinality(Msgs)  BY <1>9, <1>12, FS_Subset
<1> QED  BY <1>0, <1>2, <1>3, <1>4, <1>10, <1>11, <1>13

\* What three blocked threads and their full pipes add up to.
LEMMA CircleSize ==
  ASSUME NEW n \in Nat, NEW cap \in Nat, NEW conns \in Nat,
         NEW rs \in Nat, NEW rw \in Nat, NEW sw \in Nat, NEW kt \in Nat, NEW kc \in Nat,
         rs >= cap + 1, rw >= cap + 1, sw >= kt + 1, kt + kc >= cap, kc <= conns,
         rs + rw + sw <= n
  PROVE  n + conns >= 3 * cap + 3 /\ n >= 2 * cap + 3
  OBVIOUS

\* The messages and connections a circle of blocked threads holds exceed the bounds.
LEMMA CircleFree == IInv => NoCircularWait
<1>1. ASSUME IInv, NEW w \in SigWorkers, NEW r \in RtcWorkers,
             w \in swBusy, PipeFull(rsTokens), RsNotifying(r), PipeFull(rwTokens[r]),
             Notifying(r, w), PipeFull(Len(swPipe[w]))
      PROVE  /\ Cardinality(Msgs) + MaxConns >= 3 * PipeCap + 3
             /\ Cardinality(Msgs) >= 2 * PipeCap + 3
    <2>0. /\ rsTokens \in Nat /\ rwTokens[r] \in Nat /\ accepted \in Nat /\ accepted <= MaxConns
          /\ connQueue[w] \in Nat /\ swPipe[w] \in Seq({"NEW_CONN", "RTC_MSG"})
          /\ Len(swPipe[w]) \in Nat
        BY <1>1, ConstantsAssumption, LenProperties DEF IInv, TypeOK, SwTypeOK, RsTypeOK, RwTypeOK
    <2>1. Len(rsQueue) >= PipeCap + 1
        <3>1. IsFiniteSet(swBusy)
            BY <1>1, WorkersFinite, FS_Subset DEF IInv, TypeOK, SwTypeOK
        <3>2. Cardinality(swBusy) \in Nat /\ Cardinality(swBusy) # 0
            BY <1>1, <3>1, FS_CardinalityType, FS_EmptySet
        <3> QED  BY <1>1, <2>0, <3>2, ConstantsAssumption DEF IInv, RsAccount, PipeFull
    <2>2. Len(rwQueue[r]) >= PipeCap + 1
        BY <1>1, <2>0, ConstantsAssumption DEF IInv, RwAccount, PipeFull
    <2>3. Len(swQueue[w]) >= Count(swPipe[w], "RTC_MSG") + 1
        <3>1. r \in Notifiers(w)  BY <1>1 DEF Notifiers
        <3>2. Cardinality(Notifiers(w)) \in Nat /\ Cardinality(Notifiers(w)) # 0
            BY <3>1, NotifiersFinite, FS_EmptySet
        <3>3. Count(swPipe[w], "RTC_MSG") \in Nat  BY <2>0, CountFinite
        <3> QED  BY <1>1, <3>2, <3>3 DEF IInv, SwAccount
    <2>4. /\ Count(swPipe[w], "RTC_MSG") \in Nat /\ Count(swPipe[w], "NEW_CONN") \in Nat
          /\ Count(swPipe[w], "RTC_MSG") + Count(swPipe[w], "NEW_CONN") >= PipeCap
        BY <1>1, <2>0, CountFinite, CountKinds DEF PipeFull
    <2>5. Count(swPipe[w], "NEW_CONN") <= MaxConns
        <3>1. connQueue[w] >= Count(swPipe[w], "NEW_CONN") /\ connQueue[w] <= accepted
            BY <1>1, <2>0, <2>4 DEF IInv, ConnAccount, ConnBound
        <3> QED  BY <2>0, <2>4, <3>1, ConstantsAssumption
    <2>6. /\ Len(rsQueue) \in Nat /\ Len(rwQueue[r]) \in Nat /\ Len(swQueue[w]) \in Nat
          /\ Cardinality(Msgs) \in Nat
        BY <1>1, ConstantsAssumption, FS_CardinalityType, LenProperties
        DEF IInv, TypeOK, SwTypeOK, RsTypeOK, RwTypeOK
    <2>7. Len(rsQueue) + Len(rwQueue[r]) + Len(swQueue[w]) <= Cardinality(Msgs)
        BY <1>1, ThreeQueues
    <2> DEFINE n  == Cardinality(Msgs)
               rs == Len(rsQueue)
               rw == Len(rwQueue[r])
               sw == Len(swQueue[w])
               kt == Count(swPipe[w], "RTC_MSG")
               kc == Count(swPipe[w], "NEW_CONN")
    <2>8. /\ PipeCap \in Nat /\ MaxConns \in Nat /\ n \in Nat
          /\ rs \in Nat /\ rw \in Nat /\ sw \in Nat /\ kt \in Nat /\ kc \in Nat
        BY <2>4, <2>6, ConstantsAssumption
    <2>9. /\ rs >= PipeCap + 1 /\ rw >= PipeCap + 1 /\ sw >= kt + 1
          /\ kt + kc >= PipeCap /\ kc <= MaxConns /\ rs + rw + sw <= n
        BY <2>1, <2>2, <2>3, <2>4, <2>5, <2>7
    <2> HIDE DEF n, rs, rw, sw, kt, kc
    <2>10. n + MaxConns >= 3 * PipeCap + 3 /\ n >= 2 * PipeCap + 3
        BY <2>8, <2>9, CircleSize
    <2> QED  BY <2>10 DEF n
<1>2. IInv => NoCircularWait
    <2>1. Cardinality(Msgs) \in Nat  BY ConstantsAssumption, FS_CardinalityType
    <2> QED  BY <1>1, <2>1, ConstantsAssumption DEF NoCircularWait, CircularWait
<1> QED  BY <1>2

\* Below the two bounds the blocking writes of a signaling worker, RtcServer and
\* an rtc worker never wait for each other in a circle.
THEOREM NoDeadlock == Spec => []NoCircularWait
<1> QED  BY CircleFree, Invariance, PTL

(***************************************************************************)
(* The refinement.  Under the invariant the cases of Status exclude one    *)
(* another, so that they may be read as a chain of tests.                  *)
(***************************************************************************)

Stage(m) ==
    IF m \in unsent THEN "new"
    ELSE IF m \in dropped THEN "dropped"
    ELSE IF <<m, woeker[m]>> \in delivered THEN "delivered"
    ELSE IF In(swQueue[woeker[m]], m) THEN "answered"
    ELSE "pending"

Staged == \A m \in Msgs : Status(m) = Stage(m)

\* Status is the chain of tests.
LEMMA StatusStage == IInv => Staged
<1> SUFFICES ASSUME IInv, NEW m \in Msgs PROVE Status(m) = Stage(m)
    BY DEF Staged
<1>0. delivered \subseteq Msgs \X SigWorkers  BY DEF IInv, TypeOK, SwTypeOK
<1>1. \A w \in SigWorkers : <<m, w>> \in delivered =>
         In(created, m) /\ woeker[m] = w /\ ~In(swQueue[w], m)
    BY DEF IInv, Answers
<1>2. In(created, m) => m \notin unsent
    BY DEF IInv, InOrder, History, In, Known
<1>3. m \in dropped => m \notin unsent /\ ~In(created, m)  BY DEF IInv, Gone, Known
<1>4. m \notin unsent => woeker[m] \in SigWorkers  BY DEF IInv, Placed
<1>5. m \notin unsent /\ In(swQueue[woeker[m]], m) => In(created, m)
    BY <1>4 DEF IInv, Answers, In
<1>6. CASE m \in unsent
    <2>1. m \notin dropped /\ \A w \in SigWorkers : <<m, w>> \notin delivered
        BY <1>6, <1>1, <1>2, <1>3
    <2> QED  BY <1>6, <2>1 DEF Status, Stage
<1>7. CASE m \in dropped
    <2>1. /\ m \notin unsent /\ ~In(swQueue[woeker[m]], m)
          /\ \A w \in SigWorkers : <<m, w>> \notin delivered
        BY <1>7, <1>1, <1>3, <1>5
    <2> QED  BY <1>7, <2>1 DEF Status, Stage, In
<1>8. CASE m \notin unsent /\ m \notin dropped /\ <<m, woeker[m]>> \in delivered
    <2>1. ~In(swQueue[woeker[m]], m)  BY <1>1, <1>4, <1>8
    <2> QED  BY <1>4, <1>8, <2>1 DEF Status, Stage, In
<1>9. CASE m \notin unsent /\ m \notin dropped /\ <<m, woeker[m]>> \notin delivered
    <2>1. \A w \in SigWorkers : <<m, w>> \notin delivered  BY <1>1, <1>9
    <2> QED  BY <1>9, <2>1 DEF Status, Stage, In
<1> QED  BY <1>6, <1>7, <1>8, <1>9

\* Each step moves at most one request, and moves it as RtcBackend allows.
LEMMA BackendStep ==
  ASSUME IInv, Staged, Staged', [Next]_vars
  PROVE  [Backend!Next]_(Backend!vars)
<1>0. /\ unsent \subseteq Msgs /\ dropped \subseteq Msgs /\ created \in Seq(Msgs)
      /\ swQueue \in [SigWorkers -> Seq(Msgs)] /\ delivered \subseteq Msgs \X SigWorkers
      /\ woeker \in [Msgs -> SigWorkers \union {None}]
    BY DEF IInv, TypeOK, SwTypeOK, RsTypeOK, RwTypeOK
<1>1. ASSUME NEW x \in Msgs, NEW from, NEW to, Stage(x) = from, Stage(x)' = to,
             \A y \in Msgs : y # x => Stage(y)' = Stage(y)
      PROVE  /\ [m \in Msgs |-> Status(m)][x] = from
             /\ [m \in Msgs |-> Status(m)]'
                = [[m \in Msgs |-> Status(m)] EXCEPT ![x] = to]
    BY <1>1 DEF Staged
<1>2. ASSUME NEW w \in SigWorkers, NEW m \in Msgs, SwPush(w, m)
      PROVE  Backend!Next
    <2>1. /\ m \in unsent /\ unsent' = unsent \ {m} /\ woeker' = [woeker EXCEPT ![m] = w]
          /\ UNCHANGED <<swQueue, delivered, dropped>>
        BY <1>2 DEF SwPush
    <2>2. ~In(created, m) /\ m \notin dropped
        BY <2>1 DEF IInv, InOrder, History, Gone, Known, In
    <2>3. ~In(swQueue[w], m) /\ <<m, w>> \notin delivered
        BY <2>2 DEF IInv, Answers, In
    <2>4. woeker'[m] = w /\ \A y \in Msgs : y # m => woeker'[y] = woeker[y]
        BY <1>0, <2>1
    <2>5. Stage(m) = "new" /\ Stage(m)' = "pending"
        BY <2>1, <2>2, <2>3, <2>4 DEF Stage
    <2>6. \A y \in Msgs : y # m => Stage(y)' = Stage(y)
        BY <2>1, <2>4 DEF Stage
    <2>7. Backend!Submit(m, w)
        BY <1>1, <2>1, <2>5, <2>6 DEF Backend!Submit
    <2> QED  BY <2>7 DEF Backend!Next
<1>3. ASSUME NEW w \in SigWorkers, SwTakeMsg(w), swQueue[w] # <<>>
      PROVE  Backend!Next
    <2>1. /\ swQueue' = [swQueue EXCEPT ![w] = Tail(@)]
          /\ delivered' = delivered \union {<<Head(swQueue[w]), w>>}
          /\ UNCHANGED <<unsent, woeker, dropped>>
        BY <1>3 DEF SwTakeMsg, rsVars
    <2>2. /\ swQueue[w] \in Seq(Msgs) /\ swQueue'[w] = Tail(swQueue[w])
          /\ \A v \in SigWorkers : v # w => swQueue'[v] = swQueue[v]
        BY <1>0, <2>1
    <2>3. PICK h \in Msgs : h = Head(swQueue[w])  BY <1>3, <2>2, TailElems
    <2>4. h = swQueue[w][1] /\ 1 \in DOMAIN swQueue[w]
        BY <1>3, <2>2, <2>3, TailElems
    <2>5. /\ In(created, h) /\ woeker[h] = w /\ In(swQueue[w], h)
          /\ <<h, w>> \notin delivered
        BY <2>4 DEF IInv, Answers, In
    <2>6. h \notin unsent /\ h \notin dropped
        BY <2>5 DEF IInv, InOrder, History, Gone, Known, In
    <2>7. Stage(h) = "answered"  BY <2>5, <2>6 DEF Stage
    <2>8. Stage(h)' = "delivered"  BY <2>1, <2>3, <2>5, <2>6 DEF Stage
    <2>9. \A y : y # h => (In(swQueue'[w], y) <=> In(swQueue[w], y))
        <3>1. /\ DOMAIN swQueue[w] = 1 .. Len(swQueue[w]) /\ Len(swQueue[w]) \in Nat
              /\ DOMAIN swQueue'[w] = 1 .. Len(swQueue[w]) - 1
              /\ \A i \in 1 .. Len(swQueue[w]) - 1 : swQueue'[w][i] = swQueue[w][i + 1]
            BY <1>3, <2>2, LenProperties, HeadTailProperties
        <3> SUFFICES ASSUME NEW y, y # h PROVE In(swQueue'[w], y) <=> In(swQueue[w], y)
            OBVIOUS
        <3>2. ASSUME NEW i \in DOMAIN swQueue[w], swQueue[w][i] = y PROVE In(swQueue'[w], y)
            <4>1. i # 1  BY <2>4, <3>2
            <4>2. i - 1 \in DOMAIN swQueue'[w] /\ swQueue'[w][i - 1] = y
                BY <3>1, <3>2, <4>1
            <4> QED  BY <4>2 DEF In
        <3>3. ASSUME NEW i \in DOMAIN swQueue'[w], swQueue'[w][i] = y PROVE In(swQueue[w], y)
            <4>1. i + 1 \in DOMAIN swQueue[w] /\ swQueue[w][i + 1] = y  BY <3>1, <3>3
            <4> QED  BY <4>1 DEF In
        <3> QED  BY <3>2, <3>3 DEF In
    <2>10. \A y \in Msgs : y # h => Stage(y)' = Stage(y)
        <3> SUFFICES ASSUME NEW y \in Msgs, y # h, y \notin unsent PROVE Stage(y)' = Stage(y)
            BY <2>1 DEF Stage
        <3>1. woeker[y] \in SigWorkers  BY DEF IInv, Placed
        <3>2. <<y, woeker[y]>> \in delivered' <=> <<y, woeker[y]>> \in delivered
            BY <2>1, <2>3
        <3>3. In(swQueue'[woeker[y]], y) <=> In(swQueue[woeker[y]], y)
            BY <2>2, <2>9, <3>1
        <3> QED  BY <2>1, <3>2, <3>3 DEF Stage
    <2>11. Backend!Deliver(h, w)
        BY <1>1, <2>1, <2>5, <2>7, <2>8, <2>10 DEF Backend!Deliver, Backend!Move
    <2> QED  BY <2>11 DEF Backend!Next
<1>4. ASSUME RsNoCert PROVE Backend!Next
    <2>1. /\ rsAt = "check" /\ dropped' = dropped \union {rsMsg}
          /\ UNCHANGED <<unsent, woeker, swQueue, delivered>>
        BY <1>4 DEF RsNoCert, swVars
    <2>2. Known(rsMsg)  BY <2>1 DEF IInv, Placed
    <2>3. PICK x \in Msgs : x = rsMsg  BY <2>2 DEF Known
    <2>4. \A y : AheadOfRs(y) => y # x
        BY <2>1, <2>3, OnePlace DEF IInv, AheadOfRs
    <2>5. x \notin unsent /\ x \notin dropped /\ ~In(created, x) /\ woeker[x] \in SigWorkers
        BY <2>2, <2>3, <2>4 DEF IInv, Known, Gone, InOrder, CreatedOrder, In, Placed
    <2>6. <<x, woeker[x]>> \notin delivered /\ ~In(swQueue[woeker[x]], x)
        BY <2>5 DEF IInv, Answers, In
    <2>7. Stage(x) = "pending"  BY <2>5, <2>6 DEF Stage
    <2>8. Stage(x)' = "dropped"  BY <2>1, <2>3, <2>5 DEF Stage
    <2>9. \A y \in Msgs : y # x => Stage(y)' = Stage(y)  BY <2>1, <2>3 DEF Stage
    <2>10. Backend!Drop(x)
        BY <1>1, <2>1, <2>7, <2>8, <2>9 DEF Backend!Drop, Backend!Move
    <2> QED  BY <2>10 DEF Backend!Next
<1>5. ASSUME NEW r \in RtcWorkers, RwAnswer(r) PROVE Backend!Next
    <2>1. Known(rwMsg[r]) /\ rwAt[r] = "push"  BY <1>5 DEF RwAnswer, IInv, Placed
    <2>2. PICK x \in Msgs : x = rwMsg[r]  BY <2>1 DEF Known
    <2>3. PICK w \in SigWorkers : w = woeker[x]  BY <2>1, <2>2 DEF IInv, Placed, Known
    <2>4. /\ swQueue' = [swQueue EXCEPT ![w] = Append(@, x)]
          /\ UNCHANGED <<unsent, dropped, woeker, delivered>>
        BY <1>5, <2>2, <2>3 DEF RwAnswer, rsVars
    <2>5. x \notin unsent /\ x \notin dropped /\ ~In(created, x)
        BY <2>1, <2>2, FreshAnswer DEF IInv, Known, Gone
    <2>6. <<x, w>> \notin delivered /\ ~In(swQueue[w], x)
        BY <2>5 DEF IInv, Answers, In
    <2>7. /\ swQueue[w] \in Seq(Msgs) /\ swQueue'[w] = Append(swQueue[w], x)
          /\ \A v \in SigWorkers : v # w => swQueue'[v] = swQueue[v]
        BY <1>0, <2>4
    <2>8. /\ In(swQueue'[w], x)
          /\ \A y : y # x => (In(swQueue'[w], y) <=> In(swQueue[w], y))
        <3>1. In(swQueue'[w], x) /\ \A y : In(swQueue[w], y) => In(swQueue'[w], y)
            BY <2>7, EarlierAppend
        <3>2. \A i \in DOMAIN swQueue'[w] :
                 (i \in DOMAIN swQueue[w] /\ swQueue'[w][i] = swQueue[w][i]) \/ swQueue'[w][i] = x
            BY <2>7, AppendElems
        <3>3. \A y : y # x /\ In(swQueue'[w], y) => In(swQueue[w], y)
            BY <3>2 DEF In
        <3> QED  BY <3>1, <3>3
    <2>9. Stage(x) = "pending"  BY <2>3, <2>5, <2>6 DEF Stage
    <2>10. Stage(x)' = "answered"  BY <2>3, <2>4, <2>5, <2>6, <2>8 DEF Stage
    <2>11. \A y \in Msgs : y # x => Stage(y)' = Stage(y)
        <3> SUFFICES ASSUME NEW y \in Msgs, y # x, y \notin unsent PROVE Stage(y)' = Stage(y)
            BY <2>4 DEF Stage
        <3>1. woeker[y] \in SigWorkers  BY DEF IInv, Placed
        <3>2. In(swQueue'[woeker[y]], y) <=> In(swQueue[woeker[y]], y)
            BY <2>7, <2>8, <3>1
        <3> QED  BY <2>4, <3>2 DEF Stage
    <2>12. Backend!Answer(x)
        BY <1>1, <2>4, <2>9, <2>10, <2>11 DEF Backend!Answer, Backend!Move
    <2> QED  BY <2>12 DEF Backend!Next
<1>6. ASSUME UNCHANGED <<unsent, woeker, swQueue, delivered, dropped>>
      PROVE  UNCHANGED Backend!vars
    <2>1. \A m \in Msgs : Stage(m)' = Stage(m)  BY <1>6 DEF Stage
    <2> QED  BY <1>6, <2>1 DEF Staged, Backend!vars
<1>7. \/ \E w \in SigWorkers : \E m \in Msgs : SwPush(w, m)
      \/ \E w \in SigWorkers : SwTakeMsg(w) /\ swQueue[w] # <<>>
      \/ RsNoCert
      \/ \E r \in RtcWorkers : RwAnswer(r)
      \/ UNCHANGED <<unsent, woeker, swQueue, delivered, dropped>>
    BY DEF Next, SwHandle, RsHandle, RwHandle, vars, swVars, rsVars, rwVars, acceptVars,
       SwNotify, SwTakeMsg, SwTakeConn, RsTake, RsKeepCert, RsNewCert, Forward,
       RsNotify, Expire, RwTake, RwNotify, AcceptPush, AcceptNotify
<1> QED  BY <1>2, <1>3, <1>4, <1>5, <1>6, <1>7

\* The threads together keep RtcBackend's promise to the signaling workers:
\* every answer goes, once, to the worker that submitted the request, and a
\* request that is not answered has been given up by RtcServer.
THEOREM Refinement == Spec => ImplementsBackend
<1>1. Init => Backend!Init
    <2>1. Init => [m \in Msgs |-> Status(m)] = [m \in Msgs |-> "new"]
        <3> SUFFICES ASSUME Init, NEW m \in Msgs PROVE Status(m) = "new"
            OBVIOUS
        <3> QED  BY InvInit, StatusStage DEF Staged, Stage, Init
    <2> QED  BY <2>1 DEF Init, Backend!Init
<1>2. IInv /\ Staged /\ Staged' /\ [Next]_vars => [Backend!Next]_(Backend!vars)
    BY BackendStep
<1> QED  BY <1>1, <1>2, StatusStage, Invariance, PTL DEF Spec, ImplementsBackend, Backend!Spec

\* A request that has been delivered or given up stays so: nothing handles it a
\* second time, and nobody changes msg->woeker once the request has been sent.
SettledForGood ==
    \A m \in Msgs :
        /\ Status(m) \in {"delivered", "dropped"} => Status(m)' = Status(m)
        /\ Status(m) # "new" => Status(m)' # "new" /\ woeker'[m] = woeker[m]

\* What one step of RtcBackend does to one request.
LEMMA MoveOne ==
    ASSUME NEW f, DOMAIN f = Msgs, NEW x \in Msgs, NEW to, NEW g, g = [f EXCEPT ![x] = to]
    PROVE  g[x] = to /\ \A m \in Msgs : m # x => g[m] = f[m]
<1> QED  OBVIOUS

\* It is so for every step of the threads, because it is for every step of
\* RtcBackend.
THEOREM SettledOnce == Spec => [][SettledForGood]_vars
<1>1. ASSUME IInv, Staged, Staged', [Next]_vars PROVE SettledForGood
    <2> DEFINE f == [m \in Msgs |-> Status(m)]
    <2>1. [Backend!Next]_(Backend!vars)  BY <1>1, BackendStep
    <2>2. DOMAIN woeker = Msgs  BY <1>1 DEF IInv, TypeOK, SwTypeOK
    <2>3. DOMAIN f = Msgs /\ \A m \in Msgs : f[m] = Status(m) /\ f'[m] = Status(m)'
        OBVIOUS
    <2>4. \/ \E x \in Msgs, w \in SigWorkers :
                /\ f[x] = "new" /\ f' = [f EXCEPT ![x] = "pending"]
                /\ woeker' = [woeker EXCEPT ![x] = w]
          \/ \E x \in Msgs, to \in {"answered", "dropped", "delivered"} :
                /\ f[x] \in {"pending", "answered"} /\ f' = [f EXCEPT ![x] = to]
                /\ woeker' = woeker
          \/ f' = f /\ woeker' = woeker
        BY <2>1 DEF Backend!Next, Backend!vars, Backend!Submit, Backend!Deliver,
           Backend!Answer, Backend!Drop, Backend!Move
    <2> HIDE DEF f
    <2>5. ASSUME NEW m \in Msgs
          PROVE  /\ f[m] \in {"delivered", "dropped"} => f'[m] = f[m]
                 /\ f[m] # "new" => f'[m] # "new" /\ woeker'[m] = woeker[m]
        <3>1. ASSUME NEW x \in Msgs, NEW w \in SigWorkers,
                     f[x] = "new", f' = [f EXCEPT ![x] = "pending"],
                     woeker' = [woeker EXCEPT ![x] = w]
              PROVE  /\ f[m] \in {"delivered", "dropped"} => f'[m] = f[m]
                     /\ f[m] # "new" => f'[m] # "new" /\ woeker'[m] = woeker[m]
            BY <2>2, <2>3, <3>1, MoveOne
        <3>2. ASSUME NEW x \in Msgs, NEW to \in {"answered", "dropped", "delivered"},
                     f[x] \in {"pending", "answered"}, f' = [f EXCEPT ![x] = to],
                     woeker' = woeker
              PROVE  /\ f[m] \in {"delivered", "dropped"} => f'[m] = f[m]
                     /\ f[m] # "new" => f'[m] # "new" /\ woeker'[m] = woeker[m]
            BY <2>3, <3>2, MoveOne
        <3> QED  BY <2>4, <3>1, <3>2
    <2> QED  BY <2>3, <2>5 DEF SettledForGood
<1> QED  BY <1>1, StatusStage, Invariance, PTL DEF Spec

(***************************************************************************)
(* No standstill before the work is done.  EveryRequestSettled needs the   *)
(* scheduler's fairness; what the code itself contributes to it is that    *)
(* the threads cannot all be waiting while a request is between them.      *)
(***************************************************************************)

\* m is in a queue, or with a thread that has yet to put it into the next one.
Held(m) ==
    \/ In(rsQueue, m) \/ (rsAt = "check" /\ rsMsg = m)
    \/ \E r \in RtcWorkers : In(rwQueue[r], m) \/ (rwAt[r] = "push" /\ rwMsg[r] = m)
    \/ In(swQueue[woeker[m]], m)

Settled(m) == m \in dropped \/ <<m, woeker[m]>> \in delivered

\* No request falls out of the queues.
Accounted == \A m \in Msgs : m \in unsent \/ Held(m) \/ Settled(m)

\* What each thread waits for: a token, or room in a pipe it has to write to.
\* "check" is no place to wait at, because the certificate is valid or is not.
SwWaits(w) == IF w \in swBusy THEN PipeFull(rsTokens) ELSE swPipe[w] = <<>>

RsWaits ==
    \/ rsAt = "idle" /\ rsTokens = 0
    \/ rsAt = "notify" /\ PipeFull(rwTokens[RtcWorkerOf(rsMsg)])
    \/ rsAt = "fault"

RwWaits(r) ==
    \/ rwAt[r] = "idle" /\ rwTokens[r] = 0
    \/ rwAt[r] = "notify" /\ PipeFull(Len(swPipe[woeker[rwMsg[r]]]))

AcceptWaits == acceptTo = None \/ PipeFull(Len(swPipe[acceptTo]))

Standstill ==
    /\ \A w \in SigWorkers : SwWaits(w)
    /\ RsWaits /\ AcceptWaits
    /\ \A r \in RtcWorkers : RwWaits(r)

\* Below the bounds of NoCircularWait, when every thread waits, every request
\* that a signaling worker has read is settled and every accepted connection
\* has been taken by its worker.
NothingStranded ==
    /\ \/ Cardinality(Msgs) + MaxConns < 3 * PipeCap + 3
       \/ Cardinality(Msgs) < 2 * PipeCap + 3
    /\ Standstill
    => /\ \A m \in Msgs : m \in unsent \/ Settled(m)
       /\ acceptTo = None /\ \A w \in SigWorkers : connQueue[w] = 0

\* What is in a sequence after one element is appended or taken.
LEMMA InAppend ==
  ASSUME NEW S, NEW s \in Seq(S), NEW e \in S
  PROVE  In(Append(s, e), e) /\ \A a : In(s, a) => In(Append(s, e), a)
<1> QED  BY EarlierAppend

LEMMA InTail ==
  ASSUME NEW S, NEW s \in Seq(S), s # <<>>
  PROVE  \A a : In(s, a) => a = Head(s) \/ In(Tail(s), a)
<1>1. /\ Len(s) \in Nat /\ DOMAIN s = 1 .. Len(s) /\ Head(s) = s[1]
      /\ DOMAIN Tail(s) = 1 .. Len(s) - 1
      /\ \A i \in 1 .. Len(s) - 1 : Tail(s)[i] = s[i + 1]
    BY HeadTailProperties, LenProperties
<1> SUFFICES ASSUME NEW k \in DOMAIN s, k # 1 PROVE In(Tail(s), s[k])
    BY <1>1 DEF In
<1>2. k - 1 \in DOMAIN Tail(s) /\ Tail(s)[k - 1] = s[k]  BY <1>1
<1> QED  BY <1>2 DEF In

\* Every step leaves a request where it is, or hands it on.
LEMMA AccountedStep ==
  ASSUME TypeOK, Placed, Accounted, [Next]_vars
  PROVE  Accounted'
<1>0. /\ rsQueue \in Seq(Msgs) /\ rwQueue \in [RtcWorkers -> Seq(Msgs)]
      /\ rwMsg \in [RtcWorkers -> Msgs \union {None}]
      /\ rwAt \in [RtcWorkers -> {"idle", "push", "notify"}]
      /\ swQueue \in [SigWorkers -> Seq(Msgs)]
      /\ woeker \in [Msgs -> SigWorkers \union {None}]
    BY DEF TypeOK, SwTypeOK, RsTypeOK, RwTypeOK
<1> SUFFICES ASSUME NEW x \in Msgs, x \notin unsent' PROVE Held(x)' \/ Settled(x)'
    BY DEF Accounted
<1>1. ASSUME NEW w \in SigWorkers, NEW m \in Msgs, SwPush(w, m)
      PROVE  Held(x)' \/ Settled(x)'
    <2>1. /\ unsent' = unsent \ {m} /\ woeker' = [woeker EXCEPT ![m] = w]
          /\ rsQueue' = Append(rsQueue, m)
          /\ UNCHANGED <<rsAt, rsMsg, rwQueue, rwAt, rwMsg, swQueue, dropped, delivered>>
        BY <1>1 DEF SwPush, rwVars
    <2>2. CASE x = m  BY <1>0, <2>1, <2>2, InAppend DEF Held
    <2>3. CASE x # m
        <3>1. woeker'[x] = woeker[x] /\ x \notin unsent  BY <1>0, <2>1, <2>3
        <3>2. In(rsQueue, x) => In(rsQueue', x)  BY <1>0, <2>1, InAppend
        <3> QED  BY <2>1, <3>1, <3>2 DEF Accounted, Held, Settled
    <2> QED  BY <2>2, <2>3
<1>2. ASSUME NEW w \in SigWorkers, SwTakeMsg(w), swQueue[w] # <<>>
      PROVE  Held(x)' \/ Settled(x)'
    <2>1. /\ swQueue' = [swQueue EXCEPT ![w] = Tail(@)]
          /\ delivered' = delivered \union {<<Head(swQueue[w]), w>>}
          /\ UNCHANGED <<unsent, woeker, rsQueue, rsAt, rsMsg, rwQueue, rwAt, rwMsg, dropped>>
        BY <1>2 DEF SwTakeMsg, rsVars, rwVars
    <2>2. woeker[x] \in SigWorkers  BY <2>1 DEF Placed
    <2>3. In(swQueue[woeker[x]], x) => In(swQueue'[woeker[x]], x) \/ <<x, woeker[x]>> \in delivered'
        <3>1. CASE woeker[x] = w
            <4>1. swQueue'[w] = Tail(swQueue[w]) /\ swQueue[w] \in Seq(Msgs)  BY <1>0, <2>1
            <4>2. In(swQueue[w], x) => x = Head(swQueue[w]) \/ In(swQueue'[w], x)
                BY <1>2, <4>1, InTail
            <4> QED  BY <2>1, <3>1, <4>2
        <3>2. CASE woeker[x] # w  BY <1>0, <2>1, <2>2, <3>2
        <3> QED  BY <3>1, <3>2
    <2> QED  BY <2>1, <2>3 DEF Accounted, Held, Settled
<1>3. ASSUME RsTake, rsQueue # <<>> PROVE Held(x)' \/ Settled(x)'
    <2>1. /\ rsAt = "idle" /\ rsAt' = "check" /\ rsMsg' = Head(rsQueue) /\ rsQueue' = Tail(rsQueue)
          /\ UNCHANGED <<unsent, woeker, swQueue, delivered, rwQueue, rwAt, rwMsg, dropped>>
        BY <1>3 DEF RsTake, swVars, rwVars
    <2>2. In(rsQueue, x) => x = rsMsg' \/ In(rsQueue', x)  BY <1>0, <1>3, <2>1, InTail
    <2> QED  BY <2>1, <2>2 DEF Accounted, Held, Settled
<1>4. ASSUME NEW c, rsAt = "check", Forward(c) PROVE Held(x)' \/ Settled(x)'
    <2>1. rsMsg \in Msgs /\ RtcWorkerOf(rsMsg) \in RtcWorkers
        BY <1>4, WorkerRange DEF Placed, Known
    <2>2. PICK q \in RtcWorkers : q = RtcWorkerOf(rsMsg)  BY <2>1
    <2>3. /\ rwQueue' = [rwQueue EXCEPT ![q] = Append(@, rsMsg)]
          /\ UNCHANGED <<unsent, woeker, swQueue, delivered, rsQueue, rsMsg, rwAt, rwMsg, dropped>>
        BY <1>4, <2>2 DEF Forward, swVars
    <2>4. In(rwQueue'[q], rsMsg) /\ \A r \in RtcWorkers : In(rwQueue[r], x) => In(rwQueue'[r], x)
        <3>1. rwQueue'[q] = Append(rwQueue[q], rsMsg) /\ rwQueue[q] \in Seq(Msgs)
            BY <1>0, <2>3
        <3>2. In(rwQueue'[q], rsMsg) /\ (In(rwQueue[q], x) => In(rwQueue'[q], x))
            BY <2>1, <3>1, InAppend
        <3>3. \A r \in RtcWorkers : r # q => rwQueue'[r] = rwQueue[r]  BY <1>0, <2>3
        <3> QED  BY <3>2, <3>3
    <2> QED  BY <2>3, <2>4 DEF Accounted, Held, Settled
<1>5. ASSUME RsNoCert PROVE Held(x)' \/ Settled(x)'
    <2>1. /\ dropped' = dropped \union {rsMsg}
          /\ UNCHANGED <<unsent, woeker, swQueue, delivered, rsQueue, rwQueue, rwAt, rwMsg>>
        BY <1>5 DEF RsNoCert, swVars, rwVars
    <2> QED  BY <2>1 DEF Accounted, Held, Settled
<1>6. ASSUME NEW r \in RtcWorkers, RwTake(r), rwQueue[r] # <<>>
      PROVE  Held(x)' \/ Settled(x)'
    <2>1. /\ rwAt[r] = "idle" /\ rwMsg' = [rwMsg EXCEPT ![r] = Head(rwQueue[r])]
          /\ rwQueue' = [rwQueue EXCEPT ![r] = Tail(@)]
          /\ rwAt' = [rwAt EXCEPT ![r] = "push"]
          /\ UNCHANGED <<unsent, woeker, swQueue, delivered, rsQueue, rsAt, rsMsg, dropped>>
        BY <1>6 DEF RwTake, swVars, rsVars
    <2>2. \A q \in RtcWorkers : q # r =>
             rwQueue'[q] = rwQueue[q] /\ rwAt'[q] = rwAt[q] /\ rwMsg'[q] = rwMsg[q]
        BY <1>0, <2>1
    <2>3. /\ rwQueue'[r] = Tail(rwQueue[r]) /\ rwAt'[r] = "push"
          /\ rwMsg'[r] = Head(rwQueue[r]) /\ rwQueue[r] \in Seq(Msgs)
        BY <1>0, <2>1
    <2>4. In(rwQueue[r], x) => In(rwQueue'[r], x) \/ rwMsg'[r] = x  BY <1>6, <2>3, InTail
    <2> QED  BY <2>1, <2>2, <2>3, <2>4 DEF Accounted, Held, Settled
<1>7. ASSUME NEW r \in RtcWorkers, RwAnswer(r) PROVE Held(x)' \/ Settled(x)'
    <2>1. rwAt[r] = "push" /\ Known(rwMsg[r])  BY <1>7 DEF RwAnswer, Placed
    <2>2. PICK m \in Msgs : m = rwMsg[r]  BY <2>1 DEF Known
    <2>3. /\ swQueue' = [swQueue EXCEPT ![woeker[m]] = Append(@, m)]
          /\ rwAt' = [rwAt EXCEPT ![r] = "notify"]
          /\ UNCHANGED <<unsent, woeker, delivered, rsQueue, rsAt, rsMsg, rwQueue, rwMsg, dropped>>
        BY <1>7, <2>2 DEF RwAnswer, rsVars
    <2>4. PICK v \in SigWorkers : v = woeker[m]
        BY <2>1, <2>2 DEF Placed, Known
    <2>5. /\ swQueue'[v] = Append(swQueue[v], m) /\ swQueue[v] \in Seq(Msgs)
          /\ \A w \in SigWorkers : w # v => swQueue'[w] = swQueue[w]
        BY <1>0, <2>3, <2>4
    <2>6. In(swQueue'[v], m) /\ (In(swQueue[v], x) => In(swQueue'[v], x))
        BY <2>5, InAppend
    <2>7. woeker[x] \in SigWorkers  BY <2>3 DEF Placed
    <2>8. \A q \in RtcWorkers : q # r => rwAt'[q] = rwAt[q]  BY <1>0, <2>3
    <2> QED  BY <2>2, <2>3, <2>4, <2>5, <2>6, <2>7, <2>8 DEF Accounted, Held, Settled
<1>8. ASSUME NEW r \in RtcWorkers, RwNotify(r) PROVE Held(x)' \/ Settled(x)'
    <2>1. /\ rwAt[r] = "notify"
          /\ rwAt' = [rwAt EXCEPT ![r] = "idle"] /\ rwMsg' = [rwMsg EXCEPT ![r] = None]
          /\ UNCHANGED <<unsent, woeker, swQueue, delivered, rsQueue, rsAt, rsMsg, rwQueue, dropped>>
        BY <1>8 DEF RwNotify, rsVars
    <2>2. \A q \in RtcWorkers : q # r => rwAt'[q] = rwAt[q] /\ rwMsg'[q] = rwMsg[q]
        BY <1>0, <2>1
    <2> QED  BY <2>1, <2>2 DEF Accounted, Held, Settled
<1>9. ASSUME UNCHANGED <<unsent, woeker, swQueue, delivered, rsQueue, rwQueue, rwAt, rwMsg, dropped>>,
             UNCHANGED <<rsAt, rsMsg>> \/ rsAt # "check"
      PROVE  Held(x)' \/ Settled(x)'
    BY <1>9 DEF Accounted, Held, Settled
<1>10. \/ \E w \in SigWorkers : \E m \in Msgs : SwPush(w, m)
       \/ \E w \in SigWorkers : SwTakeMsg(w) /\ swQueue[w] # <<>>
       \/ RsTake /\ rsQueue # <<>>
       \/ rsAt = "check" /\ \E c : Forward(c)
       \/ RsNoCert
       \/ \E r \in RtcWorkers :
             (RwTake(r) /\ rwQueue[r] # <<>>) \/ RwAnswer(r) \/ RwNotify(r)
       \/ /\ UNCHANGED <<unsent, woeker, swQueue, delivered, rsQueue, rwQueue, rwAt, rwMsg, dropped>>
          /\ UNCHANGED <<rsAt, rsMsg>> \/ rsAt # "check"
    BY DEF Next, SwHandle, RsHandle, RwHandle, vars, swVars, rsVars, rwVars, acceptVars,
       SwNotify, SwTakeMsg, SwTakeConn, RsTake, RsKeepCert, RsNewCert, RsNotify,
       Expire, RwTake, AcceptPush, AcceptNotify
<1> QED  BY <1>1, <1>2, <1>3, <1>4, <1>5, <1>6, <1>7, <1>8, <1>9, <1>10

\* When RtcServer waits for a token and everyone else waits too, nothing is queued.
LEMMA IdleMeansEmpty ==
  ASSUME IInv, Standstill, rsAt = "idle", rsTokens = 0
  PROVE  /\ rsQueue = <<>> /\ acceptTo = None
         /\ \A w \in SigWorkers : swQueue[w] = <<>> /\ connQueue[w] = 0
         /\ \A r \in RtcWorkers : rwQueue[r] = <<>> /\ rwAt[r] = "idle"
<1>0. /\ rsQueue \in Seq(Msgs) /\ rwQueue \in [RtcWorkers -> Seq(Msgs)]
      /\ swQueue \in [SigWorkers -> Seq(Msgs)] /\ swBusy \subseteq SigWorkers
      /\ acceptTo \in SigWorkers \union {None}
    BY DEF IInv, TypeOK, SwTypeOK, RsTypeOK, RwTypeOK
<1>1. ~PipeFull(0)  BY ConstantsAssumption DEF PipeFull
<1>2. swBusy = {} /\ \A w \in SigWorkers : swPipe[w] = <<>>
    BY <1>0, <1>1 DEF Standstill, SwWaits
<1>3. \A w \in SigWorkers : ~PipeFull(Len(swPipe[w]))  BY <1>1, <1>2
<1>4. \A r \in RtcWorkers : rwAt[r] = "idle" /\ rwTokens[r] = 0
    <2> SUFFICES ASSUME NEW r \in RtcWorkers, rwAt[r] = "notify" PROVE FALSE
        BY DEF Standstill, RwWaits
    <2>1. woeker[rwMsg[r]] \in SigWorkers  BY DEF IInv, Placed, Known
    <2> QED  BY <1>3, <2>1 DEF Standstill, RwWaits
<1>5. acceptTo = None  BY <1>0, <1>3 DEF Standstill, AcceptWaits
<1>6. Len(rsQueue) = 0
    <2>1. Cardinality(swBusy) = 0  BY <1>2, FS_EmptySet
    <2> QED  BY <2>1 DEF IInv, RsAccount
<1>7. \A r \in RtcWorkers : Len(rwQueue[r]) = 0
    BY <1>4 DEF IInv, RwAccount, RsNotifying
<1>8. \A k : Count(<<>>, k) = 0
    <2>1. \A k : {i \in DOMAIN <<>> : <<>>[i] = k} = {}  OBVIOUS
    <2> QED  BY <2>1, FS_EmptySet DEF Count
<1>9. \A w \in SigWorkers : Len(swQueue[w]) = 0
    <2>1. \A w \in SigWorkers : Notifiers(w) = {}  BY <1>4 DEF Notifiers, Notifying
    <2>2. \A w \in SigWorkers : Cardinality(Notifiers(w)) = 0  BY <2>1, FS_EmptySet
    <2> QED  BY <1>2, <1>8, <2>2 DEF IInv, SwAccount
<1>10. \A w \in SigWorkers : connQueue[w] = 0
    <2>1. \A w \in SigWorkers : acceptTo # w
        BY <1>5, ConstantsAssumption DEF SigWorkers
    <2> QED  BY <1>2, <1>8, <2>1 DEF IInv, ConnAccount
<1>11. \A s \in Seq(Msgs) : Len(s) = 0 => s = <<>>  BY EmptySeq
<1> QED  BY <1>0, <1>4, <1>5, <1>6, <1>7, <1>9, <1>10, <1>11

\* When RtcServer waits to notify an rtc worker and everyone else waits too, the
\* three of them wait for each other.
LEMMA BlockedMeansCircle ==
  ASSUME IInv, Standstill, rsAt = "notify"
  PROVE  CircularWait
<1>1. rsMsg \in Msgs  BY DEF IInv, Placed, Known
<1>2. PICK r \in RtcWorkers : r = RtcWorkerOf(rsMsg)  BY <1>1, WorkerRange
<1>3. RsNotifying(r) /\ PipeFull(rwTokens[r])
    BY <1>2 DEF RsNotifying, Standstill, RsWaits
<1>4. rwAt[r] = "notify" /\ PipeFull(Len(swPipe[woeker[rwMsg[r]]]))
    BY <1>3, ConstantsAssumption DEF Standstill, RwWaits, PipeFull
<1>5. PICK w \in SigWorkers : w = woeker[rwMsg[r]]
    BY <1>4 DEF IInv, Placed, Known
<1>6. Notifying(r, w) /\ PipeFull(Len(swPipe[w]))  BY <1>4, <1>5 DEF Notifying
<1>7. swPipe[w] # <<>>  BY <1>6, ConstantsAssumption DEF PipeFull
<1>8. w \in swBusy /\ PipeFull(rsTokens)  BY <1>7 DEF Standstill, SwWaits
<1> QED  BY <1>3, <1>6, <1>8 DEF CircularWait

\* For any number of workers, requests and connections and any size of the
\* pipes, the threads do not all wait while a request or a new connection is
\* between them, as long as the load is below the bounds of NoCircularWait.
THEOREM NoStandstill == Spec => []NothingStranded
<1>1. Init => Accounted  BY DEF Init, Accounted
<1>2. IInv /\ Accounted /\ [Next]_vars => Accounted'  BY AccountedStep DEF IInv
<1>3. Spec => []Accounted  BY <1>1, <1>2, Invariance, PTL DEF Spec
<1>4. IInv /\ Accounted => NothingStranded
    <2> SUFFICES ASSUME IInv, Accounted, Standstill,
                        \/ Cardinality(Msgs) + MaxConns < 3 * PipeCap + 3
                        \/ Cardinality(Msgs) < 2 * PipeCap + 3
                 PROVE  /\ \A m \in Msgs : m \in unsent \/ Settled(m)
                        /\ acceptTo = None /\ \A w \in SigWorkers : connQueue[w] = 0
        BY DEF NothingStranded
    <2>1. ~CircularWait  BY CircleFree DEF NoCircularWait
    <2>2. rsAt = "idle" /\ rsTokens = 0
        BY <2>1, BlockedMeansCircle DEF IInv, NullPopUnreachable, Standstill, RsWaits
    <2>3. /\ rsQueue = <<>> /\ acceptTo = None
          /\ \A w \in SigWorkers : swQueue[w] = <<>> /\ connQueue[w] = 0
          /\ \A r \in RtcWorkers : rwQueue[r] = <<>> /\ rwAt[r] = "idle"
        BY <2>2, IdleMeansEmpty
    <2>4. \A a : ~In(<<>>, a)  BY DEF In
    <2>5. \A m \in Msgs : m \notin unsent => woeker[m] \in SigWorkers  BY DEF IInv, Placed
    <2>6. \A m \in Msgs : m \notin unsent => ~Held(m)
        BY <2>2, <2>3, <2>4, <2>5 DEF Held
    <2> QED  BY <2>3, <2>6 DEF Accounted
<1> QED  BY <1>3, <1>4, Invariance, PTL
=============================================================================
