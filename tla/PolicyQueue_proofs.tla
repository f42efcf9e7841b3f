------------------------- MODULE PolicyQueue_proofs -------------------------
(***************************************************************************)
(* Proofs about PolicyQueue for any calls and any capacity.                *)
(***************************************************************************)
EXTENDS PolicyQueue, DataLemmas

LEMMA Bound == Capacity \in Nat /\ 0 < Capacity
BY PolicyQueueAssumption DEF PolicyQueueAssumption

LEMMA NextTypeOK ==
    ASSUME TypeOK, [Next]_vars
    PROVE  TypeOK'
<1>1. ASSUME NEW c \in Calls, Begin(c) \/ RLock(c) \/ CheckClosed(c) \/ Full(c)
                              \/ Timeout(c) \/ ContextDone(c) \/ Lock(c) \/ Locked(c)
                              \/ Close(c)
      PROVE  TypeOK'
  BY <1>1 DEF Begin, RLock, CheckClosed, Full, Timeout, ContextDone, Lock, Locked, Close,
              TypeOK, PC, Outcomes, Goes, Returns
<1>2. ASSUME NEW c \in Calls, Send(c)  PROVE TypeOK'
  <2>1. /\ c \in Enqueuers /\ Len(queue) < Capacity /\ queue' = Append(queue, c)
        /\ queue \in Seq(Enqueuers)
    BY <1>2 DEF Send, TypeOK
  <2>2. queue' \in Seq(Enqueuers) /\ Len(queue') <= Capacity
    BY <2>1, RangeAppend, Bound
  <2> QED BY <1>2, <2>2 DEF Send, TypeOK, PC, Goes
<1>3. ASSUME NEW c \in Calls, Receive(c)  PROVE TypeOK'
  <2>1. /\ queue # <<>> /\ Len(queue) <= Capacity /\ queue' = Tail(queue)
        /\ queue \in Seq(Enqueuers)
    BY <1>3 DEF Receive, TypeOK
  <2>2. queue' \in Seq(Enqueuers) /\ Len(queue') <= Capacity
    BY <2>1, RangeTail, Bound
  <2> QED BY <1>3, <2>2 DEF Receive, TypeOK, PC, Goes
<1>4. ASSUME NEW c \in Calls, Load(c)  PROVE TypeOK'
  BY <1>4 DEF Load, TypeOK, PC, Goes
<1>5. ASSUME NEW c \in Calls, Store(c)  PROVE TypeOK'
  <2>1. loaded[c] \in Nat /\ enqueued \in Nat /\ dequeued \in Nat
    BY DEF TypeOK
  <2>2. /\ enqueued' = loaded[c] + 1 \/ enqueued' = enqueued
        /\ dequeued' = loaded[c] + 1 \/ dequeued' = dequeued
    BY <1>5 DEF Store
  <2>3. enqueued' \in Nat /\ dequeued' \in Nat
    BY <2>1, <2>2
  <2> QED BY <1>5, <2>3 DEF Store, TypeOK, PC, Outcomes, Returns
<1>6. ASSUME NEW C \in SUBSET Calls, Cancel(C)  PROVE TypeOK'
  BY <1>6 DEF Cancel, TypeOK
<1>7. CASE UNCHANGED vars
  BY <1>7 DEF vars, TypeOK
<1> QED BY <1>1, <1>2, <1>3, <1>4, <1>5, <1>6, <1>7 DEF Next, Step

LEMMA InitTypeOK == Init => TypeOK
<1> SUFFICES ASSUME Init  PROVE TypeOK
  OBVIOUS
<1>1. <<>> \in Seq(Enqueuers) /\ Len(<<>>) = 0
  BY EmptySeq
<1>2. queue \in Seq(Enqueuers) /\ Len(queue) <= Capacity
  BY <1>1, PolicyQueueAssumption DEF Init, PolicyQueueAssumption
<1> QED BY <1>2 DEF Init, TypeOK, PC, Outcomes

\* Every variable keeps its type and the channel its capacity.
THEOREM TypeCorrect == Spec => []TypeOK
BY InitTypeOK, NextTypeOK, PTL DEF Spec

-----------------------------------------------------------------------------
(* The lock.                                                               *)

\* A step of one call leaves the others where they are.
LEMMA Frame ==
    ASSUME TypeOK, NEW c \in Calls, Begin(c) \/ Step(c)
    PROVE  \A d \in Calls \ {c} : pc'[d] = pc[d]
BY DEF TypeOK, Begin, Step, RLock, CheckClosed, Send, Full, Receive, Timeout,
       ContextDone, Load, Store, Lock, Locked, Close, Goes, Returns

\* Closed and Exclusion are inductive together: a call passes CheckClosed under
\* the read lock, and Close sets the flag when there is no reader.
LEMMA NextLock ==
    ASSUME TypeOK, SafeSelect, Exclusion, [Next]_vars
    PROVE  SafeSelect' /\ Exclusion'
<1>1. ASSUME NEW c \in Calls, Begin(c) \/ Step(c)
      PROVE  SafeSelect' /\ Exclusion'
  <2> USE DEF TypeOK
  <2>1. CASE RLock(c)
    BY <2>1 DEF RLock, Goes, SafeSelect, Exclusion, Readers, Writers
  <2>2. CASE CheckClosed(c)
    BY <2>2 DEF CheckClosed, Goes, Returns, SafeSelect, Exclusion, Readers
  <2>3. CASE Locked(c)
    BY <2>3 DEF Locked, Goes, SafeSelect, Exclusion, Readers
  <2>4. CASE Close(c)
    <3>1. \A d \in Calls : pc'[d] # "select"
      BY <2>4, Frame DEF Close, Returns, Exclusion, Readers, Step
    <3>2. Readers' = {}
      BY <2>4 DEF Close, Returns, Exclusion, Readers
    <3> QED BY <3>1, <3>2 DEF SafeSelect, Exclusion
  <2>5. CASE Send(c) \/ Receive(c) \/ Load(c)
    BY <2>5 DEF Send, Receive, Load, Goes, SafeSelect, Exclusion, Readers
  <2>6. CASE Full(c) \/ Timeout(c) \/ ContextDone(c) \/ Store(c)
    <3>1. pc' = [pc EXCEPT ![c] = "done"] /\ closed' = closed
      BY <2>6 DEF Full, Timeout, ContextDone, Store, Returns
    <3>2. SafeSelect'
      BY <3>1 DEF SafeSelect
    <3>3. Exclusion'
      BY <3>1 DEF Exclusion, Readers
    <3> QED BY <3>2, <3>3
  <2>7. CASE Begin(c) \/ Lock(c)
    <3>1. CASE Begin(c)
      BY <3>1 DEF Begin, Goes, SafeSelect, Exclusion, Readers
    <3>2. CASE Lock(c)
      BY <3>2 DEF Lock, Goes, SafeSelect, Exclusion, Readers
    <3> QED BY <2>7, <3>1, <3>2
  <2> QED BY <1>1, <2>1, <2>2, <2>3, <2>4, <2>5, <2>6, <2>7 DEF Step
<1>2. CASE UNCHANGED vars \/ \E C \in SUBSET Calls : Cancel(C)
  BY <1>2 DEF vars, Cancel, SafeSelect, Exclusion, Readers
<1> QED BY <1>1, <1>2 DEF Next

LEMMA LockInvariant == Spec => [](SafeSelect /\ Exclusion)
<1>1. Init => SafeSelect /\ Exclusion
  BY DEF Init, SafeSelect, Exclusion
<1>2. TypeOK /\ (SafeSelect /\ Exclusion) /\ [Next]_vars => (SafeSelect /\ Exclusion)'
  BY NextLock
<1> QED BY <1>1, <1>2, TypeCorrect, PTL DEF Spec

\* No call is at its channel operation when the channel is closed: sends do not
\* panic.
THEOREM SafeSelectCorrect == Spec => []SafeSelect
BY LockInvariant, PTL

\* After Close nothing enters the queue and nothing leaves it.
THEOREM ClosedIsFrozenCorrect == Spec => ClosedIsFrozen
<1>1. SafeSelect /\ [Next]_vars => [closed => queue' = queue]_queue
  <2> SUFFICES ASSUME SafeSelect, [Next]_vars, closed  PROVE queue' = queue
    OBVIOUS
  <2>1. ASSUME NEW c \in Calls  PROVE ~Send(c) /\ ~Receive(c)
    BY DEF Send, Receive, SafeSelect
  <2> QED
    BY <2>1 DEF Next, Begin, Step, RLock, CheckClosed, Full, Timeout, ContextDone, Load,
                Store, Lock, Locked, Close, Cancel, vars
<1> QED BY <1>1, SafeSelectCorrect, PTL DEF Spec, ClosedIsFrozen
-----------------------------------------------------------------------------
(* The counters.  A call of either side stores at most one more than it has *)
(* loaded, and what it has loaded counts only calls that were over: so a    *)
(* counter never exceeds the calls of its side that are over, fewer than    *)
(* those that have done their channel operation.                            *)

Sides      == {"in", "out"}
Members(s) == IF s = "in" THEN Enqueuers ELSE Dequeuers
Count(s)   == IF s = "in" THEN enqueued ELSE dequeued
Over(s)    == {c \in Members(s) : outcome[c] = "ok"}
Passed(s)  == {c \in Members(s) : Through(c)}

\* A call returns nothing before it is done, and takes the steps of its kind.
Roles == \A c \in Calls :
    /\ pc[c] # "done" => outcome[c] = "none"
    /\ pc[c] \in {"pending", "closing"} => c \in Closers
    /\ pc[c] \in {"load", "store"} => c \in Enqueuers \cup Dequeuers

CountInv(s) ==
    /\ IsFiniteSet(Passed(s))
    /\ Count(s) <= Cardinality(Over(s))
    /\ \A c \in Members(s) : pc[c] = "store" => loaded[c] <= Cardinality(Over(s))
    /\ Over(s) # {} => Count(s) > 0

LEMMA MembersAre ==
    ASSUME NEW s \in Sides
    PROVE  /\ Members(s) \subseteq Calls
           /\ Enqueuers \cap Dequeuers = {}
           /\ \A c \in Members(s) : Kind[c] # "Close"
BY DEF Sides, Members, Enqueuers, Dequeuers

LEMMA NextRoles ==
    ASSUME TypeOK, Roles, [Next]_vars
    PROVE  Roles'
<1>1. ASSUME NEW c \in Calls, NEW to, Goes(c, to), pc[c] # "done",
             to # "done",
             to \in {"pending", "closing"} => c \in Closers,
             to \in {"load", "store"} => c \in Enqueuers \cup Dequeuers
      PROVE  Roles'
  BY <1>1 DEF Goes, Roles, TypeOK, Closers, Enqueuers, Dequeuers
<1>2. ASSUME NEW c \in Calls, NEW what, Returns(c, what)
      PROVE  Roles'
  BY <1>2 DEF Returns, Roles, TypeOK, Closers, Enqueuers, Dequeuers
<1>3. ASSUME NEW c \in Calls, Begin(c) \/ RLock(c) \/ CheckClosed(c)
      PROVE  Roles'
  BY <1>1, <1>2, <1>3 DEF Begin, RLock, CheckClosed
<1>4. ASSUME NEW c \in Calls, Send(c) \/ Receive(c) \/ Load(c)
      PROVE  Roles'
  BY <1>1, <1>4 DEF Send, Receive, Load, Roles
<1>5. ASSUME NEW c \in Calls, Full(c) \/ Timeout(c) \/ ContextDone(c) \/ Store(c) \/ Close(c)
      PROVE  Roles'
  BY <1>2, <1>5 DEF Full, Timeout, ContextDone, Store, Close
<1>6. ASSUME NEW c \in Calls, Lock(c) \/ Locked(c)
      PROVE  Roles'
  BY <1>1, <1>6 DEF Lock, Locked, Roles
<1>7. CASE UNCHANGED vars \/ \E C \in SUBSET Calls : Cancel(C)
  BY <1>7 DEF vars, Cancel, Roles
<1> QED BY <1>3, <1>4, <1>5, <1>6, <1>7 DEF Next, Step

\* Only Send and Receive get a call through, but for Close.
LEMMA ThroughStays ==
    ASSUME TypeOK, Roles, NEW c \in Calls, Begin(c) \/ Step(c), ~Send(c), ~Receive(c)
    PROVE  \A d \in Calls : Kind[d] # "Close" => (Through(d)' <=> Through(d))
<1>1. CASE Close(c)
  <2>1. Kind[c] = "Close" /\ pc' = [pc EXCEPT ![c] = "done"] /\ outcome' = [outcome EXCEPT ![c] = "ok"]
    BY <1>1 DEF Close, Returns, Roles, Closers
  <2> QED BY <2>1 DEF TypeOK, Through
<1>2. CASE Load(c) \/ Store(c)
  BY <1>2 DEF Load, Store, Goes, Returns, TypeOK, Through
<1>3. CASE Begin(c) \/ RLock(c) \/ CheckClosed(c) \/ Full(c) \/ Timeout(c) \/ ContextDone(c)
           \/ Lock(c) \/ Locked(c)
  BY <1>3 DEF Begin, RLock, CheckClosed, Full, Timeout, ContextDone, Lock, Locked, Goes, Returns,
              TypeOK, Roles, Through
<1> QED BY <1>1, <1>2, <1>3 DEF Step

\* Finite sets of calls that are over.
LEMMA OverFinite ==
    ASSUME NEW s \in Sides, CountInv(s)
    PROVE  IsFiniteSet(Over(s)) /\ Cardinality(Over(s)) \in Nat
<1>1. Over(s) \subseteq Passed(s)
  BY DEF Over, Passed, Through
<1>2. IsFiniteSet(Over(s))
  BY <1>1, FS_Subset DEF CountInv
<1> QED BY <1>2, FS_CardinalityType

LEMMA NextCountInv ==
    ASSUME TypeOK, Roles, [Next]_vars, NEW s \in Sides, CountInv(s)
    PROVE  CountInv(s)'
<1> USE DEF TypeOK
<1>0. IsFiniteSet(Over(s)) /\ Cardinality(Over(s)) \in Nat
  BY OverFinite
<1>1. ASSUME NEW c \in Calls,
             Begin(c) \/ RLock(c) \/ CheckClosed(c) \/ Full(c) \/ Timeout(c)
               \/ ContextDone(c) \/ Lock(c) \/ Locked(c) \/ Close(c)
      PROVE  CountInv(s)'
  <2>1. /\ enqueued' = enqueued /\ dequeued' = dequeued /\ loaded' = loaded
        /\ \A d \in Calls : pc'[d] = "store" => pc[d] = "store"
    BY <1>1 DEF Begin, RLock, CheckClosed, Full, Timeout, ContextDone, Lock, Locked, Close,
                Goes, Returns
  <2>2. \A d \in Calls : /\ pc'[d] \in {"load", "store"} <=> pc[d] \in {"load", "store"}
                         /\ Kind[d] # "Close" => (outcome'[d] = "ok" <=> outcome[d] = "ok")
    <3>1. CASE Close(c)
      <4>1. Kind[c] = "Close"
        BY <3>1 DEF Close, Roles, Closers
      <4>2. pc[c] = "closing" /\ outcome[c] = "none"
        BY <3>1 DEF Close, Roles
      <4>3. pc' = [pc EXCEPT ![c] = "done"] /\ outcome' = [outcome EXCEPT ![c] = "ok"]
        BY <3>1 DEF Close, Returns
      <4>4. ASSUME NEW d \in Calls \ {c}  PROVE pc'[d] = pc[d] /\ outcome'[d] = outcome[d]
        BY <4>3
      <4> QED BY <4>1, <4>2, <4>3, <4>4
    <3>2. CASE ~Close(c)
      BY <1>1, <3>2 DEF Roles, Begin, RLock, CheckClosed, Full, Timeout, ContextDone, Lock,
                        Locked, Goes, Returns
    <3> QED BY <3>1, <3>2
  <2>3. Over(s)' = Over(s) /\ Passed(s)' = Passed(s) /\ Count(s)' = Count(s)
    <3>1. \A d \in Members(s) : d \in Calls /\ Kind[d] # "Close"
      BY MembersAre
    <3>2. Members(s)' = Members(s) /\ Count(s)' = Count(s)
      BY <2>1 DEF Members, Enqueuers, Dequeuers, Count
    <3> QED BY <2>2, <3>1, <3>2 DEF Over, Passed, Through
  <2> QED BY <2>1, <2>3, MembersAre DEF CountInv, Members
<1>2. ASSUME NEW c \in Calls, Send(c) \/ Receive(c)  PROVE CountInv(s)'
  <2>1. /\ outcome' = outcome /\ enqueued' = enqueued /\ dequeued' = dequeued
        /\ loaded' = loaded /\ pc' = [pc EXCEPT ![c] = "load"]
    BY <1>2 DEF Send, Receive, Goes
  <2>2. Over(s)' = Over(s) /\ Count(s)' = Count(s)
    BY <2>1 DEF Over, Count, Members, Enqueuers, Dequeuers
  <2>3. Passed(s)' \subseteq Passed(s) \cup {c}
    BY <2>1, MembersAre DEF Passed, Through, Members
  <2>4. IsFiniteSet(Passed(s)')
    BY <2>3, FS_AddElement, FS_Subset DEF CountInv
  <2>5. \A d \in Members(s) : pc'[d] = "store" => pc[d] = "store"
    BY <2>1, MembersAre
  <2> QED BY <2>1, <2>2, <2>4, <2>5 DEF CountInv, Members
<1>3. ASSUME NEW c \in Calls, Load(c)  PROVE CountInv(s)'
  <2>1. /\ outcome' = outcome /\ enqueued' = enqueued /\ dequeued' = dequeued
        /\ pc[c] = "load" /\ pc' = [pc EXCEPT ![c] = "store"]
        /\ loaded' = [loaded EXCEPT ![c] = IF c \in Enqueuers THEN enqueued ELSE dequeued]
    BY <1>3 DEF Load, Goes
  <2>2. Over(s)' = Over(s) /\ Count(s)' = Count(s) /\ Passed(s)' = Passed(s)
    BY <2>1, MembersAre DEF Over, Count, Passed, Through, Members, Enqueuers, Dequeuers
  <2>3. c \in Members(s) => loaded'[c] = Count(s)
    BY <2>1, MembersAre DEF Count, Members, Sides
  <2>4. \A d \in Members(s) \ {c} : pc'[d] = pc[d] /\ loaded'[d] = loaded[d]
    BY <2>1, MembersAre
  <2>5. \A d \in Members(s) : pc'[d] = "store" => loaded'[d] <= Cardinality(Over(s))
    BY <2>3, <2>4 DEF CountInv
  <2> QED BY <2>2, <2>5 DEF CountInv, Members
<1>4. ASSUME NEW c \in Calls, Store(c)  PROVE CountInv(s)'
  <2>1. /\ pc[c] = "store" /\ outcome[c] = "none" /\ loaded' = loaded
        /\ pc' = [pc EXCEPT ![c] = "done"] /\ outcome' = [outcome EXCEPT ![c] = "ok"]
        /\ loaded[c] \in Nat
    BY <1>4 DEF Store, Returns, Roles
  <2>2. Passed(s)' = Passed(s)
    BY <2>1, MembersAre DEF Passed, Through, Members
  <2>3. \A d \in Members(s) : pc'[d] = "store" => d # c /\ pc[d] = "store"
    BY <2>1, MembersAre
  <2>4. CASE c \in Members(s)
    <3>1. Over(s)' = Over(s) \cup {c} /\ c \notin Over(s)
      BY <2>1, <2>4, MembersAre DEF Over, Members
    <3>2. Cardinality(Over(s)') = Cardinality(Over(s)) + 1
      BY <3>1, <1>0, FS_AddElement
    <3>3. Count(s)' = loaded[c] + 1
      BY <1>4, <2>4, MembersAre DEF Store, Count, Members, Sides
    <3>4. loaded[c] <= Cardinality(Over(s))
      BY <2>1, <2>4 DEF CountInv
    <3>5. \A d \in Members(s) : pc'[d] = "store" => loaded'[d] <= Cardinality(Over(s)')
      <4> SUFFICES ASSUME NEW d \in Members(s), pc'[d] = "store"
                   PROVE  loaded'[d] <= Cardinality(Over(s)')
        OBVIOUS
      <4>1. loaded[d] <= Cardinality(Over(s)) /\ loaded[d] \in Nat
        BY <2>3, MembersAre DEF CountInv
      <4> QED BY <4>1, <2>1, <3>2, <1>0
    <3>6. Count(s)' <= Cardinality(Over(s)') /\ Count(s)' > 0
      BY <3>2, <3>3, <3>4, <2>1, <1>0
    <3>7. IsFiniteSet(Passed(s)')
      BY <2>2 DEF CountInv
    <3> QED BY <3>5, <3>6, <3>7 DEF CountInv, Members
  <2>5. CASE c \notin Members(s)
    <3>1. Over(s)' = Over(s)
      BY <2>1, <2>5, MembersAre DEF Over, Members
    <3>2. c \in Enqueuers \/ c \in Dequeuers
      BY <2>1 DEF Roles
    <3>3. Count(s)' = Count(s)
      BY <1>4, <2>5, <3>2, MembersAre DEF Store, Count, Members, Sides
    <3> QED BY <2>1, <2>2, <2>3, <3>1, <3>3 DEF CountInv, Members
  <2> QED BY <2>4, <2>5
<1>5. CASE UNCHANGED vars \/ \E C \in SUBSET Calls : Cancel(C)
  BY <1>5 DEF vars, Cancel, CountInv, Over, Passed, Through, Count, Members
<1> QED BY <1>1, <1>2, <1>3, <1>4, <1>5 DEF Next, Step

\* GetStats' counters never show more than has happened, nor zero after a success,
\* although increments that race can be lost.
THEOREM CountersLagCorrect == Spec => []CountersLag
<1> DEFINE Inv == Roles /\ CountInv("in") /\ CountInv("out")
<1>1. Init => Inv
  <2> SUFFICES ASSUME Init, NEW s \in Sides  PROVE Roles /\ CountInv(s)
    BY DEF Sides
  <2>1. Roles
    BY DEF Init, Roles
  <2>2. Passed(s) = {} /\ Over(s) = {}
    BY MembersAre DEF Init, Passed, Through, Over
  <2>3. Cardinality(Over(s)) = 0 /\ IsFiniteSet(Passed(s))
    BY <2>2, FS_EmptySet
  <2>4. Count(s) = 0 /\ \A c \in Members(s) : pc[c] # "store"
    BY MembersAre DEF Init, Count
  <2> QED BY <2>1, <2>2, <2>3, <2>4 DEF CountInv
<1>2. TypeOK /\ Inv /\ [Next]_vars => Inv'
  BY NextRoles, NextCountInv DEF Sides
<1>3. TypeOK /\ Inv => CountersLag
  <2> SUFFICES ASSUME TypeOK, NEW s \in Sides, CountInv(s)
               PROVE  /\ Count(s) <= Cardinality(Passed(s))
                      /\ \A c \in Calls : outcome[c] = "ok" /\ c \in Members(s) => Count(s) > 0
    BY DEF Sides, CountersLag, Count, Passed, Members, Sent, Received
  <2>1. /\ Over(s) \subseteq Passed(s) /\ Count(s) \in Nat
        /\ \A c \in Members(s) : outcome[c] = "ok" => c \in Over(s)
    BY DEF Over, Passed, Through, Count, TypeOK
  <2>2. /\ Cardinality(Over(s)) <= Cardinality(Passed(s))
        /\ Cardinality(Over(s)) \in Nat /\ Cardinality(Passed(s)) \in Nat
    BY <2>1, FS_Subset, FS_CardinalityType DEF CountInv
  <2> QED BY <2>1, <2>2 DEF CountInv
<1> QED BY <1>1, <1>2, <1>3, TypeCorrect, PTL DEF Spec
=============================================================================
