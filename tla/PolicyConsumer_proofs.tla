----------------------- MODULE PolicyConsumer_proofs -----------------------
(***************************************************************************)
(* Proofs about PolicyConsumer for any calls, any number of fetches and    *)
(* any capacity.                                                           *)
(***************************************************************************)
EXTENDS PolicyConsumer, PolicyQueue_proofs

(***************************************************************************)
(* The consumer and the clients do to the queue what its callers may do.   *)
(***************************************************************************)

LEMMA FetchesAre ==
    /\ Fetches \in Seq(Calls) /\ Len(Fetches) \in Nat /\ DOMAIN Fetches = 1..Len(Fetches)
    /\ \A i \in 1..Len(Fetches) : Fetches[i] \in Fetching
    /\ \A c \in Fetching : \E i \in 1..Len(Fetches) : c = Fetches[i]
    /\ \A i, j \in 1..Len(Fetches) : Fetches[i] = Fetches[j] => i = j
    /\ Fetching \subseteq Calls /\ Fetching \subseteq Dequeuers
    /\ \A c \in Fetching : Kind[c] = "DequeueWithContext"
<1>1. /\ Fetches \in Seq(Calls) /\ \A c \in Calls : Kind[c] = "DequeueWithContext" <=> c \in Fetching
      /\ \A i, j \in DOMAIN Fetches : Fetches[i] = Fetches[j] => i = j
  BY ConsumerAssumption DEF ConsumerAssumption
<1>2. Len(Fetches) \in Nat /\ DOMAIN Fetches = 1..Len(Fetches)
      /\ \A i \in 1..Len(Fetches) : Fetches[i] \in Calls
  BY <1>1
<1>3. \A c : c \in Fetching <=> \E i \in 1..Len(Fetches) : c = Fetches[i]
  BY <1>2 DEF Fetching, Range
<1>4. Fetching \subseteq Calls
  BY <1>2, <1>3
<1> QED BY <1>1, <1>2, <1>3, <1>4 DEF Dequeuers

\* A fetch is begun only when there is another one.
FetchAhead == loop \in {"locking", "check"} => fetch < Len(Fetches)

LEMMA CallOfQueue ==
    ASSUME ConsumerTypeOK, FetchAhead, [ConsumerNext]_consumerVars
    PROVE  [Next]_vars
<1>1. CASE Fetch
  <2>1. fetch + 1 \in 1..Len(Fetches)
    BY <1>1, FetchesAre DEF Fetch, FetchAhead, ConsumerTypeOK
  <2>2. Fetches[fetch + 1] \in Calls
    BY <2>1, FetchesAre
  <2> QED BY <1>1, <2>2 DEF Fetch, Next
<1>2. CASE Stop
  BY <1>2, FetchesAre DEF Stop, Next
<1>3. ASSUME NEW c \in Calls, QueueStep(c) \/ (c \in Clients /\ ClientCall(c))  PROVE Next
  BY <1>3 DEF QueueStep, ClientCall, Next
<1>4. CASE \/ StartLoop \/ LoopTop \/ LockForPolicy \/ NotActive \/ Fetched \/ Process \/ Delay
           \/ Start \/ \E w \in Control : ControlCall(w) \/ Announce(w)
  BY <1>4 DEF StartLoop, LoopTop, LockForPolicy, NotActive, Fetched, Process, Delay, Start,
              ControlCall, Announce
<1>5. CASE UNCHANGED consumerVars
  BY <1>5 DEF consumerVars
<1> QED BY <1>1, <1>2, <1>3, <1>4, <1>5 DEF ConsumerNext, LoopStep, ControlStep, Clients

-----------------------------------------------------------------------------
(* Types, and where the fetches are.                                       *)

LEMMA StepMoves ==
    ASSUME TypeOK, NEW c \in Calls, Step(c)
    PROVE  /\ pc[c] \notin {"new", "done"} /\ pc'[c] # "new"
           /\ \A d \in Calls \ {c} : pc'[d] = pc[d]
BY DEF TypeOK, Step, RLock, CheckClosed, Send, Full, Receive, Timeout, ContextDone, Load,
       Store, Lock, Locked, Close, Goes, Returns

\* The consumer's variables but got, when only the loop's place and counters
\* change and no fetch begins or ends.
LEMMA QuietStep ==
    ASSUME ConsumerTypeOK, UNCHANGED <<vars, fetch, got>>, TypeOK',
           loop' \in LoopPC, active' \in BOOLEAN, writer' \in [Control -> WriterPC],
           processed' \subseteq Enqueuers, consumed' \in Nat, errors' \in Nat,
           loop' = "fetching" <=> loop = "fetching",
           consumed' + errors' = fetch - (IF loop' \in {"fetching", "processing"} THEN 1 ELSE 0)
    PROVE  ConsumerTypeOK'
BY DEF ConsumerTypeOK, vars

LEMMA NextConsumerTypeOK ==
    ASSUME ConsumerTypeOK, FetchAhead, [ConsumerNext]_consumerVars
    PROVE  ConsumerTypeOK' /\ FetchAhead'
<1>0. TypeOK'
  BY CallOfQueue, NextTypeOK DEF ConsumerTypeOK
<1> USE FetchesAre
<1>1. CASE StartLoop \/ LoopTop \/ LockForPolicy \/ NotActive \/ Delay
  <2>1. ConsumerTypeOK'
    BY <1>0, <1>1, QuietStep DEF ConsumerTypeOK, StartLoop, LoopTop, LockForPolicy, NotActive,
                                 Delay, controlVars, LoopPC
  <2>2. FetchAhead'
    BY <1>1 DEF FetchAhead, StartLoop, LoopTop, LockForPolicy, NotActive, Delay
  <2> QED BY <2>1, <2>2
<1>2. CASE Process
  <2>1. fetch \in 1..Len(Fetches)
    BY <1>2 DEF Process, ConsumerTypeOK
  <2>2. got[Fetches[fetch]] \subseteq Enqueuers
    BY <2>1 DEF ConsumerTypeOK
  <2>3. processed' \subseteq Enqueuers
    BY <1>2, <2>2 DEF Process, ConsumerTypeOK
  <2>4. ConsumerTypeOK'
    BY <1>0, <1>2, <2>3, QuietStep DEF ConsumerTypeOK, Process, controlVars, LoopPC
  <2> QED BY <1>2, <2>4 DEF FetchAhead, Process
<1>3. CASE Start \/ \E w \in Control : ControlCall(w) \/ Announce(w)
  <2>1. writer' \in [Control -> WriterPC] /\ active' \in BOOLEAN
    BY <1>3 DEF Start, ControlCall, Announce, ConsumerTypeOK, WriterPC
  <2>2. UNCHANGED <<vars, loopVars, got>>
    BY <1>3 DEF Start, ControlCall, Announce
  <2>3. ConsumerTypeOK'
    BY <1>0, <2>1, <2>2, QuietStep DEF ConsumerTypeOK, loopVars
  <2> QED BY <2>2, <2>3 DEF FetchAhead, loopVars
<1>4. CASE Stop
  <2>1. /\ writer' \in [Control -> WriterPC] /\ active' \in BOOLEAN
        /\ pc' = pc /\ UNCHANGED <<loopVars, got>>
    BY <1>4 DEF Stop, Cancel, ConsumerTypeOK, WriterPC
  <2> QED BY <1>0, <2>1 DEF ConsumerTypeOK, FetchAhead, loopVars
<1>5. CASE Fetch
  <2> DEFINE c == Fetches[fetch + 1]
  <2>1. /\ fetch \in Nat /\ fetch < Len(Fetches) /\ fetch' = fetch + 1
        /\ loop = "check" /\ loop' = "fetching"
        /\ pc' = [pc EXCEPT ![c] = "waiting"] /\ pc \in [Calls -> PC]
        /\ UNCHANGED <<consumed, errors, processed, controlVars, got>>
    BY <1>5 DEF Fetch, Begin, Goes, FetchAhead, ConsumerTypeOK, TypeOK
  <2>2. fetch + 1 \in 1..Len(Fetches) /\ c \in Calls
    BY <2>1
  <2>3. \A i \in 1..Len(Fetches) : Fetches[i] \in Calls /\ (Fetches[i] = c <=> i = fetch + 1)
    BY <2>2
  <2> HIDE DEF c
  <2>4. \A i \in DOMAIN Fetches : pc'[Fetches[i]] = "new" <=> i > fetch'
    BY <2>1, <2>2, <2>3 DEF ConsumerTypeOK
  <2>5. \A i \in 1..fetch' : i < fetch' => pc'[Fetches[i]] = "done"
    BY <2>1, <2>2, <2>3 DEF ConsumerTypeOK
  <2>6. consumed' + errors' = fetch' - 1
    BY <2>1 DEF ConsumerTypeOK
  <2>7. ConsumerTypeOK'
    BY <1>0, <2>1, <2>4, <2>5, <2>6 DEF ConsumerTypeOK, controlVars, LoopPC
  <2> QED BY <2>1, <2>7 DEF FetchAhead
<1>6. CASE Fetched
  <2>1. /\ pc[Fetches[fetch]] = "done" /\ loop = "fetching"
        /\ \/ loop' = "processing" /\ errors' = errors
           \/ loop' = "delay" /\ errors' = errors + 1
        /\ UNCHANGED <<vars, fetch, consumed, processed, controlVars, got>>
    BY <1>6 DEF Fetched, Answered
  <2>2. \A i \in 1..fetch : pc'[Fetches[i]] = "done"
    BY <2>1 DEF ConsumerTypeOK, vars
  <2>3. \A i \in DOMAIN Fetches : pc'[Fetches[i]] = "new" <=> i > fetch'
    BY <2>1 DEF ConsumerTypeOK, vars
  <2>4. errors' \in Nat
        /\ consumed' + errors' = fetch' - (IF loop' = "processing" THEN 1 ELSE 0)
    <3>1. fetch \in Nat /\ consumed \in Nat /\ errors \in Nat /\ consumed + errors = fetch - 1
      BY <2>1 DEF ConsumerTypeOK
    <3>2. consumed' = consumed /\ fetch' = fetch
      BY <2>1
    <3> QED BY <2>1, <3>1, <3>2
  <2>5. ConsumerTypeOK'
    BY <1>0, <2>1, <2>2, <2>3, <2>4 DEF ConsumerTypeOK, controlVars, LoopPC
  <2> QED BY <2>1, <2>5 DEF FetchAhead
<1>7. ASSUME NEW c \in Calls, QueueStep(c)  PROVE ConsumerTypeOK' /\ FetchAhead'
  <2>1. /\ pc[c] \notin {"new", "done"} /\ pc'[c] # "new"
        /\ \A d \in Calls \ {c} : pc'[d] = pc[d]
    BY <1>7, StepMoves DEF QueueStep, ConsumerTypeOK
  <2>2. UNCHANGED <<loopVars, controlVars>>
    BY <1>7 DEF QueueStep
  <2>3. \A i \in 1..Len(Fetches) : /\ pc'[Fetches[i]] = "new" <=> pc[Fetches[i]] = "new"
                                   /\ pc[Fetches[i]] = "done" => pc'[Fetches[i]] = "done"
    BY <2>1
  <2>4. got' \in [Dequeuers -> SUBSET Enqueuers]
    <3>1. CASE c \in Dequeuers /\ Receive(c)
      <4>1. queue # <<>> /\ queue \in Seq(Enqueuers)
        BY <3>1 DEF Receive, ConsumerTypeOK, TypeOK
      <4>2. Head(queue) \in Enqueuers
        BY <4>1
      <4> QED BY <1>7, <3>1, <4>2 DEF QueueStep, ConsumerTypeOK
    <3> QED BY <1>7, <3>1 DEF QueueStep, ConsumerTypeOK
  <2>5. fetch \in 0..Len(Fetches)
    BY DEF ConsumerTypeOK
  <2>6. /\ \A i \in DOMAIN Fetches : pc'[Fetches[i]] = "new" <=> i > fetch
        /\ \A i \in 1..fetch : i < fetch \/ loop # "fetching" => pc'[Fetches[i]] = "done"
    BY <2>3, <2>5 DEF ConsumerTypeOK
  <2> QED BY <1>0, <2>2, <2>4, <2>6 DEF ConsumerTypeOK, FetchAhead, loopVars, controlVars
<1>8. ASSUME NEW c \in Clients, ClientCall(c)  PROVE ConsumerTypeOK' /\ FetchAhead'
  <2>1. /\ c \in Calls /\ c \notin Fetching
        /\ pc' = [pc EXCEPT ![c] = "waiting"] /\ pc \in [Calls -> PC]
        /\ UNCHANGED <<loopVars, controlVars, got>>
    BY <1>8 DEF ClientCall, Begin, Goes, Clients, ConsumerTypeOK, TypeOK
  <2>2. \A i \in 1..Len(Fetches) : pc'[Fetches[i]] = pc[Fetches[i]]
    BY <2>1
  <2>3. fetch \in 0..Len(Fetches)
    BY DEF ConsumerTypeOK
  <2> QED BY <1>0, <2>1, <2>2, <2>3 DEF ConsumerTypeOK, FetchAhead, loopVars, controlVars
<1>9. CASE UNCHANGED consumerVars
  BY <1>9 DEF consumerVars, vars, loopVars, controlVars, ConsumerTypeOK, TypeOK, FetchAhead
<1> QED BY <1>1, <1>2, <1>3, <1>4, <1>5, <1>6, <1>7, <1>8, <1>9
        DEF ConsumerNext, LoopStep, ControlStep

LEMMA InitConsumer == ConsumerInit => ConsumerTypeOK /\ FetchAhead
<1> SUFFICES ASSUME ConsumerInit  PROVE ConsumerTypeOK /\ FetchAhead
  OBVIOUS
<1>1. TypeOK
  BY InitTypeOK DEF ConsumerInit
<1>2. \A i \in 1..Len(Fetches) : pc[Fetches[i]] = "new"
  BY FetchesAre DEF ConsumerInit, Init
<1>3. /\ loop \in LoopPC /\ fetch = 0 /\ consumed = 0 /\ errors = 0 /\ processed = {}
      /\ active \in BOOLEAN /\ loop = "new"
  BY DEF ConsumerInit, LoopPC
<1>4. writer \in [Control -> WriterPC] /\ got \in [Dequeuers -> SUBSET Enqueuers]
  BY DEF ConsumerInit, WriterPC
<1>5. /\ fetch \in 0..Len(Fetches)
      /\ \A i \in DOMAIN Fetches : pc[Fetches[i]] = "new" <=> i > fetch
      /\ \A i \in 1..fetch : i < fetch \/ loop # "fetching" => pc[Fetches[i]] = "done"
  BY <1>2, <1>3, FetchesAre
<1>6. consumed + errors = fetch - (IF loop \in {"fetching", "processing"} THEN 1 ELSE 0)
  <2>1. loop \notin {"fetching", "processing"} /\ consumed + errors = fetch - 0
    BY <1>3
  <2> QED BY ONLY <2>1
<1>7. consumed \in Nat /\ errors \in Nat /\ processed \subseteq Enqueuers /\ FetchAhead
  BY <1>3 DEF FetchAhead
<1>8. loop \in LoopPC /\ active \in BOOLEAN
  BY <1>3
<1> QED BY ONLY <1>1, <1>4, <1>5, <1>6, <1>7, <1>8 DEF ConsumerTypeOK

LEMMA ConsumerInvariant == ConsumerSpec => [](ConsumerTypeOK /\ FetchAhead)
BY InitConsumer, NextConsumerTypeOK, PTL DEF ConsumerSpec

\* Every variable keeps its type, and the loop's counters add up to the fetches
\* that are over.
THEOREM ConsumerTypeCorrect == ConsumerSpec => []ConsumerTypeOK
BY ConsumerInvariant, PTL

\* The consumer and its clients use the queue as PolicyQueue lets them, so that
\* what holds of PolicyQueue holds here.
THEOREM UsesQueue == ConsumerSpec => Spec
<1>1. ConsumerInit => Init
  BY DEF ConsumerInit
<1>2. (ConsumerTypeOK /\ FetchAhead) /\ [ConsumerNext]_consumerVars => [Next]_vars
  BY CallOfQueue
<1> QED BY <1>1, <1>2, ConsumerInvariant, PTL DEF ConsumerSpec, Spec

\* Under the consumer, too, racing increments only make the queue's counters too
\* small, and nothing enters or leaves the queue once Close has returned.
THEOREM QueueUnderConsumer == ConsumerSpec => []CountersLag /\ ClosedIsFrozen
BY UsesQueue, CountersLagCorrect, ClosedIsFrozenCorrect, PTL

-----------------------------------------------------------------------------
(* Stop is a barrier.                                                      *)

\* pc.mu is held from the look at the flag to the end of the processing.
Held == loop \in {"fetching", "processing"} => active

LEMMA NextHeld ==
    ASSUME Held, [ConsumerNext]_consumerVars
    PROVE  Held'
BY DEF Held, ConsumerNext, consumerVars, LoopStep, ControlStep, StartLoop, LoopTop,
       LockForPolicy, NotActive, Fetch, Fetched, Answered, Process, Delay, ControlCall, Announce,
       Start, Stop, QueueStep, ClientCall, loopVars, controlVars, Reading

\* The loop takes a policy only while the consumer is active: none once Stop has
\* returned and Start has not been called since.
THEOREM TakesWhileActiveCorrect == ConsumerSpec => TakesWhileActive
<1>1. ConsumerInit => Held
  BY DEF ConsumerInit, Held
<1>2. Held /\ [ConsumerNext]_consumerVars => Held'
  BY NextHeld
<1>3. ConsumerTypeOK /\ Held /\ [ConsumerNext]_consumerVars =>
        [\A c \in Fetching : got'[c] # got[c]
            => active /\ loop = "fetching" /\ c = Current]_consumerVars
  <2> SUFFICES ASSUME ConsumerTypeOK, Held, [ConsumerNext]_consumerVars,
                      NEW c \in Fetching, got'[c] # got[c]
               PROVE  active /\ loop = "fetching" /\ c = Current
    OBVIOUS
  <2>1. PICK d \in Calls : QueueStep(d) /\ d \in Dequeuers /\ Receive(d)
    BY DEF ConsumerNext, consumerVars, LoopStep, ControlStep, StartLoop, LoopTop,
           LockForPolicy, NotActive, Fetch, Fetched, Process, Delay, ControlCall, Announce,
           Start, Stop, QueueStep, ClientCall
  <2>2. c \in Dequeuers /\ got' = [got EXCEPT ![d] = {Head(queue)}]
    BY <2>1, FetchesAre DEF QueueStep
  <2>3. c = d
    BY <2>2 DEF ConsumerTypeOK
  <2>4. pc[c] = "select"
    BY <2>1, <2>3 DEF Receive
  <2>5. PICK i \in 1..Len(Fetches) : c = Fetches[i]
    BY FetchesAre
  <2>6. i \in 1..fetch /\ fetch \in Nat
    BY <2>4, <2>5, FetchesAre DEF ConsumerTypeOK
  <2>7. i = fetch /\ loop = "fetching"
    BY <2>4, <2>5, <2>6 DEF ConsumerTypeOK
  <2> QED BY <2>5, <2>7 DEF Held, Current
<1> QED BY <1>1, <1>2, <1>3, ConsumerTypeCorrect, PTL DEF ConsumerSpec, TakesWhileActive
-----------------------------------------------------------------------------
(* No policy is lost or handled twice.                                     *)

\* A dequeue has no policy before its channel operation.
Empty == \A c \in Dequeuers : pc[c] \in {"new", "waiting", "check", "select"} => got[c] = {}

\* The invariant from which OncePerPolicy follows, and what it rests on.
OnceInv == ConsumerTypeOK /\ FetchAhead /\ Roles /\ Empty /\ OncePerPolicy

\* OncePerPolicy speaks of these five things only.
LEMMA OnceUnchanged ==
    ASSUME OncePerPolicy, Sent' = Sent, queue' = queue, InHand' = InHand,
           processed' = processed, WithOthers' = WithOthers
    PROVE  OncePerPolicy'
BY DEF OncePerPolicy

\* The current fetch is the only one between its beginning and its end.
LEMMA OnlyCurrent ==
    ASSUME ConsumerTypeOK, NEW c \in Fetching, pc[c] \notin {"new", "done"}
    PROVE  loop = "fetching" /\ c = Current
<1>1. PICK i \in 1..Len(Fetches) : c = Fetches[i]
  BY FetchesAre
<1>2. i \in 1..fetch /\ fetch \in Nat
  BY <1>1, FetchesAre DEF ConsumerTypeOK
<1> QED BY <1>1, <1>2 DEF ConsumerTypeOK, Current

LEMMA CurrentIsFetch ==
    ASSUME ConsumerTypeOK, loop \in {"fetching", "processing"}
    PROVE  /\ fetch \in 1..Len(Fetches) /\ Current \in Fetching /\ Current \in Calls
           /\ Current \in Dequeuers /\ Kind[Current] # "Close"
<1>1. fetch \in 0..Len(Fetches) /\ consumed \in Nat /\ errors \in Nat /\ consumed + errors = fetch - 1
  BY DEF ConsumerTypeOK
<1>2. fetch \in 1..Len(Fetches)
  BY <1>1, FetchesAre
<1> QED BY <1>2, FetchesAre DEF Current

\* Steps of the loop and of Start and Stop that leave the policies alone.
LEMMA LoopOnce ==
    ASSUME OnceInv,
           \/ StartLoop \/ LoopTop \/ LockForPolicy \/ NotActive \/ Fetched \/ Delay
           \/ Start \/ Stop \/ \E w \in Control : ControlCall(w) \/ Announce(w)
    PROVE  Empty' /\ OncePerPolicy'
<1>1. /\ pc' = pc /\ outcome' = outcome /\ queue' = queue /\ got' = got
      /\ processed' = processed /\ fetch' = fetch
  BY DEF StartLoop, LoopTop, LockForPolicy, NotActive, Fetched, Delay, Start, Stop, ControlCall,
         Announce, Cancel, vars, loopVars
<1>2. CASE Fetched
  <2>1. loop = "fetching" /\ pc[Current] = "done"
        /\ loop' = IF outcome[Current] = "ok" THEN "processing" ELSE "delay"
    BY <1>2 DEF Fetched, Answered, Current
  <2>2. Through(Current) <=> outcome[Current] = "ok"
    BY <2>1 DEF Through
  <2>3. InHand' = InHand
    BY <1>1, <2>1, <2>2 DEF InHand, Current
  <2> QED BY <1>1, <2>3, OnceUnchanged DEF OnceInv, Empty, Sent, Through, WithOthers
<1>3. CASE ~Fetched
  <2>1. loop' = loop \/ {loop, loop'} \cap {"fetching", "processing"} = {}
    BY <1>3 DEF StartLoop, LoopTop, LockForPolicy, NotActive, Delay, Start, Stop, ControlCall,
                Announce, loopVars
  <2>2. InHand' = InHand
    BY <1>1, <2>1 DEF InHand, Current, Through
  <2> QED BY <1>1, <2>2, OnceUnchanged DEF OnceInv, Empty, Sent, Through, WithOthers
<1> QED BY <1>2, <1>3

\* A call begins: the loop's next one, or a client's.
LEMMA BeginOnce ==
    ASSUME OnceInv, Fetch \/ \E c \in Clients : ClientCall(c)
    PROVE  Empty' /\ OncePerPolicy'
<1>1. PICK c \in Calls : /\ Begin(c) /\ got' = got /\ processed' = processed
                         /\ \/ c = Fetches[fetch + 1] /\ fetch' = fetch + 1
                               /\ loop = "check" /\ loop' = "fetching"
                            \/ fetch' = fetch /\ loop' = loop
  <2>1. CASE Fetch
    <3>1. fetch + 1 \in 1..Len(Fetches)
      BY <2>1, FetchesAre DEF Fetch, OnceInv, FetchAhead, ConsumerTypeOK
    <3>2. Fetches[fetch + 1] \in Calls
      BY <3>1, FetchesAre
    <3> QED BY <2>1, <3>2 DEF Fetch
  <2>2. CASE \E c \in Clients : ClientCall(c)
    BY <2>2 DEF ClientCall, Clients, loopVars
  <2> QED BY <2>1, <2>2
<1>2. /\ pc[c] = "new" /\ pc' = [pc EXCEPT ![c] = "waiting"] /\ pc \in [Calls -> PC]
      /\ outcome' = outcome /\ queue' = queue /\ outcome[c] = "none"
  BY <1>1 DEF Begin, Goes, OnceInv, ConsumerTypeOK, TypeOK, Roles
<1>3. \A d \in Calls : Through(d)' <=> Through(d)
  BY <1>2 DEF Through
<1>4. Sent' = Sent /\ WithOthers' = WithOthers
  BY <1>1, <1>3 DEF Sent, WithOthers, Enqueuers
<1>5. InHand' = InHand
  <2>1. CASE loop = "check" /\ loop' = "fetching"
    <3>1. Current' = c
      BY <1>1, <2>1 DEF Current
    <3>2. ~Through(c)'
      BY <1>2 DEF Through
    <3>3. InHand' = {}
      BY <2>1, <3>1, <3>2 DEF InHand, Through
    <3> QED BY <2>1, <3>3 DEF InHand
  <2>2. CASE fetch' = fetch /\ loop' = loop /\ loop \in {"fetching", "processing"}
    BY <1>1, <1>3, <2>2, CurrentIsFetch DEF InHand, Current, OnceInv, Through
  <2>3. CASE fetch' = fetch /\ loop' = loop /\ loop \notin {"fetching", "processing"}
    BY <2>3 DEF InHand
  <2> QED BY <1>1, <2>1, <2>2, <2>3
<1>6. Empty'
  BY <1>1, <1>2 DEF OnceInv, Empty, Dequeuers
<1> QED BY <1>1, <1>2, <1>4, <1>5, <1>6, OnceUnchanged DEF OnceInv

LEMMA ProcessOnce ==
    ASSUME OnceInv, Process
    PROVE  Empty' /\ OncePerPolicy'
<1>1. /\ loop = "processing" /\ loop' \in {"top", "delay"}
      /\ processed' = processed \cup got[Current]
      /\ pc' = pc /\ outcome' = outcome /\ queue' = queue /\ got' = got
  BY DEF Process, Current, vars
<1>2. InHand = got[Current] /\ InHand' = {}
  BY <1>1 DEF InHand
<1>3. Sent' = Sent /\ WithOthers' = WithOthers
  BY <1>1 DEF Sent, Through, WithOthers
<1> QED BY <1>1, <1>2, <1>3 DEF OnceInv, Empty, OncePerPolicy

LEMMA SendOnce ==
    ASSUME OnceInv, NEW c \in Calls, QueueStep(c), Send(c)
    PROVE  Empty' /\ OncePerPolicy'
<1>1. /\ c \in Enqueuers /\ pc[c] = "select" /\ outcome[c] = "none" /\ queue \in Seq(Enqueuers)
      /\ queue' = Append(queue, c) /\ pc' = [pc EXCEPT ![c] = "load"] /\ pc \in [Calls -> PC]
      /\ outcome' = outcome /\ UNCHANGED loopVars
  BY DEF Send, Goes, QueueStep, OnceInv, ConsumerTypeOK, TypeOK, Roles
<1>2. c \notin Dequeuers
  BY <1>1 DEF Enqueuers, Dequeuers
<1>3. got' = got
  BY <1>2 DEF QueueStep
<1>4. \A d \in Calls \ {c} : Through(d)' <=> Through(d)
  BY <1>1 DEF Through
<1>5. Sent' = Sent \cup {c} /\ c \notin Sent
  BY <1>1, <1>4 DEF Sent, Through, Enqueuers
<1>6. c \notin Range(queue) /\ Range(queue') = Range(queue) \cup {c} /\ IsInjective(queue')
  BY <1>1, <1>5, RangeAppend DEF OnceInv, OncePerPolicy
<1>7. InHand' = InHand
  <2>1. CASE loop \in {"fetching", "processing"}
    <3>1. Current \in Calls /\ Current # c /\ Current' = Current
      BY <1>1, <1>2, <2>1, CurrentIsFetch DEF OnceInv, Current, loopVars
    <3> QED BY <1>1, <1>3, <1>4, <3>1 DEF InHand, loopVars, Current, Through
  <2>2. CASE loop \notin {"fetching", "processing"}
    BY <1>1, <2>2 DEF InHand, loopVars
  <2> QED BY <2>1, <2>2
<1>8. WithOthers' = WithOthers /\ processed' = processed
  BY <1>1, <1>3 DEF WithOthers, loopVars
<1>9. Empty'
  BY <1>1, <1>2, <1>3 DEF OnceInv, Empty, Dequeuers
<1>10. OncePerPolicy'
  BY <1>5, <1>6, <1>7, <1>8 DEF OnceInv, OncePerPolicy
<1> QED BY <1>9, <1>10

LEMMA ReceiveOnce ==
    ASSUME OnceInv, NEW c \in Calls, QueueStep(c), Receive(c)
    PROVE  Empty' /\ OncePerPolicy'
<1> DEFINE p == Head(queue)
<1>1. /\ c \in Dequeuers /\ pc[c] = "select" /\ outcome[c] = "none" /\ got[c] = {}
      /\ queue \in Seq(Enqueuers) /\ queue # <<>> /\ queue' = Tail(queue)
      /\ pc' = [pc EXCEPT ![c] = "load"] /\ pc \in [Calls -> PC] /\ outcome' = outcome
      /\ got' = [got EXCEPT ![c] = {p}] /\ got \in [Dequeuers -> SUBSET Enqueuers]
      /\ UNCHANGED loopVars
  BY DEF Receive, Goes, QueueStep, OnceInv, ConsumerTypeOK, TypeOK, Roles, Empty
<1>2. c \notin Enqueuers
  BY <1>1 DEF Enqueuers, Dequeuers
<1>3. \A d \in Calls \ {c} : Through(d)' <=> Through(d)
  BY <1>1 DEF Through
<1>4. Sent' = Sent
  BY <1>2, <1>3 DEF Sent, Enqueuers
<1>5. p \in Range(queue) /\ Range(queue') = Range(queue) \ {p} /\ IsInjective(queue')
  BY <1>1, RangeTail DEF OnceInv, OncePerPolicy
<1>6. Empty'
  BY <1>1 DEF OnceInv, Empty, Dequeuers
<1>7. ~Through(c) /\ Through(c)'
  BY <1>1 DEF Through
<1>8. CASE c \in Fetching
  <2>1. loop = "fetching" /\ c = Current
    BY <1>1, <1>8, OnlyCurrent DEF OnceInv
  <2>2. Current' = Current /\ loop' = loop /\ processed' = processed
    BY <1>1 DEF Current, loopVars
  <2>3. InHand = {} /\ InHand' = {p}
    BY <1>1, <1>7, <2>1, <2>2 DEF InHand, Through
  <2>4. WithOthers' = WithOthers
    BY <1>1, <1>8 DEF WithOthers
  <2> QED BY <1>4, <1>5, <1>6, <2>2, <2>3, <2>4 DEF OnceInv, OncePerPolicy
<1>9. CASE c \notin Fetching
  <2>1. InHand' = InHand /\ processed' = processed
    <3>1. CASE loop \in {"fetching", "processing"}
      <4>1. Current \in Dequeuers /\ Current \in Calls /\ Current # c
        BY <1>9, <3>1, CurrentIsFetch DEF OnceInv
      <4>2. got'[Current] = got[Current] /\ Current' = Current /\ (Through(Current)' <=> Through(Current))
        BY <1>1, <1>3, <4>1 DEF Current, loopVars
      <4> QED BY <1>1, <4>2 DEF InHand, loopVars
    <3>2. CASE loop \notin {"fetching", "processing"}
      BY <1>1, <3>2 DEF InHand, loopVars
    <3> QED BY <1>1, <3>1, <3>2 DEF loopVars
  <2>2. WithOthers' = WithOthers \cup {p}
    <3>1. \A d \in Dequeuers \ Fetching : got'[d] = IF d = c THEN got[d] \cup {p} ELSE got[d]
      BY <1>1
    <3>2. c \in Dequeuers \ Fetching
      BY <1>1, <1>9
    <3> QED BY <3>1, <3>2 DEF WithOthers
  <2> QED BY <1>4, <1>5, <1>6, <2>1, <2>2 DEF OnceInv, OncePerPolicy
<1> QED BY <1>8, <1>9

\* The other steps of a call of the queue move no policy.
LEMMA OtherOnce ==
    ASSUME OnceInv, NEW c \in Calls, QueueStep(c), ~Send(c), ~Receive(c)
    PROVE  Empty' /\ OncePerPolicy'
<1>1. Step(c) /\ got' = got /\ UNCHANGED loopVars
  BY DEF QueueStep
<1>2. queue' = queue
  BY <1>1 DEF Step, RLock, CheckClosed, Full, Timeout, ContextDone, Load, Store, Lock, Locked,
              Close
<1>3. \A d \in Calls : Kind[d] # "Close" => (Through(d)' <=> Through(d))
  BY <1>1, ThroughStays DEF OnceInv, ConsumerTypeOK
<1>4. Sent' = Sent /\ WithOthers' = WithOthers
  BY <1>1, <1>3 DEF Sent, WithOthers, Enqueuers
<1>5. InHand' = InHand
  <2>1. CASE loop \in {"fetching", "processing"}
    <3>1. Current \in Calls /\ Kind[Current] # "Close"
      BY <2>1, CurrentIsFetch DEF OnceInv
    <3>2. Through(Current)' <=> Through(Current)
      <4>1. Current' = Current
        BY <1>1 DEF Current, loopVars
      <4> QED BY <1>3, <3>1, <4>1 DEF Through
    <3> QED BY <1>1, <3>2 DEF InHand, loopVars, Current
  <2>2. CASE loop \notin {"fetching", "processing"}
    BY <1>1, <2>2 DEF InHand, loopVars
  <2> QED BY <2>1, <2>2
<1>6. \A d \in Calls : pc'[d] \in {"new", "waiting", "check", "select"}
                        => pc[d] \in {"new", "waiting", "check", "select"}
  BY <1>1 DEF Step, RLock, CheckClosed, Full, Timeout, ContextDone, Load, Store, Lock, Locked,
              Close, Goes, Returns, OnceInv, ConsumerTypeOK, TypeOK
<1>7. Empty'
  BY <1>1, <1>6 DEF OnceInv, Empty, Dequeuers
<1> QED BY <1>1, <1>2, <1>4, <1>5, <1>7, OnceUnchanged DEF OnceInv, loopVars

LEMMA NextOnce ==
    ASSUME OnceInv, [ConsumerNext]_consumerVars
    PROVE  OnceInv'
<1>1. ConsumerTypeOK' /\ FetchAhead'
  BY NextConsumerTypeOK DEF OnceInv
<1>2. Roles'
  BY CallOfQueue, NextRoles DEF OnceInv, ConsumerTypeOK
<1>3. Empty' /\ OncePerPolicy'
  <2>1. CASE UNCHANGED consumerVars
    BY <2>1 DEF consumerVars, vars, loopVars, OnceInv, Empty, OncePerPolicy, Sent, Through, InHand,
                Current, WithOthers
  <2>2. ASSUME NEW c \in Calls, QueueStep(c)  PROVE Empty' /\ OncePerPolicy'
    BY <2>2, SendOnce, ReceiveOnce, OtherOnce
  <2> QED BY <2>1, <2>2, LoopOnce, BeginOnce, ProcessOnce
          DEF ConsumerNext, LoopStep, ControlStep
<1> QED BY <1>1, <1>2, <1>3 DEF OnceInv

\* A policy that the queue has accepted is in one place: the queue, the loop's
\* hand, among the processed ones or with another client.
THEOREM OncePerPolicyCorrect == ConsumerSpec => []OncePerPolicy
<1>1. ConsumerInit => OnceInv
  <2> SUFFICES ASSUME ConsumerInit  PROVE OnceInv
    OBVIOUS
  <2>1. ConsumerTypeOK /\ FetchAhead
    BY InitConsumer
  <2>2. Roles /\ Empty /\ Sent = {} /\ queue = <<>>
    BY DEF ConsumerInit, Init, Roles, Empty, Sent, Through, Enqueuers
  <2>3. InHand = {} /\ processed = {} /\ WithOthers = {}
    BY DEF ConsumerInit, InHand, WithOthers
  <2>4. Range(queue) = {} /\ IsInjective(queue)
    BY <2>2 DEF Range, IsInjective
  <2> QED BY <2>1, <2>2, <2>3, <2>4 DEF OnceInv, OncePerPolicy
<1>2. OnceInv /\ [ConsumerNext]_consumerVars => OnceInv'
  BY NextOnce
<1>3. OnceInv => OncePerPolicy
  BY DEF OnceInv
<1> QED BY <1>1, <1>2, <1>3, PTL DEF ConsumerSpec
=============================================================================
