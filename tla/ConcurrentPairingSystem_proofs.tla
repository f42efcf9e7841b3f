------------------- MODULE ConcurrentPairingSystem_proofs -------------------
(***************************************************************************)
(* Proofs about ConcurrentPairingSystem for any calls, batches, numbers of *)
(* workers, restarts and resets, and capacities of the two channels.       *)
(***************************************************************************)
EXTENDS ConcurrentPairingSystem, DataLemmas

-----------------------------------------------------------------------------
(* Type correctness.                                                       *)

\* The next policy of a batch that is not complete is one of the requests.
LEMMA NextOfBatch ==
    ASSUME NEW c \in Calls, NEW n \in Nat, n < BatchLen[c]
    PROVE  <<c, n + 1>> \in Requests
BY CPSAssumption DEF CPSAssumption, Requests

\* The bounds of the model are numbers.
LEMMA Bounds ==
    /\ QueueCap \in Nat /\ 0 < QueueCap
    /\ ResultsCap \in Nat /\ 0 < ResultsCap
    /\ MaxStarts \in Nat /\ 0 < MaxStarts
    /\ MaxWorkers \in Nat /\ 0 < MaxWorkers
    /\ MaxResets \in Nat
    /\ \A c \in Calls : BatchLen[c] \in Nat
BY CPSAssumption DEF CPSAssumption

LEMMA InitTypeOK == Init => TypeOK
<1> SUFFICES ASSUME Init  PROVE TypeOK
  OBVIOUS
<1>1. ClientTypeOK
  BY Bounds DEF Init, ClientTypeOK, CallPC
<1>2. WorkerTypeOK
  BY DEF Init, WorkerTypeOK, WorkerPC
<1>3. queue = <<>> /\ results = <<>> /\ buffer = <<>> /\ resultsClosed = FALSE
      /\ delivered = {} /\ discarded = {} /\ abandoned = {}
  BY DEF Init
<1>4. QueueTypeOK /\ ResultTypeOK /\ LedgerTypeOK
  <2>1. <<>> \in Seq(Requests) /\ Len(<<>>) = 0
    BY EmptySeq
  <2>2. QueueTypeOK
    BY <1>3, <2>1, Bounds DEF QueueTypeOK
  <2>3. ResultTypeOK
    <3>1. results \in Seq(Requests) /\ Len(results) <= ResultsCap
      BY <1>3, <2>1, Bounds
    <3> QED BY <1>3, <3>1 DEF ResultTypeOK
  <2>4. LedgerTypeOK
    BY <1>3, <2>1 DEF LedgerTypeOK
  <2> QED BY <2>2, <2>3, <2>4
<1>5. CollectTypeOK
  BY DEF Init, CollectTypeOK, CollectorPC
<1>6. ctl = "idle" /\ todoWorkers = {} /\ todoCalls = {} /\ starts = 0
      /\ running = FALSE /\ ctxDone = FALSE /\ resets = 0 /\ crashed = FALSE
  BY DEF Init
<1>7. 0 \in 0..MaxStarts /\ 0 \in 0..MaxResets
  BY Bounds
<1>8. CtlTypeOK
  BY <1>6, <1>7 DEF CtlTypeOK, CtlPhase
<1> QED
  BY <1>1, <1>2, <1>4, <1>5, <1>6, <1>8 DEF TypeOK

\* A step keeps the type of every group of variables that it does not change.
LEMMA TypeFrame ==
    TypeOK =>
      /\ UNCHANGED clientVars => ClientTypeOK'
      /\ UNCHANGED queue => QueueTypeOK'
      /\ UNCHANGED workerVars => WorkerTypeOK'
      /\ UNCHANGED resultVars => ResultTypeOK'
      /\ UNCHANGED collectVars => CollectTypeOK'
      /\ UNCHANGED ctlVars => CtlTypeOK'
      /\ UNCHANGED ledgerVars => LedgerTypeOK'
      /\ UNCHANGED crashed => crashed' \in BOOLEAN
BY DEF TypeOK, ClientTypeOK, clientVars, QueueTypeOK, WorkerTypeOK, workerVars,
       ResultTypeOK, resultVars, CollectTypeOK, collectVars, CtlTypeOK, ctlVars,
       LedgerTypeOK, ledgerVars

LEMMA CallTypeOK ==
    ASSUME TypeOK, NEW c \in Calls, CallCheck(c) \/ CallStep(c)
    PROVE  TypeOK'
<1> USE TypeFrame DEF TypeOK
<1>1. CASE CallCheck(c) \/ AddProducer(c) \/ ProducerStart(c) \/ ProduceBegin(c)
           \/ ProduceEnd(c) \/ ProducerStop(c)
  BY <1>1 DEF CallCheck, AddProducer, ProducerStart, ProduceBegin, ProduceEnd,
              ProducerStop, CallGoes, ClientTypeOK, CallPC
<1>2. CASE Produce(c) /\ Len(queue) < QueueCap
  <2>1. <<c, sent[c] + 1>> \in Requests
    BY <1>2, NextOfBatch DEF Produce, ClientTypeOK
  <2>2. /\ queue' = Append(queue, <<c, sent[c] + 1>>)
        /\ sent' = [sent EXCEPT ![c] = @ + 1]
        /\ UNCHANGED <<call, active, producers>> /\ sent[c] < BatchLen[c]
    BY <1>2 DEF Produce
  <2>3. QueueTypeOK'
    BY <1>2, <2>1, <2>2, RangeAppend, Bounds DEF QueueTypeOK
  <2>4. ClientTypeOK'
    BY <2>2, Bounds DEF ClientTypeOK
  <2> QED BY <1>2, <2>3, <2>4 DEF Produce
<1>3. CASE Produce(c) /\ ~(Len(queue) < QueueCap)
  BY <1>3 DEF Produce, CallGoes, ClientTypeOK, CallPC
<1> QED BY <1>1, <1>2, <1>3 DEF CallStep

LEMMA WorkerStepTypeOK ==
    ASSUME TypeOK, Positions, NEW w \in Workers, WorkerStep(w)
    PROVE  TypeOK'
<1> USE TypeFrame DEF TypeOK
<1>1. CASE WorkerLoop(w) \/ WorkerDequeueCancelled(w) \/ WorkerLock(w)
  BY <1>1 DEF WorkerLoop, WorkerDequeueCancelled, WorkerLock, WorkerGoes,
              WorkerTypeOK, WorkerPC
<1>2. CASE WorkerDequeue(w)
  <2>1. QueueTypeOK' /\ Head(queue) \in Requests
    BY <1>2, RangeTail, Bounds DEF WorkerDequeue, QueueTypeOK
  <2>2. WorkerTypeOK'
    BY <1>2, <2>1 DEF WorkerDequeue, WorkerGoes, WorkerTypeOK, WorkerPC
  <2> QED BY <1>2, <2>1, <2>2 DEF WorkerDequeue
<1>3. CASE WorkerProcess(w)
  BY <1>3 DEF WorkerProcess, WorkerGoes, WorkerTypeOK, WorkerPC
<1>4. CASE WorkerSend(w)
  <2>1. hand[w] \in Requests
    BY <1>4 DEF WorkerSend, Positions, WorkerPositions, WorkerTypeOK
  <2>2. ResultTypeOK'
    BY <1>4, <2>1, RangeAppend, Bounds DEF WorkerSend, ResultTypeOK
  <2>3. WorkerTypeOK'
    BY <1>4 DEF WorkerSend, WorkerGoes, WorkerTypeOK, WorkerPC
  <2> QED BY <1>4, <2>2, <2>3 DEF WorkerSend
<1>5. CASE WorkerSendPanic(w)
  BY <1>5 DEF WorkerSendPanic
<1>6. CASE WorkerAbandon(w)
  <2>1. WorkerTypeOK'
    BY <1>6 DEF WorkerAbandon, WorkerGoes, WorkerTypeOK, WorkerPC
  <2>2. hand[w] \in Requests
    BY <1>6 DEF WorkerAbandon, Positions, WorkerPositions, WorkerTypeOK
  <2>3. LedgerTypeOK'
    BY <1>6, <2>2 DEF WorkerAbandon, LedgerTypeOK
  <2> QED BY <1>6, <2>1, <2>3 DEF WorkerAbandon
<1> QED BY <1>1, <1>2, <1>3, <1>4, <1>5, <1>6 DEF WorkerStep

LEMMA CollectTypeStep ==
    ASSUME TypeOK, Positions,
           GetResults \/ \E g \in Collectors : CollectorStep(g)
    PROVE  TypeOK'
<1> USE TypeFrame DEF TypeOK
<1>1. CASE GetResults
  <2>1. <<>> \in Seq(Requests) /\ Range(buffer) \subseteq Requests
    BY EmptySeq, RangeSubset DEF LedgerTypeOK
  <2>2. LedgerTypeOK'
    BY <1>1, <2>1 DEF GetResults, LedgerTypeOK
  <2> QED BY <1>1, <2>2 DEF GetResults
<1>2. ASSUME NEW g \in Collectors, CollectorTake(g)  PROVE TypeOK'
  <2>1. ResultTypeOK' /\ Head(results) \in Requests
    BY <1>2, RangeTail, Bounds DEF CollectorTake, ResultTypeOK
  <2>2. CollectTypeOK'
    BY <1>2, <2>1 DEF CollectorTake, CollectorGoes, CollectTypeOK, CollectorPC
  <2> QED BY <1>2, <2>1, <2>2 DEF CollectorTake
<1>3. ASSUME NEW g \in Collectors, CollectorExit(g) \/ CollectorCount(g)
      PROVE  TypeOK'
  <2>1. CollectTypeOK'
    BY <1>3 DEF CollectorExit, CollectorCount, CollectorGoes, CollectTypeOK, CollectorPC
  <2> QED BY <1>3, <2>1 DEF CollectorExit, CollectorCount
<1>4. ASSUME NEW g \in Collectors, CollectorBuffer(g)  PROVE TypeOK'
  <2>1. CollectTypeOK'
    BY <1>4 DEF CollectorBuffer, CollectorGoes, CollectTypeOK, CollectorPC
  <2>2. picked[g] \in Requests
    BY <1>4 DEF CollectorBuffer, Positions, CollectorPositions,
                   CollectTypeOK
  <2>3. LedgerTypeOK'
    BY <1>4, <2>2, RangeAppend DEF CollectorBuffer, LedgerTypeOK
  <2> QED BY <1>4, <2>1, <2>3 DEF CollectorBuffer
<1> QED BY <1>1, <1>2, <1>3, <1>4 DEF CollectorStep

LEMMA ControlTypeOK ==
    ASSUME TypeOK, Positions, Start \/ Stop \/ ResetStats \/ CtlStep
    PROVE  TypeOK'
<1> USE TypeFrame DEF TypeOK
<1>1. CASE Start
  <2>1. WorkerTypeOK'
    BY <1>1 DEF Start, WorkerTypeOK, WorkerPC
  <2>2. CollectTypeOK'
    BY <1>1 DEF Start, CollectorGoes, CollectTypeOK, CollectorPC
  <2>3. starts' \in 0..MaxStarts
    BY <1>1, Bounds DEF Start, CtlTypeOK
  <2>4. CtlTypeOK'
    BY <1>1, <2>3 DEF Start, CtlTypeOK, CtlPhase, ClientTypeOK
  <2> QED BY <1>1, <2>1, <2>2, <2>4 DEF Start
<1>2. ASSUME NEW c \in Calls, StartProducer(c) \/ StopProducer(c)
      PROVE  TypeOK'
  <2>1. ClientTypeOK' /\ CtlTypeOK'
    BY <1>2 DEF StartProducer, StopProducer, SetActive, ClientTypeOK, CtlTypeOK
  <2> QED BY <1>2, <2>1 DEF StartProducer, StopProducer, SetActive, NotCtl, workerVars
<1>3. CASE StartReturn \/ Stop \/ StopAll \/ StopCancel \/ ResetPairing
  <2>1. CtlTypeOK'
    BY <1>3 DEF StartReturn, Stop, StopAll, StopCancel, ResetPairing, CtlTypeOK,
                CtlPhase, ClientTypeOK, clientVars, Created
  <2> QED BY <1>3, <2>1 DEF StartReturn, Stop, StopAll, StopCancel, ResetPairing, NotCtl
<1>4. ASSUME NEW w \in Workers, StopWorker(w) \/ ResetWorker(w)
      PROVE  TypeOK'
  <2>1. WorkerTypeOK' /\ CtlTypeOK'
    BY <1>4 DEF StopWorker, ResetWorker, WorkerTypeOK, CtlTypeOK
  <2> QED BY <1>4, <2>1 DEF StopWorker, ResetWorker, NotCtl
<1>5. CASE StopClose
  <2>1. ResultTypeOK'
    BY <1>5 DEF StopClose, ResultTypeOK
  <2>2. CtlTypeOK'
    BY <1>5 DEF StopClose, CtlTypeOK, CtlPhase
  <2> QED BY <1>5, <2>1, <2>2 DEF StopClose
<1>6. CASE StopClosePanic
  BY <1>6 DEF StopClosePanic
<1>7. CASE ResetStats
  <2>1. CollectTypeOK'
    BY <1>7 DEF ResetStats, CollectTypeOK
  <2>2. resets' \in 0..MaxResets
    BY <1>7, Bounds DEF ResetStats, CtlTypeOK
  <2>3. CtlTypeOK'
    BY <1>7, <2>2 DEF ResetStats, CtlTypeOK, CtlPhase, Created
  <2> QED BY <1>7, <2>1, <2>3 DEF ResetStats
<1>8. CASE ClearBuffer
  <2>1. <<>> \in Seq(Requests) /\ Range(buffer) \subseteq Requests
    BY EmptySeq, RangeSubset DEF LedgerTypeOK
  <2>2. LedgerTypeOK' /\ CtlTypeOK'
    BY <1>8, <2>1 DEF ClearBuffer, LedgerTypeOK, CtlTypeOK, CtlPhase
  <2> QED BY <1>8, <2>2 DEF ClearBuffer, NotCtl
<1> QED
  BY <1>1, <1>2, <1>3, <1>4, <1>5, <1>6, <1>7, <1>8 DEF CtlStep

LEMMA StutterTypeOK == TypeOK /\ UNCHANGED vars => TypeOK'
BY TypeFrame DEF TypeOK, vars

-----------------------------------------------------------------------------
(* The positions of the goroutines.                                        *)

LEMMA InitPositions == Init => Positions
BY DEF Init, Positions, WorkerPositions, CollectorPositions, StopPositions, Created,
       Stopping, Workers, Collectors

LEMMA PositionsFrame ==
    Positions =>
      /\ UNCHANGED <<worker, hand, starts>> => WorkerPositions'
      /\ UNCHANGED <<collector, picked, starts>> => CollectorPositions'
      /\ UNCHANGED <<cancelled, resultsClosed, ctl, ctxDone>> => StopPositions'
BY DEF Positions, WorkerPositions, CollectorPositions, StopPositions, Created, Stopping

\* Only Start, Stop and what they do under cps.mu touch what Stop leaves behind,
\* and only Start creates goroutines.
LEMMA NextPositions ==
    ASSUME TypeOK, Positions, [Next]_vars
    PROVE  Positions'
<1> USE PositionsFrame DEF Positions
<1>1. ASSUME NEW c \in Calls, CallCheck(c) \/ CallStep(c)
      PROVE  Positions'
  BY <1>1 DEF CallStep, CallCheck, AddProducer, ProducerStart, ProduceBegin, Produce,
              ProduceEnd, ProducerStop, workerVars, collectVars, ctlVars, resultVars
<1>2. ASSUME NEW w \in Workers, WorkerStep(w)
      PROVE  Positions'
  <2> USE <1>2
  <2>1. UNCHANGED <<collector, picked, starts, cancelled, resultsClosed, ctl, ctxDone>>
    BY DEF WorkerStep, WorkerLoop, WorkerDequeue, WorkerDequeueCancelled, WorkerLock,
           WorkerProcess, WorkerSend, WorkerSendPanic, WorkerAbandon, collectVars,
           ctlVars, resultVars, workerVars
  <2>2. WorkerPositions'
    <3> USE DEF WorkerPositions, WorkerTypeOK, TypeOK, WorkerGoes, Created
    <3>1. CASE WorkerLoop(w) \/ WorkerLock(w) \/ WorkerProcess(w)
               \/ WorkerDequeueCancelled(w)
      BY <3>1, <2>1 DEF WorkerLoop, WorkerLock, WorkerProcess, WorkerDequeueCancelled
    <3>2. CASE WorkerDequeue(w)
      <4>1. Head(queue) # NoRequest
        BY <3>2, RangeTail, CPSAssumption DEF WorkerDequeue, QueueTypeOK, CPSAssumption
      <4> QED BY <3>2, <2>1, <4>1 DEF WorkerDequeue
    <3>3. CASE WorkerSend(w) \/ WorkerAbandon(w)
      BY <3>3, <2>1 DEF WorkerSend, WorkerAbandon
    <3>4. CASE WorkerSendPanic(w)
      BY <3>4, <2>1 DEF WorkerSendPanic, workerVars
    <3> QED BY <3>1, <3>2, <3>3, <3>4 DEF WorkerStep
  <2> QED BY <2>1, <2>2
<1>3. ASSUME NEW g \in Collectors, CollectorStep(g)
      PROVE  Positions'
  <2> USE <1>3
  <2>1. UNCHANGED <<worker, hand, starts, cancelled, resultsClosed, ctl, ctxDone>>
    BY DEF CollectorStep, CollectorTake, CollectorExit, CollectorBuffer,
           CollectorCount, workerVars, ctlVars, resultVars
  <2>2. CollectorPositions'
    <3> USE DEF CollectorPositions, CollectTypeOK, TypeOK, CollectorGoes
    <3>1. CASE CollectorTake(g)
      <4>1. Head(results) # NoRequest
        BY <3>1, RangeTail, CPSAssumption DEF CollectorTake, ResultTypeOK, CPSAssumption
      <4> QED BY <3>1, <2>1, <4>1 DEF CollectorTake
    <3>2. CASE CollectorExit(g) \/ CollectorBuffer(g) \/ CollectorCount(g)
      BY <3>2, <2>1 DEF CollectorExit, CollectorBuffer, CollectorCount
    <3> QED BY <3>1, <3>2 DEF CollectorStep
  <2> QED BY <2>1, <2>2
<1>4. CASE GetResults
  BY <1>4 DEF GetResults, workerVars, collectVars, ctlVars, resultVars
<1>5. CASE Start
  <2>1. starts' = starts + 1 /\ starts \in Int
    BY <1>5 DEF Start, TypeOK, CtlTypeOK
  <2>2. WorkerPositions'
    BY <1>5, <2>1 DEF Start, WorkerPositions, WorkerTypeOK, TypeOK, Created, Workers
  <2>3. CollectorPositions'
    BY <1>5, <2>1 DEF Start, CollectorGoes, CollectorPositions, CollectTypeOK, TypeOK,
                      Collectors
  <2>4. StopPositions'
    BY <1>5 DEF Start, StopPositions, Stopping, resultVars
  <2> QED BY <2>2, <2>3, <2>4
<1>6. CASE Stop \/ ResetStats \/ CtlStep
  <2>1. UNCHANGED <<worker, hand, collector, picked, starts>>
    BY <1>6 DEF Stop, ResetStats, CtlStep, StartProducer, StopProducer, SetActive,
                StopWorker, ResetWorker, StartReturn, StopAll, StopCancel, StopClose,
                StopClosePanic, ResetPairing, ClearBuffer, NotCtl, workerVars,
                collectVars, ctlVars
  <2>2. StopPositions'
    BY <1>6 DEF Stop, ResetStats, CtlStep, StartProducer, StopProducer, SetActive,
                StopWorker, ResetWorker, StartReturn, StopAll, StopCancel, StopClose,
                StopClosePanic, ResetPairing, ClearBuffer, NotCtl, workerVars,
                resultVars, ctlVars, StopPositions, Stopping
  <2> QED BY <2>1, <2>2
<1>7. CASE UNCHANGED vars
  BY <1>7 DEF vars, workerVars, collectVars, ctlVars, resultVars
<1> QED
  BY <1>1, <1>2, <1>3, <1>4, <1>5, <1>6, <1>7 DEF Next

-----------------------------------------------------------------------------
\* In every reachable state of every instance the variables have their types,
\* the two channels respect their capacities, and the positions of the
\* goroutines agree with the rest of the state.
THEOREM TypeCorrect == Spec => [](TypeOK /\ Positions)
<1>1. Init => TypeOK /\ Positions
  BY InitTypeOK, InitPositions
<1>2. TypeOK /\ Positions /\ [Next]_vars => (TypeOK /\ Positions)'
  <2> SUFFICES ASSUME TypeOK, Positions, [Next]_vars  PROVE TypeOK' /\ Positions'
    OBVIOUS
  <2>1. TypeOK'
    BY CallTypeOK, WorkerStepTypeOK, CollectTypeStep, ControlTypeOK, StutterTypeOK
    DEF Next
  <2> QED BY <2>1, NextPositions
<1> QED BY <1>1, <1>2, PTL DEF Spec

\* A goroutine holds a request exactly while its program counter says so, only
\* what a Start launched exists, and nothing is cancelled or closed before Stop.
THEOREM PositionsCorrect == Spec => []Positions
BY TypeCorrect, PTL

-----------------------------------------------------------------------------
(* Every accepted policy is in exactly one place.                          *)

LEMMA PlacesFrame ==
    /\ UNCHANGED queue => AtQueue' = AtQueue
    /\ UNCHANGED hand => AtWorkers' = AtWorkers
    /\ UNCHANGED results => AtResults' = AtResults
    /\ UNCHANGED <<collector, picked>> => AtCollectors' = AtCollectors
    /\ UNCHANGED buffer => AtBuffer' = AtBuffer
    /\ UNCHANGED sent => Accepted' = Accepted
BY DEF AtQueue, AtWorkers, AtResults, AtCollectors, AtBuffer, Accepted

\* A worker with empty hands takes a request that no worker holds.
LEMMA HandTake ==
    ASSUME TypeOK, NoRepeats, NEW w \in Workers, hand[w] = NoRequest,
           NEW r \in Requests, r \notin AtWorkers, hand' = [hand EXCEPT ![w] = r]
    PROVE  /\ AtWorkers' = AtWorkers \cup {r}
           /\ \A u, v \in Workers : hand'[u] = hand'[v] /\ hand'[u] # NoRequest => u = v
<1>1. hand \in [Workers -> Requests \cup {NoRequest}] /\ r # NoRequest
  BY CPSAssumption DEF TypeOK, WorkerTypeOK, CPSAssumption
<1>2. \A v \in Workers : hand'[v] = IF v = w THEN r ELSE hand[v]
  BY <1>1
<1> QED BY <1>1, <1>2 DEF AtWorkers, NoRepeats

\* A worker passes on the request it holds, and is the only one to hold it.
LEMMA HandDrop ==
    ASSUME TypeOK, NoRepeats, NEW w \in Workers, hand[w] # NoRequest,
           hand' = [hand EXCEPT ![w] = NoRequest]
    PROVE  /\ hand[w] \in AtWorkers /\ hand[w] \in Requests
           /\ AtWorkers' = AtWorkers \ {hand[w]}
           /\ \A u, v \in Workers : hand'[u] = hand'[v] /\ hand'[u] # NoRequest => u = v
<1>1. hand \in [Workers -> Requests \cup {NoRequest}]
  BY DEF TypeOK, WorkerTypeOK
<1>2. \A v \in Workers : hand'[v] = IF v = w THEN NoRequest ELSE hand[v]
  BY <1>1
<1> QED BY <1>1, <1>2 DEF AtWorkers, NoRepeats

LEMMA InitExactlyOnce == Init => ExactlyOnce
<1> SUFFICES ASSUME Init  PROVE ExactlyOnce
  OBVIOUS
<1>1. AtQueue = {} /\ AtResults = {} /\ AtBuffer = {}
      /\ IsInjective(queue) /\ IsInjective(results) /\ IsInjective(buffer)
  BY RangeEmpty DEF Init, AtQueue, AtResults, AtBuffer
<1>2. AtWorkers = {} /\ AtCollectors = {}
  BY DEF Init, AtWorkers, AtCollectors
<1>3. Accepted = {}
  BY CPSAssumption DEF CPSAssumption, Init, Accepted, Requests
<1>4. NoRepeats
  BY <1>1 DEF Init, NoRepeats
<1>5. delivered = {} /\ discarded = {} /\ abandoned = {}
  BY DEF Init
<1> QED
  BY <1>1, <1>2, <1>3, <1>4, <1>5 DEF ExactlyOnce, Disjoint, InFlight, Settled

LEMMA NextExactlyOnce ==
    ASSUME TypeOK, Positions, ExactlyOnce, [Next]_vars
    PROVE  ExactlyOnce'
<1> USE PlacesFrame DEF ExactlyOnce
<1>1. ASSUME NEW c \in Calls, Produce(c), Len(queue) < QueueCap
      PROVE  ExactlyOnce'
  <2> DEFINE r == <<c, sent[c] + 1>>
  <2>1. /\ queue' = Append(queue, r) /\ sent' = [sent EXCEPT ![c] = @ + 1]
        /\ UNCHANGED <<hand, results, collector, picked, buffer, delivered,
                       discarded, abandoned>>
    BY <1>1 DEF Produce, workerVars, resultVars, collectVars, ledgerVars
  <2>2. r \in Requests /\ r \notin Accepted
    BY <1>1, NextOfBatch DEF Produce, TypeOK, ClientTypeOK, Accepted
  <2>3. Accepted' = Accepted \cup {r}
    BY <2>1, <2>2, CPSAssumption
    DEF TypeOK, ClientTypeOK, Accepted, Requests, CPSAssumption
  <2> HIDE DEF r
  <2>4. AtQueue' = AtQueue \cup {r} /\ IsInjective(queue')
    BY <2>1, <2>2, RangeAppend
    DEF TypeOK, QueueTypeOK, AtQueue, NoRepeats, InFlight, Settled
  <2>5. NoRepeats'
    BY <2>1, <2>4 DEF NoRepeats
  <2> QED BY <2>1, <2>2, <2>3, <2>4, <2>5 DEF Disjoint, InFlight, Settled
<1>2. ASSUME NEW w \in Workers, WorkerDequeue(w)
      PROVE  ExactlyOnce'
  <2> DEFINE r == Head(queue)
  <2>1. /\ queue # <<>> /\ queue' = Tail(queue)
        /\ hand[w] = NoRequest /\ hand' = [hand EXCEPT ![w] = r]
        /\ UNCHANGED <<sent, results, collector, picked, buffer, delivered,
                       discarded, abandoned>>
    BY <1>2 DEF WorkerDequeue, clientVars, resultVars, collectVars, ledgerVars,
                Positions, WorkerPositions
  <2>2. /\ r \in Requests /\ r \in AtQueue
        /\ AtQueue' = AtQueue \ {r} /\ IsInjective(queue')
    BY <2>1, RangeTail DEF TypeOK, QueueTypeOK, AtQueue, NoRepeats
  <2> HIDE DEF r
  <2>3. /\ AtWorkers' = AtWorkers \cup {r}
        /\ \A u, v \in Workers : hand'[u] = hand'[v] /\ hand'[u] # NoRequest => u = v
    BY <2>1, <2>2, HandTake DEF Disjoint
  <2>4. NoRepeats'
    BY <2>1, <2>2, <2>3 DEF NoRepeats
  <2> QED BY <2>1, <2>2, <2>3, <2>4 DEF Disjoint, InFlight, Settled
<1>3. ASSUME NEW w \in Workers, WorkerSend(w)
      PROVE  ExactlyOnce'
  <2> DEFINE r == hand[w]
  <2>1. /\ results' = Append(results, r)
        /\ r # NoRequest /\ hand' = [hand EXCEPT ![w] = NoRequest]
        /\ UNCHANGED <<sent, queue, collector, picked, buffer, delivered,
                       discarded, abandoned>>
    BY <1>3 DEF WorkerSend, clientVars, collectVars, ledgerVars, Positions,
                WorkerPositions
  <2>2. /\ r \in AtWorkers /\ r \in Requests /\ AtWorkers' = AtWorkers \ {r}
        /\ \A u, v \in Workers : hand'[u] = hand'[v] /\ hand'[u] # NoRequest => u = v
    BY <2>1, HandDrop
  <2> HIDE DEF r
  <2>3. AtResults' = AtResults \cup {r} /\ IsInjective(results')
    BY <2>1, <2>2, RangeAppend
    DEF TypeOK, ResultTypeOK, AtResults, NoRepeats, Disjoint
  <2>4. NoRepeats'
    BY <2>1, <2>2, <2>3 DEF NoRepeats
  <2> QED BY <2>1, <2>2, <2>3, <2>4 DEF Disjoint, InFlight, Settled
<1>4. ASSUME NEW w \in Workers, WorkerAbandon(w)
      PROVE  ExactlyOnce'
  <2> DEFINE r == hand[w]
  <2>1. /\ abandoned' = abandoned \cup {r}
        /\ r # NoRequest /\ hand' = [hand EXCEPT ![w] = NoRequest]
        /\ UNCHANGED <<sent, queue, results, collector, picked, buffer, delivered,
                       discarded>>
    BY <1>4 DEF WorkerAbandon, clientVars, resultVars, collectVars, Positions,
                WorkerPositions
  <2>2. /\ r \in AtWorkers /\ AtWorkers' = AtWorkers \ {r}
        /\ \A u, v \in Workers : hand'[u] = hand'[v] /\ hand'[u] # NoRequest => u = v
    BY <2>1, HandDrop
  <2> HIDE DEF r
  <2>3. NoRepeats'
    BY <2>1, <2>2 DEF NoRepeats
  <2> QED BY <2>1, <2>2, <2>3 DEF Disjoint, InFlight, Settled
<1>5. ASSUME NEW g \in Collectors, CollectorTake(g)
      PROVE  ExactlyOnce'
  <2> DEFINE r == Head(results)
  <2>1. /\ results # <<>> /\ results' = Tail(results)
        /\ picked' = [picked EXCEPT ![g] = r]
        /\ collector' = [collector EXCEPT ![g] = "picked"]
        /\ UNCHANGED <<sent, queue, hand, buffer, delivered, discarded, abandoned>>
    BY <1>5 DEF CollectorTake, CollectorGoes, clientVars, workerVars, ledgerVars
  <2>2. /\ r \in AtResults /\ AtResults' = AtResults \ {r} /\ IsInjective(results')
    BY <2>1, RangeTail DEF TypeOK, ResultTypeOK, AtResults, NoRepeats
  <2> HIDE DEF r
  <2>3. \A h \in Collectors :
          /\ picked'[h] = IF h = g THEN r ELSE picked[h]
          /\ collector'[h] = IF h = g THEN "picked" ELSE collector[h]
    BY <2>1 DEF TypeOK, CollectTypeOK
  <2>4. AtCollectors' = AtCollectors \cup {r}
    BY <1>5, <2>3 DEF AtCollectors, CollectorTake
  <2>5. NoRepeats'
    BY <2>1, <2>2, <2>3 DEF NoRepeats, AtCollectors, Disjoint
  <2> QED BY <2>1, <2>2, <2>4, <2>5 DEF Disjoint, InFlight, Settled
<1>6. ASSUME NEW g \in Collectors, CollectorBuffer(g)
      PROVE  ExactlyOnce'
  <2> DEFINE r == picked[g]
  <2>1. /\ buffer' = Append(buffer, r)
        /\ collector[g] = "picked" /\ r # NoRequest
        /\ collector' = [collector EXCEPT ![g] = "counting"]
        /\ UNCHANGED <<sent, queue, hand, results, picked, delivered, discarded,
                       abandoned>>
    BY <1>6 DEF CollectorBuffer, CollectorGoes, clientVars, workerVars, resultVars,
                Positions, CollectorPositions
  <2>2. r \in Requests /\ r \in AtCollectors
    BY <2>1 DEF TypeOK, CollectTypeOK, AtCollectors
  <2>3. AtBuffer' = AtBuffer \cup {r} /\ IsInjective(buffer')
    BY <2>1, <2>2, RangeAppend
    DEF TypeOK, LedgerTypeOK, AtBuffer, NoRepeats, Disjoint, InFlight
  <2>4. \A h \in Collectors :
          collector'[h] = IF h = g THEN "counting" ELSE collector[h]
    BY <2>1 DEF TypeOK, CollectTypeOK
  <2>5. AtCollectors' = AtCollectors \ {r}
    BY <2>1, <2>4 DEF AtCollectors, NoRepeats
  <2> HIDE DEF r
  <2>6. NoRepeats'
    BY <2>1, <2>3, <2>4 DEF NoRepeats
  <2> QED BY <2>1, <2>2, <2>3, <2>5, <2>6 DEF Disjoint, InFlight, Settled
<1>7. CASE GetResults \/ ClearBuffer
  <2>1. /\ buffer' = <<>>
        /\ \/ delivered' = delivered \cup AtBuffer /\ UNCHANGED discarded
           \/ discarded' = discarded \cup AtBuffer /\ UNCHANGED delivered
        /\ UNCHANGED <<sent, queue, hand, results, collector, picked, abandoned>>
    BY <1>7 DEF GetResults, ClearBuffer, clientVars, workerVars, resultVars,
                collectVars, NotCtl, AtBuffer
  <2>2. AtBuffer' = {} /\ IsInjective(buffer')
    BY <2>1, RangeEmpty DEF AtBuffer
  <2>3. NoRepeats'
    BY <2>1, <2>2 DEF NoRepeats
  <2> QED BY <2>1, <2>2, <2>3 DEF Disjoint, InFlight, Settled
<1> DEFINE Kept == UNCHANGED <<sent, queue, hand, results, buffer, delivered,
                               discarded, abandoned>>
<1>8. ASSUME Kept, AtCollectors' = AtCollectors,
             \A g \in Collectors : collector'[g] = "picked" =>
                 collector[g] = "picked" /\ picked'[g] = picked[g]
      PROVE  ExactlyOnce'
  <2>1. NoRepeats'
    BY <1>8 DEF NoRepeats
  <2> QED BY <1>8, <2>1 DEF Disjoint, InFlight, Settled
<1>9. ASSUME Start \/ \E g \in Collectors : CollectorExit(g) \/ CollectorCount(g)
      PROVE  ExactlyOnce'
  <2>1. Kept
    BY <1>9 DEF Start, CollectorExit, CollectorCount, clientVars, workerVars,
                resultVars, ledgerVars
  <2>2. \A g \in Collectors :
          /\ collector'[g] = "picked" <=> collector[g] = "picked"
          /\ collector[g] = "picked" => picked'[g] = picked[g]
    <3>1. CASE Start
      BY <3>1 DEF Start, CollectorGoes, TypeOK, CollectTypeOK, CtlTypeOK, Positions,
                  CollectorPositions, Collectors
    <3>2. ASSUME NEW h \in Collectors, CollectorExit(h) \/ CollectorCount(h)
          PROVE  \A g \in Collectors :
                   /\ collector'[g] = "picked" <=> collector[g] = "picked"
                   /\ collector[g] = "picked" => picked'[g] = picked[g]
      BY <3>2 DEF CollectorExit, CollectorCount, CollectorGoes, TypeOK, CollectTypeOK
    <3> QED BY <1>9, <3>1, <3>2
  <2>3. AtCollectors' = AtCollectors
    BY <2>2 DEF AtCollectors
  <2> QED BY <1>8, <2>1, <2>2, <2>3
<1>10. ASSUME Kept, UNCHANGED <<collector, picked>>
       PROVE  ExactlyOnce'
  BY <1>8, <1>10
<1>11. ASSUME NEW c \in Calls, CallCheck(c) \/ CallStep(c),
              ~(Produce(c) /\ Len(queue) < QueueCap)
       PROVE  ExactlyOnce'
  BY <1>10, <1>11
  DEF CallCheck, CallStep, AddProducer, ProducerStart, ProduceBegin, Produce,
      ProduceEnd, ProducerStop, workerVars, resultVars, collectVars, ledgerVars
<1>12. ASSUME NEW w \in Workers,
              WorkerLoop(w) \/ WorkerDequeueCancelled(w) \/ WorkerLock(w)
                \/ WorkerProcess(w) \/ WorkerSendPanic(w)
       PROVE  ExactlyOnce'
  BY <1>10, <1>12
  DEF WorkerLoop, WorkerDequeueCancelled, WorkerLock, WorkerProcess, WorkerSendPanic,
      clientVars, workerVars, resultVars, collectVars, ledgerVars
<1>13. ASSUME Stop \/ ResetStats \/ CtlStep, ~ClearBuffer
       PROVE  ExactlyOnce'
  BY <1>10, <1>13
  DEF Stop, ResetStats, CtlStep, StartProducer, StopProducer, SetActive, StopWorker,
      ResetWorker, StartReturn, StopAll, StopCancel, StopClose, StopClosePanic,
      ResetPairing, NotCtl, clientVars, workerVars, resultVars, collectVars, ledgerVars
<1>14. CASE UNCHANGED vars
  BY <1>10, <1>14
  DEF vars, clientVars, workerVars, resultVars, collectVars, ledgerVars
<1> QED
  BY <1>1, <1>2, <1>3, <1>4, <1>5, <1>6, <1>7, <1>9, <1>11, <1>12, <1>13, <1>14
  DEF Next, CallStep, WorkerStep, CollectorStep

\* Every policy that the queue accepted is in exactly one place, in every
\* reachable state of every instance.
THEOREM ExactlyOnceCorrect == Spec => []ExactlyOnce
<1>1. Init => ExactlyOnce
  BY InitExactlyOnce
<1>2. (TypeOK /\ Positions) /\ ExactlyOnce /\ [Next]_vars => ExactlyOnce'
  BY NextExactlyOnce
<1> QED BY <1>1, <1>2, TypeCorrect, PTL DEF Spec

-----------------------------------------------------------------------------
(* The system implements RequestLedger.                                    *)

\* The status of a request names the one place that it is in.
LEMMA StatusNamesPlace ==
    ASSUME ExactlyOnce, NEW r \in Requests
    PROVE  /\ RequestStatus(r) = "new" <=> r \notin Accepted
           /\ RequestStatus(r) = "pending" <=> r \in InFlight
           /\ RequestStatus(r) = "ready" <=> r \in AtBuffer
           /\ RequestStatus(r) = "answered" <=> r \in delivered
           /\ RequestStatus(r) = "discarded" <=> r \in discarded
           /\ RequestStatus(r) = "abandoned" <=> r \in abandoned
BY DEF ExactlyOnce, Disjoint, Settled, RequestStatus

\* A step that changes the status of the requests in S, and no other, to s and
\* does not begin to stop the system is a move of the ledger.
LEMMA MoveIntro ==
    ASSUME NEW S, NEW s, Stopping' = Stopping,
           \A r \in Requests : RequestStatus(r)' = IF r \in S THEN s ELSE RequestStatus(r)
    PROVE  Ledger!Move(S, s)
BY DEF Ledger!Move

LEMMA StayIntro ==
    ASSUME Stopping' = Stopping, \A r \in Requests : RequestStatus(r)' = RequestStatus(r)
    PROVE  UNCHANGED Ledger!ledgerVars
BY DEF Ledger!ledgerVars

\* Only Stop makes the ledger drain, and nothing undoes it.
LEMMA StoppingStays ==
    ASSUME TypeOK, Positions, [Next]_vars, ~Stop
    PROVE  Stopping' = Stopping
<1>1. CASE StopAll \/ StopCancel \/ StopClose
  BY <1>1 DEF StopAll, StopCancel, StopClose, Positions, StopPositions, Stopping
<1>2. CASE ctl' = ctl /\ ctxDone' = ctxDone
  BY <1>2 DEF Stopping
<1>3. CASE Start \/ StartReturn \/ ResetStats \/ ResetPairing \/ ClearBuffer
  BY <1>3 DEF Start, StartReturn, ResetStats, ResetPairing, ClearBuffer, Stopping
<1>4. ASSUME ~(StopAll \/ StopCancel \/ StopClose \/ Start \/ StartReturn \/ ResetStats
               \/ ResetPairing \/ ClearBuffer)
      PROVE  ctl' = ctl /\ ctxDone' = ctxDone
  BY <1>4
  DEF Next, vars, CallCheck, CallStep, AddProducer, ProducerStart, ProduceBegin, Produce,
      ProduceEnd, ProducerStop, WorkerStep, WorkerLoop, WorkerDequeue,
      WorkerDequeueCancelled, WorkerLock, WorkerProcess, WorkerSend, WorkerSendPanic,
      WorkerAbandon, CollectorStep, CollectorTake, CollectorExit, CollectorBuffer,
      CollectorCount, GetResults, CtlStep, StartProducer, StopProducer, SetActive,
      StopWorker, ResetWorker, StopClosePanic, ctlVars
<1> QED BY <1>1, <1>2, <1>3, <1>4

\* Every step of the system is a step of the ledger or leaves it as it is.
LEMMA NextImplements ==
    ASSUME TypeOK, Positions, ExactlyOnce, ExactlyOnce', [Next]_vars
    PROVE  [Ledger!Next]_(Ledger!ledgerVars)
<1> USE DEF ExactlyOnce
<1>1. ASSUME UNCHANGED <<Accepted, AtBuffer, delivered, discarded, abandoned>>
      PROVE  \A r \in Requests : RequestStatus(r)' = RequestStatus(r)
  BY <1>1 DEF RequestStatus, Settled, Disjoint
<1>2. ASSUME NEW c \in Calls, Produce(c), Len(queue) < QueueCap
      PROVE  \E r \in Requests : Ledger!Accept(r)
  <2> DEFINE r == <<c, sent[c] + 1>>
  <2>1. /\ sent' = [sent EXCEPT ![c] = @ + 1]
        /\ UNCHANGED <<buffer, delivered, discarded, abandoned, ctl, ctxDone>>
    BY <1>2 DEF Produce, ledgerVars, ctlVars
  <2>2. r \in Requests /\ r \notin Accepted
    BY <1>2, NextOfBatch DEF Produce, TypeOK, ClientTypeOK, Accepted
  <2>3. Accepted' = Accepted \cup {r}
    BY <2>1, <2>2, CPSAssumption
    DEF TypeOK, ClientTypeOK, Accepted, Requests, CPSAssumption
  <2> HIDE DEF r
  <2>4. \A q \in Requests :
          RequestStatus(q)' = IF q \in {r} THEN "pending" ELSE RequestStatus(q)
    BY <2>1, <2>2, <2>3, PlacesFrame DEF RequestStatus, Settled, Disjoint
  <2>5. Ledger!Move({r}, "pending")
    BY <2>1, <2>4, MoveIntro DEF Stopping
  <2> QED BY <2>2, <2>5, StatusNamesPlace DEF Ledger!Accept, Ledger!In
<1>3. ASSUME NEW g \in Collectors, CollectorBuffer(g)
      PROVE  \E r \in Requests : Ledger!Collect(r)
  <2> DEFINE r == picked[g]
  <2>1. /\ collector[g] = "picked" /\ r # NoRequest
        /\ buffer' = Append(buffer, r)
        /\ UNCHANGED <<sent, delivered, discarded, abandoned, ctl, ctxDone>>
    BY <1>3 DEF CollectorBuffer, clientVars, ctlVars, Positions, CollectorPositions
  <2>2. r \in Requests /\ r \in InFlight
    BY <2>1 DEF TypeOK, CollectTypeOK, AtCollectors, InFlight
  <2> HIDE DEF r
  <2>3. AtBuffer' = AtBuffer \cup {r}
    BY <2>1, <2>2, RangeAppend DEF TypeOK, LedgerTypeOK, AtBuffer
  <2>4. \A q \in Requests :
          RequestStatus(q)' = IF q \in {r} THEN "ready" ELSE RequestStatus(q)
    BY <2>1, <2>2, <2>3, PlacesFrame DEF RequestStatus, Settled, Disjoint
  <2>5. Ledger!Move({r}, "ready")
    BY <2>1, <2>4, MoveIntro DEF Stopping
  <2> QED BY <2>2, <2>5, StatusNamesPlace DEF Ledger!Collect, Ledger!In
<1>4. ASSUME NEW w \in Workers, WorkerAbandon(w)
      PROVE  \E r \in Requests : Ledger!Abandon(r)
  <2> DEFINE r == hand[w]
  <2>1. /\ r # NoRequest /\ abandoned' = abandoned \cup {r} /\ Stopping
        /\ UNCHANGED <<sent, buffer, delivered, discarded, ctl, ctxDone>>
    BY <1>4 DEF WorkerAbandon, clientVars, ctlVars, Positions, WorkerPositions,
                StopPositions
  <2>2. r \in Requests /\ r \in InFlight
    BY <2>1 DEF TypeOK, WorkerTypeOK, AtWorkers, InFlight
  <2> HIDE DEF r
  <2>3. \A q \in Requests :
          RequestStatus(q)' = IF q \in {r} THEN "abandoned" ELSE RequestStatus(q)
    BY <2>1, <2>2, PlacesFrame DEF RequestStatus, Settled, Disjoint
  <2>4. Ledger!Move({r}, "abandoned")
    BY <2>1, <2>3, MoveIntro DEF Stopping
  <2> QED BY <2>1, <2>2, <2>4, StatusNamesPlace DEF Ledger!Abandon, Ledger!In
<1>5. CASE GetResults
  <2>1. /\ buffer' = <<>> /\ delivered' = delivered \cup AtBuffer
        /\ UNCHANGED <<sent, discarded, abandoned, ctl, ctxDone>>
    BY <1>5 DEF GetResults, clientVars, ctlVars, AtBuffer
  <2>2. AtBuffer' = {}
    BY <2>1, RangeEmpty DEF AtBuffer
  <2>3. \A q \in Requests :
          RequestStatus(q)' = IF q \in Ledger!In("ready") THEN "answered"
                                                         ELSE RequestStatus(q)
    BY <2>1, <2>2, PlacesFrame, StatusNamesPlace
    DEF RequestStatus, Settled, Disjoint, Ledger!In
  <2>4. Stopping' = Stopping
    BY <2>1 DEF Stopping
  <2>5. Ledger!Move(Ledger!In("ready"), "answered")
    BY <2>3, <2>4, MoveIntro
  <2> QED BY <2>5 DEF Ledger!Answer, Ledger!Next
<1>6. CASE ClearBuffer
  <2>1. /\ buffer' = <<>> /\ discarded' = discarded \cup AtBuffer
        /\ UNCHANGED <<sent, delivered, abandoned>>
    BY <1>6 DEF ClearBuffer, clientVars, AtBuffer
  <2>2. AtBuffer' = {}
    BY <2>1, RangeEmpty DEF AtBuffer
  <2>3. \A q \in Requests :
          RequestStatus(q)' = IF q \in Ledger!In("ready") THEN "discarded"
                                                         ELSE RequestStatus(q)
    BY <2>1, <2>2, PlacesFrame, StatusNamesPlace
    DEF RequestStatus, Settled, Disjoint, Ledger!In
  <2>4. Stopping' = Stopping
    BY <1>6 DEF ClearBuffer, Stopping
  <2>5. Ledger!Move(Ledger!In("ready"), "discarded")
    BY <2>3, <2>4, MoveIntro
  <2> QED BY <2>5 DEF Ledger!Discard, Ledger!Next
<1>7. CASE Stop
  <2>1. Stopping' = TRUE /\ UNCHANGED <<sent, buffer, delivered, discarded, abandoned>>
    BY <1>7 DEF Stop, Stopping, clientVars, ledgerVars
  <2>2. \A r \in Requests : RequestStatus(r)' = RequestStatus(r)
    BY <1>1, <2>1, PlacesFrame
  <2> QED BY <2>1, <2>2 DEF Ledger!BeginDrain, Ledger!Next
<1>8. ASSUME UNCHANGED <<sent, buffer, delivered, discarded, abandoned>>, ~Stop
      PROVE  UNCHANGED Ledger!ledgerVars
  BY <1>1, <1>8, PlacesFrame, StoppingStays, StayIntro
<1>9. ASSUME ~Stop, ~GetResults, ~ClearBuffer,
             \A c \in Calls : ~(Produce(c) /\ Len(queue) < QueueCap),
             \A w \in Workers : ~WorkerAbandon(w),
             \A g \in Collectors : ~CollectorBuffer(g)
      PROVE  UNCHANGED <<sent, buffer, delivered, discarded, abandoned>>
  BY <1>9
  DEF Next, vars, CallCheck, CallStep, AddProducer, ProducerStart, ProduceBegin, Produce,
      ProduceEnd, ProducerStop, WorkerStep, WorkerLoop, WorkerDequeue,
      WorkerDequeueCancelled, WorkerLock, WorkerProcess, WorkerSend, WorkerSendPanic,
      CollectorStep, CollectorTake, CollectorExit, CollectorCount, Start, ResetStats,
      CtlStep, StartProducer, StopProducer, SetActive, StopWorker, ResetWorker,
      StartReturn, StopAll, StopCancel, StopClose, StopClosePanic, ResetPairing, NotCtl,
      clientVars, ledgerVars
<1> QED
  BY <1>2, <1>3, <1>4, <1>5, <1>6, <1>7, <1>8, <1>9 DEF Ledger!Next

\* The concurrent pairing system implements the ledger of requests: policies are
\* accepted once, answered or discarded once, and abandoned only by Stop.
THEOREM ImplementsLedger == Spec => LedgerSpec
<1>1. Init => Ledger!Init
  <2> SUFFICES ASSUME Init  PROVE Ledger!Init
    OBVIOUS
  <2>1. Accepted = {}
    BY CPSAssumption DEF CPSAssumption, Init, Accepted, Requests
  <2>2. Stopping = FALSE
    BY DEF Init, Stopping
  <2>3. \A r \in Requests : RequestStatus(r) = "new"
    BY <2>1, InitExactlyOnce, StatusNamesPlace
  <2> QED BY <2>2, <2>3 DEF Ledger!Init
<1>2. /\ TypeOK /\ Positions
      /\ ExactlyOnce /\ ExactlyOnce' /\ [Next]_vars
      => [Ledger!Next]_(Ledger!ledgerVars)
  BY NextImplements
<1> QED
  BY <1>1, <1>2, TypeCorrect, ExactlyOnceCorrect, PTL DEF Spec, LedgerSpec, Ledger!Spec

-----------------------------------------------------------------------------
(* Statistics.                                                             *)

AtSend == {hand[w] : w \in {w \in Workers : worker[w] = "send"}}
Held   == {picked[g] : g \in Counting}

\* Nobody is resetting the statistics; what a collector has still to count is
\* with the clients, or in the buffer for them, and no two hold the same.
CountingInv ==
    /\ ctl \notin {"resetWorkers", "clearBuffer"}
    /\ Held \subseteq AtBuffer \cup delivered
    /\ \A g, h \in Counting : picked[g] = picked[h] => g = h

TotalsExact ==
    /\ IsFiniteSet(Counted)
    /\ totalProcessed = Cardinality(Counted)
    /\ totalErrors = Cardinality(Inside(Counted, Rejected))

CountersExact ==
    /\ IsFiniteSet(Finished)
    /\ SumFunction(processed) = Cardinality(Outside(Finished, Rejected))
    /\ SumFunction(errors) = Cardinality(Inside(Finished, Rejected))

AccountInv == resets = 0 => CountingInv /\ TotalsExact /\ CountersExact

LEMMA TotalsStep ==
    ASSUME TypeOK, Positions, ExactlyOnce, CountingInv, TotalsExact, [Next]_vars,
           resets' = resets
    PROVE  CountingInv' /\ TotalsExact'
<1>1. ctl' \notin {"resetWorkers", "clearBuffer"}
  <2>1. ctl' = ctl \/ Start \/ StartReturn \/ Stop \/ StopAll \/ StopCancel \/ StopClose
    BY DEF CountingInv, TypeOK, CtlTypeOK, Next, vars, CallCheck, CallStep, AddProducer,
      ProducerStart, ProduceBegin, Produce, ProduceEnd, ProducerStop, WorkerStep,
      WorkerLoop, WorkerDequeue, WorkerDequeueCancelled, WorkerLock, WorkerProcess,
      WorkerSend, WorkerSendPanic, WorkerAbandon, CollectorStep, CollectorTake,
      CollectorExit, CollectorBuffer, CollectorCount, GetResults, ResetStats, CtlStep,
      StartProducer, StopProducer, SetActive, StopWorker, ResetWorker, StopClosePanic,
      ResetPairing, ClearBuffer, ctlVars
  <2> QED BY <2>1 DEF CountingInv, Start, StartReturn, Stop, StopAll, StopCancel, StopClose
<1>2. ASSUME Counting' = Counting, \A g \in Counting : picked'[g] = picked[g],
             AtBuffer' \cup delivered' = AtBuffer \cup delivered,
             UNCHANGED <<totalProcessed, totalErrors>>
      PROVE  CountingInv' /\ TotalsExact'
  <2>1. Held' = Held
    BY <1>2 DEF Held
  <2>2. Counted' = Counted
    BY <1>2, <2>1 DEF Counted, Held
  <2> QED BY <1>1, <1>2, <2>1, <2>2 DEF CountingInv, TotalsExact
<1>3. ASSUME NEW g \in Collectors, CollectorCount(g)
      PROVE  CountingInv' /\ TotalsExact'
  <2> DEFINE r == picked[g]
  <2>1. /\ g \in Counting /\ Counting' = Counting \ {g}
        /\ \A h \in Counting' : picked'[h] = picked[h]
        /\ UNCHANGED <<buffer, delivered>>
    BY <1>3 DEF CollectorCount, CollectorGoes, Counting, TypeOK, CollectTypeOK, ledgerVars
  <2>2. Held' = Held \ {r} /\ r \in Held
    BY <2>1 DEF Held, CountingInv
  <2>3. AtBuffer' = AtBuffer
    BY <2>1 DEF AtBuffer
  <2>4. r \notin Counted /\ Counted' = Counted \cup {r}
    BY <2>1, <2>2, <2>3 DEF Counted, Held, CountingInv
  <2>5. CountingInv'
    BY <1>1, <2>1, <2>2, <2>3 DEF CountingInv
  <2>6. /\ totalProcessed' = totalProcessed + 1
        /\ totalErrors' = totalErrors + (IF r \in Rejected THEN 1 ELSE 0)
    BY <1>3 DEF CollectorCount
  <2> HIDE DEF r
  <2>7. IsFiniteSet(Counted) /\ Adds(Counted', Counted, r)
    BY <2>4 DEF TotalsExact, Adds
  <2>8. IsFiniteSet(Counted') /\ Cardinality(Counted') = Cardinality(Counted) + 1
    BY <2>7, CountMore
  <2>9. totalErrors' = Cardinality(Inside(Counted', Rejected))
    <3>1. CASE r \in Rejected
      <4>1. Cardinality(Inside(Counted', Rejected))
              = Cardinality(Inside(Counted, Rejected)) + 1
        BY <2>7, <3>1, CountIn
      <4> QED BY <2>6, <3>1, <4>1 DEF TotalsExact
    <3>2. CASE r \notin Rejected
      <4>1. Inside(Counted', Rejected) = Inside(Counted, Rejected)
        BY <2>7, <3>2, CountOut
      <4>2. totalErrors \in Nat
        BY DEF TypeOK, CollectTypeOK
      <4> QED BY <2>6, <3>2, <4>1, <4>2 DEF TotalsExact
    <3> QED BY <3>1, <3>2
  <2>10. TotalsExact'
    BY <2>6, <2>8, <2>9 DEF TotalsExact
  <2> QED BY <2>5, <2>10
<1>4. ASSUME NEW g \in Collectors, CollectorBuffer(g)
      PROVE  CountingInv' /\ TotalsExact'
  <2> DEFINE r == picked[g]
  <2>1. /\ collector[g] = "picked" /\ r \in Requests
        /\ buffer' = Append(buffer, r)
        /\ collector' = [collector EXCEPT ![g] = "counting"]
        /\ UNCHANGED <<picked, delivered, totalProcessed, totalErrors>>
    BY <1>4 DEF CollectorBuffer, CollectorGoes, Positions, CollectorPositions, TypeOK,
                CollectTypeOK
  <2>2. /\ g \notin Counting /\ Counting' = Counting \cup {g}
        /\ \A h \in Counting' : picked'[h] = picked[h]
    BY <2>1 DEF Counting, TypeOK, CollectTypeOK
  <2>3. AtBuffer' = AtBuffer \cup {r}
    BY <2>1, RangeAppend DEF TypeOK, LedgerTypeOK, AtBuffer
  <2>4. r \notin AtBuffer \cup delivered
    BY <2>1 DEF ExactlyOnce, Disjoint, InFlight, AtCollectors
  <2>5. Held' = Held \cup {r}
    BY <2>2 DEF Held
  <2>6. Counted' = Counted
    BY <2>1, <2>3, <2>4, <2>5 DEF Counted, Held
  <2>7. \A h \in Counting : picked[h] # r
    BY <2>4 DEF CountingInv, Held
  <2>8. CountingInv'
    BY <1>1, <2>1, <2>2, <2>3, <2>5, <2>7 DEF CountingInv
  <2> QED BY <2>1, <2>6, <2>8 DEF TotalsExact
<1>5. CASE GetResults
  <2>1. /\ buffer' = <<>> /\ delivered' = delivered \cup AtBuffer
        /\ UNCHANGED <<collector, picked, totalProcessed, totalErrors>>
    BY <1>5 DEF GetResults, collectVars, AtBuffer
  <2>2. AtBuffer' = {}
    BY <2>1, RangeEmpty DEF AtBuffer
  <2> QED BY <1>2, <2>1, <2>2 DEF Counting
<1>6. ASSUME Start \/ \E g \in Collectors : CollectorTake(g) \/ CollectorExit(g)
      PROVE  CountingInv' /\ TotalsExact'
  <2>1. UNCHANGED <<buffer, delivered, totalProcessed, totalErrors>>
    BY <1>6 DEF Start, CollectorTake, CollectorExit, ledgerVars
  <2>2. Counting' = Counting /\ \A g \in Counting : picked'[g] = picked[g]
    <3>1. CASE Start
      BY <3>1 DEF Start, CollectorGoes, Counting, TypeOK, CollectTypeOK, CtlTypeOK,
                  Positions, CollectorPositions, Collectors
    <3>2. ASSUME NEW h \in Collectors, CollectorTake(h) \/ CollectorExit(h)
          PROVE  Counting' = Counting /\ \A g \in Counting : picked'[g] = picked[g]
      BY <3>2 DEF CollectorTake, CollectorExit, CollectorGoes, Counting, TypeOK,
                  CollectTypeOK
    <3> QED BY <1>6, <3>1, <3>2
  <2> QED BY <1>2, <2>1, <2>2 DEF AtBuffer
<1>7. CASE UNCHANGED <<collector, picked, buffer, delivered, totalProcessed, totalErrors>>
  BY <1>2, <1>7 DEF Counting, AtBuffer
<1>8. ASSUME ~Start, ~GetResults,
             \A g \in Collectors : ~CollectorStep(g)
      PROVE  UNCHANGED <<collector, picked, buffer, delivered, totalProcessed, totalErrors>>
  <2>1. ~ResetStats /\ ~ClearBuffer
    BY DEF ResetStats, ClearBuffer, CountingInv, TypeOK, CtlTypeOK
  <2> QED BY <1>8, <2>1
    DEF Next, vars, CallCheck, CallStep, AddProducer, ProducerStart, ProduceBegin, Produce,
      ProduceEnd, ProducerStop, WorkerStep, WorkerLoop, WorkerDequeue,
      WorkerDequeueCancelled, WorkerLock, WorkerProcess, WorkerSend, WorkerSendPanic,
      WorkerAbandon, Stop, CtlStep, StartProducer, StopProducer, SetActive, StopWorker,
      ResetWorker, StartReturn, StopAll, StopCancel, StopClose, StopClosePanic,
      ResetPairing, NotCtl, collectVars, ledgerVars
<1> QED BY <1>3, <1>4, <1>5, <1>6, <1>7, <1>8 DEF CollectorStep

LEMMA FiniteWorkers == IsFiniteSet(Workers)
<1>1. IsFiniteSet(1..MaxStarts) /\ IsFiniteSet(1..MaxWorkers)
  BY Bounds, FS_Interval
<1> QED BY <1>1, FS_Product DEF Workers

\* One more policy on one worker is one more in the sum of the counters.
LEMMA CounterUp ==
    ASSUME NEW f \in [Workers -> Nat], NEW w \in Workers
    PROVE  SumFunction([f EXCEPT ![w] = @ + 1]) = SumFunction(f) + 1
<1> DEFINE e == [f EXCEPT ![w] = @ + 1]
<1>1. IsFiniteSet(Workers)
  BY FiniteWorkers
<1>2. /\ DOMAIN f = Workers /\ DOMAIN e = Workers
      /\ \A v \in Workers : f[v] \in Int /\ e[v] \in Int
      /\ \A v \in Workers \ {w} : e[v] = f[v]
      /\ e[w] = f[w] + 1 /\ f[w] \in Nat
  OBVIOUS
<1> HIDE DEF e
<1>3. SumFunctionOnSet(f, Workers) \in Int
  BY <1>1, <1>2, SumType
<1>4. SumFunctionOnSet(e, Workers) = SumFunctionOnSet(f, Workers) + e[w] - f[w]
  BY <1>1, <1>2, SumChange
<1>5. SumFunctionOnSet(e, Workers) = SumFunctionOnSet(f, Workers) + 1
  BY <1>2, <1>3, <1>4
<1>6. /\ SumFunction(f) = SumFunctionOnSet(f, Workers)
      /\ SumFunction(e) = SumFunctionOnSet(e, Workers)
  BY <1>2, SumWhole
<1> QED BY <1>5, <1>6 DEF e

\* A finished policy is in the hand of a worker that sends it, or further on.
LEMMA FinishedParts ==
    /\ Finished = AtResults \cup AtCollectors \cup AtBuffer \cup delivered
                  \cup abandoned \cup AtSend
    /\ Finished' = AtResults' \cup AtCollectors' \cup AtBuffer' \cup delivered'
                   \cup abandoned' \cup AtSend'
BY DEF Finished, AtSend

\* Which steps of the workers change what is ready to be sent, and how.
LEMMA SendStep ==
    ASSUME TypeOK, Positions, ExactlyOnce, [Next]_vars
    PROVE  /\ \A w \in Workers : WorkerProcess(w) =>
                /\ hand[w] \in AtWorkers /\ hand[w] \notin AtSend
                /\ AtSend' = AtSend \cup {hand[w]}
           /\ \A w \in Workers : WorkerSend(w) \/ WorkerAbandon(w) =>
                hand[w] \in AtSend /\ AtSend' = AtSend \ {hand[w]}
           /\ (\A w \in Workers : ~(WorkerProcess(w) \/ WorkerSend(w) \/ WorkerAbandon(w)))
                => AtSend' = AtSend
<1>1. /\ worker \in [Workers -> WorkerPC]
      /\ hand \in [Workers -> Requests \cup {NoRequest}]
      /\ \A w \in Workers : worker[w] \in {"processing", "send"} => hand[w] # NoRequest
      /\ \A v, w \in Workers : hand[v] = hand[w] /\ hand[v] # NoRequest => v = w
  BY DEF TypeOK, WorkerTypeOK, Positions, WorkerPositions, ExactlyOnce, NoRepeats
<1>2. ASSUME NEW w \in Workers, WorkerProcess(w)
      PROVE  /\ hand[w] \in AtWorkers /\ hand[w] \notin AtSend
             /\ AtSend' = AtSend \cup {hand[w]}
  <2>1. /\ worker[w] = "processing" /\ hand' = hand
        /\ \A v \in Workers : worker'[v] = IF v = w THEN "send" ELSE worker[v]
    BY <1>1, <1>2 DEF WorkerProcess, WorkerGoes
  <2> QED BY <1>1, <2>1 DEF AtSend, AtWorkers
<1>3. ASSUME NEW w \in Workers, WorkerSend(w) \/ WorkerAbandon(w)
      PROVE  hand[w] \in AtSend /\ AtSend' = AtSend \ {hand[w]}
  <2>1. /\ worker[w] = "send" /\ worker'[w] # "send"
        /\ \A v \in Workers \ {w} : worker'[v] = worker[v] /\ hand'[v] = hand[v]
    BY <1>1, <1>3 DEF WorkerSend, WorkerAbandon, WorkerGoes
  <2> QED BY <1>1, <2>1 DEF AtSend
<1>4. ASSUME \A w \in Workers : ~(WorkerProcess(w) \/ WorkerSend(w) \/ WorkerAbandon(w))
      PROVE  AtSend' = AtSend
  <2>1. ASSUME \A w \in Workers :
                  /\ worker'[w] = "send" <=> worker[w] = "send"
                  /\ worker[w] = "send" => hand'[w] = hand[w]
        PROVE  AtSend' = AtSend
    BY <2>1 DEF AtSend
  <2>2. ASSUME NEW w \in Workers, WorkerLoop(w) \/ WorkerDequeue(w)
                  \/ WorkerDequeueCancelled(w) \/ WorkerLock(w)
        PROVE  AtSend' = AtSend
    BY <1>1, <2>1, <2>2
    DEF WorkerLoop, WorkerDequeue, WorkerDequeueCancelled, WorkerLock, WorkerGoes
  <2>3. CASE Start
    <3>1. /\ starts \in Nat /\ hand' = hand
          /\ \A w \in Workers : worker'[w] = IF w[1] = starts + 1 THEN "loop" ELSE worker[w]
      BY <2>3 DEF Start, TypeOK, CtlTypeOK
    <3>2. \A w \in Workers : w[1] = starts + 1 => worker[w] = "unborn"
      BY <3>1 DEF Positions, WorkerPositions, Created
    <3> QED BY <2>1, <3>1, <3>2
  <2>4. CASE UNCHANGED <<worker, hand>>
    BY <2>1, <2>4
  <2>5. ASSUME ~Start, \A w \in Workers : ~(WorkerLoop(w) \/ WorkerDequeue(w)
                  \/ WorkerDequeueCancelled(w) \/ WorkerLock(w))
        PROVE  UNCHANGED <<worker, hand>>
    BY <1>4, <2>5
    DEF Next, vars, CallCheck, CallStep, AddProducer, ProducerStart, ProduceBegin, Produce,
      ProduceEnd, ProducerStop, WorkerStep, WorkerSendPanic, CollectorStep, CollectorTake,
      CollectorExit, CollectorBuffer, CollectorCount, GetResults, Stop, ResetStats,
      CtlStep, StartProducer, StopProducer, SetActive, StopWorker, ResetWorker,
      StartReturn, StopAll, StopCancel, StopClose, StopClosePanic, ResetPairing,
      ClearBuffer, workerVars
  <2> QED BY <2>2, <2>3, <2>4, <2>5
<1> QED BY <1>2, <1>3, <1>4

\* Which steps of the collectors change what they have still to buffer, and how.
LEMMA PickedStep ==
    ASSUME TypeOK, Positions, ExactlyOnce, [Next]_vars
    PROVE  /\ \A g \in Collectors : CollectorTake(g) =>
                AtCollectors' = AtCollectors \cup {Head(results)}
           /\ \A g \in Collectors : CollectorBuffer(g) =>
                /\ picked[g] \in AtCollectors
                /\ AtCollectors' = AtCollectors \ {picked[g]}
           /\ (\A g \in Collectors : ~(CollectorTake(g) \/ CollectorBuffer(g)))
                => AtCollectors' = AtCollectors
<1>1. /\ collector \in [Collectors -> CollectorPC]
      /\ picked \in [Collectors -> Requests \cup {NoRequest}]
      /\ \A g, h \in Collectors :
            picked[g] = picked[h] /\ collector[g] = "picked" /\ collector[h] = "picked"
              => g = h
  BY DEF TypeOK, CollectTypeOK, ExactlyOnce, NoRepeats
<1>2. ASSUME NEW g \in Collectors, CollectorTake(g)
      PROVE  AtCollectors' = AtCollectors \cup {Head(results)}
  <2> DEFINE r == Head(results)
  <2>1. /\ collector[g] # "picked"
        /\ \A h \in Collectors : /\ collector'[h] = IF h = g THEN "picked" ELSE collector[h]
                                 /\ picked'[h] = IF h = g THEN r ELSE picked[h]
    BY <1>1, <1>2 DEF CollectorTake, CollectorGoes
  <2> HIDE DEF r
  <2>2. AtCollectors' = AtCollectors \cup {r}
    BY <2>1 DEF AtCollectors
  <2> QED BY <2>2 DEF r
<1>3. ASSUME NEW g \in Collectors, CollectorBuffer(g)
      PROVE  picked[g] \in AtCollectors /\ AtCollectors' = AtCollectors \ {picked[g]}
  <2>1. /\ collector[g] = "picked" /\ picked' = picked
        /\ \A h \in Collectors :
              collector'[h] = IF h = g THEN "counting" ELSE collector[h]
    BY <1>1, <1>3 DEF CollectorBuffer, CollectorGoes
  <2> QED BY <1>1, <2>1 DEF AtCollectors
<1>4. ASSUME \A g \in Collectors : ~(CollectorTake(g) \/ CollectorBuffer(g))
      PROVE  AtCollectors' = AtCollectors
  <2>1. ASSUME \A g \in Collectors :
                  /\ collector'[g] = "picked" <=> collector[g] = "picked"
                  /\ collector[g] = "picked" => picked'[g] = picked[g]
        PROVE  AtCollectors' = AtCollectors
    BY <2>1 DEF AtCollectors
  <2>2. ASSUME NEW g \in Collectors, CollectorExit(g) \/ CollectorCount(g)
        PROVE  AtCollectors' = AtCollectors
    BY <1>1, <2>1, <2>2 DEF CollectorExit, CollectorCount, CollectorGoes
  <2>3. CASE Start
    <3>1. /\ starts + 1 \in Collectors /\ picked' = picked
          /\ collector' = [collector EXCEPT ![starts + 1] = "select"]
      BY <2>3, Bounds DEF Start, CollectorGoes, TypeOK, CtlTypeOK, Collectors
    <3>2. collector[starts + 1] = "unborn"
      BY <2>3, <3>1 DEF Positions, CollectorPositions, TypeOK, CtlTypeOK
    <3> QED BY <1>1, <2>1, <3>1, <3>2
  <2>4. CASE UNCHANGED <<collector, picked>>
    BY <2>1, <2>4
  <2>5. ASSUME ~Start,
               \A g \in Collectors : ~(CollectorExit(g) \/ CollectorCount(g))
        PROVE  UNCHANGED <<collector, picked>>
    BY <1>4, <2>5
    DEF Next, vars, CallCheck, CallStep, AddProducer, ProducerStart, ProduceBegin, Produce,
      ProduceEnd, ProducerStop, WorkerStep, WorkerLoop, WorkerDequeue,
      WorkerDequeueCancelled, WorkerLock, WorkerProcess, WorkerSend, WorkerSendPanic,
      WorkerAbandon, CollectorStep, GetResults, Stop, ResetStats, CtlStep, StartProducer,
      StopProducer, SetActive, StopWorker, ResetWorker, StartReturn, StopAll, StopCancel,
      StopClose, StopClosePanic, ResetPairing, ClearBuffer, NotCtl, collectVars
  <2> QED BY <2>2, <2>3, <2>4, <2>5
<1> QED BY <1>2, <1>3, <1>4

\* Every policy that is finished is finished once, by a worker that counts it.
LEMMA CountersStep ==
    ASSUME TypeOK, Positions, ExactlyOnce, CountingInv, CountersExact, [Next]_vars,
           resets' = resets
    PROVE  CountersExact'
<1> USE FinishedParts
<1>1. ASSUME Finished' = Finished, UNCHANGED <<processed, errors>>
      PROVE  CountersExact'
  BY <1>1 DEF CountersExact
<1>2. ASSUME NEW w \in Workers, WorkerProcess(w)
      PROVE  CountersExact'
  <2> DEFINE r == hand[w]
  <2>1. /\ worker[w] = "processing"
        /\ r \in Rejected => /\ errors' = [errors EXCEPT ![w] = @ + 1]
                             /\ processed' = processed
        /\ r \notin Rejected => /\ processed' = [processed EXCEPT ![w] = @ + 1]
                                /\ errors' = errors
        /\ UNCHANGED <<results, collector, picked, buffer, delivered, abandoned>>
    BY <1>2 DEF WorkerProcess, resultVars, collectVars, ledgerVars
  <2>2. r \in AtWorkers /\ r \notin AtSend /\ AtSend' = AtSend \cup {r}
    BY <1>2, SendStep
  <2> HIDE DEF r
  <2>3. r \notin Finished
    BY <2>2 DEF ExactlyOnce, Disjoint, InFlight
  <2>4. Finished' = Finished \cup {r}
    <3>1. /\ AtResults' = AtResults /\ AtCollectors' = AtCollectors
          /\ AtBuffer' = AtBuffer
      BY <2>1, PlacesFrame
    <3> QED BY <2>1, <2>2, <3>1
  <2>5. /\ IsFiniteSet(Finished)
        /\ processed \in [Workers -> Nat] /\ errors \in [Workers -> Nat]
    BY DEF CountersExact, TypeOK, WorkerTypeOK
  <2>6. Adds(Finished', Finished, r) /\ IsFiniteSet(Finished')
    <3>1. Adds(Finished', Finished, r)
      BY <2>3, <2>4 DEF Adds
    <3> QED BY <2>5, <3>1, CountMore
  <2>7. CASE r \in Rejected
    <3>1. SumFunction(errors') = SumFunction(errors) + 1
      BY <2>1, <2>5, <2>7, CounterUp
    <3>2. /\ Cardinality(Inside(Finished', Rejected))
               = Cardinality(Inside(Finished, Rejected)) + 1
          /\ Outside(Finished', Rejected) = Outside(Finished, Rejected)
      BY <2>5, <2>6, <2>7, CountIn
    <3>3. processed' = processed
      BY <2>1, <2>7
    <3> QED BY <2>6, <3>1, <3>2, <3>3 DEF CountersExact
  <2>8. CASE r \notin Rejected
    <3>1. SumFunction(processed') = SumFunction(processed) + 1
      BY <2>1, <2>5, <2>8, CounterUp
    <3>2. /\ Cardinality(Outside(Finished', Rejected))
               = Cardinality(Outside(Finished, Rejected)) + 1
          /\ Inside(Finished', Rejected) = Inside(Finished, Rejected)
      BY <2>5, <2>6, <2>8, CountOut
    <3>3. errors' = errors
      BY <2>1, <2>8
    <3> QED BY <2>6, <3>1, <3>2, <3>3 DEF CountersExact
  <2> QED BY <2>7, <2>8
<1>3. ASSUME NEW w \in Workers, WorkerSend(w)
      PROVE  CountersExact'
  <2>1. /\ results' = Append(results, hand[w])
        /\ UNCHANGED <<collector, picked, buffer, delivered, abandoned, processed, errors>>
    BY <1>3 DEF WorkerSend, collectVars, ledgerVars
  <2>2. hand[w] \in AtSend /\ AtSend' = AtSend \ {hand[w]}
    BY <1>3, SendStep
  <2>3. hand[w] \in Requests
    BY <1>3 DEF WorkerSend, TypeOK, WorkerTypeOK, Positions, WorkerPositions
  <2>4. AtResults' = AtResults \cup {hand[w]}
    BY <2>1, <2>3, RangeAppend DEF TypeOK, ResultTypeOK, AtResults
  <2>5. AtCollectors' = AtCollectors /\ AtBuffer' = AtBuffer
    BY <2>1, PlacesFrame
  <2> QED BY <1>1, <2>1, <2>2, <2>4, <2>5
<1>4. ASSUME NEW w \in Workers, WorkerAbandon(w)
      PROVE  CountersExact'
  <2>1. /\ abandoned' = abandoned \cup {hand[w]}
        /\ UNCHANGED <<results, collector, picked, buffer, delivered, processed, errors>>
    BY <1>4 DEF WorkerAbandon, collectVars, resultVars
  <2>2. hand[w] \in AtSend /\ AtSend' = AtSend \ {hand[w]}
    BY <1>4, SendStep
  <2>3. AtResults' = AtResults /\ AtCollectors' = AtCollectors /\ AtBuffer' = AtBuffer
    BY <2>1, PlacesFrame
  <2> QED BY <1>1, <2>1, <2>2, <2>3
<1>5. ASSUME \A w \in Workers : ~(WorkerProcess(w) \/ WorkerSend(w) \/ WorkerAbandon(w))
      PROVE  /\ AtSend' = AtSend
             /\ UNCHANGED <<processed, errors, abandoned>>
  <2>1. /\ \A w \in Workers : ~ResetWorker(w)
        /\ ~ResetStats /\ ~ClearBuffer
    BY DEF CountingInv, ResetWorker, ResetStats, ClearBuffer, TypeOK, CtlTypeOK
  <2>2. AtSend' = AtSend
    BY <1>5, SendStep
  <2>3. UNCHANGED <<processed, errors, abandoned>>
    BY <1>5, <2>1
    DEF Next, vars, CallCheck, CallStep, AddProducer, ProducerStart, ProduceBegin, Produce,
      ProduceEnd, ProducerStop, WorkerStep, WorkerLoop, WorkerDequeue,
      WorkerDequeueCancelled, WorkerLock, WorkerSendPanic, CollectorStep, CollectorTake,
      CollectorExit, CollectorBuffer, CollectorCount, GetResults, Start, Stop, CtlStep,
      StartProducer, StopProducer, SetActive, StopWorker, StartReturn, StopAll, StopCancel,
      StopClose, StopClosePanic, ResetPairing, workerVars, ledgerVars
  <2> QED BY <2>2, <2>3
<1>6. ASSUME NEW g \in Collectors, CollectorTake(g)
      PROVE  CountersExact'
  <2> DEFINE r == Head(results)
  <2>1. /\ results # <<>> /\ results' = Tail(results)
        /\ UNCHANGED <<worker, hand, buffer, delivered, abandoned, processed, errors>>
    BY <1>6 DEF CollectorTake, workerVars, ledgerVars
  <2>2. r \in AtResults /\ AtResults' = AtResults \ {r}
    BY <2>1, RangeTail DEF TypeOK, ResultTypeOK, AtResults, ExactlyOnce, NoRepeats
  <2>3. AtCollectors' = AtCollectors \cup {r}
    BY <1>6, PickedStep
  <2>4. AtSend' = AtSend /\ AtBuffer' = AtBuffer
    BY <2>1, PlacesFrame DEF AtSend
  <2> HIDE DEF r
  <2> QED BY <1>1, <2>1, <2>2, <2>3, <2>4
<1>7. ASSUME NEW g \in Collectors, CollectorBuffer(g)
      PROVE  CountersExact'
  <2>1. /\ buffer' = Append(buffer, picked[g])
        /\ UNCHANGED <<worker, hand, results, delivered, abandoned, processed, errors>>
    BY <1>7 DEF CollectorBuffer, workerVars, resultVars
  <2>2. picked[g] \in AtCollectors /\ AtCollectors' = AtCollectors \ {picked[g]}
    BY <1>7, PickedStep
  <2>3. picked[g] \in Requests
    BY <2>2 DEF ExactlyOnce, InFlight, Accepted
  <2>4. AtBuffer' = AtBuffer \cup {picked[g]}
    BY <2>1, <2>3, RangeAppend DEF TypeOK, LedgerTypeOK, AtBuffer
  <2>5. AtSend' = AtSend /\ AtResults' = AtResults
    BY <2>1, PlacesFrame DEF AtSend
  <2> QED BY <1>1, <2>1, <2>2, <2>4, <2>5
<1>8. CASE GetResults
  <2>1. /\ buffer' = <<>> /\ delivered' = delivered \cup AtBuffer
        /\ UNCHANGED <<worker, hand, results, collector, picked, abandoned, processed,
                       errors>>
    BY <1>8 DEF GetResults, workerVars, resultVars, collectVars, AtBuffer
  <2>2. AtBuffer' = {}
    BY <2>1, RangeEmpty DEF AtBuffer
  <2>3. AtSend' = AtSend /\ AtResults' = AtResults /\ AtCollectors' = AtCollectors
    BY <2>1, PlacesFrame DEF AtSend
  <2> QED BY <1>1, <2>1, <2>2, <2>3
<1>9. ASSUME \A w \in Workers : ~(WorkerProcess(w) \/ WorkerSend(w) \/ WorkerAbandon(w)),
             \A g \in Collectors : ~(CollectorTake(g) \/ CollectorBuffer(g)),
             ~GetResults
      PROVE  CountersExact'
  <2>1. AtCollectors' = AtCollectors
    BY <1>9, PickedStep
  <2>2. ~ClearBuffer
    BY DEF CountingInv, ClearBuffer
  <2>3. UNCHANGED <<results, buffer, delivered>>
    BY <1>9, <2>2
    DEF Next, vars, CallCheck, CallStep, AddProducer, ProducerStart, ProduceBegin, Produce,
      ProduceEnd, ProducerStop, WorkerStep, WorkerLoop, WorkerDequeue,
      WorkerDequeueCancelled, WorkerLock, WorkerSendPanic, CollectorStep, CollectorExit,
      CollectorCount, Start, Stop, ResetStats, CtlStep, StartProducer, StopProducer,
      SetActive, StopWorker, ResetWorker, StartReturn, StopAll, StopCancel, StopClose,
      StopClosePanic, ResetPairing, NotCtl, resultVars, ledgerVars
  <2>4. AtSend' = AtSend /\ UNCHANGED <<processed, errors, abandoned>>
    BY <1>5, <1>9
  <2>5. AtResults' = AtResults /\ AtBuffer' = AtBuffer
    BY <2>3, PlacesFrame
  <2> QED BY <1>1, <2>1, <2>3, <2>4, <2>5
<1> QED BY <1>2, <1>3, <1>4, <1>6, <1>7, <1>8, <1>9

LEMMA InitAccount == Init => AccountInv
<1> SUFFICES ASSUME Init  PROVE AccountInv
  OBVIOUS
<1>1. /\ AtResults = {} /\ AtBuffer = {} /\ AtCollectors = {} /\ AtSend = {}
      /\ Counting = {} /\ Held = {} /\ delivered = {} /\ abandoned = {}
  BY RangeEmpty DEF Init, AtResults, AtBuffer, AtCollectors, AtSend, Counting, Held
<1>2. Finished = {} /\ Counted = {}
  BY <1>1, FinishedParts DEF Counted
<1>3. IsFiniteSet({}) /\ Cardinality({}) = 0
  BY FS_EmptySet
<1>4. SumFunction(processed) = 0 /\ SumFunction(errors) = 0
  <2>1. IsFiniteSet(Workers)
    BY FiniteWorkers
  <2>2. /\ DOMAIN processed = Workers /\ DOMAIN errors = Workers
        /\ \A w \in Workers : processed[w] = 0 /\ errors[w] = 0
    BY DEF Init
  <2>3. /\ SumFunctionOnSet(processed, Workers) = 0
        /\ SumFunctionOnSet(errors, Workers) = 0
    BY <2>1, <2>2, SumZero
  <2> QED BY <2>2, <2>3, SumWhole
<1>5. CountingInv
  BY <1>1 DEF Init, CountingInv
<1>6. TotalsExact /\ CountersExact
  <2>1. /\ Inside({}, Rejected) = {} /\ Outside({}, Rejected) = {}
        /\ totalProcessed = 0 /\ totalErrors = 0
    BY DEF Init, Inside, Outside
  <2> QED BY <1>2, <1>3, <1>4, <2>1 DEF TotalsExact, CountersExact
<1> QED BY <1>5, <1>6 DEF AccountInv

LEMMA AccountStep ==
    ASSUME TypeOK, Positions, ExactlyOnce, AccountInv, [Next]_vars
    PROVE  AccountInv'
<1> SUFFICES ASSUME resets' = 0
             PROVE  CountingInv' /\ TotalsExact' /\ CountersExact'
  BY DEF AccountInv
<1>1. resets' = resets
  <2>1. ~ResetStats
    BY DEF ResetStats, TypeOK, CtlTypeOK
  <2> QED BY <2>1
    DEF Next, vars, CallCheck, CallStep, AddProducer, ProducerStart, ProduceBegin, Produce,
      ProduceEnd, ProducerStop, WorkerStep, WorkerLoop, WorkerDequeue,
      WorkerDequeueCancelled, WorkerLock, WorkerProcess, WorkerSend, WorkerSendPanic,
      WorkerAbandon, CollectorStep, CollectorTake, CollectorExit, CollectorBuffer,
      CollectorCount, GetResults, Start, Stop, CtlStep, StartProducer, StopProducer,
      SetActive, StopWorker, ResetWorker, StartReturn, StopAll, StopCancel, StopClose,
      StopClosePanic, ResetPairing, ClearBuffer, ctlVars
<1>2. CountingInv /\ TotalsExact /\ CountersExact
  BY <1>1 DEF AccountInv
<1> QED BY <1>1, <1>2, TotalsStep, CountersStep

\* Until somebody resets them, the totals count each collected result once and
\* the counters of the workers add up to the policies they have finished.
THEOREM AccountingCorrect == Spec => []Accounting
<1>1. AccountInv => Accounting
  BY DEF AccountInv, TotalsExact, CountersExact, Accounting, Inside, Outside
<1> QED
  BY <1>1, InitAccount, AccountStep, TypeCorrect, ExactlyOnceCorrect, PTL DEF Spec

-----------------------------------------------------------------------------
(* When the process may panic.                                             *)

LEMMA PanicStep ==
    ASSUME Positions, PanicAfterStop, [Next]_vars
    PROVE  PanicAfterStop'
<1>1. crashed' => crashed \/ resultsClosed
  BY DEF Next, vars, CallCheck, CallStep, AddProducer, ProducerStart, ProduceBegin, Produce,
      ProduceEnd, ProducerStop, WorkerStep, WorkerLoop, WorkerDequeue,
      WorkerDequeueCancelled, WorkerLock, WorkerProcess, WorkerSend, WorkerSendPanic,
      WorkerAbandon, CollectorStep, CollectorTake, CollectorExit, CollectorBuffer,
      CollectorCount, GetResults, Start, Stop, CtlStep, StartProducer, StopProducer,
      SetActive, StopWorker, ResetWorker, StartReturn, StopAll, StopCancel, StopClose,
      StopClosePanic, ResetStats, ResetPairing, ClearBuffer, NotCtl
<1>2. (resultsClosed => resultsClosed') /\ (ctxDone => ctxDone')
  BY DEF Next, vars, CallCheck, CallStep, AddProducer, ProducerStart, ProduceBegin, Produce,
      ProduceEnd, ProducerStop, WorkerStep, WorkerLoop, WorkerDequeue,
      WorkerDequeueCancelled, WorkerLock, WorkerProcess, WorkerSend, WorkerSendPanic,
      WorkerAbandon, CollectorStep, CollectorTake, CollectorExit, CollectorBuffer,
      CollectorCount, GetResults, Start, Stop, CtlStep, StartProducer, StopProducer,
      SetActive, StopWorker, ResetWorker, StartReturn, StopAll, StopCancel, StopClose,
      StopClosePanic, ResetStats, ResetPairing, ClearBuffer, NotCtl, resultVars, ctlVars
<1>3. resultsClosed => ctxDone
  BY DEF Positions, StopPositions
<1> QED BY <1>1, <1>2, <1>3 DEF PanicAfterStop

\* NoPanic does not hold, but only Stop endangers it: a process that nobody has
\* stopped never panics, whatever its clients, workers and collectors do.
THEOREM PanicAfterStopCorrect == Spec => []PanicAfterStop
<1>1. Init => PanicAfterStop
  BY DEF Init, PanicAfterStop
<1> QED BY <1>1, PanicStep, PositionsCorrect, PTL DEF Spec
=============================================================================
