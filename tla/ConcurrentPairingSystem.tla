---------------------- MODULE ConcurrentPairingSystem ----------------------
(***************************************************************************)
(* The concurrent pairing system of queue/concurrent_processing.go and the *)
(* producers of queue/queue_system.go it creates: client calls that submit *)
(* batches of policies, the worker goroutines that pull them from the      *)
(* policy queue, the goroutine that collects results, and the control      *)
(* operations Start, Stop and ResetStats.                                  *)
(*                                                                         *)
(* Locks.  cps.mu is write-held while ctl # "idle" (Start, Stop and        *)
(* ResetStats hold it from beginning to end) and for one step by the       *)
(* collector.  qm.mu is held in the phases "startAll" and "stopAll".  The  *)
(* mu of a worker is held in "processing", and for one step by Stop and    *)
(* ResetStats.  The mu of a call's producer is read-held in "producing".   *)
(* The lock of the policy queue only ever has readers here, as nothing in  *)
(* the system closes that queue, so it never blocks; see PolicyQueue.      *)
(***************************************************************************)
EXTENDS Integers, Sequences, FiniteSets, Functions

CONSTANTS
    Calls,        \* calls of EnqueuePolicy(s), each made once
    BatchLen,     \* BatchLen[c]: number of policies call c submits
    Rejected,     \* requests whose policy is nil or fails ValidatePolicy
    MaxWorkers,   \* worker goroutines launched by one Start
    QueueCap,     \* capacity of the policy queue
    ResultsCap,   \* capacity of resultsChan (1000 in the code)
    MaxStarts,    \* bound: how many times Start succeeds
    MaxResets,    \* bound: how many times ResetStats is called
    NoRequest     \* the hand of a goroutine that holds nothing

Requests == UNION {{c} \X (1..BatchLen[c]) : c \in Calls}

ASSUME CPSAssumption ==
    /\ BatchLen \in [Calls -> Nat]
    /\ Rejected \subseteq Requests
    /\ MaxWorkers \in Nat \ {0} /\ MaxStarts \in Nat \ {0} /\ MaxResets \in Nat
    /\ QueueCap \in Nat \ {0} /\ ResultsCap \in Nat \ {0}
    /\ NoRequest \notin Requests

\* Worker <<g, i>> is the i-th goroutine launched by the g-th Start; the g-th
\* Start launches collector g.
Workers    == (1..MaxStarts) \X (1..MaxWorkers)
Collectors == 1..MaxStarts

VARIABLES
    call,           \* where each client call is
    sent,           \* policies of the batch that the queue accepted
    active,         \* the call's producer is active
    producers,      \* calls whose producer is registered with the manager
    queue,          \* the policy queue's channel
    worker,         \* where each worker's loop is
    hand,           \* the policy, then the result, a worker holds
    cancelled,      \* workers stopped: not running, context cancelled
    processed,      \* a worker's processed counter
    errors,         \* a worker's errors counter
    results,        \* resultsChan
    resultsClosed,  \* resultsChan is closed
    collector,      \* where each collectResults goroutine is
    picked,         \* the result a collector holds
    buffer,         \* resultsBuffer
    totalProcessed, totalErrors,
    ctl,            \* phase of the control operation that holds cps.mu
    todoWorkers,    \* workers the control operation has still to visit
    todoCalls,      \* producers the control operation has still to visit
    starts,         \* number of times Start launched workers
    running,
    ctxDone,        \* cps.ctx is cancelled
    delivered,      \* history: requests whose result GetResults returned
    discarded,      \* history: requests whose result ResetStats cleared
    abandoned,      \* history: requests whose result a stopped worker dropped
    resets,         \* number of times ResetStats was called
    crashed         \* a goroutine panicked, which ends the process

clientVars  == <<call, sent, active, producers>>
workerVars  == <<worker, hand, cancelled, processed, errors>>
resultVars  == <<results, resultsClosed>>
collectVars == <<collector, picked, totalProcessed, totalErrors>>
ctlVars     == <<ctl, todoWorkers, todoCalls, starts, running, ctxDone,
                 resets>>
ledgerVars  == <<buffer, delivered, discarded, abandoned>>
vars == <<clientVars, queue, workerVars, resultVars, collectVars, ctlVars,
          ledgerVars, crashed>>

CallPC      == {"new", "checked", "registered", "started", "producing",
                "stopping", "done"}
WorkerPC    == {"unborn", "loop", "dequeue", "got", "processing", "send",
                "exited"}
CollectorPC == {"unborn", "select", "picked", "counting", "exited"}
CtlPhase    == {"idle", "startAll", "stopWorkers", "stopAll", "close",
                "resetWorkers", "resetPairing", "clearBuffer"}

Created == {w \in Workers : w[1] <= starts}

Init ==
    /\ call = [c \in Calls |-> "new"]
    /\ sent = [c \in Calls |-> 0]
    /\ active = [c \in Calls |-> FALSE]
    /\ producers = {}
    /\ queue = <<>>
    /\ worker = [w \in Workers |-> "unborn"]
    /\ hand = [w \in Workers |-> NoRequest]
    /\ cancelled = {}
    /\ processed = [w \in Workers |-> 0]
    /\ errors = [w \in Workers |-> 0]
    /\ results = <<>> /\ resultsClosed = FALSE
    /\ collector = [g \in Collectors |-> "unborn"]
    /\ picked = [g \in Collectors |-> NoRequest]
    /\ totalProcessed = 0 /\ totalErrors = 0
    /\ ctl = "idle" /\ todoWorkers = {} /\ todoCalls = {}
    /\ starts = 0 /\ running = FALSE /\ ctxDone = FALSE
    /\ buffer = <<>> /\ delivered = {} /\ discarded = {} /\ abandoned = {}
    /\ resets = 0 /\ crashed = FALSE

-----------------------------------------------------------------------------
(* EnqueuePolicy and EnqueuePolicies: one call each, a batch of one or more. *)

CallGoes(c, pc) == call' = [call EXCEPT ![c] = pc]

\* IsRunning takes the read lock; the answer may be stale a moment later.
CallCheck(c) ==
    /\ call[c] = "new" /\ ctl = "idle"
    /\ CallGoes(c, IF running THEN "checked" ELSE "done")
    /\ UNCHANGED <<sent, active, producers, queue, workerVars, resultVars,
                   collectVars, ctlVars, ledgerVars, crashed>>

AddProducer(c) ==
    /\ call[c] = "checked" /\ ctl \notin {"startAll", "stopAll"}
    /\ producers' = producers \cup {c}
    /\ CallGoes(c, "registered")
    /\ UNCHANGED <<sent, active, queue, workerVars, resultVars, collectVars,
                   ctlVars, ledgerVars, crashed>>

ProducerStart(c) ==
    /\ call[c] = "registered"
    /\ active' = [active EXCEPT ![c] = TRUE]
    /\ CallGoes(c, "started")
    /\ UNCHANGED <<sent, producers, queue, workerVars, resultVars,
                   collectVars, ctlVars, ledgerVars, crashed>>

\* ProducePolicy / ProducePoliciesBatch refuse if StopAll got there first.
ProduceBegin(c) ==
    /\ call[c] = "started"
    /\ CallGoes(c, IF active[c] THEN "producing" ELSE "stopping")
    /\ UNCHANGED <<sent, active, producers, queue, workerVars, resultVars,
                   collectVars, ctlVars, ledgerVars, crashed>>

\* Variants of Produce with a bug: it does not look whether the queue is full;
\* it starts the batch again when it is; it waits until it is not.
ProduceUnbounded(c) ==
    /\ call[c] = "producing" /\ sent[c] < BatchLen[c]
    /\ queue' = Append(queue, <<c, sent[c] + 1>>)
    /\ sent' = [sent EXCEPT ![c] = @ + 1]
    /\ UNCHANGED <<call, active, producers, workerVars, resultVars,
                   collectVars, ctlVars, ledgerVars, crashed>>

ProduceAgain(c) ==
    \/ Len(queue) < QueueCap /\ ProduceUnbounded(c)
    \/ /\ call[c] = "producing" /\ Len(queue) = QueueCap
       /\ sent' = [sent EXCEPT ![c] = 0]
       /\ UNCHANGED <<call, queue, active, producers, workerVars, resultVars,
                      collectVars, ctlVars, ledgerVars, crashed>>

ProduceBlocking(c) == Len(queue) < QueueCap /\ ProduceUnbounded(c)

\* One non-blocking PolicyQueue.Enqueue of the batch.  A full queue ends the
\* call with an error although a part of the batch has been accepted.
Produce(c) ==
    /\ call[c] = "producing" /\ sent[c] < BatchLen[c]
    /\ IF Len(queue) < QueueCap
         THEN /\ queue' = Append(queue, <<c, sent[c] + 1>>)
              /\ sent' = [sent EXCEPT ![c] = @ + 1]
              /\ UNCHANGED call
         ELSE CallGoes(c, "stopping") /\ UNCHANGED <<queue, sent>>
    /\ UNCHANGED <<active, producers, workerVars, resultVars, collectVars,
                   ctlVars, ledgerVars, crashed>>

ProduceEnd(c) ==
    /\ call[c] = "producing" /\ sent[c] = BatchLen[c]
    /\ CallGoes(c, "stopping")
    /\ UNCHANGED <<sent, active, producers, queue, workerVars, resultVars,
                   collectVars, ctlVars, ledgerVars, crashed>>

\* The deferred producer.Stop(); the producer stays in the manager's list.
ProducerStop(c) ==
    /\ call[c] = "stopping"
    /\ active' = [active EXCEPT ![c] = FALSE]
    /\ CallGoes(c, "done")
    /\ UNCHANGED <<sent, producers, queue, workerVars, resultVars,
                   collectVars, ctlVars, ledgerVars, crashed>>

\* What a call does once it has begun.
CallStep(c) == \/ AddProducer(c) \/ ProducerStart(c) \/ ProduceBegin(c)
               \/ Produce(c) \/ ProduceEnd(c) \/ ProducerStop(c)

-----------------------------------------------------------------------------
(* PairingWorker.workLoop and ProcessPolicy.                               *)

WorkerGoes(w, pc) == worker' = [worker EXCEPT ![w] = pc]

WorkerLoop(w) ==
    /\ worker[w] = "loop"
    /\ WorkerGoes(w, IF w \in cancelled THEN "exited" ELSE "dequeue")
    /\ UNCHANGED <<hand, cancelled, processed, errors, queue, clientVars,
                   resultVars, collectVars, ctlVars, ledgerVars, crashed>>

\* Variant of WorkerDequeueCancelled with a bug: the worker waits in Dequeue,
\* and looks at its context only when there is a policy.
WorkerDequeueDeaf(w) ==
    /\ worker[w] = "dequeue" /\ w \in cancelled /\ queue # <<>>
    /\ WorkerGoes(w, "exited")
    /\ UNCHANGED <<hand, cancelled, processed, errors, queue, clientVars,
                   resultVars, collectVars, ctlVars, ledgerVars, crashed>>

\* The select of DequeueWithContext takes either ready case.  Its other errors
\* need a closed queue, which this system never has.
WorkerDequeue(w) ==
    /\ worker[w] = "dequeue" /\ queue # <<>>
    /\ hand' = [hand EXCEPT ![w] = Head(queue)]
    /\ queue' = Tail(queue)
    /\ WorkerGoes(w, "got")
    /\ UNCHANGED <<cancelled, processed, errors, clientVars, resultVars,
                   collectVars, ctlVars, ledgerVars, crashed>>

WorkerDequeueCancelled(w) ==
    /\ worker[w] = "dequeue" /\ w \in cancelled
    /\ WorkerGoes(w, "exited")
    /\ UNCHANGED <<hand, cancelled, processed, errors, queue, clientVars,
                   resultVars, collectVars, ctlVars, ledgerVars, crashed>>

\* ProcessPolicy takes pw.mu ...
WorkerLock(w) ==
    /\ worker[w] = "got"
    /\ WorkerGoes(w, "processing")
    /\ UNCHANGED <<hand, cancelled, processed, errors, queue, clientVars,
                   resultVars, collectVars, ctlVars, ledgerVars, crashed>>

\* Variant of WorkerProcess with a bug: a rejected policy counts as processed.
WorkerProcessCountsAll(w) ==
    /\ worker[w] = "processing"
    /\ processed' = [processed EXCEPT ![w] = @ + 1]
    /\ errors' = [errors EXCEPT ![w] = @ + (IF hand[w] \in Rejected THEN 1 ELSE 0)]
    /\ WorkerGoes(w, "send")
    /\ UNCHANGED <<hand, cancelled, queue, clientVars, resultVars,
                   collectVars, ctlVars, ledgerVars, crashed>>

\* ... and releases it once the pairing system has answered.
WorkerProcess(w) ==
    /\ worker[w] = "processing"
    /\ IF hand[w] \in Rejected
         THEN /\ errors' = [errors EXCEPT ![w] = @ + 1]
              /\ UNCHANGED processed
         ELSE /\ processed' = [processed EXCEPT ![w] = @ + 1]
              /\ UNCHANGED errors
    /\ WorkerGoes(w, "send")
    /\ UNCHANGED <<hand, cancelled, queue, clientVars, resultVars,
                   collectVars, ctlVars, ledgerVars, crashed>>

WorkerSend(w) ==
    /\ worker[w] = "send" /\ ~resultsClosed /\ Len(results) < ResultsCap
    /\ results' = Append(results, hand[w])
    /\ hand' = [hand EXCEPT ![w] = NoRequest]
    /\ WorkerGoes(w, "loop")
    /\ UNCHANGED <<cancelled, processed, errors, queue, resultsClosed,
                   clientVars, collectVars, ctlVars, ledgerVars, crashed>>

\* A send on a closed channel is a ready case of a select, and panics.
WorkerSendPanic(w) ==
    /\ worker[w] = "send" /\ resultsClosed
    /\ crashed' = TRUE
    /\ UNCHANGED <<clientVars, queue, workerVars, resultVars, collectVars,
                   ctlVars, ledgerVars>>

WorkerAbandon(w) ==
    /\ worker[w] = "send" /\ w \in cancelled
    /\ abandoned' = abandoned \cup {hand[w]}
    /\ hand' = [hand EXCEPT ![w] = NoRequest]
    /\ WorkerGoes(w, "exited")
    /\ UNCHANGED <<cancelled, processed, errors, queue, clientVars, resultVars,
                   collectVars, ctlVars, buffer, delivered, discarded, crashed>>

WorkerStep(w) == \/ WorkerLoop(w) \/ WorkerDequeue(w)
                 \/ WorkerDequeueCancelled(w) \/ WorkerLock(w)
                 \/ WorkerProcess(w) \/ WorkerSend(w) \/ WorkerSendPanic(w)
                 \/ WorkerAbandon(w)

-----------------------------------------------------------------------------
(* collectResults and GetResults.                                          *)

CollectorGoes(g, pc) == collector' = [collector EXCEPT ![g] = pc]

CollectorTake(g) ==
    /\ collector[g] = "select" /\ results # <<>>
    /\ picked' = [picked EXCEPT ![g] = Head(results)]
    /\ results' = Tail(results)
    /\ CollectorGoes(g, "picked")
    /\ UNCHANGED <<resultsClosed, totalProcessed, totalErrors, queue,
                   clientVars, workerVars, ctlVars, ledgerVars, crashed>>

\* Variants of CollectorExit with a bug: the collector leaves when it finds
\* nothing to collect; it looks at its context only when there is a result.
CollectorLeaves(g, gone) ==
    /\ collector[g] = "select" /\ gone
    /\ CollectorGoes(g, "exited")
    /\ UNCHANGED <<picked, totalProcessed, totalErrors, queue, clientVars,
                   workerVars, resultVars, ctlVars, ledgerVars, crashed>>

CollectorExitIdle(g) == CollectorLeaves(g, results = <<>>)
CollectorExitDeaf(g) == CollectorLeaves(g, ctxDone /\ results # <<>>)

CollectorExit(g) ==
    /\ collector[g] = "select"
    /\ ctxDone \/ (resultsClosed /\ results = <<>>)
    /\ CollectorGoes(g, "exited")
    /\ UNCHANGED <<picked, totalProcessed, totalErrors, queue, clientVars,
                   workerVars, resultVars, ctlVars, ledgerVars, crashed>>

\* Variant of CollectorBuffer with a bug: it drops the result it has taken when
\* it finds the context cancelled.
CollectorBufferUnlessDone(g) ==
    /\ collector[g] = "picked"
    /\ buffer' = IF ctxDone THEN buffer ELSE Append(buffer, picked[g])
    /\ CollectorGoes(g, "counting")
    /\ UNCHANGED <<picked, totalProcessed, totalErrors, queue, clientVars,
                   workerVars, resultVars, ctlVars, delivered, discarded,
                   abandoned, crashed>>

CollectorBuffer(g) ==
    /\ collector[g] = "picked"
    /\ buffer' = Append(buffer, picked[g])
    /\ CollectorGoes(g, "counting")
    /\ UNCHANGED <<picked, totalProcessed, totalErrors, queue, clientVars,
                   workerVars, resultVars, ctlVars, delivered, discarded,
                   abandoned, crashed>>

\* The counters need cps.mu, which Start, Stop or ResetStats may hold.
CollectorCount(g) ==
    /\ collector[g] = "counting" /\ ctl = "idle"
    /\ totalProcessed' = totalProcessed + 1
    /\ totalErrors' = totalErrors + (IF picked[g] \in Rejected THEN 1 ELSE 0)
    /\ picked' = [picked EXCEPT ![g] = NoRequest]
    /\ CollectorGoes(g, "select")
    /\ UNCHANGED <<queue, clientVars, workerVars, resultVars, ctlVars,
                   ledgerVars, crashed>>

CollectorStep(g) == CollectorTake(g) \/ CollectorExit(g)
                    \/ CollectorBuffer(g) \/ CollectorCount(g)

\* Variant of GetResults with a bug: it returns the buffer without clearing it.
GetResultsKeeps ==
    /\ buffer # <<>>
    /\ delivered' = delivered \cup Range(buffer)
    /\ UNCHANGED <<clientVars, queue, workerVars, resultVars, collectVars,
                   ctlVars, buffer, discarded, abandoned, crashed>>

\* Reading an empty buffer changes nothing.
GetResults ==
    /\ buffer # <<>>
    /\ delivered' = delivered \cup Range(buffer)
    /\ buffer' = <<>>
    /\ UNCHANGED <<clientVars, queue, workerVars, resultVars, collectVars,
                   ctlVars, discarded, abandoned, crashed>>

-----------------------------------------------------------------------------
(* Start, Stop and ResetStats: each runs under cps.mu, step by step.  The  *)
(* workers are visited in order of creation; the order of the producers,   *)
(* which is the order in which calls registered them, is left open.        *)

\* Variant of NextWorker with a bug: a worker holds its mu until it has sent
\* its result.
NextWorkerSent(w) ==
    /\ w \in todoWorkers /\ worker[w] \notin {"processing", "send"}
    /\ \A v \in todoWorkers : w[1] < v[1] \/ (w[1] = v[1] /\ w[2] <= v[2])

\* w is the worker that the loop over cps.workers comes to next.
NextWorker(w) ==
    /\ w \in todoWorkers /\ worker[w] # "processing"
    /\ \A v \in todoWorkers : w[1] < v[1] \/ (w[1] = v[1] /\ w[2] <= v[2])

NotCtl == <<queue, resultVars, collectVars, crashed>>

\* Launch the workers and the collector, then StartAll takes qm.mu.
Start ==
    /\ ctl = "idle" /\ ~running /\ starts < MaxStarts
    /\ starts' = starts + 1
    /\ worker' = [w \in Workers |->
                    IF w[1] = starts + 1 THEN "loop" ELSE worker[w]]
    /\ CollectorGoes(starts + 1, "select")
    /\ ctl' = "startAll" /\ todoCalls' = producers
    /\ UNCHANGED <<hand, cancelled, processed, errors, queue, clientVars,
                   resultVars, picked, totalProcessed, totalErrors,
                   todoWorkers, running, ctxDone, resets, ledgerVars,
                   crashed>>

\* StartAll and StopAll set active on one registered producer at a time,
\* waiting while its call is producing.
SetActive(phase, c, value) ==
    /\ ctl = phase /\ c \in todoCalls /\ call[c] # "producing"
    /\ active' = [active EXCEPT ![c] = value]
    /\ todoCalls' = todoCalls \ {c}
    /\ UNCHANGED <<call, sent, producers, workerVars, ctl, todoWorkers, starts,
                   running, ctxDone, resets, ledgerVars, NotCtl>>

StartProducer(c) == SetActive("startAll", c, TRUE)

StartReturn ==
    /\ ctl = "startAll" /\ todoCalls = {}
    /\ running' = TRUE /\ ctl' = "idle"
    /\ UNCHANGED <<clientVars, workerVars, todoWorkers, todoCalls, starts,
                   ctxDone, resets, ledgerVars, NotCtl>>

Stop ==
    /\ ctl = "idle" /\ running
    /\ ctl' = "stopWorkers" /\ todoWorkers' = Created
    /\ UNCHANGED <<clientVars, workerVars, todoCalls, starts, running, ctxDone,
                   resets, ledgerVars, NotCtl>>

\* PairingWorker.Stop waits for the policy the worker is processing.
StopWorker(w) ==
    /\ ctl = "stopWorkers" /\ NextWorker(w)
    /\ cancelled' = cancelled \cup {w}
    /\ todoWorkers' = todoWorkers \ {w}
    /\ UNCHANGED <<clientVars, worker, hand, processed, errors, ctl, todoCalls,
                   starts, running, ctxDone, resets, ledgerVars, NotCtl>>

StopAll ==
    /\ ctl = "stopWorkers" /\ todoWorkers = {}
    /\ ctl' = "stopAll" /\ todoCalls' = producers
    /\ UNCHANGED <<clientVars, workerVars, todoWorkers, starts, running,
                   ctxDone, resets, ledgerVars, NotCtl>>

StopProducer(c) == SetActive("stopAll", c, FALSE)

\* Variant of StopCancel with a bug: resultsChan is closed without cancelling
\* the context.
StopCancelForgotten ==
    /\ ctl = "stopAll" /\ todoCalls = {}
    /\ ctl' = "close"
    /\ UNCHANGED <<clientVars, workerVars, todoWorkers, todoCalls, starts,
                   running, ctxDone, resets, ledgerVars, NotCtl>>

StopCancel ==
    /\ ctl = "stopAll" /\ todoCalls = {}
    /\ ctxDone' = TRUE /\ ctl' = "close"
    /\ UNCHANGED <<clientVars, workerVars, todoWorkers, todoCalls, starts,
                   running, resets, ledgerVars, NotCtl>>

StopClose ==
    /\ ctl = "close" /\ ~resultsClosed
    /\ resultsClosed' = TRUE /\ running' = FALSE /\ ctl' = "idle"
    /\ UNCHANGED <<clientVars, queue, workerVars, results, collectVars,
                   todoWorkers, todoCalls, starts, ctxDone, resets,
                   ledgerVars, crashed>>

\* A second Stop, after a restart, closes the closed channel and panics.
StopClosePanic ==
    /\ ctl = "close" /\ resultsClosed
    /\ crashed' = TRUE
    /\ UNCHANGED <<clientVars, queue, workerVars, resultVars, collectVars,
                   ctlVars, ledgerVars>>

ResetStats ==
    /\ ctl = "idle" /\ resets < MaxResets
    /\ ctl' = "resetWorkers" /\ todoWorkers' = Created /\ resets' = resets + 1
    /\ totalProcessed' = 0 /\ totalErrors' = 0
    /\ UNCHANGED <<clientVars, queue, workerVars, resultVars, collector,
                   picked, todoCalls, starts, running, ctxDone, ledgerVars,
                   crashed>>

ResetWorker(w) ==
    /\ ctl = "resetWorkers" /\ NextWorker(w)
    /\ processed' = [processed EXCEPT ![w] = 0]
    /\ errors' = [errors EXCEPT ![w] = 0]
    /\ todoWorkers' = todoWorkers \ {w}
    /\ UNCHANGED <<clientVars, worker, hand, cancelled, ctl, todoCalls, starts,
                   running, ctxDone, resets, ledgerVars, NotCtl>>

\* DefaultPairingSystem.ResetStats takes d.mu, read-held while processing.
ResetPairing ==
    /\ ctl = "resetWorkers" /\ todoWorkers = {}
    /\ \A w \in Workers : worker[w] # "processing"
    /\ ctl' = "clearBuffer"
    /\ UNCHANGED <<clientVars, workerVars, todoWorkers, todoCalls, starts,
                   running, ctxDone, resets, ledgerVars, NotCtl>>

ClearBuffer ==
    /\ ctl = "clearBuffer"
    /\ discarded' = discarded \cup Range(buffer)
    /\ buffer' = <<>> /\ ctl' = "idle"
    /\ UNCHANGED <<clientVars, workerVars, todoWorkers, todoCalls, starts,
                   running, ctxDone, resets, delivered, abandoned, NotCtl>>

\* What a control operation does once it holds cps.mu.
CtlStep == \/ \E c \in Calls : StartProducer(c) \/ StopProducer(c)
           \/ \E w \in Workers : StopWorker(w) \/ ResetWorker(w)
           \/ StartReturn \/ StopAll \/ StopCancel \/ StopClose
           \/ StopClosePanic \/ ResetPairing \/ ClearBuffer

-----------------------------------------------------------------------------
Next ==
    /\ ~crashed
    /\ \/ \E c \in Calls : CallCheck(c) \/ CallStep(c)
       \/ \E w \in Workers : WorkerStep(w)
       \/ \E g \in Collectors : CollectorStep(g)
       \/ GetResults
       \/ Start \/ Stop \/ ResetStats \/ CtlStep

Spec == Init /\ [][Next]_vars

\* The Go scheduler runs every goroutine that can run, and a mutex that is
\* released again and again is eventually granted.  Nothing makes a client
\* call an operation.
Fairness ==
    /\ \A c \in Calls : SF_vars(~crashed /\ CallStep(c))
    /\ \A w \in Workers : WF_vars(~crashed /\ WorkerStep(w))
    /\ \A g \in Collectors : SF_vars(~crashed /\ CollectorStep(g))
    /\ WF_vars(~crashed /\ CtlStep)

FairSpec == Spec /\ Fairness

-----------------------------------------------------------------------------
(* Where a request can be.                                                 *)

Accepted == {r \in Requests : r[2] <= sent[r[1]]}

AtQueue      == Range(queue)
AtWorkers    == {hand[w] : w \in Workers} \ {NoRequest}
AtResults    == Range(results)
AtCollectors == {picked[g] : g \in {g \in Collectors : collector[g] = "picked"}}
AtBuffer     == Range(buffer)

InFlight == AtQueue \cup AtWorkers \cup AtResults \cup AtCollectors
Settled  == AtBuffer \cup delivered \cup discarded \cup abandoned

\* Stop has begun to stop workers, or has already done so.
Stopping == ctl \in {"stopWorkers", "stopAll", "close"} \/ ctxDone

\* The state of every variable: positions of the goroutines, the bounds of the
\* two channels, and requests wherever policies and results travel.
ClientTypeOK ==
    /\ call \in [Calls -> CallPC]
    /\ sent \in [Calls -> Nat] /\ \A c \in Calls : sent[c] <= BatchLen[c]
    /\ active \in [Calls -> BOOLEAN]
    /\ producers \subseteq Calls

QueueTypeOK == queue \in Seq(Requests) /\ Len(queue) <= QueueCap

WorkerTypeOK ==
    /\ worker \in [Workers -> WorkerPC]
    /\ hand \in [Workers -> Requests \cup {NoRequest}]
    /\ cancelled \subseteq Workers
    /\ processed \in [Workers -> Nat] /\ errors \in [Workers -> Nat]

ResultTypeOK == /\ results \in Seq(Requests) /\ Len(results) <= ResultsCap
                /\ resultsClosed \in BOOLEAN

CollectTypeOK ==
    /\ collector \in [Collectors -> CollectorPC]
    /\ picked \in [Collectors -> Requests \cup {NoRequest}]
    /\ totalProcessed \in Nat /\ totalErrors \in Nat

CtlTypeOK ==
    /\ ctl \in CtlPhase
    /\ todoWorkers \subseteq Workers /\ todoCalls \subseteq Calls
    /\ starts \in 0..MaxStarts /\ resets \in 0..MaxResets
    /\ running \in BOOLEAN /\ ctxDone \in BOOLEAN

LedgerTypeOK ==
    /\ buffer \in Seq(Requests)
    /\ delivered \subseteq Requests /\ discarded \subseteq Requests
    /\ abandoned \subseteq Requests

TypeOK == /\ ClientTypeOK /\ QueueTypeOK /\ WorkerTypeOK /\ ResultTypeOK
          /\ CollectTypeOK /\ CtlTypeOK /\ LedgerTypeOK
          /\ crashed \in BOOLEAN

\* A worker holds a policy exactly between taking it and passing on its result,
\* and only workers that a Start launched exist.
WorkerPositions ==
    \A w \in Workers :
        /\ hand[w] # NoRequest <=> worker[w] \in {"got", "processing", "send"}
        /\ worker[w] = "unborn" <=> w \notin Created

\* A collector holds a result from taking it until it has counted it.
CollectorPositions ==
    \A g \in Collectors :
        /\ picked[g] # NoRequest <=> collector[g] \in {"picked", "counting"}
        /\ collector[g] = "unborn" <=> g > starts

\* A worker is cancelled, the system context done and resultsChan closed only
\* once Stop has got that far, and a restart takes none of it back.
StopPositions ==
    /\ cancelled # {} => Stopping
    /\ ctl = "close" \/ resultsClosed => ctxDone

Positions == WorkerPositions /\ CollectorPositions /\ StopPositions

\* No place holds a request twice.
NoRepeats ==
    /\ IsInjective(queue) /\ IsInjective(results) /\ IsInjective(buffer)
    /\ \A v, w \in Workers : hand[v] = hand[w] /\ hand[v] # NoRequest => v = w
    /\ \A g, h \in Collectors :
          picked[g] = picked[h] /\ collector[g] = "picked" /\ collector[h] = "picked"
            => g = h

\* No request is in two places.
Disjoint ==
    /\ AtQueue \cap AtWorkers = {}
    /\ (AtQueue \cup AtWorkers) \cap AtResults = {}
    /\ (AtQueue \cup AtWorkers \cup AtResults) \cap AtCollectors = {}
    /\ InFlight \cap AtBuffer = {}
    /\ (InFlight \cup AtBuffer) \cap delivered = {}
    /\ (InFlight \cup AtBuffer \cup delivered) \cap discarded = {}
    /\ (InFlight \cup AtBuffer \cup delivered \cup discarded)
          \cap abandoned = {}

\* Whatever the interleaving of calls, workers, collectors and control
\* operations, restarts included: a policy the queue accepted is in exactly one
\* place, so it is processed once and its result handed out at most once, and
\* nothing that was not accepted is ever processed.
ExactlyOnce == InFlight \cup Settled = Accepted /\ NoRepeats /\ Disjoint

-----------------------------------------------------------------------------
(* Statistics.                                                             *)

Counting == {g \in Collectors : collector[g] = "counting"}
Counted  == (AtBuffer \cup delivered) \ {picked[g] : g \in Counting}
Finished == AtResults \cup AtCollectors \cup AtBuffer \cup delivered
            \cup abandoned \cup {hand[w] : w \in {w \in Workers : worker[w] = "send"}}

\* Until somebody resets them, total_processed and total_errors of GetStats
\* count each collected result once, and the counters of the workers add up to
\* the policies they have finished, rejected ones under errors.
Accounting ==
    resets = 0 =>
        /\ totalProcessed = Cardinality(Counted)
        /\ totalErrors = Cardinality(Counted \cap Rejected)
        /\ SumFunction(processed) = Cardinality(Finished \ Rejected)
        /\ SumFunction(errors) = Cardinality(Finished \cap Rejected)

-----------------------------------------------------------------------------
(* The abstract specification that the system implements.                  *)

RequestStatus(r) ==
    CASE r \notin Accepted -> "new"
      [] r \in InFlight -> "pending"
      [] r \in AtBuffer -> "ready"
      [] r \in delivered -> "answered"
      [] r \in discarded -> "discarded"
      [] r \in abandoned -> "abandoned"
      [] OTHER -> "lost"

Ledger == INSTANCE RequestLedger WITH
            status   <- [r \in Requests |-> RequestStatus(r)],
            draining <- Stopping

\* Every step of the system is a step of RequestLedger or changes nothing there.
LedgerSpec == Ledger!Spec

-----------------------------------------------------------------------------
(* Liveness.                                                               *)

\* An accepted policy reaches the results buffer unless the system is stopped.
AcceptedIsAnswered ==
    \A r \in Requests :
        r \in Accepted ~> r \in Settled \/ Stopping \/ crashed

\* Start, Stop and ResetStats return: none of the locks they take, and none of
\* the goroutines they wait for, can keep them waiting for ever.
ControlReturns == ctl # "idle" ~> ctl = "idle" \/ crashed

\* Once stopped, a worker leaves its loop, whatever it was doing.
StoppedWorkersExit ==
    \A w \in Workers : w \in cancelled ~> worker[w] = "exited" \/ crashed

\* Stop ends the collectors, and with them the last goroutine of the system.
CollectorsExit ==
    ctxDone ~> crashed
               \/ \A g \in 1..starts : collector[g] = "exited"

\* A call that has begun returns, however Stop and other calls interfere.
CallsReturn ==
    \A c \in Calls : call[c] \notin {"new", "done"} ~> call[c] = "done" \/ crashed

-----------------------------------------------------------------------------
\* Only a Stop can bring the process down, once it has ended the system's context
\* and closed resultsChan: until then no send and no close panics.
PanicAfterStop == crashed => ctxDone /\ resultsClosed

\* README, "Graceful Shutdown: Proper cleanup on system termination": Stop ends
\* the system, it does not bring it down.
NoPanic == ~crashed
=============================================================================
