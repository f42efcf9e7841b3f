-------------------------- MODULE BatchProcessing --------------------------
(***************************************************************************)
(* ProcessPoliciesConcurrently and ProcessPoliciesWithContext of           *)
(* services/processor.go: one call, which starts a pool of workers, feeds  *)
(* them the policies through one channel and collects their results from   *)
(* another.  The call with a context can be cancelled at any time; it then *)
(* returns what it has, and leaves its goroutines behind.                  *)
(*                                                                         *)
(* A policy is its position in the batch, and so is its result; what       *)
(* ProcessPolicy does in between is the subject of PairingProcessor.  No   *)
(* action sends on a closed channel: SendsAtOnce shows that none is tried. *)
(***************************************************************************)
EXTENDS Integers, Sequences, FiniteSets, Functions

CONSTANTS
    BatchSize,      \* number of policies, not 0 (an empty batch returns at once)
    MaxConcurrency  \* number of workers (10 if the argument is not positive)

ASSUME BatchAssumption ==
    BatchSize \in Nat \ {0} /\ MaxConcurrency \in Nat \ {0}

Positions == 1..BatchSize
Workers   == 1..MaxConcurrency
Nothing   == 0      \* what a worker that has no policy holds

VARIABLES
    withContext,    \* which of the two functions is called
    ctxDone,        \* the context is cancelled
    policyChannel, policyClosed,
    resultChannel, resultClosed,
    fed,            \* how many policies have been sent to the workers
    worker,         \* where each worker is
    hand,           \* the policy, then the result, a worker holds
    caller,         \* where the call is, once it has started the workers
    results,        \* the results it has collected
    dropped         \* history: results that workers gave up

feedVars    == <<policyChannel, policyClosed, fed>>
workerVars  == <<worker, hand, dropped>>
resultVars  == <<resultChannel, resultClosed>>
callerVars  == <<caller, results>>
contextVars == <<withContext, ctxDone>>
vars == <<contextVars, feedVars, workerVars, resultVars, callerVars>>

WorkerPC == {"select", "process", "send", "exited"}

\* Variant of ResultCap with a bug: room for one result per worker.
ResultCapPerWorker == MaxConcurrency

\* Capacity of resultChannel; policyChannel has the same.
ResultCap == BatchSize

Init ==
    /\ withContext \in BOOLEAN /\ ctxDone = FALSE
    /\ policyChannel = <<>> /\ policyClosed = FALSE /\ fed = 0
    /\ resultChannel = <<>> /\ resultClosed = FALSE
    /\ worker = [w \in Workers |-> "select"]
    /\ hand = [w \in Workers |-> Nothing]
    /\ caller = "collect" /\ results = <<>> /\ dropped = {}

\* Whoever made the context cancels it.
Cancel ==
    /\ withContext /\ ~ctxDone
    /\ ctxDone' = TRUE
    /\ UNCHANGED <<withContext, feedVars, workerVars, resultVars, callerVars>>

-----------------------------------------------------------------------------
(* Feeding: a goroutine's work with a context, else the caller's.          *)

\* Variant of Feed with a bug: off by one.
FeedOneMore ==
    /\ ~policyClosed /\ fed <= BatchSize
    /\ policyChannel' = Append(policyChannel, fed + 1)
    /\ fed' = fed + 1
    /\ UNCHANGED <<policyClosed, contextVars, workerVars, resultVars, callerVars>>

Feed ==
    /\ ~policyClosed /\ fed < BatchSize
    /\ policyChannel' = Append(policyChannel, fed + 1)
    /\ fed' = fed + 1
    /\ UNCHANGED <<policyClosed, contextVars, workerVars, resultVars, callerVars>>

\* Variant of FeedEnd with a bug: the channel is closed upon cancellation only.
FeedEndCancelled ==
    /\ ~policyClosed /\ ctxDone
    /\ policyClosed' = TRUE
    /\ UNCHANGED <<policyChannel, fed, contextVars, workerVars, resultVars, callerVars>>

\* All are sent, or the select has found the context done.
FeedEnd ==
    /\ ~policyClosed /\ (fed = BatchSize \/ ctxDone)
    /\ policyClosed' = TRUE
    /\ UNCHANGED <<policyChannel, fed, contextVars, workerVars, resultVars, callerVars>>

-----------------------------------------------------------------------------
(* The workers.                                                            *)

WorkerTake(w) ==
    /\ worker[w] = "select" /\ policyChannel # <<>>
    /\ hand' = [hand EXCEPT ![w] = Head(policyChannel)]
    /\ policyChannel' = Tail(policyChannel)
    /\ worker' = [worker EXCEPT ![w] = "process"]
    /\ UNCHANGED <<policyClosed, fed, dropped, contextVars, resultVars, callerVars>>

\* Variant of WorkerExit with a bug: the context is looked at when the policy is
\* processed, and its result is lost.
WorkerExitBusy(w) ==
    /\ \/ worker[w] = "select" /\ ((policyClosed /\ policyChannel = <<>>) \/ ctxDone)
       \/ worker[w] = "process" /\ ctxDone
    /\ worker' = [worker EXCEPT ![w] = "exited"]
    /\ UNCHANGED <<hand, dropped, contextVars, feedVars, resultVars, callerVars>>

\* The channel is closed and drained, or the context done.
WorkerExit(w) ==
    /\ worker[w] = "select" /\ ((policyClosed /\ policyChannel = <<>>) \/ ctxDone)
    /\ worker' = [worker EXCEPT ![w] = "exited"]
    /\ UNCHANGED <<hand, dropped, contextVars, feedVars, resultVars, callerVars>>

WorkerProcess(w) ==
    /\ worker[w] = "process"
    /\ worker' = [worker EXCEPT ![w] = "send"]
    /\ UNCHANGED <<hand, dropped, contextVars, feedVars, resultVars, callerVars>>

WorkerSend(w) ==
    /\ worker[w] = "send" /\ Len(resultChannel) < ResultCap
    /\ resultChannel' = Append(resultChannel, hand[w])
    /\ hand' = [hand EXCEPT ![w] = Nothing]
    /\ worker' = [worker EXCEPT ![w] = "select"]
    /\ UNCHANGED <<dropped, resultClosed, contextVars, feedVars, callerVars>>

WorkerDrop(w) ==
    /\ worker[w] = "send" /\ ctxDone
    /\ dropped' = dropped \cup {hand[w]}
    /\ hand' = [hand EXCEPT ![w] = Nothing]
    /\ worker' = [worker EXCEPT ![w] = "exited"]
    /\ UNCHANGED <<contextVars, feedVars, resultVars, callerVars>>

WorkerStep(w) == \/ WorkerTake(w) \/ WorkerExit(w) \/ WorkerProcess(w)
                 \/ WorkerSend(w) \/ WorkerDrop(w)

\* Variant of CloseResults with a bug: it does not wait for the workers.
CloseResultsEarly ==
    /\ policyClosed /\ ~resultClosed
    /\ resultClosed' = TRUE
    /\ UNCHANGED <<resultChannel, contextVars, feedVars, workerVars, callerVars>>

\* A goroutine of its own waits for the workers to exit.
CloseResults ==
    /\ \A w \in Workers : worker[w] = "exited"
    /\ ~resultClosed
    /\ resultClosed' = TRUE
    /\ UNCHANGED <<resultChannel, contextVars, feedVars, workerVars, callerVars>>

-----------------------------------------------------------------------------
(* Collecting.  Without a context the caller feeds first.                  *)

Collecting == caller = "collect" /\ (withContext \/ policyClosed)

Collect ==
    /\ Collecting /\ resultChannel # <<>>
    /\ results' = Append(results, Head(resultChannel))
    /\ resultChannel' = Tail(resultChannel)
    /\ UNCHANGED <<resultClosed, caller, contextVars, feedVars, workerVars>>

\* The channel is closed and drained, or the context done.
CollectEnd ==
    /\ Collecting /\ ((resultClosed /\ resultChannel = <<>>) \/ ctxDone)
    /\ caller' = "done"
    /\ UNCHANGED <<results, contextVars, feedVars, workerVars, resultVars>>

-----------------------------------------------------------------------------
Next == \/ Cancel
        \/ Feed \/ FeedEnd
        \/ \E w \in Workers : WorkerStep(w)
        \/ CloseResults
        \/ Collect \/ CollectEnd

Spec == Init /\ [][Next]_vars

\* Every goroutine goes on while it can; a context need not be cancelled.
Fairness ==
    /\ WF_vars(Feed \/ FeedEnd)
    /\ \A w \in Workers : WF_vars(WorkerStep(w))
    /\ WF_vars(CloseResults)
    /\ WF_vars(Collect \/ CollectEnd)

FairSpec == Spec /\ Fairness

-----------------------------------------------------------------------------
\* Every variable has its type and the channels respect their capacities.
TypeOK ==
    /\ withContext \in BOOLEAN /\ ctxDone \in BOOLEAN
    /\ policyChannel \in Seq(Positions) /\ Len(policyChannel) <= BatchSize
    /\ resultChannel \in Seq(Positions) /\ Len(resultChannel) <= BatchSize
    /\ policyClosed \in BOOLEAN /\ resultClosed \in BOOLEAN
    /\ fed \in 0..BatchSize
    /\ worker \in [Workers -> WorkerPC]
    /\ hand \in [Workers -> Positions \cup {Nothing}]
    /\ caller \in {"collect", "done"} /\ results \in Seq(Positions)
    /\ dropped \subseteq Positions

Busy == {w \in Workers : worker[w] \in {"process", "send"}}

\* Every policy sent so far is in one place: waiting, with one worker, finished,
\* collected, or dropped.
Conserved ==
    /\ 1..fed = Range(policyChannel) \cup {hand[w] : w \in Busy}
                  \cup Range(resultChannel) \cup Range(results) \cup dropped
    /\ fed = Len(policyChannel) + Cardinality(Busy) + Len(resultChannel)
               + Len(results) + Cardinality(dropped)

\* A call that was not cancelled returns one result for each policy: the results
\* channel is not closed before the last worker has sent its last result.
OneResultEach ==
    caller = "done" /\ ~ctxDone => Range(results) = Positions /\ Len(results) = BatchSize

\* A worker with a result never waits nor panics, cancelled or not, whether or
\* not the caller is still there to collect: the channel is open and has room.
SendsAtOnce ==
    \A w \in Workers :
        worker[w] = "send" => ~resultClosed /\ Len(resultChannel) < ResultCap

\* The call returns, and every goroutine it has started ends, those included
\* that a cancelled call leaves behind.
AllEnd == <>(/\ caller = "done" /\ policyClosed /\ resultClosed
             /\ \A w \in Workers : worker[w] = "exited")
=============================================================================
