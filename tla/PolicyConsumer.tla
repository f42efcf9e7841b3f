--------------------------- MODULE PolicyConsumer ---------------------------
(***************************************************************************)
(* PolicyConsumer of queue/queue_system.go on top of PolicyQueue: one      *)
(* goroutine in ConsumeLoop, Start and Stop called at any time, and other  *)
(* callers of the queue.                                                   *)
(*                                                                         *)
(* ConsumePolicy holds pc.mu for reading from the look at the active flag  *)
(* to the end of processing the policy, the wait for one included; Start   *)
(* and Stop hold it for writing.  The consumer's mutex, too, is a          *)
(* sync.RWMutex: a writer that waits keeps new readers out.                *)
(***************************************************************************)
EXTENDS PolicyQueue, SequencesExt

CONSTANT Fetches    \* the calls of DequeueWithContext that the loop makes, in
                    \* turn; bound: the loop does not begin another one

Fetching == Range(Fetches)
Clients  == Calls \ Fetching

ASSUME ConsumerAssumption ==
    /\ Fetches \in Seq(Calls) /\ Fetches # <<>>
    /\ \A c \in Calls : Kind[c] = "DequeueWithContext" <=> c \in Fetching
    /\ \A i, j \in DOMAIN Fetches : Fetches[i] = Fetches[j] => i = j

VARIABLES
    loop,               \* where the goroutine in ConsumeLoop is
    fetch,              \* how many fetches it has begun
    active,
    writer,             \* where the calls of Start and Stop are
    consumed, errors,
    got,                \* history: the policy that each dequeue took
    processed           \* history: the policies processed

loopVars == <<loop, fetch, consumed, errors, processed>>
controlVars == <<active, writer>>
consumerVars == <<vars, loopVars, controlVars, got>>

\* pc.mu is read-held at "check", "fetching" and "processing".
LoopPC   == {"new", "top", "locking", "check", "fetching", "processing", "delay", "ended"}
WriterPC == {"new", "waiting", "pending", "done"}
Control  == {"Start", "Stop"}

Reading     == loop \in {"check", "fetching", "processing"}
Waiting     == {w \in Control : writer[w] = "pending"}
ContextOver == Fetching \subseteq cancelled

ConsumerInit ==
    /\ Init
    /\ loop = "new" /\ fetch = 0 /\ consumed = 0 /\ errors = 0
    /\ active = FALSE /\ writer = [w \in Control |-> "new"]
    /\ got = [c \in Dequeuers |-> {}] /\ processed = {}

-----------------------------------------------------------------------------
(* ConsumeLoop and ConsumePolicy.                                          *)

StartLoop ==
    /\ loop = "new" /\ loop' = "top"
    /\ UNCHANGED <<vars, fetch, consumed, errors, processed, controlVars, got>>

LoopTop ==
    /\ loop = "top"
    /\ IF ContextOver THEN loop' = "ended"
                      ELSE fetch < Len(Fetches) /\ loop' = "locking"
    /\ UNCHANGED <<vars, fetch, consumed, errors, processed, controlVars, got>>

LockForPolicy ==
    /\ loop = "locking" /\ Waiting = {} /\ loop' = "check"
    /\ UNCHANGED <<vars, fetch, consumed, errors, processed, controlVars, got>>

\* Variant of NotActive with a bug: it counts an error.
NotActiveCounts ==
    /\ loop = "check" /\ ~active /\ loop' = "delay" /\ errors' = errors + 1
    /\ UNCHANGED <<vars, fetch, consumed, processed, controlVars, got>>

\* A consumer that is not active leaves the error counter alone.
NotActive ==
    /\ loop = "check" /\ ~active /\ loop' = "delay"
    /\ UNCHANGED <<vars, fetch, consumed, errors, processed, controlVars, got>>

Fetch ==
    /\ loop = "check" /\ active /\ loop' = "fetching"
    /\ fetch' = fetch + 1 /\ Begin(Fetches[fetch + 1])
    /\ UNCHANGED <<consumed, errors, processed, controlVars, got>>

Answered == loop = "fetching" /\ pc[Fetches[fetch]] = "done"

\* Variant of Fetched with a bug: it looks once more whether the queue is closed.
FetchedUnlessClosed ==
    /\ Answered
    /\ IF outcome[Fetches[fetch]] = "ok" /\ ~closed
         THEN loop' = "processing" /\ UNCHANGED errors
         ELSE loop' = "delay" /\ errors' = errors + 1
    /\ UNCHANGED <<vars, fetch, consumed, processed, controlVars, got>>

Fetched ==
    /\ Answered
    /\ IF outcome[Fetches[fetch]] = "ok"
         THEN loop' = "processing" /\ UNCHANGED errors
         ELSE loop' = "delay" /\ errors' = errors + 1
    /\ UNCHANGED <<vars, fetch, consumed, processed, controlVars, got>>

\* processFn succeeds or returns an error; either way the policy is not put back.
Process ==
    /\ loop = "processing"
    /\ processed' = processed \cup got[Fetches[fetch]]
    /\ \/ loop' = "top" /\ consumed' = consumed + 1 /\ UNCHANGED errors
       \/ loop' = "delay" /\ errors' = errors + 1 /\ UNCHANGED consumed
    /\ UNCHANGED <<vars, fetch, controlVars, got>>

\* After an error: 10 ms pass, or the context is cancelled.
Delay ==
    /\ loop = "delay"
    /\ \/ loop' = "top"
       \/ ContextOver /\ loop' = "ended"
    /\ UNCHANGED <<vars, fetch, consumed, errors, processed, controlVars, got>>

LoopStep == LoopTop \/ LockForPolicy \/ NotActive \/ Fetch \/ Fetched \/ Process \/ Delay

-----------------------------------------------------------------------------
(* Start and Stop.                                                         *)

ControlCall(w) ==
    /\ writer[w] = "new" /\ writer' = [writer EXCEPT ![w] = "waiting"]
    /\ UNCHANGED <<vars, loopVars, active, got>>

Announce(w) ==
    /\ writer[w] = "waiting" /\ Waiting = {}
    /\ writer' = [writer EXCEPT ![w] = "pending"]
    /\ UNCHANGED <<vars, loopVars, active, got>>

Start ==
    /\ writer["Start"] = "pending" /\ ~Reading
    /\ active' = TRUE /\ writer' = [writer EXCEPT !["Start"] = "done"]
    /\ UNCHANGED <<vars, loopVars, got>>

\* Variant of Stop with a bug: it does not wait for the reader.
StopAtOnce ==
    /\ writer["Stop"] = "pending"
    /\ active' = FALSE /\ Cancel(Fetching)
    /\ writer' = [writer EXCEPT !["Stop"] = "done"]
    /\ UNCHANGED <<loopVars, got>>

\* Variant of Stop with a bug: the context is not cancelled.
StopUncancelled ==
    /\ writer["Stop"] = "pending" /\ ~Reading
    /\ active' = FALSE
    /\ writer' = [writer EXCEPT !["Stop"] = "done"]
    /\ UNCHANGED <<vars, loopVars, got>>

\* The context is cancelled for good: Start does not make another one.
Stop ==
    /\ writer["Stop"] = "pending" /\ ~Reading
    /\ active' = FALSE /\ Cancel(Fetching)
    /\ writer' = [writer EXCEPT !["Stop"] = "done"]
    /\ UNCHANGED <<loopVars, got>>

ControlStep == \/ \E w \in Control : Announce(w)
               \/ Start \/ Stop

-----------------------------------------------------------------------------
\* A step of a call of the queue, the loop's own or a client's.
QueueStep(c) ==
    /\ Step(c)
    /\ got' = IF c \in Dequeuers /\ Receive(c) THEN [got EXCEPT ![c] = {Head(queue)}] ELSE got
    /\ UNCHANGED <<loopVars, controlVars>>

ClientCall(c) == Begin(c) /\ UNCHANGED <<loopVars, controlVars, got>>

ConsumerNext ==
    \/ StartLoop \/ LoopStep
    \/ \E w \in Control : ControlCall(w)
    \/ ControlStep
    \/ \E c \in Calls : QueueStep(c)
    \/ \E c \in Clients : ClientCall(c)

ConsumerSpec == ConsumerInit /\ [][ConsumerNext]_consumerVars

\* The loop, once it runs, and every call that has begun go on whenever they can.
\* In particular processFn returns.
ConsumerFairSpec ==
    /\ ConsumerSpec
    /\ WF_consumerVars(LoopStep) /\ WF_consumerVars(ControlStep)
    /\ \A c \in Calls : WF_consumerVars(QueueStep(c))

-----------------------------------------------------------------------------
Current == Fetches[fetch]

\* Every variable has its type.  The loop is waiting for the fetch it began last
\* and for no other, and its counters add up to the fetches that are over.
ConsumerTypeOK ==
    /\ TypeOK
    /\ loop \in LoopPC /\ fetch \in 0..Len(Fetches)
    /\ active \in BOOLEAN /\ writer \in [Control -> WriterPC]
    /\ \A i \in DOMAIN Fetches : pc[Fetches[i]] = "new" <=> i > fetch
    /\ \A i \in 1..fetch : i < fetch \/ loop # "fetching" => pc[Fetches[i]] = "done"
    /\ got \in [Dequeuers -> SUBSET Enqueuers] /\ processed \subseteq Enqueuers
    /\ consumed \in Nat /\ errors \in Nat
    /\ consumed + errors = fetch - (IF loop \in {"fetching", "processing"} THEN 1 ELSE 0)

\* Stop is a barrier: the loop takes a policy from the queue only while the
\* consumer is active, although it looks at the flag some steps before and waits
\* in between.
TakesWhileActive ==
    [][\A c \in Fetching : got'[c] # got[c] => active /\ loop = "fetching" /\ c = Current]_consumerVars

InHand == IF loop = "processing" \/ (loop = "fetching" /\ Through(Current))
          THEN got[Current] ELSE {}

WithOthers == UNION {got[c] : c \in Dequeuers \ Fetching}

\* Whatever the order of Stop, Close and the fetches: a policy that the queue has
\* accepted is in the queue, in the loop's hand, processed or with another
\* client, and in one of these places only.
OncePerPolicy ==
    /\ Sent = Range(queue) \cup InHand \cup processed \cup WithOthers
    /\ IsInjective(queue)
    /\ Range(queue) \cap (InHand \cup processed \cup WithOthers) = {}
    /\ InHand \cap (processed \cup WithOthers) = {}
    /\ processed \cap WithOthers = {}

\* Unless a dequeue waits for ever (with the consumer's lock, if it is the
\* loop's), Stop returns and the loop ends.
StopEndsLoop ==
    (\A c \in Dequeuers \ Timed : []<>(pc[c] # "select"))
      => (writer["Stop"] = "waiting" /\ loop # "new" ~>
            writer["Stop"] = "done" /\ loop = "ended")
=============================================================================
