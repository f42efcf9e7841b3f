---------------------------- MODULE PolicyQueue ----------------------------
(***************************************************************************)
(* PolicyQueue of queue/queue_system.go used by concurrent callers.  Every *)
(* operation but Close takes the read lock of the queue, looks at the      *)
(* closed flag, and performs its channel operation and the update of a     *)
(* counter while it still holds the lock; Close takes the write lock.      *)
(*                                                                         *)
(* The lock is a sync.RWMutex: a writer that waits for the readers to      *)
(* leave keeps new readers out.  The counters are updated under the read   *)
(* lock only, which does not order the updates: an increment is a load and *)
(* a store.                                                                *)
(*                                                                         *)
(* No call is at its channel operation when the channel is closed (see     *)
(* SafeSelect), so a send never panics and a receive never reports a       *)
(* closed channel: neither has an action here.                             *)
(***************************************************************************)
EXTENDS Integers, Sequences, FiniteSets

CONSTANTS
    Calls,      \* the calls that callers make, each one once
    Kind,       \* Kind[c]: the operation that c calls
    Capacity    \* capacity of the channel

Kinds == {"Enqueue", "EnqueueWithTimeout", "Dequeue", "DequeueWithTimeout",
          "DequeueWithContext", "Close"}

ASSUME PolicyQueueAssumption ==
    /\ Kind \in [Calls -> Kinds]
    /\ Capacity \in Nat \ {0}

Enqueuers == {c \in Calls : Kind[c] \in {"Enqueue", "EnqueueWithTimeout"}}
Dequeuers == {c \in Calls : Kind[c] \in {"Dequeue", "DequeueWithTimeout",
                                         "DequeueWithContext"}}
Closers   == {c \in Calls : Kind[c] = "Close"}
Timed     == {c \in Calls : Kind[c] \in {"EnqueueWithTimeout", "DequeueWithTimeout"}}

VARIABLES
    pc,         \* where each call is
    outcome,    \* what a call returned
    queue,      \* the channel; the policy of an enqueueing call is the call
    closed,     \* the closed flag, set together with closing the channel
    enqueued, dequeued,
    loaded,     \* the counter value a call has read and not yet written back
    cancelled   \* calls whose context is cancelled

vars == <<pc, outcome, queue, closed, enqueued, dequeued, loaded, cancelled>>

\* "waiting": at Lock or RLock.  "check", "select", "load" and "store" hold the
\* read lock; a closer at "pending" keeps new readers out, and at "closing" it
\* holds the write lock.
PC == {"new", "waiting", "check", "select", "load", "store", "pending", "closing",
       "done"}
Outcomes == {"none", "ok", "queue is closed", "queue is full", "timeout", "cancelled"}

Readers == {c \in Calls : pc[c] \in {"check", "select", "load", "store"}}
Writers == {c \in Calls : pc[c] \in {"pending", "closing"}}

Init ==
    /\ pc = [c \in Calls |-> "new"]
    /\ outcome = [c \in Calls |-> "none"]
    /\ queue = <<>> /\ closed = FALSE
    /\ enqueued = 0 /\ dequeued = 0
    /\ loaded = [c \in Calls |-> 0]
    /\ cancelled = {}

Goes(c, to) == pc' = [pc EXCEPT ![c] = to] /\ UNCHANGED outcome

\* The deferred unlock is part of the return.
Returns(c, what) ==
    /\ pc' = [pc EXCEPT ![c] = "done"]
    /\ outcome' = [outcome EXCEPT ![c] = what]

Begin(c) ==
    /\ pc[c] = "new" /\ Goes(c, "waiting")
    /\ UNCHANGED <<queue, closed, enqueued, dequeued, loaded, cancelled>>

RLock(c) ==
    /\ c \notin Closers /\ pc[c] = "waiting" /\ Writers = {}
    /\ Goes(c, "check")
    /\ UNCHANGED <<queue, closed, enqueued, dequeued, loaded, cancelled>>

\* Variant of CheckClosed with a bug: the closed flag is not looked at.
CheckClosedNot(c) ==
    /\ pc[c] = "check"
    /\ Goes(c, "select")
    /\ UNCHANGED <<queue, closed, enqueued, dequeued, loaded, cancelled>>

CheckClosed(c) ==
    /\ pc[c] = "check"
    /\ IF closed THEN Returns(c, "queue is closed") ELSE Goes(c, "select")
    /\ UNCHANGED <<queue, closed, enqueued, dequeued, loaded, cancelled>>

Send(c) ==
    /\ c \in Enqueuers /\ pc[c] = "select" /\ Len(queue) < Capacity
    /\ queue' = Append(queue, c)
    /\ Goes(c, "load")
    /\ UNCHANGED <<closed, enqueued, dequeued, loaded, cancelled>>

\* Variant of Full with a bug: it counts the policy that it refuses.
FullCounts(c) ==
    /\ Kind[c] = "Enqueue" /\ pc[c] = "select" /\ Len(queue) = Capacity
    /\ enqueued' = enqueued + 1
    /\ Returns(c, "queue is full")
    /\ UNCHANGED <<queue, closed, dequeued, loaded, cancelled>>

\* The default case of Enqueue.
Full(c) ==
    /\ Kind[c] = "Enqueue" /\ pc[c] = "select" /\ Len(queue) = Capacity
    /\ Returns(c, "queue is full")
    /\ UNCHANGED <<queue, closed, enqueued, dequeued, loaded, cancelled>>

Receive(c) ==
    /\ c \in Dequeuers /\ pc[c] = "select" /\ queue # <<>>
    /\ queue' = Tail(queue)
    /\ Goes(c, "load")
    /\ UNCHANGED <<closed, enqueued, dequeued, loaded, cancelled>>

\* Variant of Timeout with a bug: enqueueing ignores its timeout.
TimeoutDequeueOnly(c) ==
    /\ Kind[c] = "DequeueWithTimeout" /\ pc[c] = "select"
    /\ Returns(c, "timeout")
    /\ UNCHANGED <<queue, closed, enqueued, dequeued, loaded, cancelled>>

Timeout(c) ==
    /\ c \in Timed /\ pc[c] = "select"
    /\ Returns(c, "timeout")
    /\ UNCHANGED <<queue, closed, enqueued, dequeued, loaded, cancelled>>

ContextDone(c) ==
    /\ Kind[c] = "DequeueWithContext" /\ pc[c] = "select" /\ c \in cancelled
    /\ Returns(c, "cancelled")
    /\ UNCHANGED <<queue, closed, enqueued, dequeued, loaded, cancelled>>

\* pq.enqueued++ or pq.dequeued++.
Load(c) ==
    /\ pc[c] = "load"
    /\ loaded' = [loaded EXCEPT ![c] = IF c \in Enqueuers THEN enqueued ELSE dequeued]
    /\ Goes(c, "store")
    /\ UNCHANGED <<queue, closed, enqueued, dequeued, cancelled>>

Store(c) ==
    /\ pc[c] = "store"
    /\ IF c \in Enqueuers
         THEN enqueued' = loaded[c] + 1 /\ UNCHANGED dequeued
         ELSE dequeued' = loaded[c] + 1 /\ UNCHANGED enqueued
    /\ Returns(c, "ok")
    /\ UNCHANGED <<queue, closed, loaded, cancelled>>

\* Lock announces the writer, then waits for the readers that are inside.
Lock(c) ==
    /\ c \in Closers /\ pc[c] = "waiting" /\ Writers = {}
    /\ Goes(c, "pending")
    /\ UNCHANGED <<queue, closed, enqueued, dequeued, loaded, cancelled>>

Locked(c) ==
    /\ pc[c] = "pending" /\ Readers = {}
    /\ Goes(c, "closing")
    /\ UNCHANGED <<queue, closed, enqueued, dequeued, loaded, cancelled>>

\* A second Close finds the queue closed and leaves the channel alone.
Close(c) ==
    /\ pc[c] = "closing"
    /\ closed' = TRUE
    /\ Returns(c, "ok")
    /\ UNCHANGED <<queue, enqueued, dequeued, loaded, cancelled>>

\* The owner of a context, which the calls in C share, cancels it, or never does.
Cancel(C) ==
    /\ \A c \in C : Kind[c] = "DequeueWithContext"
    /\ cancelled' = cancelled \cup C
    /\ UNCHANGED <<pc, outcome, queue, closed, enqueued, dequeued, loaded>>

Step(c) == \/ RLock(c) \/ CheckClosed(c) \/ Send(c) \/ Full(c) \/ Receive(c)
           \/ Timeout(c) \/ ContextDone(c) \/ Load(c) \/ Store(c)
           \/ Lock(c) \/ Locked(c) \/ Close(c)

Next == \/ \E c \in Calls : Begin(c) \/ Step(c)
        \/ \E C \in SUBSET Calls : Cancel(C)

Spec == Init /\ [][Next]_vars

\* A call that has begun goes on whenever it can; in particular its timeout, if
\* it has one, elapses.  Nothing makes a caller begin a call or cancel a context.
FairSpec == Spec /\ \A c \in Calls : WF_vars(Step(c))

-----------------------------------------------------------------------------
\* Every variable has its type and the channel respects its capacity.
TypeOK ==
    /\ pc \in [Calls -> PC] /\ outcome \in [Calls -> Outcomes]
    /\ queue \in Seq(Enqueuers) /\ Len(queue) <= Capacity
    /\ closed \in BOOLEAN
    /\ enqueued \in Nat /\ dequeued \in Nat
    /\ loaded \in [Calls -> Nat]
    /\ cancelled \subseteq Calls

\* The lock excludes: while Close holds it for writing, nobody holds it for
\* reading.
Exclusion == \A c \in Calls : pc[c] = "closing" => Readers = {}

\* Holding the read lock across the channel operation keeps Close away: no call
\* is at its channel operation, where a send would panic, once the channel is
\* closed, although the flag was checked some steps before.
SafeSelect == \A c \in Calls : pc[c] = "select" => ~closed

\* Once closed, the queue keeps what it holds: no policy gets in any more, and
\* the policies that are in it are never handed out.
ClosedIsFrozen == [][closed => queue' = queue]_queue

\* The channel operation of call c has succeeded.
Through(c) == pc[c] \in {"load", "store"} \/ outcome[c] = "ok"

Sent     == {c \in Enqueuers : Through(c)}
Received == {c \in Dequeuers : Through(c)}

\* Increments that race can lose counts, but GetStats' "enqueued" and "dequeued"
\* never show more than has happened, nor zero after a call has succeeded.
CountersLag ==
    /\ enqueued <= Cardinality(Sent) /\ dequeued <= Cardinality(Received)
    /\ \A c \in Calls :
         outcome[c] = "ok" /\ c \in Enqueuers => enqueued > 0
    /\ \A c \in Calls :
         outcome[c] = "ok" /\ c \in Dequeuers => dequeued > 0

\* Every call that has begun returns, Close among them, unless a dequeue without
\* a timeout waits for ever in its select with the read lock.
CallsReturn ==
    (\A c \in Dequeuers \ Timed : []<>(pc[c] # "select"))
      => \A c \in Calls : pc[c] = "waiting" ~> pc[c] = "done"

-----------------------------------------------------------------------------
\* "Enqueue adds a policy to the queue (non-blocking)": a call of Enqueue
\* returns, whatever the other callers do.
EnqueueReturns ==
    \A c \in Calls :
        Kind[c] = "Enqueue" /\ pc[c] = "waiting" ~> pc[c] = "done"
=============================================================================
