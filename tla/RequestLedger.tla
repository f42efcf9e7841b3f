--------------------------- MODULE RequestLedger ---------------------------
(***************************************************************************)
(* What ConcurrentPairingSystem promises about the policies submitted to   *)
(* it, whatever its goroutines do: a policy is accepted at most once, an   *)
(* accepted policy becomes one result, the result is handed to one caller  *)
(* of GetResults (or discarded by ResetStats), and an accepted policy is   *)
(* given up only after Stop has begun.  ConcurrentPairingSystem implements *)
(* this specification.                                                     *)
(***************************************************************************)

CONSTANT Requests       \* the policies that callers may submit

VARIABLES status,       \* how far each request has got
          draining      \* TRUE once Stop has begun to stop workers

ledgerVars == <<status, draining>>

Status == {"new", "pending", "ready", "answered", "discarded", "abandoned"}

In(s) == {r \in Requests : status[r] = s}

Init == /\ status = [r \in Requests |-> "new"]
        /\ draining = FALSE

Move(S, s) ==
    /\ status' = [r \in Requests |-> IF r \in S THEN s ELSE status[r]]
    /\ UNCHANGED draining

Accept(r) == r \in In("new") /\ Move({r}, "pending")

Collect(r) == r \in In("pending") /\ Move({r}, "ready")

\* GetResults hands out every collected result, ResetStats throws them away.
Answer  == Move(In("ready"), "answered")
Discard == Move(In("ready"), "discarded")

Abandon(r) == draining /\ r \in In("pending") /\ Move({r}, "abandoned")

BeginDrain == draining' = TRUE /\ UNCHANGED status

Next == \/ \E r \in Requests : Accept(r) \/ Collect(r) \/ Abandon(r)
        \/ Answer
        \/ Discard
        \/ BeginDrain

Spec == Init /\ [][Next]_ledgerVars
=============================================================================
