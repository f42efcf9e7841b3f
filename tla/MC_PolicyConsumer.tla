------------------------- MODULE MC_PolicyConsumer -------------------------
(***************************************************************************)
(* A small instance of PolicyConsumer for TLC: two policies come, the loop *)
(* fetches up to three times, and the queue is closed at some time.        *)
(***************************************************************************)
EXTENDS PolicyConsumer, TLC

CONSTANTS enqueue, enqueueTimed, close, fetch1, fetch2, fetch3

MCKind == (enqueue :> "Enqueue") @@ (enqueueTimed :> "EnqueueWithTimeout")
            @@ (close :> "Close") @@ [c \in {fetch1, fetch2, fetch3} |-> "DequeueWithContext"]

MCFetches == <<fetch1, fetch2, fetch3>>
=============================================================================
