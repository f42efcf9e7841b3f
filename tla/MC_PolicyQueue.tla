--------------------------- MODULE MC_PolicyQueue ---------------------------
(***************************************************************************)
(* A small instance of PolicyQueue for TLC: a consumer that waits, Close,  *)
(* and the enqueue operation that should not wait.                         *)
(***************************************************************************)
EXTENDS PolicyQueue, TLC

CONSTANTS enqueue, dequeue, close

MCKind == (enqueue :> "Enqueue") @@ (dequeue :> "Dequeue") @@ (close :> "Close")
=============================================================================
