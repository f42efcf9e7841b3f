--------------------- MODULE MC_ConcurrentPairingSystem ---------------------
(***************************************************************************)
(* Small instances of ConcurrentPairingSystem for TLC: two calls of one    *)
(* policy each, the second of which ProcessPolicy rejects, and one call of *)
(* a batch.                                                                *)
(***************************************************************************)
EXTENDS ConcurrentPairingSystem

CONSTANTS batch, single     \* the calls

\* One policy in each call.
OneEach == [c \in {batch, single} |-> 1]

\* One batch, its second policy rejected; three policies fill every stage.
BatchOfThree == [c \in {batch} |-> 3]

SingleRejected == {<<single, 1>>}
SecondRejected == {<<batch, 2>>}
=============================================================================
