------------------------------- MODULE Models -------------------------------
(***************************************************************************)
(* models/provider.go and ConsumerPolicy.go: providers and policies.  They *)
(* are handed around by pointer and nothing changes one once it is made,   *)
(* so that their fields are constants.                                     *)
(***************************************************************************)
EXTENDS Integers, Sequences, FiniteSets, SequencesExt

CONSTANTS
    Providers,          \* provider objects
    Address,            \* Address[p], given or generated: not empty
    Location,           \* Location[p]
    Features,           \* Features[p], a list
    Stake,              \* Stake[p]
    Policies,           \* consumer policies
    RequiredLocation,   \* RequiredLocation[q], or AnyLocation
    RequiredFeatures,   \* RequiredFeatures[q], a list
    MinStake,           \* MinStake[q]
    AnyLocation,        \* no location is required
    Lower               \* Lower[f]: feature f in lower case

Strings == DOMAIN Lower

ASSUME ModelsAssumption ==
    /\ IsFiniteSet(Providers)
    /\ DOMAIN Address = Providers /\ DOMAIN Location = Providers
    /\ Features \in [Providers -> Seq(Strings)]
    /\ Stake \in [Providers -> Nat]
    /\ DOMAIN RequiredLocation = Policies
    /\ RequiredFeatures \in [Policies -> Seq(Strings)]
    /\ MinStake \in [Policies -> Int]
=============================================================================
