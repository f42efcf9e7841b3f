------------------------------- MODULE Filters -------------------------------
(***************************************************************************)
(* filters/filters.go: the filter chain and the validation of policies.    *)
(* The providers come from a map in no particular order, so a list of      *)
(* providers is a set here.  No policy is nil.                             *)
(***************************************************************************)
EXTENDS Models

CONSTANT Blank      \* feature strings that are empty once trimmed

ValidatePolicy(q) == /\ MinStake[q] >= 0
                     /\ \A f \in Range(RequiredFeatures[q]) : f \notin Blank

LocationFilter(ps, q) ==
    IF RequiredLocation[q] = AnyLocation THEN ps
    ELSE {p \in ps : Location[p] = RequiredLocation[q]}

\* Features are compared without regard to case.
Supports(p, f) == \E g \in Range(Features[p]) : Lower[g] = Lower[f]

hasAllRequiredFeatures(p, q) == \A f \in Range(RequiredFeatures[q]) : Supports(p, f)

FeatureFilter(ps, q) ==
    IF RequiredFeatures[q] = <<>> THEN ps
    ELSE {p \in ps : hasAllRequiredFeatures(p, q)}

StakeFilter(ps, q) ==
    IF MinStake[q] <= 0 THEN ps ELSE {p \in ps : Stake[p] >= MinStake[q]}

\* The chain stops as soon as nobody is left.
ApplyFilters(ps, q) ==
    LET located == LocationFilter(ps, q)
        capable == IF located = {} THEN located ELSE FeatureFilter(located, q)
    IN  IF capable = {} THEN capable ELSE StakeFilter(capable, q)

-----------------------------------------------------------------------------
\* What a policy asks for, independently of the filters and their order.
Qualifies(p, q) ==
    /\ RequiredLocation[q] \in {AnyLocation, Location[p]}
    /\ {Lower[f] : f \in Range(RequiredFeatures[q])}
           \subseteq {Lower[g] : g \in Range(Features[p])}
    /\ Stake[p] >= MinStake[q]
=============================================================================
