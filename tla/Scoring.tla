------------------------------- MODULE Scoring -------------------------------
(***************************************************************************)
(* services/scorers.go and CalculateScore and RankProviders of             *)
(* services/composite_scoring.go.                                          *)
(*                                                                         *)
(* A component's score is an integer number of parts, One parts being the  *)
(* score 1.0; weights are integers (tenths, say), negative ones included:  *)
(* nothing checks a weight.  A total score is a fraction num/den with      *)
(* den > 0, or, with den = 0, an infinity of num's sign or, if num is 0    *)
(* too, not a number: a stake of zero has the logarithm minus infinity.    *)
(* Rounding is left out.  The scorers that clients write are external:     *)
(* their scores are any numbers, and they may return an error instead; the *)
(* scorers of the program never do.                                        *)
(***************************************************************************)
EXTENDS Filters

CONSTANTS
    One,        \* parts in the score 1.0
    Log10,      \* Log10[s]: seven times this, in parts, is log10 of stake s > 0
    Region,     \* Region[l]: the first two characters of location l
    CustomKinds,    \* types of scorers that clients write
    CustomScore,    \* CustomScore[k][p][q]: score of provider p for policy q by such a scorer
    Faulty          \* the <<k, p, q>> for which it may return an error

MaxLinearStake == 1000000

BuiltinKinds == {"DefaultStakeScorer", "LinearStakeScorer", "DefaultLocationScorer",
                 "StrictLocationScorer", "DefaultFeatureScorer"}
Kinds == BuiltinKinds \cup CustomKinds
StakeKinds == {"DefaultStakeScorer", "LinearStakeScorer"}

AtMostOne(n) == IF n > One THEN One ELSE n

StakeScore(kind, p, q) ==
    IF Stake[p] < MinStake[q] THEN 0
    ELSE IF kind = "DefaultStakeScorer" THEN AtMostOne(Log10[Stake[p]])
    ELSE IF Stake[p] > MaxLinearStake THEN One
    ELSE (One * Stake[p]) \div MaxLinearStake

SameRegion(l, m) == {l, m} \subseteq DOMAIN Region /\ Region[l] = Region[m]

LocationScore(kind, p, q) ==
    IF kind = "StrictLocationScorer"
    THEN IF RequiredLocation[q] \in {AnyLocation, Location[p]} THEN One ELSE 0
    ELSE IF RequiredLocation[q] = AnyLocation THEN One \div 2
    ELSE IF Location[p] = RequiredLocation[q] THEN One
    ELSE IF SameRegion(Location[p], RequiredLocation[q]) THEN (7 * One) \div 10
    ELSE One \div 5

\* A provider gets a bonus for each feature it has more than required, in number.
FeatureScore(p, q) ==
    LET required == Len(RequiredFeatures[q])
        matched  == {i \in 1..required : Supports(p, RequiredFeatures[q][i])}
        extra    == Len(Features[p]) - required
        bonus    == IF extra <= 0 THEN 0 ELSE IF extra < 4 THEN (extra * One) \div 20 ELSE One \div 5
    IN  IF required = 0 THEN One \div 2
        ELSE AtMostOne((One * Cardinality(matched)) \div required + bonus)

ComponentScore(kind, p, q) ==
    IF kind \in CustomKinds THEN CustomScore[kind][p][q]
    ELSE IF kind \in StakeKinds THEN StakeScore(kind, p, q)
    ELSE IF kind = "DefaultFeatureScorer" THEN FeatureScore(p, q)
    ELSE LocationScore(kind, p, q)

\* The logarithm of a stake of zero, which passes a minimum of zero.
IsMinusInfinity(kind, p, q) ==
    kind = "DefaultStakeScorer" /\ Stake[p] = 0 /\ MinStake[q] <= 0

NaN == [num |-> 0, den |-> 0]

TotalWeight(table) == SumFunction([n \in DOMAIN table |-> table[n].weight])

\* The scorers of a table that give p minus infinity for q.
Below(table, p, q) == {n \in DOMAIN table : IsMinusInfinity(table[n].kind, p, q)}

\* What the others give it.
WeightedScore(table, p, q) ==
    [n \in DOMAIN table \ Below(table, p, q) |->
        table[n].weight * ComponentScore(table[n].kind, p, q)]

\* CalculateScore returns an error if one of its scorers does.
MayFail(table, p, q) == \E n \in DOMAIN table : <<table[n].kind, p, q>> \in Faulty

\* The score of p for q by a table of scorers, each a kind and a weight, if none
\* of them returns an error.
CalculateScore(table, p, q) ==
    LET below       == Below(table, p, q)
        totalWeight == TotalWeight(table)
        totalScore  == SumFunction(WeightedScore(table, p, q))
        sign        == IF totalWeight > 0 THEN 1 ELSE -1
    IN  IF totalWeight = 0 THEN [num |-> 0, den |-> 1]
        ELSE IF below = {} THEN [num |-> sign * totalScore, den |-> sign * totalWeight * One]
        ELSE IF \A n \in below : table[n].weight > 0 THEN [num |-> -sign, den |-> 0]
        ELSE IF \A n \in below : table[n].weight < 0 THEN [num |-> sign, den |-> 0]
        ELSE NaN

\* a > b of floating point: false if one of them is not a number.
Better(a, b) == \/ a.num * b.den > b.num * a.den
                \/ a.den = 0 /\ b.den = 0 /\ a.num > 0 /\ b.num < 0

\* Variant of Rankings with a bug: only the best is moved to the front.
RankingsBestOnly(ps, score) ==
    {s \in [1..Cardinality(ps) -> ps] :
        /\ \A i, j \in DOMAIN s : s[i] = s[j] => i = j
        /\ \A i \in DOMAIN s \ {1} : ~Better(score[s[i]], score[s[1]])}

\* What sort.Slice makes of ps, given in any order: no neighbours are the wrong
\* way round.  Not an order if some score is not a number.
Rankings(ps, score) ==
    {s \in [1..Cardinality(ps) -> ps] :
        /\ \A i, j \in DOMAIN s : s[i] = s[j] => i = j
        /\ \A i \in DOMAIN s \ {1} : ~Better(score[s[i]], score[s[i - 1]])}

\* NewDefaultCompositeScoringSystem, and the same with other weights.
WeightedScorers(stake, location, features) ==
    [stake    |-> [kind |-> "DefaultStakeScorer", weight |-> stake],
     location |-> [kind |-> "DefaultLocationScorer", weight |-> location],
     features |-> [kind |-> "DefaultFeatureScorer", weight |-> features]]

DefaultScorers == WeightedScorers(4, 3, 3)
=============================================================================
