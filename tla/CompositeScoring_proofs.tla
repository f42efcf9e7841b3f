----------------------- MODULE CompositeScoring_proofs -----------------------
(***************************************************************************)
(* Proofs about CompositeScoring, for any calls, scorers and weights.      *)
(***************************************************************************)
EXTENDS CompositeScoring, DataLemmas

\* While d.mu is held for an update no call ranks; and what a call has scored is
\* by the table as it is now.
LockInv ==
    /\ at \in [Calls -> {"new", "scoring", "done"}]
    /\ DOMAIN scores = Calls
    /\ \A c \in Calls : at[c] = "new" => DOMAIN scores[c] = {}
    /\ set \in -2..3
    /\ Updating => Ranking = {}
    /\ OneTable

LEMMA InitLock == Init => LockInv
<1>1. DOMAIN <<>> = {}
  OBVIOUS
<1> QED BY <1>1 DEF Init, LockInv, Updating, Ranking, OneTable

LEMMA LockStep == LockInv /\ [Next]_vars => LockInv'
<1> SUFFICES ASSUME LockInv, [Next]_vars PROVE LockInv'
  OBVIOUS
<1> DEFINE Score(table, p, c) == CalculateScore(table, p, PolicyOf[c])
<1>1. ASSUME NEW c \in Calls, BeginRanking(c)
      PROVE  LockInv'
  <2>1. /\ at' \in [Calls -> {"new", "scoring", "done"}]
        /\ Ranking' \subseteq Ranking \cup {c} /\ DOMAIN scores[c] = {}
    BY <1>1 DEF BeginRanking, LockInv, Ranking
  <2>2. OneTable'
    BY <1>1, <2>1 DEF BeginRanking, LockInv, OneTable, tableVars
  <2> QED BY <1>1, <2>1, <2>2 DEF BeginRanking, LockInv, Updating, updateVars
<1>2. ASSUME NEW c \in Calls, ScoreProvider(c)
      PROVE  LockInv'
  <2>1. PICK p \in Left(c) :
          scores' = [scores EXCEPT ![c] =
                       [r \in DOMAIN @ \cup {p} |->
                          IF r = p THEN CalculateScore(scorers, p, PolicyOf[c]) ELSE @[r]]]
    BY <1>2 DEF ScoreProvider
  <2>2. /\ scores'[c] = [r \in DOMAIN scores[c] \cup {p} |->
                           IF r = p THEN CalculateScore(scorers, p, PolicyOf[c])
                           ELSE scores[c][r]]
        /\ \A d \in Calls \ {c} : scores'[d] = scores[d]
        /\ DOMAIN scores' = Calls
    BY <2>1 DEF LockInv
  <2>3. Ranking' = Ranking /\ at[c] = "scoring" /\ tuned' = tuned /\ scorers' = scorers
    BY <1>2 DEF ScoreProvider, Ranking, tableVars
  <2>4. ASSUME NEW d \in Ranking \ tuned, NEW r \in DOMAIN scores'[d]
        PROVE  scores'[d][r] = CalculateScore(scorers, r, PolicyOf[d])
    <3>1. CASE d = c
      BY <2>2, <2>4, <3>1 DEF LockInv, OneTable
    <3>2. CASE d # c
      BY <2>2, <2>4, <3>2 DEF LockInv, OneTable, Ranking
    <3> QED BY <3>1, <3>2
  <2>5. OneTable'
    BY <2>3, <2>4 DEF OneTable
  <2> QED BY <1>2, <2>2, <2>3, <2>5 DEF ScoreProvider, LockInv, Updating, updateVars
<1>3. ASSUME NEW c \in Calls, SortScores(c)
      PROVE  LockInv'
  <2>1. /\ at' \in [Calls -> {"new", "scoring", "done"}] /\ Ranking' \subseteq Ranking
        /\ \A d \in Calls : at'[d] = "new" => at[d] = "new"
    BY <1>3 DEF SortScores, LockInv, Ranking
  <2> QED BY <1>3, <2>1 DEF SortScores, LockInv, OneTable, Updating, tableVars, updateVars
<1>4. ASSUME BeginUpdate \/ SetNext \/ UpdateReturns
      PROVE  LockInv'
  <2>1. Ranking = {} /\ Ranking' = Ranking
    BY <1>4 DEF BeginUpdate, SetNext, UpdateReturns, LockInv, Updating, Ranking, callVars
  <2>2. set' \in -2..3
    BY <1>4 DEF BeginUpdate, SetNext, UpdateReturns
  <2> QED BY <1>4, <2>1, <2>2
    DEF BeginUpdate, SetNext, UpdateReturns, LockInv, OneTable, callVars
<1>5. ASSUME NEW table, Tune(table)
      PROVE  LockInv'
  BY <1>5 DEF Tune, LockInv, OneTable, Updating, Ranking, callVars, updateVars
<1>6. CASE UNCHANGED vars \/ \E c \in Calls : SkipProvider(c)
  BY <1>6
    DEF vars, SkipProvider, LockInv, OneTable, Updating, Ranking, tableVars, callVars, updateVars
<1> QED BY <1>1, <1>2, <1>3, <1>4, <1>5, <1>6 DEF Next, AddScorer, RemoveScorer, SetScorerWeight

\* DefaultPairingSystem.RankProviders and UpdateScoringWeights exclude each
\* other: although the table is locked for one provider at a time, all scores of
\* a list are by the same weights, as long as nobody goes behind d's back.
THEOREM OneTableCorrect == Spec => []OneTable
<1>1. LockInv => OneTable
  BY DEF LockInv
<1> QED BY <1>1, InitLock, LockStep, PTL DEF Spec

-----------------------------------------------------------------------------
(* An update that stops half way.                                          *)

\* So far the update has found and set each scorer, and no other.
UpdateInv ==
    /\ set \in -2..3
    /\ Updating /\ "update" \notin tuned =>
         SetUpTo(set) /\ \A i \in 1..set : Order[i] \in DOMAIN before

LEMMA OrderFacts ==
  /\ DOMAIN Order = 1..3
  /\ \A i, j \in 1..3 : Order[i] = Order[j] => i = j
<1>1. Order[1] = "stake" /\ Order[2] = "location" /\ Order[3] = "features"
  BY DEF Order
<1>2. \A i \in 1..3 : i = 1 \/ i = 2 \/ i = 3
  OBVIOUS
<1> QED BY <1>1, <1>2 DEF Order

\* One more weight.
LEMMA SetOneMore ==
  ASSUME NEW k \in 0..2, SetUpTo(k), Order[k + 1] \in DOMAIN scorers,
         scorers' = Reweighted(Order[k + 1], wanted[k + 1]),
         before' = before, wanted' = wanted
  PROVE  SetUpTo(k + 1)'
<1> DEFINE Of(j, n) == CHOOSE i \in 1..j : Order[i] = n
           last == Order[k + 1]
<1>1. DOMAIN scorers = DOMAIN before /\ DOMAIN scorers' = DOMAIN before
  BY DEF SetUpTo, Reweighted
<1>2. ASSUME NEW j \in 0..3, NEW i \in 1..j
      PROVE  Of(j, Order[i]) = i
  BY OrderFacts
<1>3. ASSUME NEW n \in DOMAIN before
      PROVE  scorers'[n] = IF \E i \in 1..k + 1 : Order[i] = n
                           THEN [before[n] EXCEPT !.weight = wanted[Of(k + 1, n)]]
                           ELSE before[n]
  <2>1. scorers[n] = IF \E i \in 1..k : Order[i] = n
                     THEN [before[n] EXCEPT !.weight = wanted[Of(k, n)]]
                     ELSE before[n]
    BY DEF SetUpTo
  <2> HIDE DEF Of
  <2>2. CASE n = last
    <3>1. ~ \E i \in 1..k : Order[i] = n
      BY <2>2, OrderFacts
    <3>2. Of(k + 1, n) = k + 1
      BY <1>2, <2>2
    <3>3. scorers'[n] = [scorers[n] EXCEPT !.weight = wanted[k + 1]]
      BY <1>1, <2>2 DEF Reweighted
    <3> QED BY <2>1, <2>2, <3>1, <3>2, <3>3
  <2>3. CASE n # last /\ \E i \in 1..k : Order[i] = n
    <3>1. PICK i \in 1..k : Order[i] = n
      BY <2>3
    <3>2. Of(k, n) = i /\ Of(k + 1, n) = i /\ i \in 1..k + 1
      BY <1>2, <3>1
    <3>3. scorers'[n] = scorers[n]
      BY <1>1, <2>3 DEF Reweighted
    <3> QED BY <2>1, <3>1, <3>2, <3>3
  <2>4. CASE n # last /\ ~ \E i \in 1..k : Order[i] = n
    <3>1. ~ \E i \in 1..k + 1 : Order[i] = n
      BY <2>4
    <3>2. scorers'[n] = scorers[n]
      BY <1>1, <2>4 DEF Reweighted
    <3> QED BY <2>1, <2>4, <3>1, <3>2
  <2> QED BY <2>2, <2>3, <2>4
<1>4. scorers' = [n \in DOMAIN before |-> scorers'[n]]
  BY <1>1 DEF Reweighted, SetUpTo
<1> QED BY <1>3, <1>4 DEF SetUpTo

LEMMA InitUpdate == Init => UpdateInv
BY DEF Init, UpdateInv, Updating

\* Every table of scorers is a function.
IsTable == scorers = [n \in DOMAIN scorers |-> scorers[n]]

LEMMA TableStep == IsTable /\ [Next]_vars => IsTable'
<1> SUFFICES ASSUME IsTable, [Next]_vars PROVE IsTable'
  OBVIOUS
<1>1. CASE SetNext
  BY <1>1 DEF SetNext, IsTable, Reweighted
<1>2. CASE \E n \in Names :
             \/ \E kind \in Kinds, w \in Weights : AddScorer(n, kind, w)
             \/ RemoveScorer(n)
  BY <1>2 DEF AddScorer, RemoveScorer, Tune, IsTable
<1>3. CASE \E n \in Range(Order), w \in Weights : SetScorerWeight(n, w)
  BY <1>3 DEF SetScorerWeight, Tune, Reweighted, IsTable
<1>4. CASE scorers' = scorers
  BY <1>4 DEF IsTable
<1> QED BY <1>1, <1>2, <1>3, <1>4
  DEF Next, BeginRanking, ScoreProvider, SkipProvider, SortScores, BeginUpdate, UpdateReturns,
      tableVars, vars

LEMMA UpdateStep == IsTable /\ UpdateInv /\ [Next]_vars => UpdateInv'
<1> SUFFICES ASSUME IsTable, UpdateInv, [Next]_vars PROVE UpdateInv'
  OBVIOUS
<1>1. CASE BeginUpdate
  <2>1. /\ set' = 0 /\ before' = scorers /\ scorers' = scorers
    BY <1>1 DEF BeginUpdate, tableVars
  <2>2. 1..0 = {}
    OBVIOUS
  <2>3. SetUpTo(0)'
    BY <2>1, <2>2 DEF SetUpTo, IsTable
  <2> QED BY <2>1, <2>2, <2>3 DEF UpdateInv
<1>2. CASE SetNext
  <2>1. CASE Order[set + 1] \in DOMAIN scorers
    <3>1. /\ set \in 0..2 /\ set' = set + 1 /\ set' \in 0..3 /\ before' = before
          /\ wanted' = wanted /\ tuned' = tuned
          /\ scorers' = Reweighted(Order[set + 1], wanted[set + 1])
      BY <1>2, <2>1 DEF SetNext
    <3>2. ASSUME "update" \notin tuned
          PROVE  SetUpTo(set)' /\ \A i \in 1..set' : Order[i] \in DOMAIN before'
      <4>1. SetUpTo(set) /\ \A i \in 1..set : Order[i] \in DOMAIN before
        BY <3>1, <3>2 DEF UpdateInv, Updating
      <4>2. DOMAIN scorers = DOMAIN before
        BY <4>1 DEF SetUpTo
      <4>3. scorers' = [n \in DOMAIN before |->
                IF \E i \in 1..set' : Order[i] = n
                THEN [before[n] EXCEPT !.weight = wanted[CHOOSE i \in 1..set' : Order[i] = n]]
                ELSE before[n]]
        <5>1. PICK k \in 0..2 : k = set
          BY <3>1
        <5>2. SetUpTo(k) /\ Order[k + 1] \in DOMAIN scorers
              /\ scorers' = Reweighted(Order[k + 1], wanted[k + 1])
          BY <2>1, <3>1, <4>1, <5>1
        <5>3. scorers' = [n \in DOMAIN before |->
                IF \E i \in 1..k + 1 : Order[i] = n
                THEN [before[n] EXCEPT !.weight = wanted[CHOOSE i \in 1..k + 1 : Order[i] = n]]
                ELSE before[n]]
          BY <3>1, <5>2, SetOneMore DEF SetUpTo
        <5>4. k + 1 = set'
          BY <3>1, <5>1
        <5> QED BY <5>3, <5>4
      <4>4. \A i \in 1..set + 1 : i \in 1..set \/ i = set + 1
        BY <3>1
      <4> QED BY <2>1, <3>1, <4>1, <4>2, <4>3, <4>4 DEF SetUpTo
    <3> QED BY <3>1, <3>2 DEF UpdateInv
  <2>2. CASE Order[set + 1] \notin DOMAIN scorers
    BY <1>2, <2>2 DEF SetNext, UpdateInv, Updating
  <2> QED BY <2>1, <2>2
<1>3. CASE UpdateReturns
  BY <1>3 DEF UpdateReturns, UpdateInv, Updating
<1>4. ASSUME NEW table, Tune(table)
      PROVE  UpdateInv'
  BY <1>4 DEF Tune, UpdateInv, Updating, updateVars
<1>5. CASE UNCHANGED <<tableVars, updateVars, tuned>>
  BY <1>5 DEF UpdateInv, Updating, SetUpTo, tableVars, updateVars
<1> QED BY <1>1, <1>2, <1>3, <1>4, <1>5
  DEF Next, BeginRanking, ScoreProvider, SkipProvider, SortScores, AddScorer, RemoveScorer,
      SetScorerWeight, vars

\* UpdateScoringWeights does not undo what it has done when it finds a scorer
\* missing: it has set the weights in front of it, and no other; it succeeds if
\* and only if it has set all three.
THEOREM HalfUpdateCorrect == Spec => HalfUpdate
<1>1. ASSUME IsTable, UpdateInv, [Next]_vars, Updating, ~Updating', "update" \notin tuned
      PROVE  IF \A i \in 1..3 : Order[i] \in DOMAIN before
             THEN set' = -1 /\ SetUpTo(3)
             ELSE set' = -2 /\ SetUpTo((CHOOSE i \in 1..3 :
                     /\ Order[i] \notin DOMAIN before
                     /\ \A j \in 1..i - 1 : Order[j] \in DOMAIN before) - 1)
  <2>1. SetUpTo(set) /\ \A i \in 1..set : Order[i] \in DOMAIN before
    BY <1>1 DEF UpdateInv
  <2>2. CASE UpdateReturns
    BY <2>1, <2>2 DEF UpdateReturns
  <2>3. CASE SetNext
    <3>1. set \in 0..2 /\ set' = -2 /\ Order[set + 1] \notin DOMAIN scorers
      BY <1>1, <2>3 DEF SetNext, Updating
    <3>2. DOMAIN scorers = DOMAIN before
      BY <2>1 DEF SetUpTo
    <3>3. set + 1 = CHOOSE i \in 1..3 : /\ Order[i] \notin DOMAIN before
                                        /\ \A j \in 1..i - 1 : Order[j] \in DOMAIN before
      <4>1. ASSUME NEW i \in 1..3, Order[i] \notin DOMAIN before,
                   \A j \in 1..i - 1 : Order[j] \in DOMAIN before
            PROVE  i = set + 1
        <5>1. ~(i <= set)
          BY <2>1, <3>1, <4>1
        <5>2. ~(i > set + 1)
          <6>1. i > set + 1 => set + 1 \in 1..i - 1
            BY <3>1
          <6> QED BY <3>1, <3>2, <4>1, <6>1
        <5> QED BY <3>1, <5>1, <5>2
      <4>2. /\ set + 1 \in 1..3 /\ Order[set + 1] \notin DOMAIN before
            /\ \A j \in 1..(set + 1) - 1 : Order[j] \in DOMAIN before
        BY <2>1, <3>1, <3>2
      <4> QED BY <4>1, <4>2
    <3>4. ~ \A i \in 1..3 : Order[i] \in DOMAIN before
      BY <3>1, <3>2
    <3>5. (set + 1) - 1 = set
      BY <3>1
    <3> QED BY <2>1, <3>1, <3>3, <3>4, <3>5
  <2>4. UpdateReturns \/ SetNext
    <3>1. ASSUME NEW table, Tune(table)
          PROVE  FALSE
      BY <1>1, <3>1 DEF Tune, Updating, updateVars
    <3> QED BY <1>1, <3>1
      DEF Next, BeginRanking, ScoreProvider, SkipProvider, SortScores, BeginUpdate, AddScorer,
          RemoveScorer, SetScorerWeight, Updating, updateVars, vars
  <2> QED BY <2>2, <2>3, <2>4
<1>2. Init => IsTable
  BY DEF Init, IsTable, DefaultScorers, WeightedScorers
<1>3. IsTable /\ UpdateInv /\ [Next]_vars =>
        [Updating /\ ~Updating' /\ "update" \notin tuned =>
         IF \A i \in 1..3 : Order[i] \in DOMAIN before
         THEN set' = -1 /\ SetUpTo(3)
         ELSE set' = -2 /\ SetUpTo((CHOOSE i \in 1..3 :
                 /\ Order[i] \notin DOMAIN before
                 /\ \A j \in 1..i - 1 : Order[j] \in DOMAIN before) - 1)]_vars
  BY <1>1
<1> QED BY <1>2, <1>3, InitUpdate, TableStep, UpdateStep, PTL DEF Spec, HalfUpdate

-----------------------------------------------------------------------------
(* Scores.                                                                 *)

\* A table of scorers, whatever their names and weights.
IsScorerTable(table) ==
    /\ IsFiniteSet(DOMAIN table)
    /\ \A n \in DOMAIN table : table[n].kind \in Kinds /\ table[n].weight \in Int

\* The score of one component is a number, unless it is minus infinity.
LEMMA ComponentType ==
    ASSUME NEW kind \in Kinds, NEW p \in Providers, NEW q \in Policies,
           ~IsMinusInfinity(kind, p, q)
    PROVE  ComponentScore(kind, p, q) \in Int
<1> One \in Nat \ {0}
  BY CompositeAssumption
<1> SUFFICES ASSUME kind \notin CustomKinds PROVE ComponentScore(kind, p, q) \in Int
  BY CompositeAssumption DEF ComponentScore
<1>1. CASE kind \in StakeKinds
  <2>1. Stake[p] \in Nat /\ MinStake[q] \in Int
    BY ModelsAssumption
  <2>2. CASE Stake[p] < MinStake[q]
    BY <1>1, <2>2 DEF ComponentScore, StakeScore
  <2>3. CASE kind = "DefaultStakeScorer" /\ ~(Stake[p] < MinStake[q])
    <3>1. Stake[p] # 0
      BY <2>1, <2>3 DEF IsMinusInfinity
    <3>2. Log10[Stake[p]] \in Nat
      BY <3>1, CompositeAssumption
    <3> QED BY <1>1, <2>3, <3>2 DEF ComponentScore, StakeScore, AtMostOne
  <2>4. CASE kind # "DefaultStakeScorer" /\ ~(Stake[p] < MinStake[q])
    <3>1. One * Stake[p] \in Int
      BY <2>1
    <3>2. (One * Stake[p]) \div MaxLinearStake \in Int
      BY <3>1 DEF MaxLinearStake
    <3> QED BY <1>1, <2>4, <3>2 DEF ComponentScore, StakeScore
  <2> QED BY <2>2, <2>3, <2>4
<1>2. CASE kind = "DefaultFeatureScorer"
  <2> DEFINE required == Len(RequiredFeatures[q])
             matched  == {i \in 1..required : Supports(p, RequiredFeatures[q][i])}
             extra    == Len(Features[p]) - required
             bonus    == IF extra <= 0 THEN 0
                         ELSE IF extra < 4 THEN (extra * One) \div 20 ELSE One \div 5
  <2>1. required \in Nat /\ Len(Features[p]) \in Nat
    BY ModelsAssumption
  <2>2. Cardinality(matched) \in Nat
    <3>1. IsFiniteSet(1..required)
      BY <2>1, FS_Interval
    <3> QED BY <3>1, FS_Subset, FS_CardinalityType
  <2>3. bonus \in Int
    <3>1. extra \in Int
      BY <2>1
    <3> HIDE DEF extra
    <3>2. extra * One \in Int
      BY <3>1
    <3> QED BY <3>1, <3>2
  <2>4. required # 0 => (One * Cardinality(matched)) \div required \in Int
    <3> HIDE DEF required, matched
    <3>1. One * Cardinality(matched) \in Int
      BY <2>2
    <3> QED BY <2>1, <3>1
  <2>5. FeatureScore(p, q) = IF required = 0 THEN One \div 2
                             ELSE AtMostOne((One * Cardinality(matched)) \div required + bonus)
    BY DEF FeatureScore
  <2> HIDE DEF required, matched, bonus
  <2>6. FeatureScore(p, q) \in Int
    BY <2>3, <2>4, <2>5 DEF AtMostOne
  <2> QED BY <1>2, <2>6 DEF ComponentScore, StakeKinds
<1>3. CASE kind \notin StakeKinds /\ kind # "DefaultFeatureScorer"
  <2>1. LocationScore(kind, p, q) \in Int
    BY DEF LocationScore
  <2> QED BY <1>3, <2>1 DEF ComponentScore
<1> QED BY <1>1, <1>2, <1>3

LEMMA TotalWeightType ==
    ASSUME NEW table, IsScorerTable(table)
    PROVE  TotalWeight(table) \in Int
<1> DEFINE f == [n \in DOMAIN table |-> table[n].weight]
<1>1. DOMAIN f = DOMAIN table /\ \A n \in DOMAIN table : f[n] \in Int
  BY DEF IsScorerTable
<1>2. TotalWeight(table) = SumFunction(f)
  BY DEF TotalWeight
<1> HIDE DEF f
<1>3. SumFunction(f) = SumFunctionOnSet(f, DOMAIN table)
  BY <1>1, SumWhole
<1>4. SumFunctionOnSet(f, DOMAIN table) \in Int
  BY <1>1, SumType DEF IsScorerTable
<1> QED BY <1>2, <1>3, <1>4

\* What the scorers give that do not give minus infinity.
LEMMA WeightedType ==
    ASSUME NEW table, IsScorerTable(table), NEW p \in Providers, NEW q \in Policies
    PROVE  /\ IsFiniteSet(DOMAIN WeightedScore(table, p, q))
           /\ \A n \in DOMAIN WeightedScore(table, p, q) : WeightedScore(table, p, q)[n] \in Int
           /\ SumFunction(WeightedScore(table, p, q)) \in Int
<1> DEFINE f == WeightedScore(table, p, q)
<1>1. IsFiniteSet(DOMAIN f)
  BY FS_Subset DEF WeightedScore, IsScorerTable
<1>2. ASSUME NEW n \in DOMAIN f
      PROVE  f[n] \in Int
  <2>1. n \in DOMAIN table /\ ~IsMinusInfinity(table[n].kind, p, q)
    BY <1>2 DEF WeightedScore, Below
  <2>2. ComponentScore(table[n].kind, p, q) \in Int /\ table[n].weight \in Int
    BY <2>1, ComponentType DEF IsScorerTable
  <2>3. f[n] = table[n].weight * ComponentScore(table[n].kind, p, q)
    BY <1>2 DEF WeightedScore
  <2> QED BY <2>2, <2>3
<1> HIDE DEF f
<1>3. SumFunction(f) = SumFunctionOnSet(f, DOMAIN f)
  BY SumWhole
<1>4. SumFunctionOnSet(f, DOMAIN f) \in Int
  BY <1>1, <1>2, SumType
<1> QED BY <1>1, <1>2, <1>3, <1>4 DEF f

Sign(table) == IF TotalWeight(table) > 0 THEN 1 ELSE -1

\* The denominator of every score by the table that is a number.
Denominator(table) ==
    IF TotalWeight(table) = 0 THEN 1 ELSE Sign(table) * TotalWeight(table) * One

LEMMA DenominatorType ==
    ASSUME NEW table, IsScorerTable(table)
    PROVE  Denominator(table) \in Nat \ {0} /\ Sign(table) \in {-1, 1}
<1> DEFINE w == TotalWeight(table)
           a == Sign(table) * w
<1>1. w \in Int /\ One \in Nat \ {0}
  BY TotalWeightType, CompositeAssumption
<1>2. w # 0 => a \in Nat \ {0}
  BY <1>1 DEF Sign
<1> HIDE DEF a
<1>3. a \in Nat \ {0} => a * One \in Nat \ {0}
  BY <1>1
<1> QED BY <1>1, <1>2, <1>3 DEF Denominator, Sign, a

\* The score that the table gives to p is a number, an infinity or not a number.
LEMMA ScoreCases ==
    ASSUME NEW table, IsScorerTable(table), NEW p \in Providers, NEW q \in Policies
    PROVE  LET x == CalculateScore(table, p, q) IN
           /\ x \in Scores
           /\ \/ x.den = Denominator(table)
              \/ x.den = 0 /\ Below(table, p, q) # {}
           /\ (\A n \in Below(table, p, q) : table[n].weight > 0) =>
                \/ x.den = Denominator(table)
                \/ x.den = 0 /\ x.num = -Sign(table)
<1> DEFINE x == CalculateScore(table, p, q)
           below == Below(table, p, q)
           w == TotalWeight(table)
           t == SumFunction(WeightedScore(table, p, q))
<1>1. w \in Int /\ t \in Int /\ Denominator(table) \in Nat \ {0} /\ Sign(table) \in {-1, 1}
  BY TotalWeightType, WeightedType, DenominatorType
<1>2. x = IF w = 0 THEN [num |-> 0, den |-> 1]
          ELSE IF below = {} THEN [num |-> Sign(table) * t, den |-> Sign(table) * w * One]
          ELSE IF \A n \in below : table[n].weight > 0 THEN [num |-> -Sign(table), den |-> 0]
          ELSE IF \A n \in below : table[n].weight < 0 THEN [num |-> Sign(table), den |-> 0]
          ELSE NaN
  BY DEF CalculateScore, Sign
<1> HIDE DEF x, below, w, t
<1>3. CASE w = 0
  <2>1. x = [num |-> 0, den |-> 1] /\ Denominator(table) = 1
    BY <1>2, <1>3 DEF Denominator, w
  <2> QED BY <2>1 DEF Scores, x
<1>4. CASE w # 0 /\ below = {}
  <2>1. x = [num |-> Sign(table) * t, den |-> Denominator(table)]
    BY <1>2, <1>4 DEF Denominator, w
  <2>2. Sign(table) * t \in Int
    BY <1>1
  <2> QED BY <1>1, <2>1, <2>2 DEF Scores, x
<1>5. CASE w # 0 /\ below # {}
  <2>1. x \in Scores /\ x.den = 0
    BY <1>1, <1>2, <1>5 DEF Scores, NaN
  <2>2. (\A n \in below : table[n].weight > 0) => x.num = -Sign(table)
    BY <1>2, <1>5
  <2> QED BY <1>5, <2>1, <2>2 DEF x, below
<1> QED BY <1>3, <1>4, <1>5
-----------------------------------------------------------------------------
(* Types.                                                                  *)

TableType ==
    /\ IsFiniteSet(DOMAIN scorers) /\ DOMAIN scorers \subseteq Names
    /\ \A n \in DOMAIN scorers : scorers[n] \in Scorers

\* A call that is done has a ranking of its list, but for what it has skipped.
Ranked(c) == at[c] = "done" /\ ValidatePolicy(PolicyOf[c]) =>
               /\ Range(ranking[c]) = Listed[c] \ skipped[c]
               /\ Len(ranking[c]) = Cardinality(Listed[c] \ skipped[c])

CallType ==
    /\ at \in [Calls -> {"new", "scoring", "done"}]
    /\ DOMAIN scores = Calls /\ DOMAIN skipped = Calls /\ DOMAIN ranking = Calls
    /\ \A c \in Calls : /\ DOMAIN scores[c] \subseteq Listed[c]
                        /\ skipped[c] \subseteq Listed[c] \ DOMAIN scores[c]
                        /\ \A p \in DOMAIN scores[c] : scores[c][p] \in Scores
                        /\ at[c] = "scoring" => ValidatePolicy(PolicyOf[c])
                        /\ Ranked(c)

UpdateType ==
    /\ DOMAIN before \subseteq Names
    /\ set \in -2..3 /\ wanted \in {<<>>} \cup [1..3 -> Weights]
    /\ Updating => wanted \in [1..3 -> Weights]
    /\ updates \in 0..MaxUpdates /\ tunings \in 0..MaxTunings
    /\ tuned \subseteq Calls \cup {"update"}

TypeInv == TableType /\ CallType /\ UpdateType

LEMMA TypeInvImplies == TypeInv => TypeOK /\ IsScorerTable(scorers)
<1> SUFFICES ASSUME TypeInv PROVE TypeOK /\ IsScorerTable(scorers)
  OBVIOUS
<1>1. IsScorerTable(scorers)
  <2>1. Weights \cup {3, 4} \subseteq Int
    BY CompositeAssumption
  <2>2. ASSUME NEW n \in DOMAIN scorers
        PROVE  scorers[n].kind \in Kinds /\ scorers[n].weight \in Weights \cup {3, 4}
    <3>1. scorers[n] \in Scorers
      BY DEF TypeInv, TableType
    <3> QED BY <3>1 DEF Scorers
  <2> QED BY <2>1, <2>2 DEF TypeInv, TableType, IsScorerTable
<1>2. TypeOK
  BY DEF TypeInv, TableType, CallType, UpdateType, Ranked, TypeOK
<1> QED BY <1>1, <1>2

LEMMA InitType == Init => TypeInv
<1> SUFFICES ASSUME Init PROVE TypeInv
  OBVIOUS
<1>1. /\ DOMAIN scorers = {"stake", "location", "features"}
      /\ \A n \in DOMAIN scorers : scorers[n] \in Scorers
  BY DEF Init, DefaultScorers, WeightedScorers, Scorers, Kinds, BuiltinKinds
<1>2. TableType
  <2>1. IsFiniteSet({"stake", "location", "features"})
    <3>1. IsFiniteSet({"stake"} \cup {"location"})
      BY FS_Singleton, FS_AddElement
    <3>2. IsFiniteSet(({"stake"} \cup {"location"}) \cup {"features"})
      BY <3>1, FS_AddElement
    <3>3. {"stake", "location", "features"} = ({"stake"} \cup {"location"}) \cup {"features"}
      OBVIOUS
    <3> QED BY <3>2, <3>3
  <2> QED BY <1>1, <2>1, CompositeAssumption DEF TableType
<1>3. CallType
  <2>1. DOMAIN <<>> = {}
    OBVIOUS
  <2> QED BY <2>1 DEF Init, CallType, Ranked
<1>4. UpdateType
  BY <1>1, CompositeAssumption DEF Init, UpdateType, Updating
<1> QED BY <1>2, <1>3, <1>4 DEF TypeInv

\* One weight in the table changes.
LEMMA ReweightedType ==
    ASSUME TableType, NEW n \in DOMAIN scorers, NEW w \in Weights, scorers' = Reweighted(n, w)
    PROVE  TableType'
<1>1. DOMAIN scorers' = DOMAIN scorers
  BY DEF Reweighted
<1>2. ASSUME NEW m \in DOMAIN scorers
      PROVE  scorers'[m] \in Scorers
  <2>1. scorers'[m] = IF m = n THEN [scorers[n] EXCEPT !.weight = w] ELSE scorers[m]
    BY DEF Reweighted
  <2>2. scorers[m] \in Scorers /\ scorers[n] \in Scorers
    BY DEF TableType
  <2> QED BY <2>1, <2>2 DEF Scorers
<1> QED BY <1>1, <1>2 DEF TableType

\* What a client may do to the table.
LEMMA TuneType ==
    ASSUME TableType, NEW n \in Names,
           \/ \E kind \in Kinds, w \in Weights : AddScorer(n, kind, w)
           \/ RemoveScorer(n)
           \/ \E w \in Weights : SetScorerWeight(n, w)
    PROVE  TableType'
<1>1. ASSUME NEW kind \in Kinds, NEW w \in Weights, AddScorer(n, kind, w)
      PROVE  TableType'
  <2>1. scorers' = [m \in DOMAIN scorers \cup {n} |->
                      IF m = n THEN [kind |-> kind, weight |-> w] ELSE scorers[m]]
    BY <1>1 DEF AddScorer, Tune
  <2>2. [kind |-> kind, weight |-> w] \in Scorers
    BY DEF Scorers
  <2>3. IsFiniteSet(DOMAIN scorers \cup {n})
    BY FS_AddElement DEF TableType
  <2> QED BY <2>1, <2>2, <2>3 DEF TableType
<1>2. CASE RemoveScorer(n)
  <2>1. scorers' = [m \in DOMAIN scorers \ {n} |-> scorers[m]]
    BY <1>2 DEF RemoveScorer, Tune
  <2>2. IsFiniteSet(DOMAIN scorers \ {n})
    BY FS_RemoveElement DEF TableType
  <2> QED BY <2>1, <2>2 DEF TableType
<1>3. ASSUME NEW w \in Weights, SetScorerWeight(n, w)
      PROVE  TableType'
  <2>1. n \in DOMAIN scorers /\ scorers' = Reweighted(n, w)
    BY <1>3 DEF SetScorerWeight, Tune
  <2> QED BY <2>1, ReweightedType
<1> QED BY <1>1, <1>2, <1>3

LEMMA TableTypeStep == TypeInv /\ [Next]_vars => TableType'
<1> SUFFICES ASSUME TypeInv, [Next]_vars PROVE TableType'
  OBVIOUS
<1> TableType
  BY DEF TypeInv
<1>1. CASE SetNext /\ scorers' # scorers
  <2>1. /\ set \in 0..2 /\ Order[set + 1] \in DOMAIN scorers
        /\ scorers' = Reweighted(Order[set + 1], wanted[set + 1])
    BY <1>1 DEF SetNext
  <2>2. wanted[set + 1] \in Weights
    BY <2>1 DEF TypeInv, UpdateType, Updating
  <2> QED BY <2>1, <2>2, ReweightedType
<1>2. CASE \E n \in Names :
             \/ \E kind \in Kinds, w \in Weights : AddScorer(n, kind, w)
             \/ RemoveScorer(n)
  BY <1>2, TuneType
<1>3. CASE \E n \in Range(Order), w \in Weights : SetScorerWeight(n, w)
  BY <1>3, TuneType DEF SetScorerWeight, TableType
<1>4. CASE scorers' = scorers
  BY <1>4 DEF TableType
<1> QED BY <1>1, <1>2, <1>3, <1>4
  DEF Next, BeginRanking, ScoreProvider, SkipProvider, SortScores, BeginUpdate, UpdateReturns,
      tableVars, vars

LEMMA CallTypeStep == TypeInv /\ [Next]_vars => CallType'
<1> SUFFICES ASSUME TypeInv, [Next]_vars PROVE CallType'
  OBVIOUS
<1> CallType
  BY DEF TypeInv
<1>1. ASSUME NEW c \in Calls, BeginRanking(c)
      PROVE  CallType'
  <2>1. /\ at' = [at EXCEPT ![c] = IF ValidatePolicy(PolicyOf[c]) THEN "scoring" ELSE "done"]
        /\ scores' = scores /\ skipped' = skipped /\ ranking' = ranking
    BY <1>1 DEF BeginRanking
  <2>2. /\ at'[c] = IF ValidatePolicy(PolicyOf[c]) THEN "scoring" ELSE "done"
        /\ \A d \in Calls \ {c} : at'[d] = at[d]
        /\ at' \in [Calls -> {"new", "scoring", "done"}]
    BY <2>1 DEF CallType
  <2>3. Ranked(c)'
    <3>1. at'[c] = "done" => ~ValidatePolicy(PolicyOf[c])
      BY <2>2
    <3> QED BY <3>1 DEF Ranked
  <2> QED BY <2>1, <2>2, <2>3 DEF CallType, Ranked
<1>2. ASSUME NEW c \in Calls, ScoreProvider(c)
      PROVE  CallType'
  <2>1. PICK p \in Left(c) :
          scores' = [scores EXCEPT ![c] =
                       [r \in DOMAIN @ \cup {p} |->
                          IF r = p THEN CalculateScore(scorers, p, PolicyOf[c]) ELSE @[r]]]
    BY <1>2 DEF ScoreProvider
  <2>2. CalculateScore(scorers, p, PolicyOf[c]) \in Scores
    <3>1. p \in Providers /\ PolicyOf[c] \in Policies
      BY CompositeAssumption DEF Left
    <3> QED BY <3>1, ScoreCases, TypeInvImplies
  <2>3. /\ scores'[c] = [r \in DOMAIN scores[c] \cup {p} |->
                           IF r = p THEN CalculateScore(scorers, p, PolicyOf[c])
                           ELSE scores[c][r]]
        /\ \A d \in Calls \ {c} : scores'[d] = scores[d]
        /\ DOMAIN scores' = Calls
    BY <2>1 DEF CallType
  <2>4. /\ DOMAIN scores'[c] \subseteq Listed[c]
        /\ skipped[c] \subseteq Listed[c] \ DOMAIN scores'[c]
        /\ \A r \in DOMAIN scores'[c] : scores'[c][r] \in Scores
    BY <2>2, <2>3 DEF CallType, Left
  <2>5. at' = at /\ skipped' = skipped /\ ranking' = ranking
    BY <1>2 DEF ScoreProvider
  <2> QED BY <2>3, <2>4, <2>5 DEF CallType, Ranked
<1>3. ASSUME NEW c \in Calls, SortScores(c)
      PROVE  CallType'
  <2> DEFINE ps == DOMAIN scores[c]
  <2>1. PICK s \in Rankings(ps, scores[c]) : ranking' = [ranking EXCEPT ![c] = s]
    BY <1>3 DEF SortScores
  <2>2. Range(s) = Listed[c] \ skipped[c] /\ Len(s) = Cardinality(Listed[c] \ skipped[c])
    <3>1. IsFiniteSet(ps)
      BY FS_Subset, ModelsAssumption, CompositeAssumption DEF CallType
    <3>2. /\ s \in [1..Cardinality(ps) -> ps]
          /\ \A i, j \in DOMAIN s : s[i] = s[j] => i = j
      BY <2>1 DEF Rankings
    <3>3. Cardinality(ps) \in Nat
      BY <3>1, FS_CardinalityType
    <3>4. ps = Listed[c] \ skipped[c]
      BY <1>3 DEF SortScores, Left, CallType
    <3> HIDE DEF ps
    <3>5. Range(s) = ps /\ Len(s) = Cardinality(ps)
      BY <3>1, <3>2, <3>3, ListsAll
    <3> QED BY <3>4, <3>5
  <2>3. /\ ranking'[c] = s /\ \A d \in Calls \ {c} : ranking'[d] = ranking[d]
        /\ DOMAIN ranking' = Calls
    BY <2>1 DEF CallType
  <2>4. at' = [at EXCEPT ![c] = "done"] /\ scores' = scores /\ skipped' = skipped
    BY <1>3 DEF SortScores
  <2>5. /\ at'[c] = "done" /\ \A d \in Calls \ {c} : at'[d] = at[d]
        /\ at' \in [Calls -> {"new", "scoring", "done"}]
    BY <2>4 DEF CallType
  <2> QED BY <2>2, <2>3, <2>4, <2>5 DEF CallType, Ranked
<1>4. ASSUME NEW c \in Calls, SkipProvider(c)
      PROVE  CallType'
  <2>1. PICK p \in Left(c) : skipped' = [skipped EXCEPT ![c] = @ \cup {p}]
    BY <1>4 DEF SkipProvider
  <2>2. /\ skipped'[c] = skipped[c] \cup {p} /\ \A d \in Calls \ {c} : skipped'[d] = skipped[d]
        /\ DOMAIN skipped' = Calls
    BY <2>1 DEF CallType
  <2>3. at[c] = "scoring" /\ UNCHANGED <<at, scores, ranking>>
    BY <1>4 DEF SkipProvider
  <2> QED BY <2>2, <2>3 DEF CallType, Ranked, Left
<1>5. CASE UNCHANGED callVars
  BY <1>5 DEF callVars, CallType, Ranked
<1> QED BY <1>1, <1>2, <1>3, <1>4, <1>5
  DEF Next, BeginUpdate, SetNext, UpdateReturns, AddScorer, RemoveScorer, SetScorerWeight, Tune, vars

LEMMA UpdateTypeStep == TypeInv /\ [Next]_vars => UpdateType'
<1> SUFFICES ASSUME TypeInv, [Next]_vars PROVE UpdateType'
  OBVIOUS
<1> UpdateType /\ DOMAIN scorers \subseteq Names
  BY DEF TypeInv, TableType
<1>1. CASE BeginUpdate
  <2>1. /\ wanted' \in [1..3 -> Weights] /\ set' = 0 /\ updates' = updates + 1
        /\ updates < MaxUpdates /\ before' = scorers /\ tuned' = tuned \ {"update"}
        /\ tunings' = tunings
    BY <1>1 DEF BeginUpdate, tableVars
  <2> QED BY <2>1, CompositeAssumption DEF UpdateType
<1>2. CASE SetNext \/ UpdateReturns
  <2>1. /\ UNCHANGED <<tunings, wanted, updates, before, tuned>>
        /\ set' \in -2..3 /\ (Updating' => Updating)
    BY <1>2 DEF SetNext, UpdateReturns, Updating, tableVars
  <2> QED BY <2>1 DEF UpdateType
<1>3. ASSUME NEW table, Tune(table)
      PROVE  UpdateType'
  <2>1. /\ tunings < MaxTunings /\ tunings' = tunings + 1
        /\ tuned' \subseteq tuned \cup Calls \cup {"update"}
        /\ UNCHANGED updateVars
    BY <1>3 DEF Tune, Ranking
  <2> QED BY <2>1, CompositeAssumption DEF UpdateType, Updating, updateVars
<1>4. CASE UNCHANGED <<tunings, updateVars, tuned>>
  BY <1>4 DEF UpdateType, Updating, updateVars
<1> QED BY <1>1, <1>2, <1>3, <1>4
  DEF Next, BeginRanking, ScoreProvider, SkipProvider, SortScores, AddScorer, RemoveScorer,
      SetScorerWeight, tableVars, vars

LEMMA TypeStep == TypeInv /\ [Next]_vars => TypeInv'
BY TableTypeStep, CallTypeStep, UpdateTypeStep DEF TypeInv

\* Every variable keeps its type, whatever scorers a client adds, removes or
\* weighs with what, its own and failing ones included: each score is a number,
\* an infinity or not a number; and a call that is done has ranked each provider
\* of its list once, but for those it has skipped because a scorer failed.
THEOREM TypeCorrect == Spec => []TypeOK
<1> QED BY InitType, TypeStep, TypeInvImplies, PTL DEF Spec
-----------------------------------------------------------------------------
(* Order.                                                                  *)

LEMMA Scaled ==
    ASSUME NEW a \in Int, NEW b \in Int, NEW d \in Nat \ {0}
    PROVE  a * d > b * d <=> a > b
OBVIOUS

\* A number in parts of d, or the infinity against g.
IsScore(x, d, g) == x.num \in Int /\ (x.den = d \/ (x.den = 0 /\ x.num = -g))

\* Where every score is a number in the same parts or the same infinity, a score
\* that is not better than another one is at most as good.
LEMMA NotBetter ==
    ASSUME NEW d \in Nat \ {0}, NEW g \in {-1, 1}, NEW a, NEW b,
           IsScore(a, d, g), IsScore(b, d, g)
    PROVE  /\ a.den = d /\ b.den = d => (Better(a, b) <=> a.num > b.num)
           /\ a.den = 0 /\ b.den = d => (Better(a, b) <=> g = -1)
           /\ a.den = d /\ b.den = 0 => (Better(a, b) <=> g = 1)
           /\ a.den = 0 /\ b.den = 0 => ~Better(a, b)
<1>1. CASE a.den = d /\ b.den = d
  BY <1>1, Scaled DEF IsScore, Better
<1>2. CASE a.den = 0 /\ b.den = d
  <2>1. a.num = -g /\ b.num * 0 = 0
    BY <1>2 DEF IsScore
  <2>2. a.num * d = IF g = -1 THEN d ELSE -d
    BY <2>1
  <2> QED BY <1>2, <2>1, <2>2 DEF Better
<1>3. CASE a.den = d /\ b.den = 0
  <2>1. b.num = -g /\ a.num * 0 = 0
    BY <1>3 DEF IsScore
  <2>2. b.num * d = IF g = -1 THEN d ELSE -d
    BY <2>1
  <2> QED BY <1>3, <2>1, <2>2 DEF Better
<1>4. CASE a.den = 0 /\ b.den = 0
  BY <1>4 DEF IsScore, Better
<1> QED BY <1>1, <1>2, <1>3, <1>4 DEF IsScore

LEMMA NotBetterTransitive ==
    ASSUME NEW d \in Nat \ {0}, NEW g \in {-1, 1}, NEW a, NEW b, NEW c,
           IsScore(a, d, g), IsScore(b, d, g), IsScore(c, d, g),
           ~Better(b, a), ~Better(c, b)
    PROVE  ~Better(c, a)
<1>1. /\ b.den = d /\ a.den = d => b.num <= a.num
      /\ b.den = 0 /\ a.den = d => g = 1
      /\ b.den = d /\ a.den = 0 => g = -1
  BY NotBetter DEF IsScore
<1>2. /\ c.den = d /\ b.den = d => c.num <= b.num
      /\ c.den = 0 /\ b.den = d => g = 1
      /\ c.den = d /\ b.den = 0 => g = -1
  BY NotBetter DEF IsScore
<1>3. /\ c.den = d /\ a.den = d => (Better(c, a) <=> c.num > a.num)
      /\ c.den = 0 /\ a.den = d => (Better(c, a) <=> g = -1)
      /\ c.den = d /\ a.den = 0 => (Better(c, a) <=> g = 1)
      /\ c.den = 0 /\ a.den = 0 => ~Better(c, a)
  BY NotBetter
<1> QED BY <1>1, <1>2, <1>3 DEF IsScore

\* No stake of zero among ps meets a stake scorer without a positive weight.
NumbersOnly(table, ps, q) ==
    \A n \in DOMAIN table, p \in ps :
        IsMinusInfinity(table[n].kind, p, q) => table[n].weight > 0

\* A list in which no neighbours are the wrong way round has the best first.
LEMMA RankingSorted ==
    ASSUME NEW table, IsScorerTable(table), NEW ps \in SUBSET Providers, NEW q \in Policies,
           NumbersOnly(table, ps, q),
           NEW score, \A p \in ps : score[p] = CalculateScore(table, p, q),
           NEW s \in Rankings(ps, score)
    PROVE  \A i, j \in DOMAIN s : i < j => ~Better(score[s[j]], score[s[i]])
<1> DEFINE n == Cardinality(ps)
           d == Denominator(table)
           g == Sign(table)
           R == {e \in (1..n) \X (1..n) : ~Better(score[s[e[2]]], score[s[e[1]]])}
<1>1. n \in Nat
  BY FS_Subset, FS_CardinalityType, ModelsAssumption
<1>2. /\ s \in [1..n -> ps]
      /\ \A i \in DOMAIN s \ {1} : ~Better(score[s[i]], score[s[i - 1]])
  BY DEF Rankings
<1>3. d \in Nat \ {0} /\ g \in {-1, 1}
  BY DenominatorType
<1>4. ASSUME NEW p \in ps
      PROVE  IsScore(score[p], d, g)
  <2>1. \A m \in Below(table, p, q) : table[m].weight > 0
    BY DEF NumbersOnly, Below
  <2>2. score[p] = CalculateScore(table, p, q) /\ p \in Providers
    OBVIOUS
  <2>3. /\ score[p] \in Scores
        /\ score[p].den = d \/ (score[p].den = 0 /\ score[p].num = -g)
    BY <2>1, <2>2, ScoreCases
  <2> QED BY <2>3 DEF IsScore, Scores
<1> HIDE DEF n, d, g
<1>5. \A i, j \in 1..n : <<i, j>> \in R <=> ~Better(score[s[j]], score[s[i]])
  OBVIOUS
<1> HIDE DEF R
<1>6. ASSUME NEW i \in 2..n
      PROVE  <<i - 1, i>> \in R
  <2>1. i \in DOMAIN s \ {1} /\ i \in 1..n /\ i - 1 \in 1..n
    BY <1>1, <1>2
  <2> QED BY <1>2, <1>5, <2>1
<1>7. ASSUME NEW i \in 1..n, NEW j \in 1..n, NEW k \in 1..n, <<i, j>> \in R, <<j, k>> \in R
      PROVE  <<i, k>> \in R
  <2>1. s[i] \in ps /\ s[j] \in ps /\ s[k] \in ps
    BY <1>2
  <2>2. ~Better(score[s[j]], score[s[i]]) /\ ~Better(score[s[k]], score[s[j]])
    BY <1>5, <1>7
  <2>3. ~Better(score[s[k]], score[s[i]])
    BY <1>3, <1>4, <2>1, <2>2, NotBetterTransitive
  <2> QED BY <1>5, <2>3
<1>8. \A i, j \in 1..n : i < j => <<i, j>> \in R
  BY <1>1, <1>6, <1>7, SortedPairs
<1> QED BY <1>2, <1>5, <1>8

\* What a call has when it returns a ranking.
LEMMA FinishedRanking ==
    ASSUME LockInv, TypeInv, [Next]_vars, NEW c \in Calls \ tuned, Finishes(c)
    PROVE  /\ ranking'[c] \in Rankings(DOMAIN scores[c], scores[c])
           /\ \A p \in DOMAIN scores[c] :
                scores[c][p] = CalculateScore(scorers, p, PolicyOf[c])
           /\ DOMAIN scores[c] \subseteq Listed[c]
           /\ DOMAIN scores[c] \in SUBSET Providers /\ PolicyOf[c] \in Policies
           /\ SortScores(c)
<1>1. SortScores(c)
  <2>1. at[c] = "scoring" /\ at'[c] = "done"
    BY DEF Finishes
  <2>2. ASSUME NEW e \in Calls, BeginRanking(e) \/ ScoreProvider(e) \/ SkipProvider(e)
        PROVE  FALSE
    <3>1. at'[c] = at[c]
      BY <2>1, <2>2 DEF BeginRanking, ScoreProvider, SkipProvider, TypeInv, CallType
    <3> QED BY <2>1, <3>1
  <2>3. ASSUME NEW e \in Calls, SortScores(e)
        PROVE  e = c
    BY <2>1, <2>3 DEF SortScores, TypeInv, CallType
  <2>4. at' # at
    BY <2>1
  <2> QED BY <2>2, <2>3, <2>4
    DEF Next, BeginUpdate, SetNext, UpdateReturns, AddScorer, RemoveScorer, SetScorerWeight,
        Tune, callVars, vars
<1>2. ranking'[c] \in Rankings(DOMAIN scores[c], scores[c])
  BY <1>1 DEF SortScores, TypeInv, CallType
<1>3. DOMAIN scores[c] \subseteq Listed[c] /\ c \in Ranking \ tuned
  BY <1>1 DEF SortScores, Ranking, TypeInv, CallType
<1>4. \A p \in DOMAIN scores[c] : scores[c][p] = CalculateScore(scorers, p, PolicyOf[c])
  BY <1>3 DEF LockInv, OneTable
<1> QED BY <1>1, <1>2, <1>3, <1>4, CompositeAssumption

LEMMA LockedTypes == Spec => [](LockInv /\ TypeInv)
BY InitType, TypeStep, InitLock, LockStep, PTL DEF Spec

\* RankProviders returns the best first: sort.Slice leaves no neighbours the
\* wrong way round, and as all scores of a list are by one table, "not better"
\* is an order on them, infinities included.
THEOREM BestFirstCorrect == Spec => BestFirst
<1> DEFINE Best == \A c \in Calls \ tuned :
         /\ Finishes(c)
         /\ \A n \in DOMAIN scorers, p \in Listed[c] :
              IsMinusInfinity(scorers[n].kind, p, PolicyOf[c]) => scorers[n].weight > 0
         => \A i, j \in DOMAIN ranking'[c] :
              i < j => ~Better(scores[c][ranking'[c][j]], scores[c][ranking'[c][i]])
<1>1. LockInv /\ TypeInv /\ [Next]_vars => Best
  <2> SUFFICES ASSUME LockInv, TypeInv, [Next]_vars, NEW c \in Calls \ tuned, Finishes(c),
                      NumbersOnly(scorers, Listed[c], PolicyOf[c])
               PROVE  \A i, j \in DOMAIN ranking'[c] :
                        i < j => ~Better(scores[c][ranking'[c][j]], scores[c][ranking'[c][i]])
    BY DEF NumbersOnly
  <2> DEFINE ps == DOMAIN scores[c]
  <2>1. /\ ranking'[c] \in Rankings(ps, scores[c])
        /\ \A p \in ps : scores[c][p] = CalculateScore(scorers, p, PolicyOf[c])
        /\ ps \subseteq Listed[c] /\ ps \in SUBSET Providers /\ PolicyOf[c] \in Policies
    BY FinishedRanking
  <2>2. IsScorerTable(scorers)
    BY TypeInvImplies
  <2>3. NumbersOnly(scorers, ps, PolicyOf[c])
    BY <2>1 DEF NumbersOnly
  <2> HIDE DEF ps
  <2> QED BY <2>1, <2>2, <2>3, RankingSorted
<1>2. LockInv /\ TypeInv /\ [Next]_vars => [Best]_vars
  BY <1>1
<1> QED BY <1>2, LockedTypes, PTL DEF Spec, BestFirst
-----------------------------------------------------------------------------
(* Who is missing.                                                         *)

\* Whoever a call has skipped has a scorer that fails in the table as it is now.
SkipInv ==
    /\ \A c \in Calls : at[c] = "new" => skipped[c] = {}
    /\ \A c \in Ranking \ tuned : \A p \in skipped[c] : MayFail(scorers, p, PolicyOf[c])

LEMMA InitSkip == Init => SkipInv
BY DEF Init, SkipInv, Ranking

LEMMA SkipStep == LockInv /\ TypeInv /\ SkipInv /\ [Next]_vars => SkipInv'
<1> SUFFICES ASSUME LockInv, TypeInv, SkipInv, [Next]_vars PROVE SkipInv'
  OBVIOUS
<1> CallType
  BY DEF TypeInv
<1>1. ASSUME NEW c \in Calls, BeginRanking(c) \/ SortScores(c)
      PROVE  SkipInv'
  <2>1. /\ Ranking' \subseteq Ranking \cup {c} /\ \A d \in Calls : at'[d] = "new" => at[d] = "new"
        /\ at[c] = "new" \/ Ranking' \subseteq Ranking
    BY <1>1 DEF BeginRanking, SortScores, CallType, Ranking
  <2>2. UNCHANGED <<scorers, skipped, tuned>>
    BY <1>1 DEF BeginRanking, SortScores, tableVars
  <2> QED BY <2>1, <2>2 DEF SkipInv
<1>2. ASSUME NEW c \in Calls, SkipProvider(c)
      PROVE  SkipInv'
  <2>1. PICK p \in Left(c) : MayFail(scorers, p, PolicyOf[c])
                             /\ skipped' = [skipped EXCEPT ![c] = @ \cup {p}]
    BY <1>2 DEF SkipProvider
  <2>2. /\ skipped'[c] = skipped[c] \cup {p}
        /\ \A d \in Calls \ {c} : skipped'[d] = skipped[d]
    BY <2>1 DEF CallType
  <2>3. at[c] = "scoring" /\ UNCHANGED <<scorers, at, tuned>> /\ Ranking' = Ranking
    BY <1>2 DEF SkipProvider, Ranking, tableVars
  <2> QED BY <2>1, <2>2, <2>3 DEF SkipInv, Ranking
<1>3. ASSUME BeginUpdate \/ SetNext \/ UpdateReturns
      PROVE  SkipInv'
  <2>1. Ranking = {} /\ Ranking' = Ranking
    BY <1>3 DEF BeginUpdate, SetNext, UpdateReturns, LockInv, Updating, Ranking, callVars
  <2> QED BY <1>3, <2>1 DEF BeginUpdate, SetNext, UpdateReturns, SkipInv, callVars
<1>4. ASSUME NEW table, Tune(table)
      PROVE  SkipInv'
  BY <1>4 DEF Tune, SkipInv, Ranking, callVars
<1>5. CASE UNCHANGED <<scorers, at, skipped, tuned>>
  BY <1>5 DEF SkipInv, Ranking
<1>6. ASSUME NEW c \in Calls, ScoreProvider(c)
      PROVE  UNCHANGED <<scorers, at, skipped, tuned>>
  BY <1>6 DEF ScoreProvider, tableVars
<1>7. UNCHANGED vars => UNCHANGED <<scorers, at, skipped, tuned>>
  BY DEF vars, tableVars, callVars
<1> QED BY <1>1, <1>2, <1>3, <1>4, <1>5, <1>6, <1>7
  DEF Next, AddScorer, RemoveScorer, SetScorerWeight

\* RankProviders goes on after a provider whose score cannot be calculated:
\* unless the scorers are changed behind d's back, whoever is missing from a
\* ranking is one for which a scorer of the table fails, and the weights may be
\* updated at any time.
THEOREM OnlyFaultyMissingCorrect == Spec => OnlyFaultyMissing
<1> DEFINE Only == \A c \in Calls \ tuned : Finishes(c) =>
         \A p \in Listed[c] \ Range(ranking'[c]) :
             ~ValidatePolicy(PolicyOf[c]) \/ MayFail(scorers, p, PolicyOf[c])
<1>1. LockInv /\ TypeInv /\ SkipInv /\ [Next]_vars => Only
  <2> SUFFICES ASSUME LockInv, TypeInv, SkipInv, [Next]_vars, NEW c \in Calls \ tuned, Finishes(c),
                      ValidatePolicy(PolicyOf[c]), NEW p \in Listed[c] \ Range(ranking'[c])
               PROVE  MayFail(scorers, p, PolicyOf[c])
    OBVIOUS
  <2>1. SortScores(c)
    BY FinishedRanking
  <2>2. CallType' /\ at'[c] = "done"
    BY CallTypeStep DEF Finishes
  <2>3. Range(ranking'[c]) = Listed[c] \ skipped'[c]
    BY <2>2 DEF CallType, Ranked
  <2>4. skipped' = skipped /\ c \in Ranking \ tuned
    BY <2>1 DEF SortScores, Ranking
  <2> QED BY <2>3, <2>4 DEF SkipInv
<1>2. LockInv /\ TypeInv /\ SkipInv /\ [Next]_vars => [Only]_vars
  BY <1>1
<1> QED BY <1>2, InitType, TypeStep, InitLock, LockStep, InitSkip, SkipStep, PTL
  DEF Spec, OnlyFaultyMissing

-----------------------------------------------------------------------------
(* Who is left after the filters.                                          *)

\* What a provider has that passed the filters.
Passed(p, q) ==
    /\ RequiredLocation[q] \in {AnyLocation, Location[p]}
    /\ hasAllRequiredFeatures(p, q)
    /\ Stake[p] >= MinStake[q]

LEMMA FiltersPass ==
    ASSUME NEW ps \in SUBSET Providers, NEW q \in Policies, ps = ApplyFilters(ps, q), NEW p \in ps
    PROVE  Passed(p, q)
<1> DEFINE located == LocationFilter(ps, q)
           capable == FeatureFilter(located, q)
<1>1. p \in StakeFilter(capable, q) /\ p \in capable /\ p \in located
  <2>1. \A S : /\ LocationFilter(S, q) \subseteq S /\ FeatureFilter(S, q) \subseteq S
               /\ StakeFilter(S, q) \subseteq S
    BY DEF LocationFilter, FeatureFilter, StakeFilter
  <2>2. p \in ApplyFilters(ps, q)
    OBVIOUS
  <2>3. p \in StakeFilter(capable, q)
    BY <2>2 DEF ApplyFilters, FeatureFilter
  <2> HIDE DEF located, capable
  <2>4. p \in capable
    BY <2>1, <2>3
  <2> QED BY <2>1, <2>3, <2>4 DEF capable
<1>2. RequiredLocation[q] \in {AnyLocation, Location[p]}
  BY <1>1 DEF LocationFilter
<1>3. hasAllRequiredFeatures(p, q)
  <2>1. CASE RequiredFeatures[q] = <<>>
    BY <2>1, RangeEmpty DEF hasAllRequiredFeatures
  <2>2. CASE RequiredFeatures[q] # <<>>
    BY <1>1, <2>2 DEF FeatureFilter
  <2> QED BY <2>1, <2>2
<1>4. Stake[p] >= MinStake[q]
  <2>1. Stake[p] \in Nat /\ MinStake[q] \in Int
    BY ModelsAssumption
  <2> HIDE DEF capable
  <2> QED BY <1>1, <2>1 DEF StakeFilter
<1> QED BY <1>2, <1>3, <1>4 DEF Passed

LEMMA DivideProduct ==
    ASSUME NEW m \in Nat, NEW r \in Nat \ {0}
    PROVE  (m * r) \div r = m
OBVIOUS

\* With all the required features there the score is at its cap.
LEMMA FeatureLevel ==
    ASSUME NEW p \in Providers, NEW q \in Policies, Passed(p, q)
    PROVE  ComponentScore("DefaultFeatureScorer", p, q) =
             IF Len(RequiredFeatures[q]) = 0 THEN One \div 2 ELSE One
<1> DEFINE required == Len(RequiredFeatures[q])
           matched  == {i \in 1..required : Supports(p, RequiredFeatures[q][i])}
           extra    == Len(Features[p]) - required
           bonus    == IF extra <= 0 THEN 0
                       ELSE IF extra < 4 THEN (extra * One) \div 20 ELSE One \div 5
<1>1. required \in Nat /\ Len(Features[p]) \in Nat /\ One \in Nat \ {0}
  BY ModelsAssumption, CompositeAssumption
<1>2. matched = 1..required
  <2>1. DOMAIN RequiredFeatures[q] = 1..required
    BY ModelsAssumption
  <2>2. \A i \in 1..required : RequiredFeatures[q][i] \in Range(RequiredFeatures[q])
    BY <2>1 DEF Range
  <2> QED BY <2>2 DEF Passed, hasAllRequiredFeatures
<1>3. Cardinality(matched) = required
  <2> HIDE DEF required, matched
  <2> QED BY <1>1, <1>2, FS_Interval
<1>4. bonus \in Nat
  <2>1. extra \in Int
    BY <1>1
  <2> HIDE DEF extra
  <2>2. extra > 0 => extra * One \in Nat
    BY <1>1, <2>1
  <2> QED BY <1>1, <2>1, <2>2
<1>5. FeatureScore(p, q) = IF required = 0 THEN One \div 2
                           ELSE AtMostOne((One * Cardinality(matched)) \div required + bonus)
  BY DEF FeatureScore
<1>6. ComponentScore("DefaultFeatureScorer", p, q) = FeatureScore(p, q)
  BY CompositeAssumption DEF ComponentScore, StakeKinds, BuiltinKinds
<1> HIDE DEF required, matched, bonus
<1>7. required # 0 => (One * required) \div required = One
  BY <1>1, DivideProduct
<1>8. required # 0 => AtMostOne(One + bonus) = One
  BY <1>1, <1>4 DEF AtMostOne
<1> QED BY <1>3, <1>5, <1>6, <1>7, <1>8 DEF required

\* Among providers that have passed the filters the default scorers of location
\* and features set nobody apart: each has the same score by them, whatever more
\* features it has, because the bonus ends at the cap that whoever has all the
\* required features has reached.
THEOREM FiltersLevel ==
    ASSUME NEW ps \in SUBSET Providers, NEW q \in Policies, ps = ApplyFilters(ps, q), NEW p \in ps
    PROVE  /\ ComponentScore("DefaultFeatureScorer", p, q) =
                IF Len(RequiredFeatures[q]) = 0 THEN One \div 2 ELSE One
           /\ ComponentScore("DefaultLocationScorer", p, q) =
                IF RequiredLocation[q] = AnyLocation THEN One \div 2 ELSE One
<1>1. Passed(p, q)
  BY FiltersPass
<1>2. "DefaultLocationScorer" \notin CustomKinds
  BY CompositeAssumption DEF BuiltinKinds
<1>3. ComponentScore("DefaultLocationScorer", p, q) =
        IF RequiredLocation[q] = AnyLocation THEN One \div 2 ELSE One
  BY <1>1, <1>2 DEF ComponentScore, LocationScore, StakeKinds, Passed
<1> QED BY <1>1, <1>3, FeatureLevel

-----------------------------------------------------------------------------
(* Normalisation.                                                          *)

LEMMA DivideOrder ==
    ASSUME NEW m \in Int, NEW k \in Nat, NEW r \in Nat \ {0}
    PROVE  /\ m >= 0 => m \div r >= 0
           /\ m <= k * r => m \div r <= k
<1> DEFINE d == m \div r
<1>1. d \in Int /\ d * r <= m /\ m < (d + 1) * r
  OBVIOUS
<1> HIDE DEF d
<1>2. m >= 0 => d >= 0
  <2>1. d < 0 => (d + 1) * r <= 0
    BY <1>1
  <2> QED BY <1>1, <2>1
<1>3. m <= k * r => d <= k
  <2>1. d > k => d * r > k * r
    BY <1>1, Scaled
  <2> QED BY <1>1, <2>1
<1> QED BY <1>2, <1>3 DEF d

\* No component of a score is more than 1.0, the bonus for features included.
LEMMA ComponentRange ==
    ASSUME NEW kind \in BuiltinKinds, NEW p \in Providers, NEW q \in Policies,
           ~IsMinusInfinity(kind, p, q)
    PROVE  ComponentScore(kind, p, q) \in 0..One
<1> One \in Nat \ {0} /\ kind \notin CustomKinds
  BY CompositeAssumption
<1>1. ComponentScore(kind, p, q) \in Int
  BY ComponentType DEF Kinds
<1>2. CASE kind \in StakeKinds
  <2>1. Stake[p] \in Nat /\ MinStake[q] \in Int
    BY ModelsAssumption
  <2>2. CASE Stake[p] < MinStake[q]
    BY <1>2, <2>2 DEF ComponentScore, StakeScore
  <2>3. CASE kind = "DefaultStakeScorer" /\ ~(Stake[p] < MinStake[q])
    <3>1. Stake[p] # 0
      BY <2>1, <2>3 DEF IsMinusInfinity
    <3>2. Log10[Stake[p]] \in Nat
      BY <3>1, CompositeAssumption
    <3> QED BY <1>2, <2>3, <3>2 DEF ComponentScore, StakeScore, AtMostOne
  <2>4. CASE kind # "DefaultStakeScorer" /\ ~(Stake[p] < MinStake[q])
    <3>1. CASE Stake[p] > MaxLinearStake
      BY <1>2, <2>4, <3>1 DEF ComponentScore, StakeScore
    <3>2. CASE ~(Stake[p] > MaxLinearStake)
      <4> DEFINE m == One * Stake[p]
      <4>1. m \in Nat /\ m <= One * MaxLinearStake /\ MaxLinearStake \in Nat \ {0}
        BY <2>1, <3>2 DEF MaxLinearStake
      <4>2. ComponentScore(kind, p, q) = m \div MaxLinearStake
        BY <1>2, <2>4, <3>2 DEF ComponentScore, StakeScore
      <4> HIDE DEF m
      <4>3. m \div MaxLinearStake >= 0 /\ m \div MaxLinearStake <= One
        BY <4>1, DivideOrder
      <4> QED BY <1>1, <4>2, <4>3
    <3> QED BY <3>1, <3>2
  <2> QED BY <2>2, <2>3, <2>4
<1>3. CASE kind = "DefaultFeatureScorer"
  <2> DEFINE required == Len(RequiredFeatures[q])
             matched  == {i \in 1..required : Supports(p, RequiredFeatures[q][i])}
             extra    == Len(Features[p]) - required
             bonus    == IF extra <= 0 THEN 0
                         ELSE IF extra < 4 THEN (extra * One) \div 20 ELSE One \div 5
             share    == (One * Cardinality(matched)) \div required
  <2>1. required \in Nat /\ extra \in Int /\ Cardinality(matched) \in Nat
    <3>1. required \in Nat /\ Len(Features[p]) \in Nat
      BY ModelsAssumption
    <3>2. IsFiniteSet(1..required)
      BY <3>1, FS_Interval
    <3> QED BY <3>1, <3>2, FS_Subset, FS_CardinalityType
  <2>2. bonus \in Nat
    <3> HIDE DEF extra
    <3>1. extra > 0 => extra * One \in Nat
      BY <2>1
    <3> QED BY <2>1, <3>1
  <2>3. required # 0 => share \in Nat
    <3> HIDE DEF required, matched
    <3>1. One * Cardinality(matched) \in Nat
      BY <2>1
    <3>2. required # 0 => share \in Int
      BY <2>1, <3>1
    <3>3. required # 0 => share >= 0
      BY <2>1, <3>1, DivideOrder
    <3> QED BY <3>2, <3>3
  <2>4. ComponentScore(kind, p, q) =
          IF required = 0 THEN One \div 2 ELSE AtMostOne(share + bonus)
    BY <1>3 DEF ComponentScore, StakeKinds, FeatureScore
  <2> HIDE DEF required, share, bonus
  <2> QED BY <2>1, <2>2, <2>3, <2>4 DEF AtMostOne
<1>4. CASE kind \notin StakeKinds /\ kind # "DefaultFeatureScorer"
  <2>1. LocationScore(kind, p, q) \in 0..One
    BY DEF LocationScore
  <2> QED BY <1>4, <2>1 DEF ComponentScore
<1> QED BY <1>2, <1>3, <1>4

\* CalculateScore normalises: if no weight is negative, a score that is a number
\* is one from 0 to 1, whichever and however many scorers the table has; those
\* of a client must keep to that range themselves, for nothing checks them.
THEOREM ScoreNormalised ==
    ASSUME NEW table, IsScorerTable(table), \A n \in DOMAIN table : table[n].weight >= 0,
           NEW p \in Providers, NEW q \in Policies, Below(table, p, q) = {},
           \A k \in CustomKinds : CustomScore[k][p][q] \in 0..One
    PROVE  LET x == CalculateScore(table, p, q)
           IN  x.den \in Nat \ {0} /\ x.num \in 0..x.den
<1> DEFINE f == WeightedScore(table, p, q)
           e == [n \in DOMAIN table |-> table[n].weight]
           s == SumFunction(f)
           w == TotalWeight(table)
<1>1. /\ DOMAIN f = DOMAIN table /\ DOMAIN e = DOMAIN table
      /\ IsFiniteSet(DOMAIN table) /\ One \in Nat \ {0}
  BY CompositeAssumption DEF WeightedScore, IsScorerTable
<1>2. ASSUME NEW n \in DOMAIN table
      PROVE  /\ f[n] \in Int /\ e[n] \in Int /\ f[n] >= 0 /\ e[n] >= 0
             /\ f[n] <= One * e[n]
  <2> DEFINE a == table[n].weight
             b == ComponentScore(table[n].kind, p, q)
  <2>1. f[n] = a * b /\ e[n] = a
    BY <1>1 DEF WeightedScore
  <2>2. a \in Nat
    BY DEF IsScorerTable
  <2>3. b \in 0..One
    <3>1. ~IsMinusInfinity(table[n].kind, p, q)
      BY DEF Below
    <3>2. CASE table[n].kind \in BuiltinKinds
      BY <3>1, <3>2, ComponentRange
    <3>3. CASE table[n].kind \in CustomKinds
      BY <3>3 DEF ComponentScore
    <3> QED BY <3>2, <3>3 DEF IsScorerTable, Kinds
  <2> HIDE DEF a, b
  <2>4. a * b \in Nat /\ a * b <= One * a
    BY <1>1, <2>2, <2>3
  <2> QED BY <2>1, <2>2, <2>4
<1> HIDE DEF f, e
<1>3. /\ s = SumFunctionOnSet(f, DOMAIN table)
      /\ SumFunctionOnSet(f, DOMAIN table) \in Int /\ SumFunctionOnSet(f, DOMAIN table) >= 0
  BY <1>1, <1>2, SumWhole, SumType
<1>4. /\ w = SumFunctionOnSet(e, DOMAIN table)
      /\ SumFunctionOnSet(e, DOMAIN table) \in Int /\ SumFunctionOnSet(e, DOMAIN table) >= 0
  <2>1. w = SumFunction(e)
    BY DEF TotalWeight, e
  <2> QED BY <1>1, <1>2, <2>1, SumWhole, SumType
<1>5. s <= One * w
  BY <1>1, <1>2, <1>3, <1>4, SumOrder
<1> HIDE DEF s, w
<1>6. CASE w = 0
  <2>1. CalculateScore(table, p, q) = [num |-> 0, den |-> 1]
    BY <1>6 DEF CalculateScore, w
  <2> QED BY <2>1
<1>7. CASE w # 0
  <2>1. w \in Nat \ {0} /\ w > 0
    BY <1>3, <1>4, <1>7
  <2>2. CalculateScore(table, p, q) = [num |-> 1 * s, den |-> 1 * w * One]
    BY <1>7, <2>1 DEF CalculateScore, w, s, f
  <2>3. 1 * s = s /\ s \in Int /\ 1 * w * One = One * w /\ One * w \in Nat \ {0}
    BY <1>1, <1>3, <2>1
  <2> QED BY <1>3, <1>5, <2>2, <2>3
<1> QED BY <1>6, <1>7
=============================================================================
