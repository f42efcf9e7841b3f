--------------------------- MODULE CompositeScoring ---------------------------
(***************************************************************************)
(* CompositeScoringSystem of services/composite_scoring.go in use by       *)
(* DefaultPairingSystem: calls of RankProviders, which score provider by   *)
(* provider, UpdateScoringWeights, which sets one weight after the other,  *)
(* and a client that has got hold of the Processor (GetProcessor) and      *)
(* changes the scorers at any time.  A provider whose score cannot be      *)
(* calculated, because a scorer of the client returns an error, is skipped.*)
(*                                                                         *)
(* Locks.  css.mu protects one score, or one change, at a time; each is a  *)
(* step.  d.mu is read-held by a call of RankProviders and write-held by   *)
(* UpdateScoringWeights from beginning to end.  The Processor's own        *)
(* AddScorer, RemoveScorer and UpdateScoringWeights do not take d.mu.      *)
(***************************************************************************)
EXTENDS Scoring

CONSTANTS
    Calls,          \* calls of RankProviders
    PolicyOf,       \* PolicyOf[c]
    Listed,         \* Listed[c]: the providers that call c ranks
    Names,          \* names of scorers that clients use
    Weights,        \* weights that clients ask for
    MaxUpdates,     \* bound: calls of UpdateScoringWeights
    MaxTunings      \* bound: changes through the Processor

ASSUME CompositeAssumption ==
    /\ PolicyOf \in [Calls -> Policies] /\ Listed \in [Calls -> SUBSET Providers]
    /\ {"stake", "location", "features"} \subseteq Names
    /\ Weights \subseteq Int
    /\ MaxUpdates \in Nat /\ MaxTunings \in Nat
    /\ One \in Nat \ {0} /\ One % 20 = 0
    /\ CustomKinds \cap BuiltinKinds = {}
    /\ CustomScore \in [CustomKinds -> [Providers -> [Policies -> Int]]]
    /\ Faulty \subseteq CustomKinds \X Providers \X Policies
    /\ Log10 \in [{Stake[p] : p \in Providers} \ {0} -> Nat]
    /\ \A s, t \in DOMAIN Log10 : s < t => Log10[s] < Log10[t]

VARIABLES
    scorers,    \* the table of scorers by name
    at,         \* where each call is
    scores,     \* the scores a call has calculated so far
    skipped,    \* the providers a call has no score for
    ranking,    \* what a call returned
    set,        \* how many weights the update has set, or where else it is
    wanted,     \* the weights the update is to set
    updates, tunings,
    before,     \* history: the table when the update began
    tuned       \* history: calls during which the Processor's scorers changed
                \* and "update", if that happened to the update

tableVars == <<scorers, tunings>>
callVars == <<at, scores, skipped, ranking>>
updateVars == <<set, wanted, updates, before>>
vars == <<tableVars, callVars, updateVars, tuned>>

\* UpdateScoringWeights(stake, location, feature) sets them in this order.
Order == <<"stake", "location", "features">>

Updating == set \in 0..3
Ranking  == {c \in Calls : at[c] = "scoring"}

Init ==
    /\ scorers = DefaultScorers
    /\ at = [c \in Calls |-> "new"]
    /\ scores = [c \in Calls |-> <<>>] /\ skipped = [c \in Calls |-> {}]
    /\ ranking = [c \in Calls |-> <<>>]
    /\ set = -1 /\ wanted = <<>>
    /\ updates = 0 /\ tunings = 0
    /\ before = scorers /\ tuned = {}

-----------------------------------------------------------------------------
(* RankProviders.                                                          *)

\* d.RankProviders returns at once for a policy that is not valid.
BeginRanking(c) ==
    /\ at[c] = "new" /\ ~Updating
    /\ at' = [at EXCEPT ![c] = IF ValidatePolicy(PolicyOf[c]) THEN "scoring" ELSE "done"]
    /\ UNCHANGED <<tableVars, scores, skipped, ranking, updateVars, tuned>>

Left(c) == Listed[c] \ (DOMAIN scores[c] \cup skipped[c])

ScoreProvider(c) ==
    /\ at[c] = "scoring"
    /\ \E p \in Left(c) :
         scores' = [scores EXCEPT ![c] =
                      [r \in DOMAIN @ \cup {p} |->
                         IF r = p THEN CalculateScore(scorers, p, PolicyOf[c]) ELSE @[r]]]
    /\ UNCHANGED <<tableVars, at, skipped, ranking, updateVars, tuned>>

\* Variant of SkipProvider with a bug: the first error ends the loop.
SkipRest(c) ==
    /\ at[c] = "scoring"
    /\ \E p \in Left(c) : MayFail(scorers, p, PolicyOf[c])
    /\ skipped' = [skipped EXCEPT ![c] = @ \cup Left(c)]
    /\ UNCHANGED <<tableVars, at, scores, ranking, updateVars, tuned>>

SkipProvider(c) ==
    /\ at[c] = "scoring"
    /\ \E p \in Left(c) : /\ MayFail(scorers, p, PolicyOf[c])
                         /\ skipped' = [skipped EXCEPT ![c] = @ \cup {p}]
    /\ UNCHANGED <<tableVars, at, scores, ranking, updateVars, tuned>>

\* Variant of SortScores with a bug: it does not wait for every provider.
SortScoresEarly(c) ==
    /\ at[c] = "scoring" /\ DOMAIN scores[c] # {}
    /\ \E s \in Rankings(DOMAIN scores[c], scores[c]) : ranking' = [ranking EXCEPT ![c] = s]
    /\ at' = [at EXCEPT ![c] = "done"]
    /\ UNCHANGED <<tableVars, scores, skipped, updateVars, tuned>>

SortScores(c) ==
    /\ at[c] = "scoring" /\ Left(c) = {}
    /\ \E s \in Rankings(DOMAIN scores[c], scores[c]) : ranking' = [ranking EXCEPT ![c] = s]
    /\ at' = [at EXCEPT ![c] = "done"]
    /\ UNCHANGED <<tableVars, scores, skipped, updateVars, tuned>>

-----------------------------------------------------------------------------
(* UpdateScoringWeights.                                                   *)

\* Variant of BeginUpdate with a bug: it does not take d.mu.
BeginUpdateUnlocked ==
    /\ ~Updating /\ updates < MaxUpdates
    /\ \E w \in [1..3 -> Weights] : wanted' = w
    /\ set' = 0 /\ updates' = updates + 1 /\ before' = scorers
    /\ tuned' = tuned \ {"update"}
    /\ UNCHANGED <<tableVars, callVars>>

BeginUpdate ==
    /\ ~Updating /\ Ranking = {} /\ updates < MaxUpdates
    /\ \E w \in [1..3 -> Weights] : wanted' = w
    /\ set' = 0 /\ updates' = updates + 1 /\ before' = scorers
    /\ tuned' = tuned \ {"update"}
    /\ UNCHANGED <<tableVars, callVars>>

Reweighted(n, w) == [scorers EXCEPT ![n].weight = w]

\* Variant of SetNext with a bug: a scorer that is missing is skipped.
SetNextOrSkip ==
    /\ set \in 0..2
    /\ set' = set + 1
    /\ scorers' = IF Order[set + 1] \in DOMAIN scorers
                    THEN Reweighted(Order[set + 1], wanted[set + 1]) ELSE scorers
    /\ UNCHANGED <<tunings, callVars, wanted, updates, before, tuned>>

\* The weight of the next scorer is set if there is such a scorer; -2 says that
\* the update has returned an error, -1 that it has not.
SetNext ==
    /\ set \in 0..2
    /\ IF Order[set + 1] \in DOMAIN scorers
         THEN scorers' = Reweighted(Order[set + 1], wanted[set + 1]) /\ set' = set + 1
         ELSE set' = -2 /\ UNCHANGED scorers
    /\ UNCHANGED <<tunings, callVars, wanted, updates, before, tuned>>

UpdateReturns ==
    /\ set = 3 /\ set' = -1
    /\ UNCHANGED <<tableVars, callVars, wanted, updates, before, tuned>>

-----------------------------------------------------------------------------
(* Changes through the Processor.                                          *)

Tune(table) ==
    /\ tunings < MaxTunings /\ tunings' = tunings + 1
    /\ scorers' = table
    /\ tuned' = tuned \cup Ranking \cup (IF Updating THEN {"update"} ELSE {})
    /\ UNCHANGED <<callVars, updateVars>>

\* A scorer that has the name already is replaced.
AddScorer(n, kind, w) ==
    Tune([m \in DOMAIN scorers \cup {n} |->
            IF m = n THEN [kind |-> kind, weight |-> w] ELSE scorers[m]])

RemoveScorer(n) ==
    n \in DOMAIN scorers /\ Tune([m \in DOMAIN scorers \ {n} |-> scorers[m]])

\* A step of the Processor's own UpdateScoringWeights.
SetScorerWeight(n, w) ==
    n \in DOMAIN scorers /\ Tune(Reweighted(n, w))

Next ==
    \/ \E c \in Calls : BeginRanking(c) \/ ScoreProvider(c) \/ SkipProvider(c) \/ SortScores(c)
    \/ BeginUpdate \/ SetNext \/ UpdateReturns
    \/ \E n \in Names :
         \/ \E kind \in Kinds, w \in Weights : AddScorer(n, kind, w)
         \/ RemoveScorer(n)
    \/ \E n \in Range(Order), w \in Weights : SetScorerWeight(n, w)

Spec == Init /\ [][Next]_vars

-----------------------------------------------------------------------------
Scorers == [kind : Kinds, weight : Weights \cup {3, 4}]
Scores  == [num : Int, den : Nat]

\* Every variable has its type; a call that is done has ranked each provider of
\* its list once, but for those it has skipped.
TypeOK ==
    /\ DOMAIN scorers \subseteq Names /\ DOMAIN before \subseteq Names
    /\ \A n \in DOMAIN scorers : scorers[n] \in Scorers
    /\ at \in [Calls -> {"new", "scoring", "done"}]
    /\ \A c \in Calls :
         /\ DOMAIN scores[c] \subseteq Listed[c]
         /\ skipped[c] \subseteq Listed[c] \ DOMAIN scores[c]
         /\ \A p \in DOMAIN scores[c] : scores[c][p] \in Scores
         /\ at[c] = "done" /\ ValidatePolicy(PolicyOf[c]) =>
              /\ Range(ranking[c]) = Listed[c] \ skipped[c]
              /\ Len(ranking[c]) = Cardinality(Listed[c] \ skipped[c])
    /\ set \in -2..3 /\ wanted \in {<<>>} \cup [1..3 -> Weights]
    /\ updates \in 0..MaxUpdates /\ tunings \in 0..MaxTunings
    /\ tuned \subseteq Calls \cup {"update"}

\* d.mu keeps an update of the weights out of a ranking: unless the scorers were
\* changed through the Processor, all scores of a list are by one table.
OneTable ==
    \A c \in Ranking \ tuned : \A p \in DOMAIN scores[c] :
        scores[c][p] = CalculateScore(scorers, p, PolicyOf[c])

Finishes(c) == at[c] = "scoring" /\ at'[c] = "done"

\* A scorer that fails for one provider costs no other its place: unless the
\* scorers were changed, a provider that is missing from a ranking is one for
\* which a scorer of the table fails.
OnlyFaultyMissing ==
    [][\A c \in Calls \ tuned : Finishes(c) =>
         \A p \in Listed[c] \ Range(ranking'[c]) :
             ~ValidatePolicy(PolicyOf[c]) \/ MayFail(scorers, p, PolicyOf[c])]_vars

\* RankProviders returns the best first, if no stake of zero meets a stake
\* scorer without a positive weight.  (If one does, its score may not be a
\* number; it then compares with no other, and separates better from worse.)
BestFirst ==
    [][\A c \in Calls \ tuned :
         /\ Finishes(c)
         /\ \A n \in DOMAIN scorers, p \in Listed[c] :
              IsMinusInfinity(scorers[n].kind, p, PolicyOf[c]) => scorers[n].weight > 0
         => \A i, j \in DOMAIN ranking'[c] :
              i < j => ~Better(scores[c][ranking'[c][j]], scores[c][ranking'[c][i]])]_vars

\* UpdateScoringWeights that returns an error has set the weights in front of the
\* first scorer that is missing and no other; if it returns none, it has set all
\* three.  (Unless the Processor's scorers changed meanwhile.)
SetUpTo(k) ==
    scorers = [n \in DOMAIN before |->
                 IF \E i \in 1..k : Order[i] = n
                 THEN [before[n] EXCEPT !.weight = wanted[CHOOSE i \in 1..k : Order[i] = n]]
                 ELSE before[n]]
HalfUpdate ==
    [][Updating /\ ~Updating' /\ "update" \notin tuned =>
         IF \A i \in 1..3 : Order[i] \in DOMAIN before
         THEN set' = -1 /\ SetUpTo(3)
         ELSE set' = -2 /\ SetUpTo((CHOOSE i \in 1..3 :
                 /\ Order[i] \notin DOMAIN before
                 /\ \A j \in 1..i - 1 : Order[j] \in DOMAIN before) - 1)]_vars
=============================================================================
