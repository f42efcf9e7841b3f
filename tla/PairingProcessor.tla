-------------------------- MODULE PairingProcessor --------------------------
(***************************************************************************)
(* services/DefaultPairingSystem.go and services/processor.go: concurrent  *)
(* calls of GetPairingListWithDetails, each a run of ProcessPolicy against *)
(* the provider storage, the result cache and the statistics, and of its   *)
(* parts: FilterProviders and RankProviders of a list that the client has, *)
(* and GetScoringStats, which filters and ranks what is stored.  Meanwhile *)
(* other goroutines change the storage and the configuration.              *)
(*                                                                         *)
(* Locks.  d.mu is read-held by a call from beginning to end, so SetTopN,  *)
(* SetCachingEnabled, UpdateScoringWeights and ResetStats run while no     *)
(* call does; the storage has its own lock and changes at any time.  The   *)
(* cache and p.mu are held for one step each.  A client that has got hold  *)
(* of the Processor (GetProcessor) can go round d.mu; here none does.      *)
(*                                                                         *)
(* The policies are valid: for others the call returns before it looks at  *)
(* anything.  The scorers are the default ones, which return no error,     *)
(* with weights that change.  An answer is the set of the top providers.   *)
(* The cache is a map of bounded size that evicts some key; which one is   *)
(* the business of LFUCache.                                               *)
(***************************************************************************)
EXTENDS ProviderStorage, Scoring

CONSTANTS
    Calls,          \* the calls, each made once
    Operation,      \* Operation[c]: what c is a call of
    PolicyOf,       \* PolicyOf[c]
    ListOf,         \* ListOf[c]: the providers given to c, if it takes a list
    Words,          \* Words[f]: feature string f, cut at its spaces
    Weightings,     \* weights of the stake, location and feature scorers
    TopNs,          \* the positive arguments of SetTopN
    DefaultTopN,    \* topN of NewProcessor (5 in the code)
    DefaultWeights, \* weights of NewDefaultCompositeScoringSystem
    Capacity,       \* capacity of the cache
    MaxResets,      \* bound: how many times ResetStats is called
    NotCached       \* the cache holds nothing under a key

\* "policy_%s_%d_%v": %v joins the features with spaces, those inside a feature
\* look no different.
generateKey(q) ==
    [location |-> RequiredLocation[q], minStake |-> MinStake[q],
     features |-> FlattenSeq([i \in DOMAIN RequiredFeatures[q] |->
                                 Words[RequiredFeatures[q][i]]])]

Keys    == {generateKey(q) : q \in Policies}
Answers == SUBSET Providers

\* The operations that call a part of ProcessPolicy, and where they enter it.
Entry == [GetScoringStats |-> "scan", FilterProviders |-> "filter", RankProviders |-> "rank"]
Pairs(c) == Operation[c] = "GetPairingListWithDetails"

ASSUME ProcessorAssumption ==
    /\ \A c \in Calls : Pairs(c) \/ Operation[c] \in DOMAIN Entry
    /\ ListOf \in [Calls -> SUBSET Providers]
    /\ \A c \in Calls : Operation[c] \notin {"FilterProviders", "RankProviders"} => ListOf[c] = {}
    /\ DOMAIN Words = Strings
    /\ PolicyOf \in [Calls -> Policies]
    /\ \A q \in Policies : ValidatePolicy(q)
    /\ Weightings \subseteq Int \X Int \X Int
    /\ TopNs \subseteq Nat \ {0} /\ DefaultTopN \in Nat \ {0}
    /\ DefaultWeights \in Weightings
    /\ Capacity \in Nat \ {0} /\ MaxResets \in Nat

VARIABLES
    pc,             \* where each call is
    path,           \* how a call gets its answer: cache hit, miss or no cache
    scanned,        \* the providers a call was given or read, then those that passed
    answer,         \* the top providers, which a call of the whole returns
    cache,          \* answer and history under each key
    topN, enableCaching, weights,
    totalProcessed, totalFiltered, totalRanked,
    totalCacheHits, totalCacheMisses,
    counted,        \* history: calls begun since the last ResetStats
    asOf,           \* history: cleared when a call read the storage
    unmatched,      \* history: calls during which at some time none passed
    cleared,        \* history: how often ResetStats cleared the cache
    resets          \* history: how often ResetStats ran

callVars   == <<pc, path, scanned, answer>>
configVars == <<topN, enableCaching, weights>>
statVars   == <<totalProcessed, totalFiltered, totalRanked, totalCacheHits,
                totalCacheMisses>>
resetVars  == <<cleared, resets>>
historyVars == <<counted, asOf, unmatched>>
vars == <<storageVars, callVars, cache, configVars, statVars, historyVars,
          resetVars>>

PC == {"new", "lookup", "hit", "miss", "scan", "filter", "rank", "put",
       "count", "done"}

Active == {c \in Calls : pc[c] \notin {"new", "done"}}
Unmatched(ps, q) == \A p \in ps : ~Qualifies(p, q)

Init ==
    /\ StorageInit
    /\ pc = [c \in Calls |-> "new"] /\ path = [c \in Calls |-> "none"]
    /\ scanned = [c \in Calls |-> {}] /\ answer = [c \in Calls |-> {}]
    /\ cache = [k \in Keys |-> NotCached]
    /\ topN = DefaultTopN /\ enableCaching = TRUE /\ weights = DefaultWeights
    /\ totalProcessed = 0 /\ totalFiltered = 0 /\ totalRanked = 0
    /\ totalCacheHits = 0 /\ totalCacheMisses = 0
    /\ counted = {} /\ asOf = [c \in Calls |-> 0] /\ unmatched = {}
    /\ cleared = 0 /\ resets = 0

-----------------------------------------------------------------------------
(* ProcessPolicy.                                                          *)

Goes(c, to) == pc' = [pc EXCEPT ![c] = to]

\* GetPairingListWithDetails takes d.mu for reading.
Begin(c) ==
    /\ pc[c] = "new" /\ Pairs(c)
    /\ Goes(c, IF enableCaching THEN "lookup" ELSE "scan")
    /\ path' = [path EXCEPT ![c] = IF enableCaching THEN "miss" ELSE "off"]
    /\ counted' = counted \cup {c}
    /\ unmatched' = IF Unmatched(providers, PolicyOf[c]) THEN unmatched \cup {c} ELSE unmatched
    /\ UNCHANGED <<storageVars, scanned, answer, cache, configVars, statVars,
                   asOf, resetVars>>

\* FilterProviders, RankProviders and GetScoringStats take it as well.
BeginPart(c) ==
    /\ pc[c] = "new" /\ ~Pairs(c)
    /\ Goes(c, Entry[Operation[c]])
    /\ scanned' = [scanned EXCEPT ![c] = ListOf[c]]
    /\ counted' = counted \cup {c}
    /\ UNCHANGED <<storageVars, path, answer, cache, configVars, statVars,
                   asOf, unmatched, resetVars>>

Lookup(c) ==
    /\ pc[c] = "lookup"
    /\ LET entry == cache[generateKey(PolicyOf[c])] IN
         IF entry = NotCached
           THEN Goes(c, "miss") /\ UNCHANGED <<answer, path>>
           ELSE /\ Goes(c, "hit")
                /\ answer' = [answer EXCEPT ![c] = entry.answer]
                /\ path' = [path EXCEPT ![c] = "hit"]
    /\ UNCHANGED <<storageVars, scanned, cache, configVars, statVars, historyVars,
                   resetVars>>

CountHit(c) ==
    /\ pc[c] = "hit"
    /\ totalCacheHits' = totalCacheHits + 1
    /\ Goes(c, "done")
    /\ UNCHANGED <<storageVars, path, scanned, answer, cache, configVars,
                   totalProcessed, totalFiltered, totalRanked,
                   totalCacheMisses, historyVars, resetVars>>

CountMiss(c) ==
    /\ pc[c] = "miss"
    /\ totalCacheMisses' = totalCacheMisses + 1
    /\ Goes(c, "scan")
    /\ UNCHANGED <<storageVars, path, scanned, answer, cache, configVars,
                   totalProcessed, totalFiltered, totalRanked,
                   totalCacheHits, historyVars, resetVars>>

\* GetAllProviders copies the providers under the storage's lock.
Scan(c) ==
    /\ pc[c] = "scan"
    /\ scanned' = [scanned EXCEPT ![c] = providers]
    /\ asOf' = [asOf EXCEPT ![c] = cleared]
    /\ Goes(c, "filter")
    /\ UNCHANGED <<storageVars, path, answer, cache, configVars, statVars,
                   counted, unmatched, resetVars>>

\* The providers in kept go on to be ranked if there are any.
FilterKeeping(c, kept, next) ==
    /\ pc[c] = "filter"
    /\ scanned' = [scanned EXCEPT ![c] = kept]
    /\ totalFiltered' = totalFiltered + Cardinality(kept)
    /\ Goes(c, next)
    /\ UNCHANGED <<storageVars, path, answer, cache, configVars,
                   totalProcessed, totalRanked, totalCacheHits,
                   totalCacheMisses, historyVars, resetVars>>

Passed(c) == ApplyFilters(scanned[c], PolicyOf[c])

\* Variants of Filter with a bug: an empty answer is ranked and cached like any
\* other; the result of filtering is not used.
FilterGoesOn(c) == FilterKeeping(c, Passed(c), IF Pairs(c) THEN "rank" ELSE "done")
FilterUnused(c) ==
    FilterKeeping(c, scanned[c], IF Passed(c) # {} /\ Pairs(c) THEN "rank" ELSE "done")

\* Nothing passes: the call returns at once, and neither caches the empty
\* answer nor counts the policy as processed.  FilterProviders returns, and so
\* does GetScoringStats once it has had the scoring system rank the providers,
\* which RankProviders of the Processor would count and this does not.
Filter(c) ==
    FilterKeeping(c, Passed(c), IF Passed(c) # {} /\ Pairs(c) THEN "rank" ELSE "done")

\* The first n of a ranking of ps, or all if they are fewer.
Top(ps, n, q) ==
    LET table == WeightedScorers(weights[1], weights[2], weights[3])
    IN  {{s[i] : i \in {j \in DOMAIN s : j <= n}} :
           s \in Rankings(ps, [p \in ps |-> CalculateScore(table, p, q)])}

\* Providers of equal score come in any order.
Rank(c) ==
    /\ pc[c] = "rank"
    /\ totalRanked' = totalRanked + Cardinality(scanned[c])
    /\ IF Pairs(c)
         THEN /\ \E T \in Top(scanned[c], topN, PolicyOf[c]) :
                   answer' = [answer EXCEPT ![c] = T]
              /\ Goes(c, IF enableCaching THEN "put" ELSE "count")
         ELSE Goes(c, "done") /\ UNCHANGED answer
    /\ UNCHANGED <<storageVars, path, scanned, cache, configVars,
                   totalProcessed, totalFiltered, totalCacheHits,
                   totalCacheMisses, historyVars, resetVars>>

Cached == {k \in Keys : cache[k] # NotCached}

\* A new key may have to push out another one.
Evicted(k) ==
    IF k \notin Cached /\ Cardinality(Cached) >= Capacity
    THEN {{v} : v \in Cached} ELSE {{}}

Put(c) ==
    /\ pc[c] = "put"
    /\ LET k == generateKey(PolicyOf[c]) IN
         \E out \in Evicted(k) :
           cache' = [j \in Keys |->
                       IF j = k THEN [answer |-> answer[c], cleared |-> asOf[c]]
                       ELSE IF j \in out THEN NotCached ELSE cache[j]]
    /\ Goes(c, "count")
    /\ UNCHANGED <<storageVars, path, scanned, answer, configVars, statVars,
                   historyVars, resetVars>>

CountProcessed(c) ==
    /\ pc[c] = "count"
    /\ totalProcessed' = totalProcessed + 1
    /\ Goes(c, "done")
    /\ UNCHANGED <<storageVars, path, scanned, answer, cache, configVars,
                   totalFiltered, totalRanked, totalCacheHits,
                   totalCacheMisses, historyVars, resetVars>>

\* What a call does once it has begun.
CallStep(c) == \/ Lookup(c) \/ CountHit(c) \/ CountMiss(c) \/ Scan(c) \/ Filter(c)
               \/ Rank(c) \/ Put(c) \/ CountProcessed(c)

-----------------------------------------------------------------------------
(* The storage and the configuration change.                               *)

StorageChange ==
    /\ StorageNext
    /\ unmatched' = unmatched \cup
                       {c \in Active : Pairs(c) /\ Unmatched(providers', PolicyOf[c])}
    /\ UNCHANGED <<callVars, cache, configVars, statVars, counted, asOf,
                   resetVars>>

\* Variant of SetTopN with a bug: it does not take d.mu.
SetTopNUnlocked(n) ==
    /\ topN' = n
    /\ UNCHANGED <<storageVars, callVars, cache, enableCaching, weights,
                   statVars, historyVars, resetVars>>

\* Operations that take d.mu for writing wait for the calls to return.  None
\* but ResetStats touches what the cache holds.
SetTopN(n) ==
    /\ Active = {}
    /\ topN' = n
    /\ UNCHANGED <<storageVars, callVars, cache, enableCaching, weights,
                   statVars, historyVars, resetVars>>

SetCachingEnabled(enabled) ==
    /\ Active = {}
    /\ enableCaching' = enabled
    /\ UNCHANGED <<storageVars, callVars, cache, topN, weights, statVars,
                   historyVars, resetVars>>

UpdateScoringWeights(w) ==
    /\ Active = {}
    /\ weights' = w
    /\ UNCHANGED <<storageVars, callVars, cache, topN, enableCaching, statVars,
                   historyVars, resetVars>>

\* Set all to zero; the cache is left alone while caching is off.
ZeroAndClear ==
    /\ resets < MaxResets /\ resets' = resets + 1
    /\ totalProcessed' = 0 /\ totalFiltered' = 0 /\ totalRanked' = 0
    /\ totalCacheHits' = 0 /\ totalCacheMisses' = 0
    /\ IF enableCaching
         THEN cache' = [k \in Keys |-> NotCached] /\ cleared' = cleared + 1
         ELSE UNCHANGED <<cache, cleared>>
    /\ counted' = {}
    /\ UNCHANGED <<storageVars, callVars, configVars, asOf, unmatched>>

\* Variant of ResetStats with a bug: it does not take d.mu.
ResetStatsUnlocked == ZeroAndClear

ResetStats == Active = {} /\ ZeroAndClear

-----------------------------------------------------------------------------
Next == \/ \E c \in Calls : Begin(c) \/ BeginPart(c) \/ CallStep(c)
        \/ StorageChange
        \/ \E n \in TopNs : SetTopN(n)
        \/ \E enabled \in BOOLEAN : SetCachingEnabled(enabled)
        \/ \E w \in Weightings : UpdateScoringWeights(w)
        \/ ResetStats

Spec == Init /\ [][Next]_vars

-----------------------------------------------------------------------------
\* Every variable has its type, and the cache respects its capacity.
TypeOK ==
    /\ StorageTypeOK
    /\ pc \in [Calls -> PC] /\ path \in [Calls -> {"none", "hit", "miss", "off"}]
    /\ scanned \in [Calls -> Answers] /\ answer \in [Calls -> Answers]
    /\ \A k \in Cached : cache[k].answer \in Answers /\ cache[k].cleared \in Nat
    /\ Cardinality(Cached) <= Capacity
    /\ topN \in TopNs \cup {DefaultTopN} /\ enableCaching \in BOOLEAN /\ weights \in Weightings
    /\ counted \subseteq Calls /\ unmatched \subseteq Calls
    /\ asOf \in [Calls -> 0..cleared]
    /\ cleared \in 0..resets /\ resets \in 0..MaxResets

\* ResetStats is a barrier for the cache: no call that was in progress fills in,
\* after the cache was cleared, an answer it computed from what was stored
\* before.
ClearedForGood == \A k \in Cached : cache[k].cleared = cleared

\* An empty answer is never stale: at some time during the call no provider
\* passed the filters.  Empty answers are not cached.
EmptyIsFresh ==
    \A c \in Calls : Pairs(c) /\ pc[c] = "done" /\ answer[c] = {} => c \in unmatched

Returned(how) == {c \in counted : pc[c] = "done" /\ path[c] \in how}

\* How many providers a call has let through its filters, and how many it has
\* ranked, in the sense of the statistics.
FilteredBy ==
    [c \in Calls |->
        IF Operation[c] # "RankProviders" /\ pc[c] \in {"rank", "put", "count", "done"}
        THEN Cardinality(scanned[c]) ELSE 0]
RankedBy ==
    [c \in Calls |->
        IF Operation[c] \notin {"FilterProviders", "GetScoringStats"}
             /\ pc[c] \in {"put", "count", "done"}
        THEN Cardinality(scanned[c]) ELSE 0]

\* ResetStats never splits a call: all five counters are exactly what the calls
\* begun since the last reset have got to count so far.
StatsExact ==
    /\ totalCacheHits = Cardinality(Returned({"hit"}))
    /\ totalCacheMisses =
           Cardinality({c \in counted : path[c] = "miss"
                                         /\ pc[c] \notin {"lookup", "miss"}})
    /\ totalProcessed =
           Cardinality({c \in Returned({"miss", "off"}) : answer[c] # {}})
    /\ totalFiltered = SumFunctionOnSet(FilteredBy, counted)
    /\ totalRanked = SumFunctionOnSet(RankedBy, counted)

\* Every provider in an answer, cached or not, passes the filters for a policy
\* that has the cache key of the policy of the call.
AnswersSuitKey ==
    \A c \in Calls : \A p \in answer[c] :
        \E q \in Policies : /\ generateKey(q) = generateKey(PolicyOf[c])
                           /\ Qualifies(p, q)

\* What is expected of an answer: every provider in it passes the filters for
\* the policy of the call itself.  Violated: two policies may have the same key.
AnswersQualify ==
    \A c \in Calls : \A p \in answer[c] : Qualifies(p, PolicyOf[c])

\* SetTopN and a ranking exclude each other: a call that computes its answer
\* returns no more providers than are set when it began, and that cannot change
\* while it runs.  (A cached answer has the length that was set when it was
\* computed, whatever SetTopN has been told since.)
TopNHonoured ==
    \A c \in Active : path[c] # "hit" => Cardinality(answer[c]) <= topN
=============================================================================
