------------------------------ MODULE LFUCache ------------------------------
(***************************************************************************)
(* LFUCache of cache/lfu_cache.go.  Every operation holds cache.mu from    *)
(* beginning to end and is one step, except that the loop of SetCapacity   *)
(* takes one step for each call of evict: nothing else can happen while it *)
(* runs.  A key stands for the policies for which generateKey returns it;  *)
(* the cached value and the hit and miss counters are left out.            *)
(*                                                                         *)
(* items is the set of keys with a frequency; a list of frequencies is a   *)
(* set here, as only the timestamps order its elements.  Timestamps are    *)
(* represented by their order.                                             *)
(***************************************************************************)
EXTENDS Integers, FiniteSets

CONSTANTS
    Keys,           \* the keys that policies can have
    Capacities,     \* the positive arguments of NewLFUCache and SetCapacity
    MaxFreq         \* bound: how often a key is used while it is cached

ASSUME LFUCacheAssumption ==
    /\ IsFiniteSet(Keys)
    /\ Capacities \subseteq Nat \ {0}
    /\ MaxFreq \in Nat \ {0}

VARIABLES
    freq,           \* Frequency of the item of a key, 0 if there is no item
    before,         \* <<j, k>>: the timestamp of j's item is before that of k's
    bucket,         \* frequencies: the items listed for each frequency
    minFrequency,
    capacity,
    shrinking,      \* SetCapacity is in its loop, holding cache.mu
    lowered         \* history: SetCapacity has lowered the capacity

vars == <<freq, before, bucket, minFrequency, capacity, shrinking, lowered>>

Freqs == 1..(MaxFreq + 1)

items == {k \in Keys : freq[k] > 0}

Init ==
    /\ freq = [k \in Keys |-> 0] /\ before = {}
    /\ bucket = [f \in Freqs |-> {}]
    /\ minFrequency = 1
    /\ capacity \in Capacities
    /\ shrinking = FALSE /\ lowered = FALSE

\* k's item gets the latest timestamp; the items of the keys in out are gone.
Stamp(k, out) ==
    before' = {p \in before : {p[1], p[2]} \cap (out \cup {k}) = {}}
                \cup ((items \ (out \cup {k})) \X {k})

Unstamp(out) == before' = {p \in before : {p[1], p[2]} \cap out = {}}

\* minFrequency moves on by one when the list at it is found empty after the
\* keys in out have been taken from it.
NextMin(out) ==
    IF out # {} /\ bucket[minFrequency] \ out = {} THEN minFrequency + 1 ELSE minFrequency

updateFrequency(k) ==
    /\ freq' = [freq EXCEPT ![k] = @ + 1]
    /\ Stamp(k, {})
    /\ bucket' = [bucket EXCEPT ![freq[k]] = @ \ {k}, ![freq[k] + 1] = @ \cup {k}]
    /\ minFrequency' = IF freq[k] = minFrequency THEN NextMin({k}) ELSE minFrequency

\* Variant of Evicts with a bug: the youngest item listed goes.
EvictsYoungest(out) ==
    IF bucket[minFrequency] = {} THEN out = {}
    ELSE \E v \in bucket[minFrequency] :
           /\ out = {v}
           /\ \A k \in bucket[minFrequency] \ {v} : <<k, v>> \in before

\* The keys that evict removes: the oldest item listed at minFrequency, or
\* nothing when that list is empty.
Evicts(out) ==
    IF bucket[minFrequency] = {} THEN out = {}
    ELSE \E v \in bucket[minFrequency] :
           /\ out = {v}
           /\ \A k \in bucket[minFrequency] \ {v} : <<v, k>> \in before

Evictions == {{}} \cup {{v} : v \in items}

\* Get and Put of a cached key; a miss of Get changes no more than its counter.
Hit(k) ==
    /\ ~shrinking /\ k \in items /\ freq[k] < MaxFreq
    /\ updateFrequency(k)
    /\ UNCHANGED <<capacity, shrinking, lowered>>

\* Variant of AtCapacity with a bug: off by one.
AboveCapacity == Cardinality(items) > capacity

\* Put has to make room.
AtCapacity == Cardinality(items) >= capacity

\* Variant of Put with a bug: minFrequency is left where it is.
PutKeepsMin(k) ==
    /\ ~shrinking /\ k \notin items /\ ~AtCapacity
    /\ freq' = [freq EXCEPT ![k] = 1]
    /\ Stamp(k, {})
    /\ bucket' = [bucket EXCEPT ![1] = @ \cup {k}]
    /\ UNCHANGED <<minFrequency, capacity, shrinking, lowered>>

\* Put of a key that is not cached.
Put(k) ==
    /\ ~shrinking /\ k \notin items
    /\ \E out \in Evictions :
         /\ IF AtCapacity THEN Evicts(out) ELSE out = {}
         /\ freq' = [j \in Keys |-> IF j = k THEN 1
                                    ELSE IF j \in out THEN 0 ELSE freq[j]]
         /\ Stamp(k, out)
         /\ bucket' = [f \in Freqs |-> IF f = 1 THEN (bucket[f] \ out) \cup {k}
                                                ELSE bucket[f] \ out]
    /\ minFrequency' = 1
    /\ UNCHANGED <<capacity, shrinking, lowered>>

\* Variant of Remove with a bug: the item stays in its list.
RemoveKeepsListed(k) ==
    /\ ~shrinking /\ k \in items
    /\ freq' = [freq EXCEPT ![k] = 0]
    /\ Unstamp({k})
    /\ UNCHANGED <<bucket, minFrequency, capacity, shrinking, lowered>>

Remove(k) ==
    /\ ~shrinking /\ k \in items
    /\ freq' = [freq EXCEPT ![k] = 0]
    /\ Unstamp({k})
    /\ bucket' = [bucket EXCEPT ![freq[k]] = @ \ {k}]
    /\ minFrequency' = IF freq[k] = minFrequency THEN NextMin({k}) ELSE minFrequency
    /\ UNCHANGED <<capacity, shrinking, lowered>>

\* Variant of Clear with a bug: minFrequency gets the zero value.
ClearToZero ==
    /\ ~shrinking
    /\ freq' = [k \in Keys |-> 0] /\ before' = {}
    /\ bucket' = [f \in Freqs |-> {}]
    /\ minFrequency' = 0
    /\ UNCHANGED <<capacity, shrinking, lowered>>

Clear ==
    /\ ~shrinking
    /\ freq' = [k \in Keys |-> 0] /\ before' = {}
    /\ bucket' = [f \in Freqs |-> {}]
    /\ minFrequency' = 1
    /\ UNCHANGED <<capacity, shrinking, lowered>>

\* An argument that is not positive is ignored.
SetCapacity(n) ==
    /\ ~shrinking
    /\ capacity' = n
    /\ shrinking' = TRUE
    /\ lowered' = (lowered \/ n < capacity)
    /\ UNCHANGED <<freq, before, bucket, minFrequency>>

\* One turn of SetCapacity's loop, and its end.
Shrink ==
    /\ shrinking /\ Cardinality(items) > capacity
    /\ \E out \in Evictions :
         /\ Evicts(out)
         /\ freq' = [j \in Keys |-> IF j \in out THEN 0 ELSE freq[j]]
         /\ Unstamp(out)
         /\ bucket' = [f \in Freqs |-> bucket[f] \ out]
         /\ minFrequency' = NextMin(out)
    /\ UNCHANGED <<capacity, shrinking, lowered>>

ShrinkEnd ==
    /\ shrinking /\ Cardinality(items) <= capacity
    /\ shrinking' = FALSE
    /\ UNCHANGED <<freq, before, bucket, minFrequency, capacity, lowered>>

Next == \/ \E k \in Keys : Hit(k) \/ Put(k) \/ Remove(k)
        \/ Clear
        \/ \E n \in Capacities : SetCapacity(n)
        \/ Shrink \/ ShrinkEnd

Spec == Init /\ [][Next]_vars

\* A call of SetCapacity that runs keeps running.
FairSpec == Spec /\ WF_vars(Shrink \/ ShrinkEnd)

-----------------------------------------------------------------------------
\* Every variable has its type.
TypeOK ==
    /\ freq \in [Keys -> 0..MaxFreq]
    /\ before \subseteq Keys \X Keys
    /\ bucket \in [Freqs -> SUBSET Keys]
    /\ minFrequency \in Freqs
    /\ capacity \in Capacities
    /\ shrinking \in BOOLEAN /\ lowered \in BOOLEAN

\* The two indexes agree: an item is listed under its frequency and nowhere
\* else, whatever evict, Remove and updateFrequency did to the lists.
BucketsExact == \A f \in Freqs : bucket[f] = {k \in items : freq[k] = f}

\* minFrequency may point at an empty list but never above an item, so what
\* evict finds there is least used.
MinBelowAll == \A k \in items : minFrequency <= freq[k]

\* Unless SetCapacity has lowered the capacity, the cache never holds more than
\* its capacity: when it is full evict finds an item to remove, although Remove
\* and evict can leave minFrequency at an empty list.
Bounded ==
    ~lowered => /\ Cardinality(items) <= capacity
                /\ Cardinality(items) = capacity => bucket[minFrequency] # {}

Policy == INSTANCE LFUPolicy

\* The cache evicts by least frequent, then least recent use.
ImplementsLFU == Policy!Spec

-----------------------------------------------------------------------------
\* "SetCapacity updates the cache capacity (may trigger evictions)": it returns.
SetCapacityReturns == shrinking ~> ~shrinking
=============================================================================
