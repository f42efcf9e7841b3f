-------------------------- MODULE LFUCache_proofs --------------------------
(***************************************************************************)
(* Proofs about LFUCache for any finite set of keys, any capacities and    *)
(* any bound on the frequencies.                                           *)
(***************************************************************************)
EXTENDS LFUCache, FiniteSetTheorems, TLAPS

\* What the lists and minFrequency have to do with the items.
Indexes == TypeOK /\ BucketsExact /\ MinBelowAll

LEMMA Bound == MaxFreq \in Nat /\ 0 < MaxFreq
BY LFUCacheAssumption DEF LFUCacheAssumption

LEMMA FreqsFacts ==
    /\ 1 \in Freqs /\ 1 \in 0..MaxFreq /\ 0 \in 0..MaxFreq
    /\ \A f \in 1..MaxFreq : f \in Freqs /\ f + 1 \in Freqs
BY Bound DEF Freqs

\* What evict removes is listed at minFrequency, or nothing.
LEMMA EvictsFacts ==
    ASSUME Indexes, NEW out \in Evictions, Evicts(out)
    PROVE  /\ out = {} \/ \E v \in items : out = {v} /\ freq[v] = minFrequency
           /\ out = {} => bucket[minFrequency] = {}
BY DEF Indexes, TypeOK, BucketsExact, Evicts, items

\* BucketsExact, one key and one list at a time.
Listed == \A f \in Freqs, j \in Keys : j \in bucket[f] <=> freq[j] = f

LEMMA ListedExact == ASSUME TypeOK PROVE Listed <=> BucketsExact
<1>1. \A f \in Freqs : f \in Nat /\ f > 0
  BY DEF Freqs
<1>2. \A f \in Freqs : bucket[f] \subseteq Keys
  BY DEF TypeOK
<1>3. \A f \in Freqs, j \in Keys : freq[j] = f => freq[j] > 0
  BY <1>1
<1>4. ASSUME Listed, NEW f \in Freqs PROVE bucket[f] = {k \in items : freq[k] = f}
  BY <1>2, <1>3, <1>4 DEF Listed, items
<1>5. ASSUME BucketsExact, NEW f \in Freqs, NEW j \in Keys
      PROVE  j \in bucket[f] <=> freq[j] = f
  BY <1>3, <1>5 DEF BucketsExact, items
<1> QED BY <1>4, <1>5 DEF Listed, BucketsExact

LEMMA ListedExactPrime == ASSUME TypeOK' PROVE Listed' <=> BucketsExact'
BY ListedExact, PTL

LEMMA HitIndexes ==
    ASSUME Indexes, NEW k \in Keys, Hit(k)
    PROVE  Indexes'
<1>1. freq[k] \in 1..MaxFreq /\ freq[k] + 1 \in 1..MaxFreq /\ minFrequency \in 1..(MaxFreq + 1)
  BY Bound DEF Hit, items, Indexes, TypeOK, Freqs
<1>2. /\ freq[k] \in Freqs /\ freq[k] + 1 \in Freqs
      /\ freq' = [freq EXCEPT ![k] = freq[k] + 1]
      /\ bucket' = [bucket EXCEPT ![freq[k]] = @ \ {k}, ![freq[k] + 1] = @ \cup {k}]
      /\ UNCHANGED <<capacity, shrinking, lowered>>
  BY <1>1, FreqsFacts DEF Hit, updateFrequency
<1>3. \/ minFrequency' = minFrequency
      \/ minFrequency' = minFrequency + 1 /\ freq[k] = minFrequency
         /\ bucket[minFrequency] \ {k} = {}
  BY DEF Hit, updateFrequency, NextMin
<1>4. \A j \in Keys : freq'[j] = IF j = k THEN freq[k] + 1 ELSE freq[j]
  BY <1>2 DEF Indexes, TypeOK
<1>5. TypeOK'
  <2>1. freq' \in [Keys -> 0..MaxFreq]
    BY <1>1, <1>2, Bound DEF Indexes, TypeOK
  <2>2. bucket' \in [Freqs -> SUBSET Keys]
    BY <1>2 DEF Indexes, TypeOK
  <2>3. minFrequency' \in Freqs
    BY <1>1, <1>3, FreqsFacts DEF Indexes, TypeOK
  <2>4. before' \subseteq Keys \X Keys
    BY DEF Hit, updateFrequency, Stamp, items, Indexes, TypeOK
  <2> QED BY <1>2, <2>1, <2>2, <2>3, <2>4 DEF Indexes, TypeOK
<1>6. Listed'
  <2> DEFINE mid == [bucket EXCEPT ![freq[k]] = @ \ {k}]
  <2>1. \A f \in Freqs : mid[f] = IF f = freq[k] THEN bucket[f] \ {k} ELSE bucket[f]
    BY DEF Indexes, TypeOK
  <2>2. \A f \in Freqs : bucket'[f] = IF f = freq[k] + 1 THEN mid[f] \cup {k} ELSE mid[f]
    BY <1>1, <1>2 DEF Indexes, TypeOK
  <2>3. \A f \in Freqs, j \in Keys : j \in bucket[f] <=> freq[j] = f
    BY ListedExact DEF Indexes, Listed
  <2>4. \A f \in Freqs : f # freq[k] => k \notin bucket[f]
    BY <2>3
  <2>5. freq[k] # freq[k] + 1
    BY <1>1
  <2>6. ASSUME NEW f \in Freqs, NEW j \in Keys PROVE j \in bucket'[f] <=> freq'[j] = f
    <3> DEFINE g == freq[k] + 1
    <3> HIDE DEF mid, g
    <3>1. bucket'[f] = IF f = g THEN mid[f] \cup {k} ELSE mid[f]
      BY <2>2 DEF g
    <3>2. mid[f] = IF f = freq[k] THEN bucket[f] \ {k} ELSE bucket[f]
      BY <2>1
    <3>3. freq'[j] = IF j = k THEN g ELSE freq[j]
      BY <1>4 DEF g
    <3>4. (j \in bucket[f] <=> freq[j] = f) /\ (f # freq[k] => k \notin bucket[f])
      BY <2>3, <2>4
    <3>5. freq[k] # g
      BY <2>5 DEF g
    <3>6. CASE f = g
      BY <3>1, <3>2, <3>3, <3>4, <3>5, <3>6
    <3>7. CASE f # g
      BY <3>1, <3>2, <3>3, <3>4, <3>5, <3>7
    <3> QED BY <3>6, <3>7
  <2> QED BY <2>6 DEF Listed
<1>7. MinBelowAll'
  <2>2. \A j \in items : freq[j] \in Nat /\ minFrequency <= freq[j]
    BY Bound DEF Indexes, TypeOK, MinBelowAll, items
  <2>3. items' = items /\ k \in items
    BY <1>4, <1>1 DEF items, Hit
  <2>4. CASE minFrequency' = minFrequency
    BY <1>4, <2>2, <2>3, <2>4, <1>1 DEF MinBelowAll, items
  <2>5. CASE minFrequency' = minFrequency + 1 /\ freq[k] = minFrequency
             /\ bucket[minFrequency] \ {k} = {}
    <3>1. \A j \in items \ {k} : freq[j] # minFrequency
      BY <2>5, <1>2 DEF Indexes, BucketsExact
    <3> QED BY <3>1, <1>4, <2>2, <2>3, <2>5, <1>1 DEF MinBelowAll, items
  <2> QED BY <1>3, <2>4, <2>5
<1> QED BY <1>5, <1>6, <1>7, ListedExactPrime DEF Indexes

\* What happens to the indexes when the keys in out leave.
LEMMA LeaveIndexes ==
    ASSUME Indexes, NEW out \in Evictions,
           \A v \in out : freq[v] = minFrequency \/ minFrequency' = minFrequency,
           freq' = [j \in Keys |-> IF j \in out THEN 0 ELSE freq[j]],
           bucket' = [f \in Freqs |-> bucket[f] \ out],
           Unstamp(out),
           minFrequency' \in {minFrequency, NextMin(out)},
           UNCHANGED <<capacity, shrinking, lowered>>
    PROVE  Indexes'
<1>1. out \subseteq Keys
  BY DEF Evictions, items
<1>2. minFrequency \in 1..(MaxFreq + 1) /\ \A j \in items : freq[j] \in 1..MaxFreq
  BY Bound DEF Indexes, TypeOK, Freqs, items
<1>3. \/ minFrequency' = minFrequency
      \/ /\ minFrequency' = minFrequency + 1 /\ out # {}
         /\ bucket[minFrequency] \ out = {} /\ \E v \in items : freq[v] = minFrequency
  BY <1>2 DEF NextMin, Evictions
<1>4. TypeOK'
  <2>1. freq' \in [Keys -> 0..MaxFreq] /\ bucket' \in [Freqs -> SUBSET Keys]
    BY FreqsFacts DEF Indexes, TypeOK
  <2>2. before' \subseteq Keys \X Keys
    BY DEF Indexes, TypeOK, Unstamp
  <2>3. minFrequency' \in Freqs
    BY <1>2, <1>3, FreqsFacts DEF Indexes, TypeOK
  <2> QED BY <2>1, <2>2, <2>3 DEF Indexes, TypeOK
<1>5. Listed'
  <2>1. \A f \in Freqs, j \in Keys : j \in bucket[f] <=> freq[j] = f
    BY ListedExact DEF Indexes, Listed
  <2>2. \A f \in Freqs : f # 0
    BY DEF Freqs
  <2> QED BY <2>1, <2>2 DEF Listed
<1>6. MinBelowAll'
  <2>1. items' = items \ out /\ \A j \in items' : freq'[j] = freq[j]
    BY <1>1 DEF items
  <2>2. CASE minFrequency' = minFrequency
    BY <2>1, <2>2 DEF MinBelowAll, Indexes
  <2>3. CASE minFrequency' = minFrequency + 1 /\ bucket[minFrequency] \ out = {}
    <3>1. \A j \in items \ out : freq[j] # minFrequency
      BY <2>3 DEF Indexes, BucketsExact, TypeOK
    <3> QED BY <3>1, <2>1, <2>3, <1>2 DEF MinBelowAll, Indexes
  <2> QED BY <1>3, <2>2, <2>3
<1> QED BY <1>4, <1>5, <1>6, ListedExactPrime DEF Indexes

LEMMA RemoveIndexes ==
    ASSUME Indexes, NEW k \in Keys, Remove(k)
    PROVE  Indexes'
<1>1. freq[k] \in Freqs /\ {k} \in Evictions /\ k \in items
  BY Bound DEF Remove, items, Indexes, TypeOK, Freqs, Evictions
<1>2. freq' = [j \in Keys |-> IF j \in {k} THEN 0 ELSE freq[j]]
  BY DEF Remove, Indexes, TypeOK
<1>3. \A f \in Freqs : f # freq[k] => bucket[f] \ {k} = bucket[f]
  BY DEF Indexes, BucketsExact
<1>4. bucket' = [bucket EXCEPT ![freq[k]] = bucket[freq[k]] \ {k}]
  BY DEF Remove
<1>5. bucket' = [f \in Freqs |-> bucket[f] \ {k}]
  BY <1>1, <1>3, <1>4 DEF Indexes, TypeOK
<1>6. /\ Unstamp({k}) /\ UNCHANGED <<capacity, shrinking, lowered>>
      /\ minFrequency' = IF freq[k] = minFrequency THEN NextMin({k}) ELSE minFrequency
  BY DEF Remove
<1>7. /\ \A v \in {k} : freq[v] = minFrequency \/ minFrequency' = minFrequency
      /\ minFrequency' \in {minFrequency, NextMin({k})}
  BY <1>6
<1> QED BY <1>1, <1>2, <1>5, <1>6, <1>7, LeaveIndexes

LEMMA ShrinkIndexes == ASSUME Indexes, Shrink PROVE Indexes'
<1>1. PICK out \in Evictions :
        /\ Evicts(out)
        /\ freq' = [j \in Keys |-> IF j \in out THEN 0 ELSE freq[j]]
        /\ Unstamp(out)
        /\ bucket' = [f \in Freqs |-> bucket[f] \ out]
        /\ minFrequency' = NextMin(out)
  BY DEF Shrink
<1>2. \A v \in out : freq[v] = minFrequency
  BY <1>1, EvictsFacts
<1>3. UNCHANGED <<capacity, shrinking, lowered>>
  BY DEF Shrink
<1> QED BY <1>1, <1>2, <1>3, LeaveIndexes

LEMMA PutIndexes ==
    ASSUME Indexes, NEW k \in Keys, Put(k)
    PROVE  Indexes'
<1>1. PICK out \in Evictions :
        /\ freq' = [j \in Keys |-> IF j = k THEN 1 ELSE IF j \in out THEN 0 ELSE freq[j]]
        /\ Stamp(k, out)
        /\ bucket' = [f \in Freqs |-> IF f = 1 THEN (bucket[f] \ out) \cup {k}
                                                ELSE bucket[f] \ out]
  BY DEF Put
<1>2. k \notin items /\ minFrequency' = 1 /\ UNCHANGED <<capacity, shrinking, lowered>>
  BY DEF Put
<1>3. TypeOK'
  <2>1. freq' \in [Keys -> 0..MaxFreq] /\ bucket' \in [Freqs -> SUBSET Keys]
    BY <1>1, FreqsFacts DEF Indexes, TypeOK
  <2>2. before' \subseteq Keys \X Keys
    BY <1>1 DEF Indexes, TypeOK, Stamp, items
  <2> QED BY <1>2, <2>1, <2>2, FreqsFacts DEF Indexes, TypeOK
<1>4. Listed'
  <2>1. \A f \in Freqs, j \in Keys : j \in bucket[f] <=> freq[j] = f
    BY ListedExact DEF Indexes, Listed
  <2>2. freq[k] = 0 /\ k \notin out /\ \A f \in Freqs : f # 0
    BY <1>2 DEF items, Indexes, TypeOK, Freqs, Evictions
  <2>3. ASSUME NEW f \in Freqs, NEW j \in Keys PROVE j \in bucket'[f] <=> freq'[j] = f
    <3>1. CASE j = k
      BY <3>1, <1>1, <2>1, <2>2
    <3>2. CASE j # k
      BY <3>2, <1>1, <2>1, <2>2
    <3> QED BY <3>1, <3>2
  <2> QED BY <2>3 DEF Listed
<1>5. MinBelowAll'
  BY <1>2, <1>3 DEF MinBelowAll, TypeOK, items
<1> QED BY <1>3, <1>4, <1>5, ListedExactPrime DEF Indexes

LEMMA ClearIndexes == ASSUME Indexes, Clear PROVE Indexes'
<1>1. TypeOK'
  BY FreqsFacts DEF Clear, Indexes, TypeOK
<1>2. BucketsExact' /\ MinBelowAll'
  BY DEF Clear, BucketsExact, MinBelowAll, items
<1> QED BY <1>1, <1>2 DEF Indexes

LEMMA SetCapacityIndexes ==
    ASSUME Indexes, NEW n \in Capacities, SetCapacity(n)
    PROVE  Indexes'
<1>1. TypeOK'
  <2>1. (lowered \/ n < capacity) \in BOOLEAN
    OBVIOUS
  <2> QED BY <2>1 DEF SetCapacity, Indexes, TypeOK
<1> QED BY <1>1 DEF SetCapacity, Indexes, BucketsExact, MinBelowAll, items

LEMMA InitIndexes == Init => Indexes
<1>1. Init => TypeOK
  BY FreqsFacts DEF Init, TypeOK
<1>2. Init => items = {}
  BY DEF Init, items
<1>3. Init => BucketsExact /\ MinBelowAll
  BY <1>2 DEF Init, BucketsExact, MinBelowAll
<1> QED BY <1>1, <1>3 DEF Indexes

LEMMA NextIndexes == Indexes /\ [Next]_vars => Indexes'
<1> SUFFICES ASSUME Indexes, [Next]_vars PROVE Indexes'
  OBVIOUS
<1>1. ASSUME NEW k \in Keys, Hit(k) PROVE Indexes'
  BY <1>1, HitIndexes
<1>2. ASSUME NEW k \in Keys, Put(k) PROVE Indexes'
  BY <1>2, PutIndexes
<1>3. ASSUME NEW k \in Keys, Remove(k) PROVE Indexes'
  BY <1>3, RemoveIndexes
<1>4. CASE Clear
  BY <1>4, ClearIndexes
<1>5. ASSUME NEW n \in Capacities, SetCapacity(n) PROVE Indexes'
  BY <1>5, SetCapacityIndexes
<1>6. CASE Shrink
  BY <1>6, ShrinkIndexes
<1>7. CASE ShrinkEnd
  BY <1>7 DEF ShrinkEnd, Indexes, TypeOK, BucketsExact, MinBelowAll, items
<1>8. CASE UNCHANGED vars
  BY <1>8 DEF vars, Indexes, TypeOK, BucketsExact, MinBelowAll, items
<1> QED BY <1>1, <1>2, <1>3, <1>4, <1>5, <1>6, <1>7, <1>8 DEF Next

\* Every variable keeps its type: minFrequency in particular always is a
\* frequency that an item can have, although evict, Remove and updateFrequency
\* move it on blindly.
THEOREM TypeCorrect == Spec => []TypeOK
<1>1. Indexes => TypeOK
  BY DEF Indexes
<1> QED BY <1>1, InitIndexes, NextIndexes, PTL DEF Spec

\* The lists by frequency index the items exactly, for any number of keys.
THEOREM BucketsCorrect == Spec => []BucketsExact
<1>1. Indexes => BucketsExact
  BY DEF Indexes
<1> QED BY <1>1, InitIndexes, NextIndexes, PTL DEF Spec

\* The running minimum never passes an item.
THEOREM MinCorrect == Spec => []MinBelowAll
<1>1. Indexes => MinBelowAll
  BY DEF Indexes
<1> QED BY <1>1, InitIndexes, NextIndexes, PTL DEF Spec

-----------------------------------------------------------------------------
\* The number of items, of the items with one more, and with one less.
LEMMA Count ==
    /\ IsFiniteSet(items) /\ Cardinality(items) \in Nat
    /\ \A k \in items : Cardinality(items \ {k}) = Cardinality(items) - 1
    /\ \A k : k \notin items => Cardinality(items \cup {k}) = Cardinality(items) + 1
    /\ \A k \in Keys, v \in items :
          k \notin items => Cardinality((items \ {v}) \cup {k}) = Cardinality(items)
<1>1. IsFiniteSet(items)
  BY LFUCacheAssumption, FS_Subset DEF LFUCacheAssumption, items
<1>2. Cardinality(items) \in Nat
  BY <1>1, FS_CardinalityType
<1>3. ASSUME NEW k \in items
      PROVE  /\ Cardinality(items \ {k}) = Cardinality(items) - 1
             /\ IsFiniteSet(items \ {k})
  BY <1>1, FS_RemoveElement
<1>4. ASSUME NEW k, k \notin items
      PROVE  Cardinality(items \cup {k}) = Cardinality(items) + 1
  BY <1>1, <1>4, FS_AddElement
<1>5. ASSUME NEW k \in Keys, NEW v \in items, k \notin items
      PROVE  Cardinality((items \ {v}) \cup {k}) = Cardinality(items)
  <2>1. Cardinality((items \ {v}) \cup {k}) = Cardinality(items \ {v}) + 1
    BY <1>3, <1>5, FS_AddElement
  <2> QED BY <2>1, <1>2, <1>3
<1> QED BY <1>1, <1>2, <1>3, <1>4, <1>5

LEMMA CapacityFacts == ASSUME TypeOK PROVE capacity \in Nat /\ capacity > 0
BY LFUCacheAssumption DEF TypeOK, LFUCacheAssumption

\* The items of an index that is right are the keys listed in it.
LEMMA HitBounded ==
    ASSUME Indexes, Bounded, NEW k \in Keys, Hit(k)
    PROVE  Bounded'
<1>1. freq[k] \in 1..MaxFreq /\ minFrequency \in Freqs /\ freq[k] + 1 \in Freqs
      /\ minFrequency + 1 \in Int
  BY Bound, FreqsFacts DEF Hit, items, Indexes, TypeOK, Freqs
<1>2. \A j \in Keys : freq'[j] = IF j = k THEN freq[k] + 1 ELSE freq[j]
  BY DEF Hit, updateFrequency, Indexes, TypeOK
<1>3. items' = items /\ UNCHANGED <<capacity, lowered>> /\ k \in items
  BY <1>1, <1>2 DEF Hit, items
<1>4. ASSUME bucket[minFrequency] # {} PROVE bucket'[minFrequency'] # {}
  <2>1. Indexes'
    BY HitIndexes
  <2>2. minFrequency' \in Freqs /\ \A f \in Freqs, j \in Keys : j \in bucket'[f] <=> freq'[j] = f
    BY <2>1, ListedExactPrime DEF Indexes, Listed, TypeOK
  <2>3. \A f \in Freqs, j \in Keys : j \in bucket[f] <=> freq[j] = f
    BY ListedExact DEF Indexes, Listed
  <2>4. \A f \in Freqs : bucket[f] \subseteq Keys
    BY DEF Indexes, TypeOK
  <2>5. PICK j \in Keys : j \in bucket[minFrequency] /\ freq[j] = minFrequency
    BY <1>1, <1>4, <2>3, <2>4
  <2>6. CASE minFrequency' = minFrequency /\ freq[k] # minFrequency
    BY <1>2, <2>2, <2>5, <2>6
  <2>7. CASE freq[k] = minFrequency /\ bucket[minFrequency] \ {k} # {}
    <3>1. minFrequency' = minFrequency
      BY <2>7 DEF Hit, updateFrequency, NextMin
    <3>2. PICK i \in Keys : i # k /\ freq[i] = minFrequency
      BY <1>1, <2>3, <2>4, <2>7
    <3> QED BY <1>2, <2>2, <3>1, <3>2
  <2>8. CASE freq[k] = minFrequency /\ bucket[minFrequency] \ {k} = {}
    <3>1. minFrequency' = freq[k] + 1
      BY <2>8 DEF Hit, updateFrequency, NextMin
    <3> QED BY <1>2, <2>2, <3>1
  <2> QED BY <2>6, <2>7, <2>8 DEF Hit, updateFrequency
<1> QED BY <1>3, <1>4 DEF Bounded

LEMMA PutBounded ==
    ASSUME Indexes, Bounded, NEW k \in Keys, Put(k)
    PROVE  Bounded'
<1>1. PICK out \in Evictions :
        /\ IF AtCapacity THEN Evicts(out) ELSE out = {}
        /\ freq' = [j \in Keys |-> IF j = k THEN 1 ELSE IF j \in out THEN 0 ELSE freq[j]]
        /\ bucket' = [f \in Freqs |-> IF f = 1 THEN (bucket[f] \ out) \cup {k}
                                                ELSE bucket[f] \ out]
  BY DEF Put
<1>2. k \notin items /\ minFrequency' = 1 /\ UNCHANGED <<capacity, lowered>>
  BY DEF Put
<1>3. items' = (items \ out) \cup {k}
  BY <1>1, <1>2 DEF items
<1>4. bucket'[minFrequency'] # {}
  BY <1>1, <1>2, FreqsFacts
<1>5. ASSUME ~lowered PROVE Cardinality(items') <= capacity
  <2>1. Cardinality(items) \in Nat /\ capacity \in Nat /\ Cardinality(items) <= capacity
    BY <1>5, Count, CapacityFacts DEF Bounded, Indexes
  <2>2. CASE AtCapacity
    <3>1. bucket[minFrequency] # {}
      BY <1>5, <2>1, <2>2 DEF AtCapacity, Bounded
    <3>2. PICK v \in items : out = {v}
      BY <1>1, <2>2, <3>1, EvictsFacts
    <3>3. Cardinality(items') = Cardinality(items)
      BY <1>2, <1>3, <3>2, Count
    <3> QED BY <2>1, <3>3
  <2>3. CASE ~AtCapacity
    <3>1. items' = items \cup {k}
      BY <1>1, <1>3, <2>3
    <3>2. Cardinality(items') = Cardinality(items) + 1
      BY <1>2, <3>1, Count
    <3> QED BY <2>1, <2>3, <3>2 DEF AtCapacity
  <2> QED BY <2>2, <2>3
<1> QED BY <1>2, <1>4, <1>5 DEF Bounded

LEMMA RemoveBounded ==
    ASSUME Indexes, Bounded, NEW k \in Keys, Remove(k)
    PROVE  Bounded'
<1>1. k \in items /\ freq' = [freq EXCEPT ![k] = 0] /\ UNCHANGED <<capacity, lowered>>
  BY DEF Remove
<1>2. items' = items \ {k}
  BY <1>1 DEF items, Indexes, TypeOK
<1>3. Cardinality(items') = Cardinality(items) - 1
  BY <1>1, <1>2, Count
<1>4. Cardinality(items) \in Nat /\ capacity \in Nat
  BY Count, CapacityFacts DEF Indexes
<1> QED BY <1>1, <1>3, <1>4 DEF Bounded

LEMMA ClearBounded == ASSUME Indexes, Clear PROVE Bounded'
<1>1. items' = {} /\ capacity' = capacity
  BY DEF Clear, items
<1>2. Cardinality(items') = 0
  BY <1>1, FS_EmptySet
<1> QED BY <1>1, <1>2, CapacityFacts DEF Bounded, Indexes

LEMMA SetCapacityBounded ==
    ASSUME Indexes, Bounded, NEW n \in Capacities, SetCapacity(n)
    PROVE  Bounded'
<1>1. Cardinality(items) \in Nat /\ capacity \in Nat /\ n \in Nat
  BY Count, CapacityFacts, LFUCacheAssumption DEF Indexes, LFUCacheAssumption
<1>2. capacity' = n /\ lowered' = (lowered \/ n < capacity)
      /\ UNCHANGED <<freq, bucket, minFrequency>>
  BY DEF SetCapacity
<1>3. items' = items
  BY <1>2 DEF items
<1>4. ASSUME ~lowered' PROVE ~lowered /\ capacity <= n
  <2>1. ~lowered /\ ~(n < capacity)
    BY <1>2, <1>4, Zenon
  <2> QED BY <1>1, <2>1
<1>5. ASSUME ~lowered'
      PROVE  /\ Cardinality(items') <= capacity'
             /\ Cardinality(items') = capacity' => bucket'[minFrequency'] # {}
  <2>1. /\ Cardinality(items) <= capacity /\ capacity <= n
        /\ Cardinality(items) = capacity => bucket[minFrequency] # {}
    BY <1>4, <1>5 DEF Bounded
  <2>2. Cardinality(items) = n => Cardinality(items) = capacity
    BY <1>1, <2>1
  <2> QED BY <1>1, <1>2, <1>3, <2>1, <2>2
<1> QED BY <1>5 DEF Bounded

\* While the capacity has not been lowered the loop of SetCapacity has nothing
\* to evict.
LEMMA ShrinkBounded == ASSUME Indexes, Bounded, Shrink PROVE Bounded'
<1>1. Cardinality(items) \in Nat /\ capacity \in Nat
  BY Count, CapacityFacts DEF Indexes
<1> QED BY <1>1 DEF Shrink, Bounded

LEMMA NextBounded == Indexes /\ Bounded /\ [Next]_vars => Bounded'
<1> SUFFICES ASSUME Indexes, Bounded, [Next]_vars PROVE Bounded'
  OBVIOUS
<1>1. ASSUME NEW k \in Keys, Hit(k) PROVE Bounded'
  BY <1>1, HitBounded
<1>2. ASSUME NEW k \in Keys, Put(k) PROVE Bounded'
  BY <1>2, PutBounded
<1>3. ASSUME NEW k \in Keys, Remove(k) PROVE Bounded'
  BY <1>3, RemoveBounded
<1>4. CASE Clear
  BY <1>4, ClearBounded
<1>5. ASSUME NEW n \in Capacities, SetCapacity(n) PROVE Bounded'
  BY <1>5, SetCapacityBounded
<1>6. CASE Shrink
  BY <1>6, ShrinkBounded
<1>7. CASE ShrinkEnd
  BY <1>7 DEF ShrinkEnd, Bounded, items
<1>8. CASE UNCHANGED vars
  BY <1>8 DEF vars, Bounded, items
<1> QED BY <1>1, <1>2, <1>3, <1>4, <1>5, <1>6, <1>7, <1>8 DEF Next

LEMMA InitBounded == Init => Bounded
<1> SUFFICES ASSUME Init PROVE Bounded
  OBVIOUS
<1>1. items = {}
  BY DEF Init, items
<1>2. Cardinality(items) = 0
  BY <1>1, FS_EmptySet
<1>3. capacity \in Nat /\ capacity > 0
  BY CapacityFacts, InitIndexes DEF Indexes
<1> QED BY <1>2, <1>3 DEF Bounded

\* Until SetCapacity lowers it, the cache keeps within its capacity and always
\* has a victim at hand when it is full.
THEOREM BoundedCorrect == Spec => []Bounded
BY InitIndexes, NextIndexes, InitBounded, NextBounded, PTL DEF Spec

-----------------------------------------------------------------------------
\* A key that evict removes is one that LFUPolicy allows to leave.
LEMMA VictimLeastUsed ==
    ASSUME Indexes, NEW out \in Evictions, Evicts(out), NEW v \in out
    PROVE  v \in items /\ out = {v} /\ Policy!LeastUsed(v)
<1>1. v \in items /\ out = {v} /\ freq[v] = minFrequency
  BY EvictsFacts
<1>2. ASSUME NEW k \in items \ {v}
      PROVE  freq[v] < freq[k] \/ (freq[v] = freq[k] /\ <<v, k>> \in before)
  <2>1. minFrequency <= freq[k] /\ minFrequency \in Nat /\ freq[k] \in Nat
    BY Bound DEF Indexes, MinBelowAll, TypeOK, Freqs, items
  <2>2. CASE freq[k] = minFrequency
    <3>1. k \in bucket[minFrequency] /\ bucket[minFrequency] # {}
      BY <2>2 DEF Indexes, BucketsExact, TypeOK
    <3> QED BY <1>1, <2>2, <3>1 DEF Evicts
  <2> QED BY <1>1, <2>1, <2>2
<1> QED BY <1>1, <1>2 DEF Policy!LeastUsed, Policy!Cached, items

\* The order of the timestamps, in the words of LFUPolicy.
LEMMA SameOrder ==
    /\ \A k, out : Stamp(k, out)
         => before' = Policy!Forget(out \cup {k}) \cup ((items \ (out \cup {k})) \X {k})
    /\ \A out : Unstamp(out) => before' = Policy!Forget(out)
<1>1. \A out : {p \in before : {p[1], p[2]} \cap out = {}} = Policy!Forget(out)
  BY DEF Policy!Forget
<1> QED BY <1>1 DEF Stamp, Unstamp

LEMMA CachedItems == Policy!Cached = items
BY DEF Policy!Cached, items

\* LFUPolicy's number of elements is this module's.
LEMMA SameCount == \A S : Policy!Cardinality(S) = Cardinality(S)
BY Zenon DEF Policy!Cardinality, Cardinality, Policy!IsFiniteSet, IsFiniteSet

LEMMA HitUses ==
    ASSUME Indexes, NEW k \in Keys, Hit(k)
    PROVE  Policy!Use(k)
<1>1. k \in items /\ UNCHANGED <<capacity, lowered>> /\ Stamp(k, {})
      /\ freq' = [freq EXCEPT ![k] = @ + 1]
  BY DEF Hit, updateFrequency
<1>2. freq' = [j \in Keys |-> IF j = k THEN freq[k] + 1 ELSE IF j \in {} THEN 0 ELSE freq[j]]
  BY <1>1 DEF Indexes, TypeOK
<1> QED BY <1>1, <1>2, SameOrder, CachedItems DEF Policy!Use, Policy!Used

LEMMA PutInserts ==
    ASSUME Indexes, Bounded, NEW k \in Keys, Put(k)
    PROVE  \/ Policy!Insert(k) \/ Policy!Overflow(k)
           \/ \E v \in Keys : Policy!Replace(v, k)
<1>1. PICK out \in Evictions :
        /\ IF AtCapacity THEN Evicts(out) ELSE out = {}
        /\ freq' = [j \in Keys |-> IF j = k THEN 1 ELSE IF j \in out THEN 0 ELSE freq[j]]
        /\ Stamp(k, out)
  BY DEF Put
<1>2. k \notin items /\ UNCHANGED <<capacity, lowered>>
  BY DEF Put
<1>3. Policy!Used(k, 1, out)
  BY <1>1, SameOrder, CachedItems DEF Policy!Used
<1>4. Policy!Full <=> AtCapacity
  BY CachedItems, SameCount DEF Policy!Full, AtCapacity
<1>5. CASE ~AtCapacity
  BY <1>1, <1>2, <1>3, <1>4, <1>5, CachedItems DEF Policy!Insert
<1>6. CASE AtCapacity /\ out # {}
  <2>1. PICK v \in out : v \in items /\ out = {v} /\ Policy!LeastUsed(v)
    BY <1>1, <1>6, VictimLeastUsed
  <2>2. Policy!Replace(v, k)
    BY <1>2, <1>3, <1>4, <1>6, <2>1, CachedItems DEF Policy!Replace
  <2>3. v \in Keys
    BY <2>1 DEF items
  <2> QED BY <2>2, <2>3
<1>7. CASE AtCapacity /\ out = {}
  <2>1. bucket[minFrequency] = {}
    BY <1>1, <1>7, EvictsFacts
  <2>2. Cardinality(items) \in Nat /\ capacity \in Nat
    BY Count, CapacityFacts DEF Indexes
  <2>3. lowered
    BY <1>7, <2>1, <2>2 DEF Bounded, AtCapacity
  <2> QED BY <1>2, <1>3, <1>4, <1>7, <2>3, CachedItems DEF Policy!Overflow
<1> QED BY <1>5, <1>6, <1>7

LEMMA RemoveRemoves ==
    ASSUME Indexes, NEW k \in Keys, Remove(k)
    PROVE  Policy!Remove(k)
<1>1. freq' = [j \in Keys |-> IF j \in {k} THEN 0 ELSE freq[j]]
  BY DEF Remove, Indexes, TypeOK
<1> QED BY <1>1, SameOrder, CachedItems DEF Remove, Policy!Remove, Policy!Left

LEMMA ClearClears == ASSUME Indexes, Clear PROVE Policy!Clear
<1>1. \A p \in before : p[1] \in Keys
  BY DEF Indexes, TypeOK
<1>2. before' = Policy!Forget(Keys)
  BY <1>1 DEF Clear, Policy!Forget
<1>3. freq' = [j \in Keys |-> IF j \in Keys THEN 0 ELSE freq[j]]
  BY DEF Clear
<1> QED BY <1>2, <1>3 DEF Clear, Policy!Clear, Policy!Left

LEMMA ShrinkShrinks ==
    ASSUME Indexes, Shrink
    PROVE  (\E v \in Keys : Policy!Shrink(v)) \/ UNCHANGED <<freq, before, capacity, lowered>>
<1>1. PICK out \in Evictions :
        /\ Evicts(out)
        /\ freq' = [j \in Keys |-> IF j \in out THEN 0 ELSE freq[j]]
        /\ Unstamp(out)
  BY DEF Shrink
<1>2. Cardinality(items) > capacity /\ UNCHANGED <<capacity, lowered>>
  BY DEF Shrink
<1>3. CASE out = {}
  <2>1. before' = before
    BY <1>1, <1>3 DEF Unstamp
  <2>2. freq' = freq
    BY <1>1, <1>3 DEF Indexes, TypeOK
  <2> QED BY <1>2, <2>1, <2>2
<1>4. CASE out # {}
  <2>1. PICK v \in out : v \in items /\ out = {v} /\ Policy!LeastUsed(v)
    BY <1>1, <1>4, VictimLeastUsed
  <2>2. Policy!Shrink(v) /\ v \in Keys
    BY <1>1, <1>2, <2>1, SameOrder, CachedItems, SameCount DEF Policy!Shrink, Policy!Left, items
  <2> QED BY <2>2
<1> QED BY <1>3, <1>4

\* The cache makes room as LFUPolicy says: only when it is full, only by a key
\* used least and longest ago, and it fails to only after SetCapacity has
\* lowered the capacity.
THEOREM ImplementsLFUCorrect == Spec => ImplementsLFU
<1>1. Init => Policy!Init
  BY DEF Init, Policy!Init
<1>2. Indexes /\ Bounded /\ [Next]_vars => [Policy!Next]_(Policy!lfuVars)
  <2> SUFFICES ASSUME Indexes, Bounded, [Next]_vars
               PROVE  Policy!Next \/ UNCHANGED Policy!lfuVars
    OBVIOUS
  <2>1. ASSUME NEW k \in Keys, Hit(k) PROVE Policy!Next
    BY <2>1, HitUses DEF Policy!Next
  <2>2. ASSUME NEW k \in Keys, Put(k) PROVE Policy!Next
    BY <2>2, PutInserts DEF Policy!Next
  <2>3. ASSUME NEW k \in Keys, Remove(k) PROVE Policy!Next
    BY <2>3, RemoveRemoves DEF Policy!Next
  <2>4. CASE Clear
    BY <2>4, ClearClears DEF Policy!Next
  <2>5. ASSUME NEW n \in Capacities, SetCapacity(n) PROVE Policy!Next
    BY <2>5 DEF SetCapacity, Policy!SetCapacity, Policy!Next
  <2>6. CASE Shrink
    BY <2>6, ShrinkShrinks DEF Policy!Next, Policy!lfuVars
  <2>7. CASE ShrinkEnd
    BY <2>7 DEF ShrinkEnd, Policy!lfuVars
  <2>8. CASE UNCHANGED vars
    BY <2>8 DEF vars, Policy!lfuVars
  <2> QED BY <2>1, <2>2, <2>3, <2>4, <2>5, <2>6, <2>7, <2>8 DEF Next
<1> QED BY <1>1, <1>2, InitIndexes, NextIndexes, InitBounded, NextBounded, PTL
       DEF Spec, Policy!Spec, ImplementsLFU
=============================================================================
