----------------------- MODULE PairingProcessor_proofs -----------------------
(***************************************************************************)
(* Proofs about Filters, ProviderStorage and PairingProcessor, for any     *)
(* providers, policies, calls and settings.                                *)
(***************************************************************************)
EXTENDS PairingProcessor, DataLemmas

-----------------------------------------------------------------------------
(* Filters.                                                                *)

LEMMA SupportsAll ==
  ASSUME NEW p \in Providers, NEW q \in Policies
  PROVE  hasAllRequiredFeatures(p, q)
           <=> {Lower[f] : f \in Range(RequiredFeatures[q])}
                   \subseteq {Lower[g] : g \in Range(Features[p])}
BY DEF hasAllRequiredFeatures, Supports

LEMMA RangeOfNone ==
  ASSUME NEW q \in Policies, RequiredFeatures[q] = <<>>
  PROVE  Range(RequiredFeatures[q]) = {}
BY DEF Range

\* The chain of filters lets exactly the providers through that the policy asks
\* for, although it stops early and skips the filters the policy does not need.
THEOREM FiltersCorrect ==
  ASSUME NEW ps \in SUBSET Providers, NEW q \in Policies
  PROVE  ApplyFilters(ps, q) = {p \in ps : Qualifies(p, q)}
<1> USE ModelsAssumption, ProcessorAssumption
<1>1. LocationFilter(ps, q) = {p \in ps : RequiredLocation[q] \in {AnyLocation, Location[p]}}
  BY DEF LocationFilter
<1>2. ASSUME NEW qs \in SUBSET Providers
      PROVE  FeatureFilter(qs, q) = {p \in qs : hasAllRequiredFeatures(p, q)}
  BY RangeOfNone DEF FeatureFilter, hasAllRequiredFeatures
<1>3. ASSUME NEW qs \in SUBSET Providers
      PROVE  StakeFilter(qs, q) = {p \in qs : Stake[p] >= MinStake[q]}
  <2>1. \A p \in qs : Stake[p] \in Nat
    OBVIOUS
  <2>2. MinStake[q] \in Nat
    BY DEF ValidatePolicy
  <2> QED BY <2>1, <2>2 DEF StakeFilter
<1> DEFINE located == LocationFilter(ps, q)
           capable == FeatureFilter(located, q)
<1>4. located \subseteq Providers /\ capable \subseteq Providers
  <2>1. located \subseteq Providers
    BY <1>1
  <2> HIDE DEF located
  <2>2. FeatureFilter(located, q) = {p \in located : hasAllRequiredFeatures(p, q)}
    BY <1>2, <2>1, Zenon
  <2>3. capable \subseteq located
    BY ONLY <2>2
  <2> HIDE DEF capable
  <2> QED BY <2>1, <2>3
<1>5. ApplyFilters(ps, q) = StakeFilter(capable, q)
  <2>1. located = {} => capable = {}
    BY <1>2, <1>4
  <2>2. capable = {} => StakeFilter(capable, q) = {}
    BY <1>3, <1>4
  <2> QED BY <2>1, <2>2 DEF ApplyFilters
<1>6. \A p \in ps : Qualifies(p, q) <=> /\ RequiredLocation[q] \in {AnyLocation, Location[p]}
                                        /\ hasAllRequiredFeatures(p, q)
                                        /\ Stake[p] >= MinStake[q]
  BY SupportsAll DEF Qualifies
<1>7. capable = {p \in located : hasAllRequiredFeatures(p, q)}
  BY <1>2, <1>4
<1>8. StakeFilter(capable, q) = {p \in capable : Stake[p] >= MinStake[q]}
  BY <1>3, <1>4
<1> QED BY <1>1, <1>5, <1>6, <1>7, <1>8

-----------------------------------------------------------------------------
(* ProviderStorage.                                                        *)

LEMMA MinIn ==
  ASSUME NEW I \in SUBSET Nat, I # {}
  PROVE  Min(I) \in I
<1>1. PICK x \in I : \A y \in I : x <= y
  BY LeastNumber
<1> QED BY <1>1 DEF Min

\* What RemoveProvider makes of a list: it takes out an entry of the address, if
\* there is one, and closes the gap.
LEMMA WithoutFacts ==
  ASSUME NEW s \in Seq(Providers), NEW a
  PROVE  \/ /\ \A i \in 1..Len(s) : Address[s[i]] # a
            /\ Without(s, a) = s
         \/ \E k \in 1..Len(s) :
              /\ Address[s[k]] = a
              /\ Without(s, a) \in Seq(Providers)
              /\ Len(Without(s, a)) = Len(s) - 1
              /\ \A i \in 1..Len(s) - 1 :
                   Without(s, a)[i] = IF i < k THEN s[i] ELSE s[i + 1]
<1>1. CASE \A i \in 1..Len(s) : Address[s[i]] # a
  BY <1>1 DEF Without, RemoveFirstMatch
<1>2. CASE \E i \in 1..Len(s) : Address[s[i]] = a
  <2> DEFINE I == {i \in 1..Len(s) : Address[s[i]] = a}
             k == Min(I)
  <2>1. Len(s) \in Nat
    BY LenProperties
  <2>2. k \in 1..Len(s) /\ Address[s[k]] = a
    <3>1. I \in SUBSET Nat /\ I # {}
      BY <1>2, <2>1
    <3>2. k \in I
      BY <3>1, MinIn
    <3> QED BY <3>2
  <2>3. Without(s, a) = SubSeq(s, 1, k - 1) \o SubSeq(s, k + 1, Len(s))
    BY <1>2 DEF Without, RemoveFirstMatch, SelectInSeq, RemoveAt
  <2> HIDE DEF k
  <2>4. \A i \in 1..Len(s) : s[i] \in Providers
    BY ElementOfSeq
  <2> DEFINE front == SubSeq(s, 1, k - 1)
             back  == SubSeq(s, k + 1, Len(s))
  <2>5. /\ front \in Seq(Providers) /\ Len(front) = k - 1
        /\ \A i \in 1..k - 1 : front[i] = s[i]
    <3>1. /\ front \in Seq(Providers)
          /\ Len(front) = IF 1 <= k - 1 THEN (k - 1) - 1 + 1 ELSE 0
          /\ \A i \in 1..(k - 1) - 1 + 1 : front[i] = s[1 + i - 1]
      BY <2>1, <2>2, <2>4, SubSeqProperties
    <3> HIDE DEF front
    <3> QED BY <2>1, <2>2, <3>1
  <2>6. /\ back \in Seq(Providers) /\ Len(back) = Len(s) - k
        /\ \A i \in 1..Len(s) - k : back[i] = s[k + i]
    <3>1. /\ back \in Seq(Providers)
          /\ Len(back) = IF k + 1 <= Len(s) THEN Len(s) - (k + 1) + 1 ELSE 0
          /\ \A i \in 1..Len(s) - (k + 1) + 1 : back[i] = s[(k + 1) + i - 1]
      BY <2>1, <2>2, <2>4, SubSeqProperties
    <3> HIDE DEF back
    <3> QED BY <2>1, <2>2, <3>1
  <2> HIDE DEF front, back
  <2>7. /\ front \o back \in Seq(Providers)
        /\ Len(front \o back) = Len(front) + Len(back)
        /\ \A i \in 1..Len(front) + Len(back) :
             (front \o back)[i] = IF i <= Len(front) THEN front[i] ELSE back[i - Len(front)]
    BY <2>5, <2>6, ConcatProperties
  <2>8. Without(s, a) = front \o back
    BY <2>3 DEF front, back
  <2> HIDE DEF I
  <2>9. ASSUME NEW i \in 1..Len(s) - 1
        PROVE  Without(s, a)[i] = IF i < k THEN s[i] ELSE s[i + 1]
    <3>1. Len(front) + Len(back) = Len(s) - 1
      BY <2>1, <2>2, <2>5, <2>6
    <3>2. CASE i < k
      BY <2>1, <2>2, <2>5, <2>7, <2>8, <3>1, <3>2
    <3>3. CASE i >= k
      <4>1. (front \o back)[i] = back[i - (k - 1)]
        BY <2>1, <2>2, <2>5, <2>7, <3>1, <3>3
      <4>2. back[i - (k - 1)] = s[k + (i - (k - 1))]
        BY <2>1, <2>2, <2>6, <3>3
      <4>3. k + (i - (k - 1)) = i + 1
        BY <2>1, <2>2
      <4> QED BY <2>1, <2>2, <2>8, <3>3, <4>1, <4>2, <4>3
    <3> QED BY <2>1, <2>2, <3>2, <3>3
  <2>10. Without(s, a) \in Seq(Providers) /\ Len(Without(s, a)) = Len(s) - 1
    BY <2>1, <2>2, <2>5, <2>6, <2>7, <2>8
  <2> QED BY <2>2, <2>9, <2>10
<1> QED BY <1>1, <1>2

-----------------------------------------------------------------------------
(* The index by location, as it changes.                                   *)

\* What makes IndexExact inductive: an entry is in the list of its location; and
\* unless its address was added again while it was stored, the entry is a stored
\* provider and the only one of its address.
IndexInv ==
    \A l \in Locations :
      /\ \A p \in providers : Location[p] = l =>
           \E i \in 1..Len(providersByLocation[l]) : providersByLocation[l][i] = p
      /\ \A i \in 1..Len(providersByLocation[l]) :
           /\ Location[providersByLocation[l][i]] = l
           /\ Address[providersByLocation[l][i]] \notin readded => providersByLocation[l][i] \in providers
      /\ \A i, j \in 1..Len(providersByLocation[l]) :
           /\ Address[providersByLocation[l][i]] = Address[providersByLocation[l][j]]
           /\ Address[providersByLocation[l][i]] \notin readded
           => i = j

StorageInv == StorageTypeOK /\ IndexInv

LEMMA StorageTypes ==
  ASSUME StorageTypeOK, NEW l \in Locations
  PROVE  /\ providersByLocation[l] \in Seq(Providers)
         /\ Len(providersByLocation[l]) \in Nat
         /\ DOMAIN providersByLocation[l] = 1..Len(providersByLocation[l])
         /\ \A i \in 1..Len(providersByLocation[l]) : providersByLocation[l][i] \in Providers
<1>1. providersByLocation[l] \in Seq(Providers)
  BY DEF StorageTypeOK
<1> QED BY <1>1, LenProperties, ElementOfSeq

LEMMA InitStorage == StorageInit => StorageInv
<1> SUFFICES ASSUME StorageInit PROVE StorageInv
  OBVIOUS
<1>1. StorageTypeOK
  BY StorageAssumption, EmptySeq DEF StorageInit, StorageTypeOK
<1>2. IndexInv
  BY EmptySeq DEF StorageInit, IndexInv
<1> QED BY <1>1, <1>2 DEF StorageInv

\* Every list of the index in terms of its entries, for a proof that looks at one.
LEMMA IndexOf ==
  ASSUME StorageInv, NEW l \in Locations, NEW s, NEW n, s = providersByLocation[l], n = Len(s)
  PROVE  /\ s \in Seq(Providers) /\ n \in Nat /\ \A i \in 1..n : s[i] \in Providers
         /\ \A q \in providers : Location[q] = l => \E i \in 1..n : s[i] = q
         /\ \A i \in 1..n : /\ Location[s[i]] = l
                            /\ Address[s[i]] \notin readded => s[i] \in providers
         /\ \A i, j \in 1..n : Address[s[i]] = Address[s[j]] /\ Address[s[i]] \notin readded
                               => i = j
BY StorageTypes DEF StorageInv, IndexInv

LEMMA AddKeepsStorage ==
  ASSUME StorageInv, NEW p \in Providers, AddProvider(p)
  PROVE  StorageInv'
<1> DEFINE a == Address[p]
<1>1. a \in Addresses /\ Location[p] \in Locations
  BY DEF Addresses, Locations
<1>2. StorageTypeOK
  BY DEF StorageInv
<1>3. ASSUME NEW l \in Locations
      PROVE  /\ Append(providersByLocation[l], p) \in Seq(Providers)
             /\ Len(Append(providersByLocation[l], p)) = Len(providersByLocation[l]) + 1
             /\ \A i \in 1..Len(providersByLocation[l]) :
                  Append(providersByLocation[l], p)[i] = providersByLocation[l][i]
             /\ Append(providersByLocation[l], p)[Len(providersByLocation[l]) + 1] = p
  BY <1>2, StorageTypes, AppendProperties
<1>4. StorageTypeOK'
  <2>1. providersByLocation' \in [Locations -> Seq(Providers)]
    BY <1>1, <1>2, <1>3 DEF AddProvider, StorageTypeOK
  <2>2. providers' \subseteq Providers
        /\ \A q, r \in providers' : Address[q] = Address[r] => q = r
    BY <1>2 DEF AddProvider, StorageTypeOK, At
  <2>3. readded' \subseteq Addresses /\ adds' \in 0..MaxAdds
    BY <1>1, <1>2, StorageAssumption DEF AddProvider, StorageTypeOK
  <2> QED BY <2>1, <2>2, <2>3 DEF StorageTypeOK
\* What was stored and has not been added again is still stored, and has not
\* the address of p.
<1>5. \A q : q \notin readded' => q \notin readded
  BY DEF AddProvider
<1>6. ASSUME NEW q \in providers, Address[q] \notin readded'
      PROVE  q \in providers' /\ Address[q] # a
  BY <1>6 DEF AddProvider, At
<1>7. p \in providers' /\ \A q \in providers' : q = p \/ q \in providers
  BY DEF AddProvider
<1>8. ASSUME NEW l \in Locations
      PROVE  \E t, m :
               /\ t = providersByLocation'[l] /\ m = Len(t)
               /\ \A q \in providers' : Location[q] = l => \E i \in 1..m : t[i] = q
               /\ \A i \in 1..m : /\ Location[t[i]] = l
                                  /\ Address[t[i]] \notin readded' => t[i] \in providers'
               /\ \A i, j \in 1..m : Address[t[i]] = Address[t[j]] /\ Address[t[i]] \notin readded'
                                     => i = j
  <2>1. PICK s, n : s = providersByLocation[l] /\ n = Len(s)
    OBVIOUS
  <2>2. PICK t, m : t = providersByLocation'[l] /\ m = Len(t)
    OBVIOUS
  <2>3. /\ s \in Seq(Providers) /\ n \in Nat /\ \A i \in 1..n : s[i] \in Providers
        /\ \A q \in providers : Location[q] = l => \E i \in 1..n : s[i] = q
        /\ \A i \in 1..n : /\ Location[s[i]] = l
                           /\ Address[s[i]] \notin readded => s[i] \in providers
        /\ \A i, j \in 1..n : Address[s[i]] = Address[s[j]] /\ Address[s[i]] \notin readded
                              => i = j
    BY <2>1, IndexOf
  <2>4. t = IF l = Location[p] THEN Append(s, p) ELSE s
    BY <1>2, <2>1, <2>2 DEF AddProvider, StorageTypeOK
  <2>5. CASE l # Location[p]
    <3>1. t = s /\ m = n
      BY <2>1, <2>2, <2>4, <2>5
    <3>2. \A i \in 1..n : Address[s[i]] \notin readded' => s[i] \in providers'
      BY <1>5, <1>6, <2>3
    <3>3. \A q \in providers' : Location[q] = l => q \in providers
      BY <1>7, <2>5
    <3> QED BY <1>5, <2>2, <2>3, <3>1, <3>2, <3>3
  <2>6. CASE l = Location[p]
    <3>1. /\ m = n + 1 /\ t[n + 1] = p
          /\ \A i \in 1..n : t[i] = s[i]
      BY <1>3, <2>1, <2>2, <2>4, <2>6
    <3>2. \A i \in 1..n : Address[t[i]] \notin readded' =>
            t[i] \in providers /\ t[i] \in providers' /\ Address[t[i]] # a
      BY <1>5, <1>6, <2>3, <3>1
    <3>3. \A i \in 1..m : i \in 1..n \/ i = n + 1
      BY <2>3, <3>1
    <3>4. ASSUME NEW q \in providers', Location[q] = l
          PROVE  \E i \in 1..m : t[i] = q
      <4>1. CASE q = p
        BY <2>3, <3>1, <4>1
      <4>2. CASE q \in providers
        BY <2>3, <3>1, <3>4, <4>2
      <4> QED BY <1>7, <4>1, <4>2
    <3>5. \A i \in 1..m : Location[t[i]] = l /\ (Address[t[i]] \notin readded' => t[i] \in providers')
      BY <1>7, <2>3, <2>6, <3>1, <3>2, <3>3
    <3>6. ASSUME NEW i \in 1..m, NEW j \in 1..m,
                 Address[t[i]] = Address[t[j]], Address[t[i]] \notin readded'
          PROVE  i = j
      <4>1. CASE i \in 1..n /\ j \in 1..n
        BY <1>5, <2>3, <3>1, <3>6, <4>1
      <4>2. CASE i = n + 1 \/ j = n + 1
        BY <3>1, <3>2, <3>3, <3>6, <4>2
      <4> QED BY <3>3, <4>1, <4>2
    <3> QED BY <2>2, <3>4, <3>5, <3>6
  <2> QED BY <2>5, <2>6
<1>9. IndexInv'
  <2> SUFFICES ASSUME NEW l \in Locations
               PROVE  /\ \A q \in providers' : Location[q] = l =>
                           \E i \in 1..Len(providersByLocation'[l]) :
                              providersByLocation'[l][i] = q
                      /\ \A i \in 1..Len(providersByLocation'[l]) :
                           /\ Location[providersByLocation'[l][i]] = l
                           /\ Address[providersByLocation'[l][i]] \notin readded'
                                => providersByLocation'[l][i] \in providers'
                      /\ \A i, j \in 1..Len(providersByLocation'[l]) :
                           /\ Address[providersByLocation'[l][i]] = Address[providersByLocation'[l][j]]
                           /\ Address[providersByLocation'[l][i]] \notin readded'
                           => i = j
    BY DEF IndexInv
  <2>1. PICK t, m :
               /\ t = providersByLocation'[l] /\ m = Len(t)
               /\ \A q \in providers' : Location[q] = l => \E i \in 1..m : t[i] = q
               /\ \A i \in 1..m : /\ Location[t[i]] = l
                                  /\ Address[t[i]] \notin readded' => t[i] \in providers'
               /\ \A i, j \in 1..m : Address[t[i]] = Address[t[j]] /\ Address[t[i]] \notin readded'
                                     => i = j
    BY <1>8
  <2> QED BY <2>1
<1> QED BY <1>4, <1>9 DEF StorageInv

LEMMA RemoveKeepsStorage ==
  ASSUME StorageInv, NEW a \in Addresses, RemoveProvider(a)
  PROVE  StorageInv'
<1>1. PICK p \in At(a) :
        providersByLocation' = [providersByLocation EXCEPT ![Location[p]] = Without(@, a)]
  BY DEF RemoveProvider
<1>2. StorageTypeOK
  BY DEF StorageInv
<1>3. /\ p \in providers /\ p \in Providers /\ Address[p] = a /\ Location[p] \in Locations
      /\ At(a) = {p} /\ providers' = providers \ {p} /\ readded' = readded /\ adds' = adds
  BY <1>1, <1>2 DEF At, StorageTypeOK, RemoveProvider, Locations
<1>4. StorageTypeOK'
  <2>1. Without(providersByLocation[Location[p]], a) \in Seq(Providers)
    BY <1>2, <1>3, StorageTypes, WithoutFacts
  <2>2. providersByLocation' \in [Locations -> Seq(Providers)]
    BY <1>1, <1>2, <1>3, <2>1 DEF StorageTypeOK
  <2> QED BY <1>2, <1>3, <2>2 DEF StorageTypeOK
<1>5. ASSUME NEW l \in Locations
      PROVE  \E t, m :
               /\ t = providersByLocation'[l] /\ m = Len(t)
               /\ \A q \in providers' : Location[q] = l => \E i \in 1..m : t[i] = q
               /\ \A i \in 1..m : /\ Location[t[i]] = l
                                  /\ Address[t[i]] \notin readded' => t[i] \in providers'
               /\ \A i, j \in 1..m : Address[t[i]] = Address[t[j]] /\ Address[t[i]] \notin readded'
                                     => i = j
  <2>1. PICK s, n : s = providersByLocation[l] /\ n = Len(s)
    OBVIOUS
  <2>2. PICK t, m : t = providersByLocation'[l] /\ m = Len(t)
    OBVIOUS
  <2>3. /\ s \in Seq(Providers) /\ n \in Nat /\ \A i \in 1..n : s[i] \in Providers
        /\ \A q \in providers : Location[q] = l => \E i \in 1..n : s[i] = q
        /\ \A i \in 1..n : /\ Location[s[i]] = l
                           /\ Address[s[i]] \notin readded => s[i] \in providers
        /\ \A i, j \in 1..n : Address[s[i]] = Address[s[j]] /\ Address[s[i]] \notin readded
                              => i = j
    BY <2>1, IndexOf
  <2>4. t = IF l = Location[p] THEN Without(s, a) ELSE s
    BY <1>1, <1>2, <1>3, <2>1, <2>2 DEF StorageTypeOK
  <2>5. CASE t = s /\ \A i \in 1..n : s[i] # p
    BY <1>3, <2>1, <2>2, <2>3, <2>5
  <2>6. ASSUME NEW k \in 1..n, Address[s[k]] = a, l = Location[p], Len(t) = n - 1,
               \A i \in 1..n - 1 : t[i] = IF i < k THEN s[i] ELSE s[i + 1]
        PROVE  /\ \A q \in providers' : Location[q] = l => \E i \in 1..m : t[i] = q
               /\ \A i \in 1..m : /\ Location[t[i]] = l
                                  /\ Address[t[i]] \notin readded' => t[i] \in providers'
               /\ \A i, j \in 1..m : Address[t[i]] = Address[t[j]] /\ Address[t[i]] \notin readded'
                                     => i = j
    \* Where the entries of t were in s.
    <3> DEFINE old(i) == IF i < k THEN i ELSE i + 1
    <3>1. /\ \A i \in 1..m : old(i) \in 1..n /\ old(i) # k /\ t[i] = s[old(i)]
          /\ \A i, j \in 1..m : old(i) = old(j) => i = j
      <4>1. n \in Nat /\ k \in 1..n /\ m = n - 1
            /\ \A i \in 1..n - 1 : t[i] = IF i < k THEN s[i] ELSE s[i + 1]
        BY <2>2, <2>3, <2>6
      <4> QED BY ONLY <4>1
    <3>2. ASSUME NEW h \in 1..n, h # k
          PROVE  \E i \in 1..m : old(i) = h
      <4>1. CASE h < k
        <5>1. h \in 1..m /\ old(h) = h
          BY <2>2, <2>3, <2>6, <4>1
        <5> QED BY <5>1
      <4>2. CASE h > k
        <5>1. h - 1 \in 1..m /\ old(h - 1) = h
          BY <2>2, <2>3, <2>6, <4>2
        <5> QED BY <5>1
      <4>3. h < k \/ h > k
        BY <2>3, <2>6, <3>2
      <4> QED BY <4>1, <4>2, <4>3
    <3> HIDE DEF old
    <3>3. \A i \in 1..m : Address[t[i]] \notin readded => Address[t[i]] # a
      BY <2>3, <2>6, <3>1
    <3>4. ASSUME NEW q \in providers', Location[q] = l
          PROVE  \E i \in 1..m : t[i] = q
      <4>1. q \in providers /\ q # p
        BY <1>3
      <4>2. PICK h \in 1..n : s[h] = q
        BY <2>3, <3>4, <4>1
      <4>3. h # k
        BY <1>2, <1>3, <2>6, <4>1, <4>2 DEF StorageTypeOK
      <4> QED BY <3>1, <3>2, <4>2, <4>3
    <3>5. \A i \in 1..m : Location[t[i]] = l /\ (Address[t[i]] \notin readded' => t[i] \in providers')
      BY <1>3, <2>3, <3>1, <3>3
    <3>6. \A i, j \in 1..m : Address[t[i]] = Address[t[j]] /\ Address[t[i]] \notin readded' => i = j
      BY <1>3, <2>3, <3>1
    <3> QED BY <3>4, <3>5, <3>6
  <2>7. CASE l # Location[p]
    <3>1. t = s /\ \A i \in 1..n : s[i] # p
      BY <2>3, <2>4, <2>7
    <3> QED BY <2>5, <3>1
  <2>8. CASE l = Location[p]
    <3>1. \/ t = s /\ \A i \in 1..n : s[i] # p
          \/ \E k \in 1..n :
               /\ Address[s[k]] = a /\ Len(t) = n - 1
               /\ \A i \in 1..n - 1 : t[i] = IF i < k THEN s[i] ELSE s[i + 1]
      <4>1. t = Without(s, a)
        BY <2>4, <2>8
      <4>2. CASE (\A i \in 1..Len(s) : Address[s[i]] # a) /\ Without(s, a) = s
        BY <1>3, <2>1, <4>1, <4>2
      <4>3. CASE \E k \in 1..Len(s) :
                   /\ Address[s[k]] = a
                   /\ Without(s, a) \in Seq(Providers)
                   /\ Len(Without(s, a)) = Len(s) - 1
                   /\ \A i \in 1..Len(s) - 1 :
                        Without(s, a)[i] = IF i < k THEN s[i] ELSE s[i + 1]
        BY <2>1, <4>1, <4>3
      <4> QED BY <2>3, <4>2, <4>3, WithoutFacts
    <3>2. CASE t = s /\ \A i \in 1..n : s[i] # p
      BY <2>5, <3>2
    <3>3. CASE \E k \in 1..n :
                 /\ Address[s[k]] = a /\ Len(t) = n - 1
                 /\ \A i \in 1..n - 1 : t[i] = IF i < k THEN s[i] ELSE s[i + 1]
      <4>1. PICK k \in 1..n :
                 /\ Address[s[k]] = a /\ Len(t) = n - 1
                 /\ \A i \in 1..n - 1 : t[i] = IF i < k THEN s[i] ELSE s[i + 1]
        BY <3>3
      <4>2. /\ \A q \in providers' : Location[q] = l => \E i \in 1..m : t[i] = q
            /\ \A i \in 1..m : /\ Location[t[i]] = l
                               /\ Address[t[i]] \notin readded' => t[i] \in providers'
            /\ \A i, j \in 1..m : Address[t[i]] = Address[t[j]] /\ Address[t[i]] \notin readded'
                                  => i = j
        BY <2>6, <2>8, <4>1
      <4> QED BY <2>2, <4>2
    <3> QED BY <3>1, <3>2, <3>3
  <2> QED BY <2>7, <2>8
<1>6. IndexInv'
  <2> SUFFICES ASSUME NEW l \in Locations
               PROVE  /\ \A q \in providers' : Location[q] = l =>
                           \E i \in 1..Len(providersByLocation'[l]) :
                              providersByLocation'[l][i] = q
                      /\ \A i \in 1..Len(providersByLocation'[l]) :
                           /\ Location[providersByLocation'[l][i]] = l
                           /\ Address[providersByLocation'[l][i]] \notin readded'
                                => providersByLocation'[l][i] \in providers'
                      /\ \A i, j \in 1..Len(providersByLocation'[l]) :
                           /\ Address[providersByLocation'[l][i]] = Address[providersByLocation'[l][j]]
                           /\ Address[providersByLocation'[l][i]] \notin readded'
                           => i = j
    BY DEF IndexInv
  <2>1. PICK t, m :
               /\ t = providersByLocation'[l] /\ m = Len(t)
               /\ \A q \in providers' : Location[q] = l => \E i \in 1..m : t[i] = q
               /\ \A i \in 1..m : /\ Location[t[i]] = l
                                  /\ Address[t[i]] \notin readded' => t[i] \in providers'
               /\ \A i, j \in 1..m : Address[t[i]] = Address[t[j]] /\ Address[t[i]] \notin readded'
                                     => i = j
    BY <1>5
  <2> QED BY <2>1
<1> QED BY <1>4, <1>6 DEF StorageInv

\* The index is exact as long as nothing is added again, and complete always.
LEMMA IndexFollows == StorageInv => IndexExact
<1> SUFFICES ASSUME StorageInv, NEW l \in Locations
             PROVE  LET stored == {p \in providers : Location[p] = l}
                    IN  /\ stored \subseteq Indexed(l)
                        /\ {p \in Indexed(l) : Address[p] \notin readded} \subseteq stored
                        /\ readded = {} => Len(providersByLocation[l]) = Cardinality(stored)
  BY DEF IndexExact
<1> USE DEF StorageInv
<1> DEFINE stored == {p \in providers : Location[p] = l}
           s == providersByLocation[l]
           n == Len(s)
<1>1. n \in Nat /\ DOMAIN s = 1..n /\ s \in Seq(Providers)
  BY StorageTypes
<1>2. /\ \A p \in providers : Location[p] = l => \E i \in 1..n : s[i] = p
      /\ \A i \in 1..n : Location[s[i]] = l /\ (Address[s[i]] \notin readded => s[i] \in providers)
      /\ \A i, j \in 1..n : Address[s[i]] = Address[s[j]] /\ Address[s[i]] \notin readded => i = j
  BY DEF IndexInv
<1>3. Indexed(l) = {s[i] : i \in 1..n}
  BY <1>1 DEF Indexed
<1>4. ASSUME readded = {}
      PROVE  n = Cardinality(stored)
  <2>1. \A i \in 1..n : Address[s[i]] \notin readded
    BY <1>4
  <2>2. s \in [1..n -> stored]
    <3>1. s \in [1..n -> Providers]
      BY <1>1, LenProperties
    <3>2. \A i \in 1..n : s[i] \in stored
      BY <1>2, <2>1
    <3> HIDE DEF s, n, stored
    <3> QED BY <3>1, <3>2
  <2>3. \A i, j \in 1..n : s[i] = s[j] => i = j
    BY <1>2, <2>1
  <2>4. \A p \in stored : \E i \in 1..n : s[i] = p
    BY <1>2
  <2> HIDE DEF s, n, stored
  <2>5. s \in Bijection(1..n, stored)
    BY <2>2, <2>3, <2>4 DEF Bijection, Injection, Surjection, IsInjective
  <2> QED BY <1>1, <2>5, FS_CountingElements DEF ExistsBijection
<1> QED BY <1>2, <1>3, <1>4

-----------------------------------------------------------------------------
(* The calls: types.                                                       *)

\* Ranking takes some of the providers, at least one if there are any, and no
\* more than it is told to.
LEMMA TopFacts ==
  ASSUME NEW ps \in SUBSET Providers, NEW n \in Nat \ {0}, NEW q, NEW T \in Top(ps, n, q)
  PROVE  T \subseteq ps /\ Cardinality(T) <= n /\ (ps # {} => T # {})
<1>1. PICK s \in [1..Cardinality(ps) -> ps] : T = {s[i] : i \in {j \in DOMAIN s : j <= n}}
  BY DEF Top, Rankings
<1> DEFINE I == {j \in DOMAIN s : j <= n}
<1>2. IsFiniteSet(ps) /\ Cardinality(ps) \in Nat
  BY ModelsAssumption, FS_Subset, FS_CardinalityType
<1>3. I \subseteq 1..n /\ IsFiniteSet(1..n) /\ Cardinality(1..n) = n
  <2>1. Cardinality(1..n) = IF 1 > n THEN 0 ELSE n - 1 + 1
    BY FS_Interval
  <2>2. IsFiniteSet(1..n)
    BY FS_Interval
  <2> QED BY <1>2, <2>1, <2>2
<1>4. IsFiniteSet(I) /\ Cardinality(I) <= n
  BY <1>3, FS_Subset
<1>5. T = {s[i] : i \in I}
  BY <1>1
<1>6. ps # {} => 1 \in I
  <2>1. ps # {} => Cardinality(ps) # 0
    BY <1>2, FS_EmptySet
  <2> QED BY <1>2, <2>1
<1>7. T \subseteq ps
  BY <1>1
<1> HIDE DEF I
<1>8. Cardinality(T) <= n
  <2> DEFINE f == [i \in I |-> s[i]]
  <2>1. f \in Surjection(I, T)
    BY <1>5 DEF Surjection
  <2>2. Cardinality(T) <= Cardinality(I) /\ IsFiniteSet(T)
    BY <1>4, <2>1, FS_Surjection
  <2>3. Cardinality(T) \in Nat /\ Cardinality(I) \in Nat
    BY <1>4, <2>2, FS_CardinalityType
  <2> QED BY <1>4, <2>2, <2>3
<1> QED BY <1>5, <1>6, <1>7, <1>8

\* Where a call of a part begins, and with what.
LEMMA EntryFacts ==
  ASSUME NEW c \in Calls, ~Pairs(c)
  PROVE  /\ ListOf[c] \in SUBSET Providers
         /\ \/ Operation[c] = "GetScoringStats" /\ Entry[Operation[c]] = "scan" /\ ListOf[c] = {}
            \/ Operation[c] = "FilterProviders" /\ Entry[Operation[c]] = "filter"
            \/ Operation[c] = "RankProviders" /\ Entry[Operation[c]] = "rank"
BY ProcessorAssumption DEF Entry

LEMMA FilteredFrom ==
  ASSUME NEW ps \in SUBSET Providers, NEW q \in Policies
  PROVE  ApplyFilters(ps, q) \subseteq ps
BY FiltersCorrect

TypeInv == TypeOK /\ StorageInv /\ IsFiniteSet(Cached)

LEMMA InitTypes == Init => TypeInv
<1> SUFFICES ASSUME Init PROVE TypeInv
  OBVIOUS
<1>1. StorageInv
  BY InitStorage DEF Init
<1>2. Cached = {}
  BY DEF Init, Cached
<1>3. IsFiniteSet(Cached) /\ Cardinality(Cached) = 0
  BY <1>2, FS_EmptySet
<1>4. TypeOK
  BY <1>1, <1>2, <1>3, ProcessorAssumption DEF Init, TypeOK, StorageInv, PC, Answers
<1> QED BY <1>1, <1>3, <1>4 DEF TypeInv

\* The storage changes by its own operations alone.
LEMMA StorageStep == StorageInv /\ [Next]_vars => StorageInv'
<1> SUFFICES ASSUME StorageInv, [Next]_vars PROVE StorageInv'
  OBVIOUS
<1>1. CASE StorageNext
  BY <1>1, AddKeepsStorage, RemoveKeepsStorage DEF StorageNext
<1>2. CASE UNCHANGED storageVars
  BY <1>2 DEF storageVars, StorageInv, StorageTypeOK, IndexInv
<1>3. StorageNext \/ UNCHANGED storageVars
  BY DEF Next, Begin, BeginPart, CallStep, Lookup, CountHit, CountMiss, Scan, Filter, FilterKeeping, Rank,
         Put, CountProcessed, StorageChange, SetTopN, SetCachingEnabled, UpdateScoringWeights,
         ResetStats, ZeroAndClear, vars
<1> QED BY <1>1, <1>2, <1>3

\* An entry of the cache that Put did not write was there before, and the cache
\* keeps to its capacity.
LEMMA PutFacts ==
  ASSUME TypeInv, NEW c \in Calls, Put(c)
  PROVE  /\ \A k \in Cached' : \/ cache'[k] = [answer |-> answer[c], cleared |-> asOf[c]]
                                  /\ k = generateKey(PolicyOf[c])
                               \/ k \in Cached /\ cache'[k] = cache[k]
         /\ IsFiniteSet(Cached') /\ Cardinality(Cached') <= Capacity
<1> DEFINE k == generateKey(PolicyOf[c])
<1>1. k \in Keys
  BY ProcessorAssumption DEF Keys
<1>2. PICK out \in Evicted(k) :
        cache' = [j \in Keys |-> IF j = k THEN [answer |-> answer[c], cleared |-> asOf[c]]
                                 ELSE IF j \in out THEN NotCached ELSE cache[j]]
  BY DEF Put
<1>3. IsFiniteSet(Cached) /\ Cardinality(Cached) \in Nat /\ Cardinality(Cached) <= Capacity
      /\ Capacity \in Nat
  BY ProcessorAssumption, FS_CardinalityType DEF TypeInv, TypeOK
<1> HIDE DEF k
<1>4. \A j \in Cached' : \/ cache'[j] = [answer |-> answer[c], cleared |-> asOf[c]] /\ j = k
                         \/ j \in Cached /\ cache'[j] = cache[j] /\ j \notin out
  BY <1>1, <1>2 DEF Cached
<1>5. Cached' \subseteq (Cached \ out) \cup {k}
  BY <1>4
<1>6. IsFiniteSet((Cached \ out) \cup {k}) /\ Cardinality((Cached \ out) \cup {k}) <= Capacity
  <2>1. CASE k \in Cached /\ out = {}
    <3>1. (Cached \ out) \cup {k} = Cached
      BY <2>1
    <3> QED BY <1>3, <3>1
  <2>2. CASE k \notin Cached /\ Cardinality(Cached) < Capacity /\ out = {}
    <3>1. (Cached \ out) \cup {k} = Cached \cup {k}
      BY <2>2
    <3>2. IsFiniteSet(Cached \cup {k}) /\ Cardinality(Cached \cup {k}) = Cardinality(Cached) + 1
      BY <1>3, <2>2, FS_AddElement
    <3> QED BY <1>3, <2>2, <3>1, <3>2
  <2>3. CASE k \notin Cached /\ \E v \in Cached : out = {v}
    <3>1. PICK v \in Cached : out = {v}
      BY <2>3
    <3>2. IsFiniteSet(Cached \ {v}) /\ Cardinality(Cached \ {v}) = Cardinality(Cached) - 1
      BY <1>3, FS_RemoveElement
    <3>3. k \notin Cached \ {v}
      BY <2>3
    <3>4. /\ IsFiniteSet((Cached \ {v}) \cup {k})
          /\ Cardinality((Cached \ {v}) \cup {k}) = Cardinality(Cached \ {v}) + 1
      BY <3>2, <3>3, FS_AddElement
    <3> QED BY <1>3, <3>1, <3>2, <3>4
  <2> QED BY <1>2, <1>3, <2>1, <2>2, <2>3 DEF Evicted
<1>7. IsFiniteSet(Cached') /\ Cardinality(Cached') <= Cardinality((Cached \ out) \cup {k})
  BY <1>5, <1>6, FS_Subset
<1>8. Cardinality(Cached') \in Nat /\ Cardinality((Cached \ out) \cup {k}) \in Nat
  BY <1>6, <1>7, FS_CardinalityType
<1>9. Cardinality(Cached') <= Capacity
  BY <1>3, <1>6, <1>7, <1>8
<1> QED BY <1>4, <1>7, <1>9 DEF k

LEMMA TypeStep == TypeInv /\ [Next]_vars => TypeInv'
<1> SUFFICES ASSUME TypeInv, [Next]_vars PROVE TypeInv'
  OBVIOUS
<1>1. StorageInv'
  BY StorageStep DEF TypeInv
<1>2. StorageTypeOK'
  BY <1>1 DEF StorageInv
<1> USE ProcessorAssumption DEF TypeInv
<1>3. ASSUME UNCHANGED cache, TypeOK'
      PROVE  TypeInv'
  BY <1>1, <1>3 DEF Cached
<1>4. ASSUME NEW c \in Calls, Begin(c)
      PROVE  TypeInv'
  <2>1. pc' \in [Calls -> PC] /\ path' \in [Calls -> {"none", "hit", "miss", "off"}]
    BY <1>4 DEF Begin, Goes, TypeOK, PC
  <2>2. counted' \subseteq Calls /\ unmatched' \subseteq Calls
    BY <1>4 DEF Begin, TypeOK
  <2>3. TypeOK'
    BY <1>2, <1>4, <2>1, <2>2 DEF Begin, TypeOK, Cached, configVars, statVars, resetVars
  <2> QED BY <1>3, <1>4, <2>3 DEF Begin
<1>5. ASSUME NEW c \in Calls, Lookup(c)
      PROVE  TypeInv'
  <2>1. /\ pc' \in [Calls -> PC] /\ path' \in [Calls -> {"none", "hit", "miss", "off"}]
        /\ answer' \in [Calls -> Answers]
    <3>1. generateKey(PolicyOf[c]) \in Keys
      BY DEF Keys
    <3> QED BY <1>5, <3>1 DEF Lookup, Goes, TypeOK, PC, Cached
  <2>2. TypeOK'
    BY <1>2, <1>5, <2>1 DEF Lookup, TypeOK, Cached, configVars, statVars, historyVars, resetVars
  <2> QED BY <1>3, <1>5, <2>2 DEF Lookup
<1>6. ASSUME NEW c \in Calls, CountHit(c) \/ CountMiss(c) \/ CountProcessed(c)
      PROVE  TypeInv'
  <2>1. pc' \in [Calls -> PC]
    BY <1>6 DEF CountHit, CountMiss, CountProcessed, Goes, TypeOK, PC
  <2>2. /\ UNCHANGED <<path, scanned, answer, cache, topN, enableCaching, weights>>
        /\ UNCHANGED <<counted, asOf, unmatched, cleared, resets>>
    BY <1>6 DEF CountHit, CountMiss, CountProcessed, configVars, historyVars, resetVars
  <2>3. TypeOK'
    BY <1>2, <2>1, <2>2 DEF TypeOK, Cached
  <2> QED BY <1>3, <2>2, <2>3
<1>7. ASSUME NEW c \in Calls, Scan(c)
      PROVE  TypeInv'
  <2>1. /\ pc' \in [Calls -> PC] /\ scanned' \in [Calls -> Answers]
        /\ asOf' \in [Calls -> 0..cleared] /\ cleared' = cleared
    <3>1. pc' \in [Calls -> PC]
      BY <1>7 DEF Scan, Goes, TypeOK, PC
    <3>2. scanned' \in [Calls -> Answers]
      BY <1>7 DEF Scan, TypeOK, StorageTypeOK, Answers
    <3>3. asOf' \in [Calls -> 0..cleared] /\ cleared' = cleared
      BY <1>7 DEF Scan, TypeOK, resetVars
    <3> QED BY <3>1, <3>2, <3>3
  <2>2. TypeOK'
    BY <1>2, <1>7, <2>1 DEF Scan, TypeOK, Cached, configVars, statVars, resetVars
  <2> QED BY <1>3, <1>7, <2>2 DEF Scan
<1>8. ASSUME NEW c \in Calls, Filter(c)
      PROVE  TypeInv'
  <2>1. Passed(c) \in Answers
    BY FilteredFrom DEF Passed, TypeOK, Answers
  <2>2. pc' \in [Calls -> PC] /\ scanned' \in [Calls -> Answers]
    BY <1>8, <2>1 DEF Filter, FilterKeeping, Goes, TypeOK, PC
  <2>3. TypeOK'
    BY <1>2, <1>8, <2>2
    DEF Filter, FilterKeeping, TypeOK, Cached, configVars, historyVars, resetVars
  <2> QED BY <1>3, <1>8, <2>3 DEF Filter, FilterKeeping
<1>9. ASSUME NEW c \in Calls, Rank(c)
      PROVE  TypeInv'
  <2>1. answer' \in [Calls -> Answers]
    <3>1. CASE Pairs(c)
      <4>1. PICK T \in Top(scanned[c], topN, PolicyOf[c]) : answer' = [answer EXCEPT ![c] = T]
        BY <1>9, <3>1 DEF Rank
      <4>2. T \in Answers
        BY <4>1, TopFacts DEF TypeOK, Answers
      <4> QED BY <4>1, <4>2 DEF TypeOK
    <3>2. CASE ~Pairs(c)
      BY <1>9, <3>2 DEF Rank, TypeOK
    <3> QED BY <3>1, <3>2
  <2>3. pc' \in [Calls -> PC] /\ scanned' = scanned
    BY <1>9 DEF Rank, Goes, TypeOK, PC
  <2>4. TypeOK'
    BY <1>2, <1>9, <2>1, <2>3 DEF Rank, TypeOK, Cached, configVars, historyVars, resetVars
  <2> QED BY <1>3, <1>9, <2>4 DEF Rank
<1>10. ASSUME NEW c \in Calls, Put(c)
       PROVE  TypeInv'
  <2>1. \A k \in Cached' : cache'[k].answer \in Answers /\ cache'[k].cleared \in Nat
    <3>1. answer[c] \in Answers /\ asOf[c] \in Nat
      BY DEF TypeOK
    <3>2. \A k \in Cached' : \/ cache'[k] = [answer |-> answer[c], cleared |-> asOf[c]]
                             \/ k \in Cached /\ cache'[k] = cache[k]
      BY <1>10, PutFacts
    <3> QED BY <3>1, <3>2 DEF TypeOK
  <2>2. IsFiniteSet(Cached') /\ Cardinality(Cached') <= Capacity
    BY <1>10, PutFacts
  <2>3. pc' \in [Calls -> PC]
    BY <1>10 DEF Put, Goes, TypeOK, PC
  <2>4. TypeOK'
    BY <1>2, <1>10, <2>1, <2>2, <2>3 DEF Put, TypeOK, configVars, historyVars, resetVars
  <2> QED BY <1>1, <2>2, <2>4
<1>11. ASSUME StorageChange
       PROVE  TypeInv'
  <2>1. TypeOK'
    BY <1>2, <1>11
    DEF StorageChange, TypeOK, Cached, Active, callVars, configVars, statVars, resetVars
  <2> QED BY <1>3, <1>11, <2>1 DEF StorageChange
<1>12. ASSUME \/ \E n \in TopNs : SetTopN(n)
              \/ \E enabled \in BOOLEAN : SetCachingEnabled(enabled)
              \/ \E w \in Weightings : UpdateScoringWeights(w)
       PROVE  TypeInv'
  <2>1. /\ topN' \in TopNs \cup {DefaultTopN} /\ enableCaching' \in BOOLEAN
        /\ weights' \in Weightings
    BY <1>12 DEF SetTopN, SetCachingEnabled, UpdateScoringWeights, TypeOK
  <2>2. /\ UNCHANGED <<pc, path, scanned, answer, cache>>
        /\ UNCHANGED <<counted, asOf, unmatched, cleared, resets>>
    BY <1>12
    DEF SetTopN, SetCachingEnabled, UpdateScoringWeights, callVars, historyVars, resetVars
  <2>3. TypeOK'
    BY <1>2, <2>1, <2>2 DEF TypeOK, Cached
  <2> QED BY <1>3, <2>2, <2>3
<1>13. ASSUME ResetStats
       PROVE  TypeInv'
  <2>1. \/ UNCHANGED <<cache, cleared>>
        \/ Cached' = {} /\ cleared' = cleared + 1
    BY <1>13 DEF ResetStats, ZeroAndClear, Cached
  <2>2. IsFiniteSet(Cached') /\ Cardinality(Cached') <= Capacity
        /\ \A k \in Cached' : cache'[k].answer \in Answers /\ cache'[k].cleared \in Nat
    <3>1. CASE UNCHANGED cache
      BY <3>1 DEF TypeOK, Cached
    <3>2. CASE Cached' = {}
      BY <3>2, FS_EmptySet
    <3> QED BY <2>1, <3>1, <3>2
  <2>3. /\ cleared' \in 0..resets' /\ resets' \in 0..MaxResets
        /\ asOf' \in [Calls -> 0..cleared']
    BY <1>13, <2>1 DEF ResetStats, ZeroAndClear, TypeOK
  <2>4. TypeOK'
    BY <1>2, <1>13, <2>2, <2>3 DEF ResetStats, ZeroAndClear, TypeOK, callVars, configVars
  <2> QED BY <1>1, <2>2, <2>4
<1>14. CASE UNCHANGED vars
  <2>1. TypeOK'
    BY <1>2, <1>14
    DEF vars, TypeOK, Cached, callVars, configVars, statVars, historyVars, resetVars
  <2> QED BY <1>3, <1>14, <2>1 DEF vars
<1>15. ASSUME NEW c \in Calls, BeginPart(c)
       PROVE  TypeInv'
  <2>1. /\ pc' \in [Calls -> PC] /\ scanned' \in [Calls -> Answers]
        /\ counted' \subseteq Calls
    BY <1>15, EntryFacts DEF BeginPart, Goes, TypeOK, PC, Answers
  <2>2. TypeOK'
    BY <1>2, <1>15, <2>1 DEF BeginPart, TypeOK, Cached, configVars, statVars, resetVars
  <2> QED BY <1>3, <1>15, <2>2 DEF BeginPart
<1> QED
  BY <1>4, <1>5, <1>6, <1>7, <1>8, <1>9, <1>10, <1>11, <1>12, <1>13, <1>14, <1>15
  DEF Next, CallStep

\* Every variable always has its type, and the cache never outgrows its capacity,
\* whatever key it gives up.
THEOREM TypeCorrect == Spec => []TypeOK
<1>1. TypeInv => TypeOK
  BY DEF TypeInv
<1> QED BY <1>1, InitTypes, TypeStep, PTL DEF Spec

\* AddProvider, RemoveProvider and the index by location: whatever else goes on,
\* the index misses no stored provider, and lists an unstored one only under an
\* address that was added while it was stored.
THEOREM IndexCorrect == Spec => []IndexExact
<1>1. Init => StorageInv
  BY InitStorage DEF Init
<1> QED BY <1>1, StorageStep, IndexFollows, PTL DEF Spec

-----------------------------------------------------------------------------
(* The calls: what they answer.                                            *)

\* What makes ClearedForGood and EmptyIsFresh inductive.
CallInv ==
    /\ \A c \in Calls :
         /\ Pairs(c) /\ pc[c] \in {"filter", "rank", "put"} => asOf[c] = cleared
         /\ Pairs(c) /\ pc[c] = "rank" => scanned[c] # {}
         /\ pc[c] \in {"hit", "put", "count"} => answer[c] # {}
         /\ pc[c] \notin {"hit", "put", "count", "done"} => answer[c] = {}
         /\ Pairs(c) /\ c \in Active /\ Unmatched(providers, PolicyOf[c]) => c \in unmatched
         /\ Pairs(c) /\ pc[c] = "filter" /\ Unmatched(scanned[c], PolicyOf[c]) => c \in unmatched
         /\ Pairs(c) /\ pc[c] = "done" /\ answer[c] = {} => c \in unmatched
         /\ ~Pairs(c) => /\ pc[c] \in {"new", "scan", "filter", "rank", "done"}
                         /\ answer[c] = {}
    /\ \A k \in Cached : cache[k].cleared = cleared /\ cache[k].answer # {}

\* What passes, if nothing does.
LEMMA PassedFacts ==
  ASSUME TypeOK, NEW c \in Calls
  PROVE  /\ Passed(c) = {p \in scanned[c] : Qualifies(p, PolicyOf[c])}
         /\ Passed(c) = {} <=> Unmatched(scanned[c], PolicyOf[c])
<1>1. scanned[c] \in SUBSET Providers /\ PolicyOf[c] \in Policies
  BY ProcessorAssumption DEF TypeOK, Answers
<1>2. Passed(c) = {p \in scanned[c] : Qualifies(p, PolicyOf[c])}
  BY <1>1, FiltersCorrect DEF Passed
<1> QED BY <1>2 DEF Unmatched

LEMMA CallsStep == TypeInv /\ CallInv /\ [Next]_vars => CallInv'
<1> SUFFICES ASSUME TypeInv, CallInv, [Next]_vars PROVE CallInv'
  OBVIOUS
<1>1. TypeOK
  BY DEF TypeInv
<1> USE ProcessorAssumption
<1>2. ASSUME NEW c \in Calls, Begin(c)
      PROVE  CallInv'
  BY <1>1, <1>2
  DEF Begin, Goes, CallInv, TypeOK, Cached, Active, Unmatched, storageVars, resetVars
<1>3. ASSUME NEW c \in Calls, Lookup(c)
      PROVE  CallInv'
  <2>1. generateKey(PolicyOf[c]) \in Keys
    BY DEF Keys
  <2> QED BY <1>1, <1>3, <2>1
    DEF Lookup, Goes, CallInv, TypeOK, Cached, Active, Unmatched, storageVars, historyVars,
        resetVars
<1>4. ASSUME NEW c \in Calls, CountHit(c) \/ CountMiss(c) \/ CountProcessed(c)
      PROVE  CallInv'
  BY <1>1, <1>4
  DEF CountHit, CountMiss, CountProcessed, Goes, CallInv, TypeOK, Cached, Active, Unmatched,
      storageVars, historyVars, resetVars
<1>5. ASSUME NEW c \in Calls, Scan(c)
      PROVE  CallInv'
  BY <1>1, <1>5
  DEF Scan, Goes, CallInv, TypeOK, Cached, Active, Unmatched, storageVars, resetVars
<1>6. ASSUME NEW c \in Calls, Filter(c)
      PROVE  CallInv'
  <2>1. Passed(c) = {} => Unmatched(scanned[c], PolicyOf[c])
    BY <1>1, PassedFacts
  <2> QED BY <1>1, <1>6, <2>1
    DEF Filter, FilterKeeping, Goes, CallInv, TypeOK, Cached, Active, Unmatched, storageVars,
        historyVars, resetVars
<1>7. ASSUME NEW c \in Calls, Rank(c)
      PROVE  CallInv'
  <2>1. \E T : answer' = [answer EXCEPT ![c] = T] /\ (T = {} <=> ~Pairs(c))
    <3>1. CASE Pairs(c)
      <4>1. PICK T \in Top(scanned[c], topN, PolicyOf[c]) : answer' = [answer EXCEPT ![c] = T]
        BY <1>7, <3>1 DEF Rank
      <4>2. scanned[c] # {} /\ scanned[c] \in SUBSET Providers /\ topN \in Nat \ {0}
        BY <1>1, <1>7, <3>1 DEF Rank, CallInv, TypeOK, Answers
      <4>3. T # {}
        BY <4>1, <4>2, TopFacts
      <4> QED BY <3>1, <4>1, <4>3
    <3>2. CASE ~Pairs(c)
      <4>1. answer' = answer /\ answer[c] = {} /\ answer \in [Calls -> Answers]
        BY <1>1, <1>7, <3>2 DEF Rank, CallInv, TypeOK
      <4>2. answer' = [answer EXCEPT ![c] = {}]
        BY <4>1
      <4> QED BY <3>2, <4>2
    <3> QED BY <3>1, <3>2
  <2>2. PICK T : answer' = [answer EXCEPT ![c] = T] /\ (T = {} <=> ~Pairs(c))
    BY <2>1
  <2>3. /\ pc[c] = "rank" /\ Goes(c, IF Pairs(c) THEN IF enableCaching THEN "put" ELSE "count" ELSE "done")
        /\ UNCHANGED <<storageVars, path, scanned, cache, historyVars, resetVars>>
    BY <1>7 DEF Rank
  <2> QED BY <1>1, <2>2, <2>3
    DEF Goes, CallInv, TypeOK, Cached, Active, Unmatched, storageVars, historyVars, resetVars
<1>8. ASSUME NEW c \in Calls, Put(c)
      PROVE  CallInv'
  <2>1. \A k \in Cached' : cache'[k].cleared = cleared /\ cache'[k].answer # {}
    <3>1. \A k \in Cached' : \/ cache'[k] = [answer |-> answer[c], cleared |-> asOf[c]]
                             \/ k \in Cached /\ cache'[k] = cache[k]
      BY <1>8, PutFacts
    <3>2. answer[c] # {} /\ asOf[c] = cleared /\ Pairs(c)
      BY <1>8 DEF Put, CallInv
    <3> QED BY <3>1, <3>2 DEF CallInv
  <2> QED BY <1>1, <1>8, <2>1
    DEF Put, Goes, CallInv, TypeOK, Active, Unmatched, storageVars, historyVars, resetVars
<1>9. ASSUME StorageChange
      PROVE  CallInv'
  BY <1>1, <1>9
  DEF StorageChange, CallInv, TypeOK, Cached, Active, Unmatched, callVars, resetVars
<1>10. ASSUME \/ \E n \in TopNs : SetTopN(n)
              \/ \E enabled \in BOOLEAN : SetCachingEnabled(enabled)
              \/ \E w \in Weightings : UpdateScoringWeights(w)
       PROVE  CallInv'
  BY <1>10
  DEF SetTopN, SetCachingEnabled, UpdateScoringWeights, CallInv, Cached, Active, Unmatched,
      storageVars, callVars, historyVars, resetVars
<1>11. ASSUME ResetStats
       PROVE  CallInv'
  \* No call is between reading the storage and writing the cache.
  <2>1. \A c \in Calls : pc[c] \in {"new", "done"}
    BY <1>11 DEF ResetStats, Active
  <2>2. \/ UNCHANGED <<cache, cleared>>
        \/ Cached' = {}
    BY <1>11 DEF ResetStats, ZeroAndClear, Cached
  <2>3. \A k \in Cached' : cache'[k].cleared = cleared' /\ cache'[k].answer # {}
    BY <2>2 DEF CallInv, Cached
  <2> QED BY <1>11, <2>1, <2>3
    DEF ResetStats, ZeroAndClear, CallInv, Active, Unmatched, storageVars, callVars
<1>12. CASE UNCHANGED vars
  BY <1>12 DEF vars, CallInv, Cached, Active, Unmatched, storageVars, callVars, historyVars, resetVars
<1>13. ASSUME NEW c \in Calls, BeginPart(c)
       PROVE  CallInv'
  <2>1. Entry[Operation[c]] \in {"scan", "filter", "rank"}
    BY <1>13, EntryFacts DEF BeginPart
  <2> QED BY <1>1, <1>13, <2>1
    DEF BeginPart, Goes, CallInv, TypeOK, Cached, Active, Unmatched, storageVars, resetVars
<1> QED
  BY <1>2, <1>3, <1>4, <1>5, <1>6, <1>7, <1>8, <1>9, <1>10, <1>11, <1>12, <1>13 DEF Next, CallStep

LEMMA InitCalls == Init => CallInv
BY DEF Init, CallInv, Cached, Active

\* ResetStats and calls in progress: what the cache holds was computed from a
\* storage read since the cache was last cleared.
THEOREM ClearedForGoodCorrect == Spec => []ClearedForGood
<1>1. CallInv => ClearedForGood
  BY DEF CallInv, ClearedForGood
<1> QED BY <1>1, InitTypes, TypeStep, InitCalls, CallsStep, PTL DEF Spec

\* GetPairingListWithDetails answers with nobody only if, at some time during
\* the call, no stored provider was good enough: an empty answer is never an old
\* one.
THEOREM EmptyIsFreshCorrect == Spec => []EmptyIsFresh
<1>1. CallInv => EmptyIsFresh
  BY DEF CallInv, EmptyIsFresh
<1> QED BY <1>1, InitTypes, TypeStep, InitCalls, CallsStep, PTL DEF Spec

-----------------------------------------------------------------------------
(* The answers.                                                            *)

\* Provider p passes for some policy that has the cache key of q.
Suits(p, q) == \E r \in Policies : generateKey(r) = generateKey(q) /\ Qualifies(p, r)

LEMMA SuitsFacts ==
  ASSUME NEW q \in Policies, NEW p
  PROVE  /\ Qualifies(p, q) => Suits(p, q)
         /\ \A r \in Policies : generateKey(r) = generateKey(q) => (Suits(p, r) <=> Suits(p, q))
BY DEF Suits

\* What makes AnswersSuitKey inductive: it is true of what a call has filtered,
\* and of what is cached.
QualifyInv ==
    /\ \A c \in Calls : /\ \A p \in answer[c] : Suits(p, PolicyOf[c])
                        /\ Pairs(c) /\ pc[c] = "rank"
                             => \A p \in scanned[c] : Suits(p, PolicyOf[c])
    /\ \A q \in Policies : generateKey(q) \in Cached =>
         \A p \in cache[generateKey(q)].answer : Suits(p, q)

LEMMA QualifyStep ==
  ASSUME TypeInv, QualifyInv, [Next]_vars
  PROVE  QualifyInv'
<1>1. TypeOK
  BY DEF TypeInv
<1> USE ProcessorAssumption
<1>2. ASSUME NEW c \in Calls, Lookup(c)
      PROVE  QualifyInv'
  <2>1. generateKey(PolicyOf[c]) \in Keys /\ PolicyOf[c] \in Policies
    BY DEF Keys
  <2> QED BY <1>1, <1>2, <2>1 DEF Lookup, Goes, QualifyInv, TypeOK, Cached
<1>3. ASSUME NEW c \in Calls, Filter(c)
      PROVE  QualifyInv'
  <2>1. \A p \in Passed(c) : Suits(p, PolicyOf[c])
    BY <1>1, PassedFacts, SuitsFacts
  <2> QED BY <1>1, <1>3, <2>1 DEF Filter, FilterKeeping, Goes, QualifyInv, TypeOK, Cached
<1>4. ASSUME NEW c \in Calls, Rank(c)
      PROVE  QualifyInv'
  <2>1. CASE Pairs(c)
    <3>1. PICK T \in Top(scanned[c], topN, PolicyOf[c]) : answer' = [answer EXCEPT ![c] = T]
      BY <1>4, <2>1 DEF Rank
    <3>2. scanned[c] \in SUBSET Providers /\ topN \in Nat \ {0}
      BY <1>1 DEF TypeOK, Answers
    <3>3. T \subseteq scanned[c]
      BY <3>1, <3>2, TopFacts
    <3> QED BY <1>1, <1>4, <2>1, <3>1, <3>3 DEF Rank, Goes, QualifyInv, TypeOK, Cached
  <2>2. CASE ~Pairs(c)
    BY <1>1, <1>4, <2>2 DEF Rank, Goes, QualifyInv, TypeOK, Cached
  <2> QED BY <2>1, <2>2
<1>5. ASSUME NEW c \in Calls, Put(c)
      PROVE  QualifyInv'
  <2>1. \A k \in Cached' : \/ /\ cache'[k] = [answer |-> answer[c], cleared |-> asOf[c]]
                              /\ k = generateKey(PolicyOf[c])
                           \/ k \in Cached /\ cache'[k] = cache[k]
    BY <1>5, PutFacts
  <2>2. ASSUME NEW q \in Policies, generateKey(q) \in Cached'
        PROVE  \A p \in cache'[generateKey(q)].answer : Suits(p, q)
    <3>1. CASE /\ cache'[generateKey(q)] = [answer |-> answer[c], cleared |-> asOf[c]]
               /\ generateKey(q) = generateKey(PolicyOf[c])
      <4>1. \A p \in answer[c] : Suits(p, PolicyOf[c])
        BY DEF QualifyInv
      <4> QED BY <3>1, <4>1, SuitsFacts
    <3>2. CASE generateKey(q) \in Cached /\ cache'[generateKey(q)] = cache[generateKey(q)]
      BY <3>2 DEF QualifyInv
    <3> QED BY <2>1, <2>2, <3>1, <3>2
  <2> QED BY <1>1, <1>5, <2>2 DEF Put, Goes, QualifyInv, TypeOK
<1>6. ASSUME NEW c \in Calls,
             \/ Begin(c) \/ CountHit(c) \/ CountMiss(c) \/ Scan(c) \/ CountProcessed(c)
      PROVE  QualifyInv'
  BY <1>1, <1>6
  DEF Begin, CountHit, CountMiss, Scan, CountProcessed, Goes, QualifyInv, TypeOK, Cached
<1>7. ASSUME \/ StorageChange
             \/ \E n \in TopNs : SetTopN(n)
             \/ \E enabled \in BOOLEAN : SetCachingEnabled(enabled)
             \/ \E w \in Weightings : UpdateScoringWeights(w)
             \/ UNCHANGED vars
      PROVE  QualifyInv'
  BY <1>7
  DEF StorageChange, SetTopN, SetCachingEnabled, UpdateScoringWeights, vars, callVars, QualifyInv,
      Cached
<1>8. ASSUME ResetStats
      PROVE  QualifyInv'
  <2>1. \/ UNCHANGED cache
        \/ Cached' = {}
    BY <1>8 DEF ResetStats, ZeroAndClear, Cached
  <2> QED BY <1>8, <2>1 DEF ResetStats, ZeroAndClear, callVars, QualifyInv, Cached
<1>9. ASSUME NEW c \in Calls, BeginPart(c)
      PROVE  QualifyInv'
  BY <1>1, <1>9 DEF BeginPart, Goes, QualifyInv, TypeOK, Cached
<1> QED BY <1>2, <1>3, <1>4, <1>5, <1>6, <1>7, <1>8, <1>9 DEF Next, CallStep

\* GetPairingListWithDetails, cached or not: whoever is in an answer has the
\* location, the features and the stake that some policy with the same cache key
\* asks for.  That is as much as generateKey allows: for the policy of the call
\* itself it is not true.
THEOREM AnswersCorrect == Spec => []AnswersSuitKey
<1>1. Init => QualifyInv
  BY DEF Init, QualifyInv, Cached
<1>2. TypeInv /\ QualifyInv /\ [Next]_vars => QualifyInv'
  BY QualifyStep
<1>3. QualifyInv => AnswersSuitKey
  BY DEF QualifyInv, AnswersSuitKey, Suits
<1> QED BY <1>1, <1>2, <1>3, InitTypes, TypeStep, PTL DEF Spec

\* How long an answer may be, while calls run.
LEMMA LengthStep == TypeInv /\ CallInv /\ TopNHonoured /\ [Next]_vars => TopNHonoured'
<1> SUFFICES ASSUME TypeInv, CallInv, TopNHonoured, [Next]_vars PROVE TopNHonoured'
  OBVIOUS
<1>1. TypeOK /\ topN \in Nat \ {0}
  BY ProcessorAssumption DEF TypeInv, TypeOK
<1>2. Cardinality({}) = 0
  BY FS_EmptySet
<1>3. ASSUME NEW c \in Calls, Begin(c)
      PROVE  TopNHonoured'
  <2>1. answer[c] = {} /\ answer' = answer /\ topN' = topN
    BY <1>3 DEF Begin, CallInv, configVars
  <2>2. \A d \in Calls \ {c} : pc'[d] = pc[d] /\ path'[d] = path[d]
    BY <1>1, <1>3 DEF Begin, Goes, TypeOK
  <2>3. Active' \subseteq Active \cup {c}
    BY <2>2 DEF Active
  <2>4. \A d \in Active' \ {c} : d \in Calls \ {c}
    BY DEF Active
  <2> QED BY <1>1, <1>2, <2>1, <2>2, <2>3, <2>4 DEF TopNHonoured
<1>4. ASSUME NEW c \in Calls, Lookup(c)
      PROVE  TopNHonoured'
  BY <1>1, <1>4 DEF Lookup, Goes, TopNHonoured, TypeOK, Active, configVars
<1>5. ASSUME NEW c \in Calls, Rank(c), Pairs(c)
      PROVE  TopNHonoured'
  <2>1. PICK T \in Top(scanned[c], topN, PolicyOf[c]) : answer' = [answer EXCEPT ![c] = T]
    BY <1>5 DEF Rank
  <2>2. Cardinality(T) <= topN
    <3>1. scanned[c] \in SUBSET Providers
      BY <1>1 DEF TypeOK, Answers
    <3> QED BY <1>1, <2>1, <3>1, TopFacts
  <2> QED BY <1>1, <1>5, <2>1, <2>2 DEF Rank, Goes, TopNHonoured, TypeOK, Active, configVars
<1>6. ASSUME NEW c \in Calls,
             \/ CountHit(c) \/ CountMiss(c) \/ Scan(c) \/ Filter(c) \/ Put(c) \/ CountProcessed(c)
      PROVE  TopNHonoured'
  BY <1>1, <1>6
  DEF CountHit, CountMiss, Scan, Filter, FilterKeeping, Put, CountProcessed, Goes, TopNHonoured,
      TypeOK, Active, configVars
<1>7. ASSUME \/ StorageChange
             \/ \E enabled \in BOOLEAN : SetCachingEnabled(enabled)
             \/ \E w \in Weightings : UpdateScoringWeights(w)
             \/ ResetStats \/ UNCHANGED vars
      PROVE  TopNHonoured'
  BY <1>7
  DEF StorageChange, SetCachingEnabled, UpdateScoringWeights, ResetStats, ZeroAndClear, vars,
      callVars, configVars, TopNHonoured, Active
\* SetTopN waits for every call.
<1>8. ASSUME NEW n \in TopNs, SetTopN(n)
      PROVE  TopNHonoured'
  BY <1>8 DEF SetTopN, TopNHonoured, Active, callVars
<1>9. ASSUME NEW c \in Calls, BeginPart(c)
      PROVE  TopNHonoured'
  <2>1. answer[c] = {} /\ answer' = answer /\ topN' = topN
    BY <1>9 DEF BeginPart, CallInv, configVars
  <2>2. \A d \in Calls \ {c} : pc'[d] = pc[d] /\ path'[d] = path[d]
    BY <1>1, <1>9 DEF BeginPart, Goes, TypeOK
  <2>3. Active' \subseteq Active \cup {c}
    BY <2>2 DEF Active
  <2>4. \A d \in Active' \ {c} : d \in Calls \ {c}
    BY DEF Active
  <2> QED BY <1>1, <1>2, <2>1, <2>2, <2>3, <2>4 DEF TopNHonoured
<1>10. ASSUME NEW c \in Calls, Rank(c), ~Pairs(c)
       PROVE  TopNHonoured'
  BY <1>1, <1>10 DEF Rank, Goes, TopNHonoured, TypeOK, Active, configVars
<1> QED BY <1>3, <1>4, <1>5, <1>6, <1>7, <1>8, <1>9, <1>10 DEF Next, CallStep

\* SetTopN and calls in progress: an answer that is not from the cache is never
\* longer than topN, from the beginning of the call to its end.
THEOREM TopNHonouredCorrect == Spec => []TopNHonoured
<1>1. Init => TopNHonoured
  BY DEF Init, TopNHonoured, Active
<1> QED BY <1>1, InitTypes, TypeStep, InitCalls, CallsStep, LengthStep, PTL DEF Spec


-----------------------------------------------------------------------------
(* Statistics.                                                             *)

Hits    == Returned({"hit"})
Missed  == {c \in counted : path[c] = "miss" /\ pc[c] \notin {"lookup", "miss"}}
Handled == {c \in Returned({"miss", "off"}) : answer[c] # {}}

\* A call is counted from its beginning on, and where it is tells which operation
\* it is a call of, how it gets its answer and whether it has read the providers.
PathInv ==
    \A c \in Calls :
        /\ pc[c] \in {"lookup", "miss"} => path[c] = "miss"
        /\ pc[c] = "hit" => path[c] = "hit"
        /\ pc[c] \in {"put", "count"} => path[c] \in {"miss", "off"}
        /\ Pairs(c) /\ pc[c] \in {"scan", "filter", "rank"} => path[c] \in {"miss", "off"}
        /\ ~Pairs(c) => path[c] = "none"
        /\ pc[c] \in {"lookup", "hit", "miss", "put", "count"} => Pairs(c)
        /\ pc[c] = "rank" => Operation[c] \notin {"FilterProviders", "GetScoringStats"}
        /\ pc[c] \in {"scan", "filter"} => Operation[c] # "RankProviders"
        /\ pc[c] \in {"new", "lookup", "hit", "miss", "scan"} => scanned[c] = {}
        /\ c \in Active => c \in counted
        /\ c \in counted => pc[c] # "new"

CountInv ==
    /\ IsFiniteSet(counted)
    /\ totalCacheHits = Cardinality(Hits)
    /\ totalCacheMisses = Cardinality(Missed)
    /\ totalProcessed = Cardinality(Handled)
    /\ totalFiltered = SumFunctionOnSet(FilteredBy, counted)
    /\ totalRanked = SumFunctionOnSet(RankedBy, counted)

LEMMA InitStats == Init => PathInv /\ CountInv
<1> SUFFICES ASSUME Init  PROVE PathInv /\ CountInv
  OBVIOUS
<1>1. PathInv
  BY DEF Init, PathInv, Active
<1>2. counted = {} /\ Hits = {} /\ Missed = {} /\ Handled = {}
  BY DEF Init, Hits, Missed, Handled, Returned
<1>3. IsFiniteSet({}) /\ Cardinality({}) = 0
  BY FS_EmptySet
<1>4. SumFunctionOnSet(FilteredBy, counted) = 0 /\ SumFunctionOnSet(RankedBy, counted) = 0
  BY <1>2, SumEmpty
<1> QED BY <1>1, <1>2, <1>3, <1>4 DEF Init, CountInv

LEMMA PathStep == TypeInv /\ PathInv /\ [Next]_vars => PathInv'
<1> SUFFICES ASSUME TypeInv, PathInv, [Next]_vars  PROVE PathInv'
  OBVIOUS
<1>1. /\ pc \in [Calls -> PC] /\ path \in [Calls -> {"none", "hit", "miss", "off"}]
      /\ scanned \in [Calls -> Answers]
  BY DEF TypeInv, TypeOK
<1>2. ASSUME NEW c \in Calls, Begin(c)
      PROVE  PathInv'
  BY <1>1, <1>2 DEF Begin, Goes, PathInv, Active, Pairs
<1>3. ASSUME NEW c \in Calls, BeginPart(c)
      PROVE  PathInv'
  BY <1>1, <1>3, EntryFacts DEF BeginPart, Goes, PathInv, Active
<1>4. ASSUME NEW c \in Calls, Lookup(c)
      PROVE  PathInv'
  BY <1>1, <1>4 DEF Lookup, Goes, PathInv, Active, historyVars
<1>5. ASSUME NEW c \in Calls,
             CountHit(c) \/ CountMiss(c) \/ Scan(c) \/ Put(c) \/ CountProcessed(c)
      PROVE  PathInv'
  BY <1>1, <1>5
  DEF CountHit, CountMiss, Scan, Put, CountProcessed, Goes, PathInv, Active, historyVars, Pairs
<1>6. ASSUME NEW c \in Calls, Filter(c) \/ Rank(c)
      PROVE  PathInv'
  BY <1>1, <1>6 DEF Filter, FilterKeeping, Rank, Goes, PathInv, Active, historyVars, Pairs
<1>7. CASE ResetStats
  BY <1>7 DEF ResetStats, ZeroAndClear, PathInv, Active, callVars
<1>8. CASE UNCHANGED <<pc, path, scanned, counted>>
  BY <1>8 DEF PathInv, Active
<1>9. ASSUME ~ResetStats, \A c \in Calls : ~(Begin(c) \/ BeginPart(c) \/ CallStep(c))
      PROVE  UNCHANGED <<pc, path, scanned, counted>>
  BY <1>9 DEF Next, StorageChange, SetTopN, SetCachingEnabled, UpdateScoringWeights, vars,
              callVars, historyVars
<1> QED BY <1>2, <1>3, <1>4, <1>5, <1>6, <1>7, <1>8, <1>9 DEF CallStep

\* What the steps of call c can do to the sets that are counted.
LEMMA OneCall ==
  ASSUME NEW c \in Calls, TypeInv,
         counted' \in {counted, counted \cup {c}},
         \A d \in Calls \ {c} : /\ pc'[d] = pc[d] /\ path'[d] = path[d]
                                /\ answer'[d] = answer[d]
  PROVE  /\ (c \in Hits' <=> c \in Hits) => Hits' = Hits
         /\ c \notin Hits /\ c \in Hits' => Adds(Hits', Hits, c)
         /\ (c \in Missed' <=> c \in Missed) => Missed' = Missed
         /\ c \notin Missed /\ c \in Missed' => Adds(Missed', Missed, c)
         /\ (c \in Handled' <=> c \in Handled) => Handled' = Handled
         /\ c \notin Handled /\ c \in Handled' => Adds(Handled', Handled, c)
<1>1. counted \subseteq Calls
  BY DEF TypeInv, TypeOK
<1>2. \A d \in Calls \ {c} : /\ d \in Hits' <=> d \in Hits
                             /\ d \in Missed' <=> d \in Missed
                             /\ d \in Handled' <=> d \in Handled
  BY <1>1 DEF Hits, Missed, Handled, Returned
<1>3. /\ Hits \subseteq Calls /\ Missed \subseteq Calls /\ Handled \subseteq Calls
      /\ Hits' \subseteq Calls /\ Missed' \subseteq Calls /\ Handled' \subseteq Calls
  BY <1>1 DEF Hits, Missed, Handled, Returned
<1>4. /\ (c \in Hits' <=> c \in Hits) => Hits' = Hits
      /\ c \notin Hits /\ c \in Hits' => Adds(Hits', Hits, c)
  BY <1>2, <1>3 DEF Adds
<1>5. /\ (c \in Missed' <=> c \in Missed) => Missed' = Missed
      /\ c \notin Missed /\ c \in Missed' => Adds(Missed', Missed, c)
  BY <1>2, <1>3 DEF Adds
<1>6. /\ (c \in Handled' <=> c \in Handled) => Handled' = Handled
      /\ c \notin Handled /\ c \in Handled' => Adds(Handled', Handled, c)
  BY <1>2, <1>3 DEF Adds
<1> QED BY <1>4, <1>5, <1>6

LEMMA PartType ==
  /\ TypeInv => \A c \in Calls :
       Cardinality(scanned[c]) \in Nat /\ FilteredBy[c] \in Nat /\ RankedBy[c] \in Nat
  /\ TypeInv' => \A c \in Calls :
       Cardinality(scanned'[c]) \in Nat /\ FilteredBy'[c] \in Nat /\ RankedBy'[c] \in Nat
<1>1. \A ps \in SUBSET Providers : Cardinality(ps) \in Nat
  <2>1. \A ps \in SUBSET Providers : IsFiniteSet(ps)
    BY ModelsAssumption, FS_Subset
  <2> QED BY <2>1, FS_CardinalityType
<1>2. TypeInv => \A c \in Calls : scanned[c] \in SUBSET Providers
  BY DEF TypeInv, TypeOK, Answers
<1>3. TypeInv' => \A c \in Calls : scanned'[c] \in SUBSET Providers
  BY DEF TypeInv, TypeOK, Answers
<1> QED BY <1>1, <1>2, <1>3 DEF FilteredBy, RankedBy

\* When one call goes on, the sums change by its part.
LEMMA PartStep ==
  ASSUME NEW c \in Calls, TypeInv, TypeInv', IsFiniteSet(counted), counted' = counted,
         c \in counted,
         \A d \in Calls \ {c} : pc'[d] = pc[d] /\ scanned'[d] = scanned[d]
  PROVE  /\ SumFunctionOnSet(FilteredBy, counted) \in Int
         /\ SumFunctionOnSet(RankedBy, counted) \in Int
         /\ SumFunctionOnSet(FilteredBy', counted')
              = SumFunctionOnSet(FilteredBy, counted) + FilteredBy'[c] - FilteredBy[c]
         /\ SumFunctionOnSet(RankedBy', counted')
              = SumFunctionOnSet(RankedBy, counted) + RankedBy'[c] - RankedBy[c]
<1>1. counted \subseteq Calls
  BY DEF TypeInv, TypeOK
<1>2. \A d \in counted : /\ FilteredBy[d] \in Int /\ FilteredBy'[d] \in Int
                         /\ RankedBy[d] \in Int /\ RankedBy'[d] \in Int
  BY <1>1, PartType
<1>3. \A d \in counted \ {c} : FilteredBy'[d] = FilteredBy[d] /\ RankedBy'[d] = RankedBy[d]
  BY <1>1 DEF FilteredBy, RankedBy
<1>4. /\ SumFunctionOnSet(FilteredBy, counted) \in Int
      /\ SumFunctionOnSet(RankedBy, counted) \in Int
  BY <1>2, SumType
<1> DEFINE f == FilteredBy'
           r == RankedBy'
<1> HIDE DEF f, r
<1>5. SumFunctionOnSet(f, counted) = SumFunctionOnSet(FilteredBy, counted) + f[c] - FilteredBy[c]
  <2>1. /\ \A d \in counted : FilteredBy[d] \in Int /\ f[d] \in Int
        /\ \A d \in counted \ {c} : f[d] = FilteredBy[d]
    BY <1>2, <1>3 DEF f
  <2> QED BY <2>1, SumChange
<1>6. SumFunctionOnSet(r, counted) = SumFunctionOnSet(RankedBy, counted) + r[c] - RankedBy[c]
  <2>1. /\ \A d \in counted : RankedBy[d] \in Int /\ r[d] \in Int
        /\ \A d \in counted \ {c} : r[d] = RankedBy[d]
    BY <1>2, <1>3 DEF r
  <2> QED BY <2>1, SumChange
<1> QED BY <1>4, <1>5, <1>6 DEF f, r

LEMMA PartStays ==
  ASSUME IsFiniteSet(counted), counted' = counted,
         \A d \in counted : FilteredBy'[d] = FilteredBy[d] /\ RankedBy'[d] = RankedBy[d]
  PROVE  /\ SumFunctionOnSet(FilteredBy', counted') = SumFunctionOnSet(FilteredBy, counted)
         /\ SumFunctionOnSet(RankedBy', counted') = SumFunctionOnSet(RankedBy, counted)
BY SumSame

\* A call that begins has neither filtered nor ranked anything.
LEMMA PartBegins ==
  ASSUME NEW c \in Calls, TypeInv, TypeInv', IsFiniteSet(counted), c \notin counted,
         counted' = counted \cup {c}, FilteredBy'[c] = 0, RankedBy'[c] = 0,
         \A d \in Calls \ {c} : pc'[d] = pc[d] /\ scanned'[d] = scanned[d]
  PROVE  /\ IsFiniteSet(counted')
         /\ SumFunctionOnSet(FilteredBy', counted') = SumFunctionOnSet(FilteredBy, counted)
         /\ SumFunctionOnSet(RankedBy', counted') = SumFunctionOnSet(RankedBy, counted)
<1>1. counted \subseteq Calls
  BY DEF TypeInv, TypeOK
<1>2. IsFiniteSet(counted')
  BY FS_AddElement
<1>3. /\ c \in counted' /\ counted' \ {c} = counted
      /\ \A d \in counted' : FilteredBy'[d] \in Int /\ RankedBy'[d] \in Int
  BY <1>1, PartType
<1>4. /\ SumFunctionOnSet(FilteredBy', counted')
           = FilteredBy'[c] + SumFunctionOnSet(FilteredBy', counted' \ {c})
      /\ SumFunctionOnSet(RankedBy', counted')
           = RankedBy'[c] + SumFunctionOnSet(RankedBy', counted' \ {c})
  BY <1>2, <1>3, SumRemove
<1>5. \A d \in counted : FilteredBy'[d] = FilteredBy[d] /\ RankedBy'[d] = RankedBy[d]
  BY <1>1 DEF FilteredBy, RankedBy
<1>6. /\ SumFunctionOnSet(FilteredBy', counted) = SumFunctionOnSet(FilteredBy, counted)
      /\ SumFunctionOnSet(RankedBy', counted) = SumFunctionOnSet(RankedBy, counted)
  BY <1>5, SumSame
<1>7. \A d \in counted : FilteredBy[d] \in Int /\ RankedBy[d] \in Int
  BY <1>1, PartType
<1>8. /\ SumFunctionOnSet(FilteredBy, counted) \in Int
      /\ SumFunctionOnSet(RankedBy, counted) \in Int
  BY <1>7, SumType
<1>9. /\ SumFunctionOnSet(FilteredBy', counted') = 0 + SumFunctionOnSet(FilteredBy', counted)
      /\ SumFunctionOnSet(RankedBy', counted') = 0 + SumFunctionOnSet(RankedBy', counted)
  BY <1>3, <1>4
<1> QED BY <1>2, <1>6, <1>8, <1>9

LEMMA StatsStep ==
  TypeInv /\ TypeInv' /\ CallInv /\ PathInv /\ CountInv /\ [Next]_vars => CountInv'
<1> SUFFICES ASSUME TypeInv, TypeInv', CallInv, PathInv, CountInv, [Next]_vars
             PROVE  CountInv'
  OBVIOUS
<1> DEFINE filtered == SumFunctionOnSet(FilteredBy, counted)
           ranked   == SumFunctionOnSet(RankedBy, counted)
<1>1. /\ pc \in [Calls -> PC] /\ path \in [Calls -> {"none", "hit", "miss", "off"}]
      /\ scanned \in [Calls -> Answers] /\ answer \in [Calls -> Answers]
      /\ counted \subseteq Calls
  BY DEF TypeInv, TypeOK
<1>2. /\ IsFiniteSet(counted)
      /\ IsFiniteSet(Hits) /\ IsFiniteSet(Missed) /\ IsFiniteSet(Handled)
  <2>1. /\ Hits \subseteq counted /\ Missed \subseteq counted /\ Handled \subseteq counted
    BY DEF Hits, Missed, Handled, Returned
  <2> QED BY <2>1, FS_Subset DEF CountInv
<1>3. Cardinality({}) = 0
  BY FS_EmptySet
<1> HIDE DEF filtered, ranked
<1>4. ASSUME Hits' = Hits, Missed' = Missed, Handled' = Handled, IsFiniteSet(counted'),
             UNCHANGED statVars, filtered' = filtered, ranked' = ranked
      PROVE  CountInv'
  BY <1>4 DEF CountInv, statVars, filtered, ranked
<1>5. ASSUME NEW c \in Calls, Begin(c) \/ BeginPart(c)
      PROVE  CountInv'
  <2>1. /\ c \notin counted /\ counted' = counted \cup {c} /\ UNCHANGED statVars
        /\ pc[c] = "new" /\ pc'[c] \in {"lookup", "scan", "filter", "rank"}
        /\ pc'[c] # "lookup" => path'[c] \in {"off", "none"}
        /\ pc'[c] = "rank" => Operation[c] = "RankProviders"
        /\ \A d \in Calls \ {c} : /\ pc'[d] = pc[d] /\ path'[d] = path[d]
                                  /\ answer'[d] = answer[d] /\ scanned'[d] = scanned[d]
    <3>1. CASE Begin(c)
      BY <1>1, <3>1 DEF Begin, Goes, PathInv
    <3>2. CASE BeginPart(c)
      BY <1>1, <3>2, EntryFacts DEF BeginPart, Goes, PathInv
    <3> QED BY <1>5, <3>1, <3>2
  <2>2. /\ c \notin Hits /\ c \notin Missed /\ c \notin Handled
        /\ c \notin Hits' /\ c \notin Missed' /\ c \notin Handled'
    BY <2>1 DEF Hits, Missed, Handled, Returned
  <2>3. Hits' = Hits /\ Missed' = Missed /\ Handled' = Handled
    BY <2>1, <2>2, OneCall
  <2>4. FilteredBy'[c] = 0 /\ RankedBy'[c] = 0
    BY <2>1 DEF FilteredBy, RankedBy
  <2>5. IsFiniteSet(counted') /\ filtered' = filtered /\ ranked' = ranked
    BY <1>2, <2>1, <2>4, PartBegins DEF filtered, ranked
  <2> QED BY <1>4, <2>1, <2>3, <2>5
<1>6. ASSUME NEW c \in Calls, Lookup(c) \/ Scan(c) \/ Put(c)
      PROVE  CountInv'
  <2>1. /\ counted' = counted /\ UNCHANGED statVars
        /\ pc[c] \in {"lookup", "scan", "put"} /\ pc'[c] \notin {"rank", "done", "new"}
        /\ pc[c] = "lookup" => (pc'[c] = "hit" /\ path'[c] = "hit") \/ pc'[c] = "miss"
        /\ pc[c] # "lookup" => pc'[c] # "miss" /\ path'[c] = path[c]
        /\ \A d \in Calls \ {c} : /\ pc'[d] = pc[d] /\ path'[d] = path[d]
                                  /\ answer'[d] = answer[d] /\ scanned'[d] = scanned[d]
    BY <1>1, <1>6 DEF Lookup, Scan, Put, Goes, historyVars
  <2>2. /\ pc[c] = "scan" => pc'[c] = "filter"
        /\ pc[c] = "put" => pc'[c] = "count" /\ scanned'[c] = scanned[c]
    BY <1>1, <1>6 DEF Lookup, Scan, Put, Goes
  <2>3. /\ c \in Hits' <=> c \in Hits
        /\ c \in Missed' <=> c \in Missed
        /\ c \in Handled' <=> c \in Handled
    <3>1. pc'[c] \notin {"lookup", "miss"} => pc[c] # "lookup" \/ path'[c] = "hit"
      BY <2>1
    <3>2. pc[c] # "lookup" => pc'[c] # "lookup"
      BY <2>1, <2>2
    <3> QED BY <2>1, <3>1, <3>2 DEF Hits, Missed, Handled, Returned
  <2>4. Hits' = Hits /\ Missed' = Missed /\ Handled' = Handled
    BY <2>1, <2>3, OneCall
  <2>5. \A d \in Calls : FilteredBy'[d] = FilteredBy[d] /\ RankedBy'[d] = RankedBy[d]
    <3>1. FilteredBy'[c] = FilteredBy[c] /\ RankedBy'[c] = RankedBy[c]
      BY <2>1, <2>2 DEF FilteredBy, RankedBy
    <3> QED BY <2>1, <3>1 DEF FilteredBy, RankedBy
  <2>6. filtered' = filtered /\ ranked' = ranked
    BY <1>1, <1>2, <2>1, <2>5, PartStays DEF filtered, ranked
  <2> QED BY <1>2, <1>4, <2>1, <2>4, <2>6
<1>7. ASSUME NEW c \in Calls, CountHit(c)
      PROVE  CountInv'
  <2>1. /\ counted' = counted /\ c \in counted /\ totalCacheHits' = totalCacheHits + 1
        /\ UNCHANGED <<totalCacheMisses, totalProcessed, totalFiltered, totalRanked>>
        /\ pc[c] = "hit" /\ pc'[c] = "done" /\ path[c] = "hit" /\ path'[c] = "hit"
        /\ scanned[c] = {}
        /\ \A d \in Calls \ {c} : pc'[d] = pc[d]
        /\ UNCHANGED <<path, answer, scanned>>
    BY <1>1, <1>7 DEF CountHit, Goes, PathInv, Active, historyVars
  <2>2. Adds(Hits', Hits, c) /\ Missed' = Missed /\ Handled' = Handled
    <3>1. /\ c \notin Hits /\ c \in Hits' /\ c \notin Missed /\ c \notin Missed'
          /\ c \notin Handled /\ c \notin Handled'
      BY <2>1 DEF Hits, Missed, Handled, Returned
    <3> QED BY <2>1, <3>1, OneCall
  <2>3. Cardinality(Hits') = Cardinality(Hits) + 1
    BY <1>2, <2>2, CountMore
  <2>4. \A d \in Calls : FilteredBy'[d] = FilteredBy[d] /\ RankedBy'[d] = RankedBy[d]
    BY <1>3, <2>1 DEF FilteredBy, RankedBy
  <2>5. filtered' = filtered /\ ranked' = ranked
    BY <1>1, <1>2, <2>1, <2>4, PartStays DEF filtered, ranked
  <2> QED BY <2>1, <2>2, <2>3, <2>5 DEF CountInv, filtered, ranked
<1>8. ASSUME NEW c \in Calls, CountMiss(c)
      PROVE  CountInv'
  <2>1. /\ counted' = counted /\ c \in counted /\ totalCacheMisses' = totalCacheMisses + 1
        /\ UNCHANGED <<totalCacheHits, totalProcessed, totalFiltered, totalRanked>>
        /\ pc[c] = "miss" /\ pc'[c] = "scan" /\ path[c] = "miss" /\ path'[c] = "miss"
        /\ \A d \in Calls \ {c} : pc'[d] = pc[d]
        /\ UNCHANGED <<path, answer, scanned>>
    BY <1>1, <1>8 DEF CountMiss, Goes, PathInv, Active, historyVars
  <2>2. Hits' = Hits /\ Adds(Missed', Missed, c) /\ Handled' = Handled
    <3>1. /\ c \notin Hits /\ c \notin Hits' /\ c \notin Missed /\ c \in Missed'
          /\ c \notin Handled /\ c \notin Handled'
      BY <2>1 DEF Hits, Missed, Handled, Returned
    <3> QED BY <2>1, <3>1, OneCall
  <2>3. Cardinality(Missed') = Cardinality(Missed) + 1
    BY <1>2, <2>2, CountMore
  <2>4. \A d \in Calls : FilteredBy'[d] = FilteredBy[d] /\ RankedBy'[d] = RankedBy[d]
    BY <2>1 DEF FilteredBy, RankedBy
  <2>5. filtered' = filtered /\ ranked' = ranked
    BY <1>1, <1>2, <2>1, <2>4, PartStays DEF filtered, ranked
  <2> QED BY <2>1, <2>2, <2>3, <2>5 DEF CountInv, filtered, ranked
<1>9. ASSUME NEW c \in Calls, CountProcessed(c)
      PROVE  CountInv'
  <2>1. /\ counted' = counted /\ c \in counted /\ totalProcessed' = totalProcessed + 1
        /\ UNCHANGED <<totalCacheHits, totalCacheMisses, totalFiltered, totalRanked>>
        /\ pc[c] = "count" /\ pc'[c] = "done" /\ path[c] \in {"miss", "off"}
        /\ answer[c] # {}
        /\ \A d \in Calls \ {c} : pc'[d] = pc[d]
        /\ UNCHANGED <<path, answer, scanned>>
    BY <1>1, <1>9 DEF CountProcessed, Goes, PathInv, CallInv, Active, historyVars
  <2>2. Hits' = Hits /\ Missed' = Missed /\ Adds(Handled', Handled, c)
    <3>1. /\ c \notin Hits /\ c \notin Hits' /\ (c \in Missed' <=> c \in Missed)
          /\ c \notin Handled /\ c \in Handled'
      BY <2>1 DEF Hits, Missed, Handled, Returned
    <3> QED BY <2>1, <3>1, OneCall
  <2>3. Cardinality(Handled') = Cardinality(Handled) + 1
    BY <1>2, <2>2, CountMore
  <2>4. \A d \in Calls : FilteredBy'[d] = FilteredBy[d] /\ RankedBy'[d] = RankedBy[d]
    BY <2>1 DEF FilteredBy, RankedBy
  <2>5. filtered' = filtered /\ ranked' = ranked
    BY <1>1, <1>2, <2>1, <2>4, PartStays DEF filtered, ranked
  <2> QED BY <2>1, <2>2, <2>3, <2>5 DEF CountInv, filtered, ranked
\* A call of GetScoringStats or FilterProviders is done, and so is one that has
\* nothing to rank.
<1>10. ASSUME NEW c \in Calls, Filter(c)
       PROVE  CountInv'
  <2>1. /\ counted' = counted /\ c \in counted
        /\ totalFiltered' = totalFiltered + Cardinality(scanned'[c])
        /\ UNCHANGED <<totalCacheHits, totalCacheMisses, totalProcessed, totalRanked>>
        /\ pc[c] = "filter" /\ answer[c] = {} /\ path[c] # "hit"
        /\ pc'[c] = IF scanned'[c] # {} /\ Pairs(c) THEN "rank" ELSE "done"
        /\ Operation[c] # "RankProviders"
        /\ \A d \in Calls \ {c} : pc'[d] = pc[d] /\ scanned'[d] = scanned[d]
        /\ UNCHANGED <<path, answer>>
    BY <1>1, <1>10
    DEF Filter, FilterKeeping, Goes, PathInv, CallInv, Active, historyVars
  <2>2. Hits' = Hits /\ Missed' = Missed /\ Handled' = Handled
    <3>1. /\ c \notin Hits /\ c \notin Hits' /\ (c \in Missed' <=> c \in Missed)
          /\ c \notin Handled /\ c \notin Handled'
      BY <2>1 DEF Hits, Missed, Handled, Returned
    <3> QED BY <2>1, <3>1, OneCall
  <2>3. /\ filtered' = filtered + FilteredBy'[c] - FilteredBy[c]
        /\ ranked' = ranked + RankedBy'[c] - RankedBy[c]
        /\ filtered \in Int /\ ranked \in Int
    BY <1>2, <2>1, PartStep DEF filtered, ranked
  <2>4. /\ FilteredBy[c] = 0 /\ FilteredBy'[c] = Cardinality(scanned'[c])
        /\ RankedBy[c] = 0 /\ RankedBy'[c] = 0
    <3>1. FilteredBy[c] = 0 /\ RankedBy[c] = 0
      BY <2>1 DEF FilteredBy, RankedBy
    <3>2. FilteredBy'[c] = Cardinality(scanned'[c])
      BY <2>1 DEF FilteredBy
    <3>3. RankedBy'[c] = 0
      BY <1>3, <2>1, ProcessorAssumption DEF RankedBy, Pairs, Entry
    <3> QED BY <3>1, <3>2, <3>3
  <2>5. Cardinality(scanned'[c]) \in Nat
    BY PartType
  <2>6. totalFiltered' = filtered' /\ totalRanked' = ranked'
    BY <2>1, <2>3, <2>4, <2>5 DEF CountInv, filtered, ranked
  <2> QED BY <1>2, <2>1, <2>2, <2>6 DEF CountInv, filtered, ranked
<1>11. ASSUME NEW c \in Calls, Rank(c)
       PROVE  CountInv'
  <2>1. /\ counted' = counted /\ c \in counted
        /\ totalRanked' = totalRanked + Cardinality(scanned[c])
        /\ UNCHANGED <<totalCacheHits, totalCacheMisses, totalProcessed, totalFiltered>>
        /\ pc[c] = "rank" /\ path[c] # "hit"
        /\ pc'[c] = "done" => path[c] = "none"
        /\ pc'[c] \in {"put", "count", "done"}
        /\ Operation[c] \notin {"FilterProviders", "GetScoringStats"}
        /\ \A d \in Calls \ {c} : pc'[d] = pc[d] /\ answer'[d] = answer[d]
        /\ UNCHANGED <<path, scanned>>
    BY <1>1, <1>11 DEF Rank, Goes, PathInv, Active, historyVars
  <2>2. Hits' = Hits /\ Missed' = Missed /\ Handled' = Handled
    <3>1. /\ c \notin Hits /\ c \notin Hits' /\ (c \in Missed' <=> c \in Missed)
          /\ c \notin Handled /\ c \notin Handled'
      BY <2>1 DEF Hits, Missed, Handled, Returned
    <3> QED BY <2>1, <3>1, OneCall
  <2>3. /\ filtered' = filtered + FilteredBy'[c] - FilteredBy[c]
        /\ ranked' = ranked + RankedBy'[c] - RankedBy[c]
        /\ filtered \in Int /\ ranked \in Int
    BY <1>2, <2>1, PartStep DEF filtered, ranked
  <2>4. /\ FilteredBy'[c] = FilteredBy[c] /\ FilteredBy[c] \in Nat
        /\ RankedBy[c] = 0 /\ RankedBy'[c] = Cardinality(scanned[c])
        /\ Cardinality(scanned[c]) \in Nat
    <3>1. FilteredBy'[c] = FilteredBy[c]
      BY <2>1 DEF FilteredBy
    <3>2. RankedBy[c] = 0 /\ RankedBy'[c] = Cardinality(scanned[c])
      BY <2>1 DEF RankedBy
    <3> QED BY <3>1, <3>2, PartType
  <2>5. totalFiltered' = filtered' /\ totalRanked' = ranked'
    BY <2>1, <2>3, <2>4 DEF CountInv, filtered, ranked
  <2> QED BY <1>2, <2>1, <2>2, <2>5 DEF CountInv, filtered, ranked
<1>12. CASE ResetStats
  <2>1. /\ counted' = {} /\ totalProcessed' = 0 /\ totalFiltered' = 0 /\ totalRanked' = 0
        /\ totalCacheHits' = 0 /\ totalCacheMisses' = 0
    BY <1>12 DEF ResetStats, ZeroAndClear
  <2>2. Hits' = {} /\ Missed' = {} /\ Handled' = {}
    BY <2>1 DEF Hits, Missed, Handled, Returned
  <2>3. IsFiniteSet({})
    BY FS_EmptySet
  <2>4. SumFunctionOnSet(FilteredBy', {}) = 0 /\ SumFunctionOnSet(RankedBy', {}) = 0
    BY SumEmpty
  <2> QED BY <1>3, <2>1, <2>2, <2>3, <2>4 DEF CountInv
<1>13. CASE UNCHANGED <<callVars, statVars, counted>>
  <2>1. Hits' = Hits /\ Missed' = Missed /\ Handled' = Handled
    BY <1>13 DEF callVars, Hits, Missed, Handled, Returned
  <2>2. \A d \in Calls : FilteredBy'[d] = FilteredBy[d] /\ RankedBy'[d] = RankedBy[d]
    BY <1>13 DEF callVars, FilteredBy, RankedBy
  <2>3. filtered' = filtered /\ ranked' = ranked
    BY <1>1, <1>2, <1>13, <2>2, PartStays DEF filtered, ranked
  <2> QED BY <1>2, <1>4, <1>13, <2>1, <2>3
<1>14. ASSUME ~ResetStats, \A c \in Calls : ~(Begin(c) \/ BeginPart(c) \/ CallStep(c))
       PROVE  UNCHANGED <<callVars, statVars, counted>>
  BY <1>14 DEF Next, StorageChange, SetTopN, SetCachingEnabled, UpdateScoringWeights, vars,
               historyVars
<1> QED
  BY <1>5, <1>6, <1>7, <1>8, <1>9, <1>10, <1>11, <1>12, <1>13, <1>14 DEF CallStep

\* ResetStats and calls in progress, calls of FilterProviders, RankProviders and
\* GetScoringStats among them: every counter of the processor is exactly what the
\* calls since the last reset have got to count, no more and no less.
THEOREM StatsExactCorrect == Spec => []StatsExact
<1>1. CountInv => StatsExact
  BY DEF CountInv, StatsExact, Hits, Missed, Handled
<1> QED
  BY <1>1, InitTypes, TypeStep, InitCalls, CallsStep, InitStats, PathStep, StatsStep, PTL
  DEF Spec
=============================================================================
