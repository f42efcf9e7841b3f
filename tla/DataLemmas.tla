----------------------------- MODULE DataLemmas -----------------------------
(***************************************************************************)
(* Facts about the data of the models, for the other proofs: the sequences *)
(* that model Go channels and result buffers (a send appends, a receive    *)
(* takes the head, and what a channel holds is the range of its sequence), *)
(* sums over finite sets, for counters, and orders, for sorted lists.      *)
(*                                                                         *)
(* Induction is by a least counterexample: a set of numbers, or a family   *)
(* of finite sets, that is not empty has a least member.                   *)
(***************************************************************************)
EXTENDS Integers, Sequences, Functions, SequenceTheorems, FiniteSetTheorems, TLAPS

-----------------------------------------------------------------------------
(* Channels.                                                               *)

\* Sending on a channel adds the element to what it holds, and keeps it free of
\* repetitions if the element was not there.
LEMMA RangeAppend ==
    ASSUME NEW S, NEW s \in Seq(S), NEW e \in S
    PROVE  /\ Append(s, e) \in Seq(S) /\ Len(Append(s, e)) = Len(s) + 1
           /\ Range(Append(s, e)) = Range(s) \cup {e}
           /\ IsInjective(s) /\ e \notin Range(s) => IsInjective(Append(s, e))
<1> DEFINE t == Append(s, e)
<1>1. /\ t \in Seq(S) /\ Len(t) = Len(s) + 1
      /\ DOMAIN s = 1..Len(s) /\ DOMAIN t = 1..(Len(s) + 1)
      /\ \A i \in 1..Len(s) : t[i] = s[i]
      /\ t[Len(s) + 1] = e
  BY AppendProperties
<1>2. Len(s) \in Nat
  OBVIOUS
<1> HIDE DEF t
<1>3. Range(t) = Range(s) \cup {e}
  <2>1. ASSUME NEW x \in Range(t)  PROVE x \in Range(s) \cup {e}
    BY <1>1, <1>2 DEF Range
  <2>2. ASSUME NEW x \in Range(s) \cup {e}  PROVE x \in Range(t)
    <3>1. CASE x = e
      BY <1>1, <1>2, <3>1 DEF Range
    <3>2. CASE x \in Range(s)
      BY <1>1, <1>2, <3>2 DEF Range
    <3> QED BY <3>1, <3>2
  <2> QED BY <2>1, <2>2
<1>4. ASSUME IsInjective(s), e \notin Range(s)  PROVE IsInjective(t)
  BY <1>1, <1>2, <1>4 DEF Range, IsInjective
<1> QED BY <1>1, <1>3, <1>4 DEF t

\* Receiving from a channel without repetitions removes its first element.
LEMMA RangeTail ==
    ASSUME NEW S, NEW s \in Seq(S), s # <<>>
    PROVE  /\ Head(s) \in S /\ Head(s) \in Range(s)
           /\ Tail(s) \in Seq(S) /\ Len(Tail(s)) = Len(s) - 1
           /\ IsInjective(s) => /\ Range(Tail(s)) = Range(s) \ {Head(s)}
                                /\ IsInjective(Tail(s))
<1> DEFINE t == Tail(s)
<1>1. /\ Head(s) \in S /\ Head(s) = s[1]
      /\ t \in Seq(S) /\ Len(t) = Len(s) - 1
      /\ DOMAIN s = 1..Len(s) /\ DOMAIN t = 1..(Len(s) - 1)
      /\ \A i \in 1..(Len(s) - 1) : t[i] = s[i + 1]
      /\ Len(s) \in Nat \ {0}
  BY HeadTailProperties, EmptySeq
<1> HIDE DEF t
<1>2. Head(s) \in Range(s)
  BY <1>1 DEF Range
<1>3. ASSUME IsInjective(s)
      PROVE  Range(t) = Range(s) \ {Head(s)} /\ IsInjective(t)
  <2>1. ASSUME NEW x \in Range(t)  PROVE x \in Range(s) \ {Head(s)}
    <3>1. PICK i \in 1..(Len(s) - 1) : x = s[i + 1]
      BY <1>1 DEF Range
    <3>2. i + 1 \in 1..Len(s) /\ i + 1 # 1
      BY <1>1
    <3> QED BY <1>1, <1>3, <3>1, <3>2 DEF Range, IsInjective
  <2>2. ASSUME NEW x \in Range(s) \ {Head(s)}  PROVE x \in Range(t)
    <3>1. PICK i \in 1..Len(s) : x = s[i] /\ i # 1
      BY <1>1, <2>2 DEF Range
    <3>2. i - 1 \in 1..(Len(s) - 1) /\ t[i - 1] = x
      BY <1>1, <3>1
    <3> QED BY <1>1, <3>2 DEF Range
  <2>3. ASSUME NEW i \in DOMAIN t, NEW j \in DOMAIN t, t[i] = t[j]
        PROVE  i = j
    <3>1. /\ i + 1 \in DOMAIN s /\ j + 1 \in DOMAIN s
          /\ s[i + 1] = s[j + 1]
          /\ i \in Int /\ j \in Int
      BY <1>1, <2>3
    <3>2. i + 1 = j + 1
      BY <1>3, <3>1 DEF IsInjective
    <3> QED BY <3>1, <3>2
  <2> QED BY <2>1, <2>2, <2>3 DEF IsInjective
<1> QED BY <1>1, <1>2, <1>3 DEF t

\* What is received and what remains is what the channel held.
LEMMA RangeHeadTail ==
    ASSUME NEW S, NEW s \in Seq(S), s # <<>>
    PROVE  Range(s) = Range(Tail(s)) \cup {Head(s)}
<1> DEFINE t == Tail(s)
<1>1. /\ Head(s) = s[1]
      /\ DOMAIN s = 1..Len(s) /\ DOMAIN t = 1..(Len(s) - 1)
      /\ \A i \in 1..(Len(s) - 1) : t[i] = s[i + 1]
      /\ Len(s) \in Nat \ {0}
  BY HeadTailProperties, EmptySeq
<1> HIDE DEF t
<1>2. ASSUME NEW i \in 1..Len(s)  PROVE s[i] \in Range(t) \cup {Head(s)}
  <2>1. CASE i # 1
    <3>1. i - 1 \in DOMAIN t /\ t[i - 1] = s[i]
      BY <1>1, <2>1
    <3> QED BY <3>1 DEF Range
  <2> QED BY <1>1, <2>1
<1>3. ASSUME NEW i \in DOMAIN t  PROVE t[i] \in Range(s)
  <2>1. i + 1 \in DOMAIN s /\ t[i] = s[i + 1]
    BY <1>1
  <2> QED BY <2>1 DEF Range
<1>4. Head(s) \in Range(s)
  BY <1>1 DEF Range
<1>5. Range(s) \subseteq Range(t) \cup {Head(s)}
  BY <1>1, <1>2 DEF Range
<1>6. Range(t) \subseteq Range(s)
  BY <1>3 DEF Range
<1> QED BY <1>4, <1>5, <1>6 DEF t

\* A drained channel or buffer holds nothing.
LEMMA RangeEmpty == Range(<<>>) = {} /\ IsInjective(<<>>)
BY DEF Range, IsInjective

\* What a channel of elements of S holds is a part of S.
LEMMA RangeSubset == ASSUME NEW S, NEW s \in Seq(S)  PROVE Range(s) \subseteq S
BY DEF Range

-----------------------------------------------------------------------------
(* Induction.                                                              *)

\* Every set of numbers that is not empty has a least element.  Taken for a set
\* of counterexamples this is induction over the natural numbers.
LEMMA LeastNumber ==
    ASSUME NEW T \in SUBSET Nat, T # {}
    PROVE  \E n \in T : \A m \in T : n <= m
<1>1. IsWellFoundedOn(OpToRel(<, Nat), Nat)
  BY NatLessThanWellFounded
<1>2. PICK n \in T : \A m \in T : ~(<<m, n>> \in OpToRel(<, Nat))
  BY <1>1, WFMin
<1>3. \A m \in T : ~(m < n)
  BY <1>2 DEF OpToRel
<1>4. n \in Nat /\ \A m \in T : n <= m
  BY <1>3
<1> QED BY <1>4

\* Every family of finite sets that is not empty has a smallest member.  Taken
\* for a family of counterexamples this is induction over finite sets.
LEMMA LeastSubset ==
    ASSUME NEW S, IsFiniteSet(S), NEW F, F \subseteq SUBSET S, F # {}
    PROVE  \E T \in F : \A U \in F : U \subseteq T => U = T
<1>1. IsWellFoundedOn(StrictSubsetOrdering(S), SUBSET S)
  BY FS_StrictSubsetOrderingWellFounded, FS_FiniteSubsetsOfFinite
<1>2. PICK T \in F : \A U \in F : ~(<<U, T>> \in StrictSubsetOrdering(S))
  BY <1>1, WFMin
<1> QED BY <1>2 DEF StrictSubsetOrdering

-----------------------------------------------------------------------------
(* Sums.                                                                   *)

\* The element with which the sum over s begins.
Pick(s) == CHOOSE x \in s : TRUE

\* g is the table of the sums of f over the sets in D.
IsSumTable(g, f, D) ==
    g = [s \in D |-> IF s = {} THEN 0 ELSE f[Pick(s)] + g[s \ {Pick(s)}]]

LEMMA PickIn == ASSUME NEW S, NEW s \in SUBSET S, s # {}
                PROVE  Pick(s) \in s
BY DEF Pick

\* The definition of the sum as a table that satisfies its recursive equation.
LEMMA SumIsChosen ==
    ASSUME NEW f, NEW S
    PROVE  SumFunctionOnSet(f, S) = (CHOOSE g : IsSumTable(g, f, SUBSET S))[S]
BY DEF SumFunctionOnSet, FoldFunctionOnSet, MapThenFoldSet, IsSumTable, Pick

SmallSubsets(S, n) == {s \in SUBSET S : Cardinality(s) <= n}

\* The sets with at most n elements have a table, whatever n.
LEMMA SumTableUpTo ==
    ASSUME NEW f, NEW S, IsFiniteSet(S), NEW n \in Nat
    PROVE  \E g : IsSumTable(g, f, SmallSubsets(S, n))
<1> USE DEF SmallSubsets
<1> DEFINE D(k) == SmallSubsets(S, k)
           Bad  == {k \in Nat : ~ \E g : IsSumTable(g, f, D(k))}
<1>1. \A s \in SUBSET S : /\ IsFiniteSet(s) /\ Cardinality(s) \in Nat
                          /\ Cardinality(s) = 0 <=> s = {}
  BY FS_Subset, FS_CardinalityType, FS_EmptySet
<1>2. \A s \in SUBSET S : s # {} =>
         /\ s \ {Pick(s)} \in SUBSET S
         /\ Cardinality(s \ {Pick(s)}) = Cardinality(s) - 1
  BY <1>1, PickIn, FS_RemoveElement
<1>3. SUFFICES ASSUME Bad # {}  PROVE FALSE
  OBVIOUS
<1>4. PICK k \in Bad : \A m \in Bad : k <= m
  BY <1>3, LeastNumber
<1>5. CASE k = 0
  <2> DEFINE h == [s \in D(0) |-> 0]
  <2>1. D(0) = {{}}
    BY <1>1
  <2>2. IsSumTable(h, f, D(0))
    BY <2>1 DEF IsSumTable
  <2> QED BY <1>5, <2>2
<1>6. CASE k # 0
  <2>1. k - 1 \in Nat /\ k - 1 \notin Bad
    <3>1. k \in Nat
      OBVIOUS
    <3> HIDE DEF Bad
    <3> QED BY <1>4, <1>6, <3>1
  <2>2. PICK g : IsSumTable(g, f, D(k - 1))
    BY <2>1
  <2> DEFINE h == [s \in D(k) |-> IF s = {} THEN 0 ELSE f[Pick(s)] + g[s \ {Pick(s)}]]
  <2>3. ASSUME NEW s \in D(k - 1)  PROVE s \in D(k) /\ h[s] = g[s]
    <3>1. s \in D(k)
      BY <1>1, <2>1, <2>3
    <3> HIDE DEF SmallSubsets
    <3>2. g[s] = IF s = {} THEN 0 ELSE f[Pick(s)] + g[s \ {Pick(s)}]
      BY <2>2, <2>3 DEF IsSumTable
    <3> QED BY <3>1, <3>2
  <2>4. ASSUME NEW s \in D(k), s # {}
        PROVE  s \ {Pick(s)} \in D(k - 1)
    BY <1>1, <1>2, <2>4, <1>4
  <2> HIDE DEF SmallSubsets
  <2>5. h = [s \in D(k) |-> IF s = {} THEN 0 ELSE f[Pick(s)] + h[s \ {Pick(s)}]]
    BY <2>3, <2>4
  <2> QED BY <2>5, <1>4 DEF IsSumTable
<1> QED BY <1>5, <1>6

LEMMA SumTable ==
    ASSUME NEW f, NEW S, IsFiniteSet(S)
    PROVE  IsSumTable(CHOOSE g : IsSumTable(g, f, SUBSET S), f, SUBSET S)
<1>1. Cardinality(S) \in Nat /\ \A s \in SUBSET S : Cardinality(s) <= Cardinality(S)
  BY FS_Subset, FS_CardinalityType
<1>2. SmallSubsets(S, Cardinality(S)) = SUBSET S
  BY <1>1 DEF SmallSubsets
<1>3. \E g : IsSumTable(g, f, SmallSubsets(S, Cardinality(S)))
  BY <1>1, SumTableUpTo
<1> QED BY <1>2, <1>3

Agree(f, e, R) == \A x \in R : f[x] = e[x]

\* Two tables agree on the sets on whose elements the functions agree.
LEMMA SumTablesAgree ==
    ASSUME NEW S, NEW R, NEW f, NEW e, NEW g, NEW h,
           IsFiniteSet(S), R \subseteq S, Agree(f, e, R),
           IsSumTable(g, f, SUBSET S), IsSumTable(h, e, SUBSET R)
    PROVE  g[R] = h[R]
<1> DEFINE Bad == {s \in SUBSET R : g[s] # h[s]}
<1>1. SUFFICES ASSUME Bad # {}  PROVE FALSE
  OBVIOUS
<1>2. IsFiniteSet(R)
  BY FS_Subset
<1>3. PICK T \in Bad : \A U \in Bad : U \subseteq T => U = T
  <2>1. Bad \subseteq SUBSET R
    OBVIOUS
  <2> HIDE DEF Bad
  <2> QED BY <1>1, <1>2, <2>1, LeastSubset
<1>4. /\ g[T] = IF T = {} THEN 0 ELSE f[Pick(T)] + g[T \ {Pick(T)}]
      /\ h[T] = IF T = {} THEN 0 ELSE e[Pick(T)] + h[T \ {Pick(T)}]
  BY <1>3 DEF IsSumTable
<1>5. T # {}
  BY <1>3, <1>4
<1>6. Pick(T) \in T
  BY <1>5, PickIn
<1>7. T \ {Pick(T)} \notin Bad
  BY <1>3, <1>6
<1> QED BY <1>3, <1>4, <1>5, <1>6, <1>7 DEF Agree

-----------------------------------------------------------------------------
\* Only the values on the set count.
LEMMA SumSame ==
    ASSUME NEW S, IsFiniteSet(S), NEW f, NEW e, \A x \in S : f[x] = e[x]
    PROVE  SumFunctionOnSet(f, S) = SumFunctionOnSet(e, S)
<1> DEFINE g == CHOOSE t : IsSumTable(t, f, SUBSET S)
           h == CHOOSE t : IsSumTable(t, e, SUBSET S)
<1>1. IsSumTable(g, f, SUBSET S) /\ IsSumTable(h, e, SUBSET S)
  BY SumTable
<1> HIDE DEF g, h
<1>2. S \subseteq S /\ Agree(f, e, S)
  BY DEF Agree
<1>3. g[S] = h[S]
  BY <1>1, <1>2, SumTablesAgree
<1> QED BY <1>3, SumIsChosen DEF g, h

LEMMA SumEmpty == ASSUME NEW f  PROVE SumFunctionOnSet(f, {}) = 0
<1> DEFINE g == CHOOSE t : IsSumTable(t, f, SUBSET {})
<1>1. IsSumTable(g, f, SUBSET {})
  BY SumTable, FS_EmptySet
<1> HIDE DEF g
<1>2. g[{}] = 0
  BY <1>1 DEF IsSumTable
<1> QED BY <1>2, SumIsChosen DEF g

LEMMA SumPick ==
    ASSUME NEW S, IsFiniteSet(S), S # {}, NEW f
    PROVE  SumFunctionOnSet(f, S) = f[Pick(S)] + SumFunctionOnSet(f, S \ {Pick(S)})
<1> DEFINE R == S \ {Pick(S)}
           g == CHOOSE t : IsSumTable(t, f, SUBSET S)
           h == CHOOSE t : IsSumTable(t, f, SUBSET R)
<1>1. IsFiniteSet(R) /\ R \in SUBSET S
  BY FS_Subset
<1>2. IsSumTable(g, f, SUBSET S)
  BY SumTable
<1>3. IsSumTable(h, f, SUBSET R)
  <2> HIDE DEF R
  <2> QED BY <1>1, SumTable
<1>4. SumFunctionOnSet(f, S) = g[S] /\ SumFunctionOnSet(f, R) = h[R]
  BY SumIsChosen
<1> HIDE DEF g, h
<1>5. g[S] = f[Pick(S)] + g[R]
  BY <1>2 DEF IsSumTable
<1>6. g[R] = h[R]
  <2>1. R \subseteq S /\ Agree(f, f, R)
    BY DEF Agree
  <2> HIDE DEF R
  <2> QED BY <1>2, <1>3, <2>1, SumTablesAgree
<1> QED BY <1>4, <1>5, <1>6

\* A sum of integers is an integer, and one of numbers a number.
LEMMA SumType ==
    ASSUME NEW S, IsFiniteSet(S), NEW f, \A x \in S : f[x] \in Int
    PROVE  /\ SumFunctionOnSet(f, S) \in Int
           /\ (\A x \in S : f[x] >= 0) => SumFunctionOnSet(f, S) >= 0
<1> DEFINE Good(s) == /\ SumFunctionOnSet(f, s) \in Int
                      /\ (\A x \in s : f[x] >= 0) => SumFunctionOnSet(f, s) >= 0
           Bad == {s \in SUBSET S : ~Good(s)}
<1>1. SUFFICES ASSUME Bad # {}  PROVE FALSE
  OBVIOUS
<1>2. PICK T \in Bad : \A U \in Bad : U \subseteq T => U = T
  <2>1. Bad \subseteq SUBSET S
    OBVIOUS
  <2> HIDE DEF Bad
  <2> QED BY <1>1, <2>1, LeastSubset
<1>3. T # {}
  <2>1. Good({})
    BY SumEmpty
  <2> HIDE DEF Good
  <2> QED BY <1>2, <2>1
<1>4. IsFiniteSet(T) /\ Pick(T) \in T
  BY <1>2, <1>3, PickIn, FS_Subset
<1>5. Good(T \ {Pick(T)})
  BY <1>2, <1>4
<1>6. SumFunctionOnSet(f, T) = f[Pick(T)] + SumFunctionOnSet(f, T \ {Pick(T)})
  BY <1>3, <1>4, SumPick
<1>7. f[Pick(T)] \in Int /\ T \ {Pick(T)} \subseteq T
  BY <1>2, <1>4
<1> QED BY <1>2, <1>4, <1>5, <1>6, <1>7

\* Any element can be taken out of a sum.
LEMMA SumRemove ==
    ASSUME NEW S, IsFiniteSet(S), NEW f, \A x \in S : f[x] \in Int, NEW x \in S
    PROVE  SumFunctionOnSet(f, S) = f[x] + SumFunctionOnSet(f, S \ {x})
<1> DEFINE Sum(s) == SumFunctionOnSet(f, s)
           Good(s) == \A y \in s : Sum(s) = f[y] + Sum(s \ {y})
           Bad == {s \in SUBSET S : ~Good(s)}
<1>1. SUFFICES ASSUME Bad # {}  PROVE FALSE
  OBVIOUS
<1>2. PICK T \in Bad : \A U \in Bad : U \subseteq T => U = T
  <2>1. Bad \subseteq SUBSET S
    OBVIOUS
  <2> HIDE DEF Bad
  <2> QED BY <1>1, <2>1, LeastSubset
<1>3. PICK y \in T : Sum(T) # f[y] + Sum(T \ {y})
  BY <1>2
<1> DEFINE p == Pick(T)
<1>4. IsFiniteSet(T) /\ p \in T /\ IsFiniteSet(T \ {y}) /\ IsFiniteSet((T \ {y}) \ {p})
  BY <1>2, <1>3, PickIn, FS_Subset
<1>5. Sum(T) = f[p] + Sum(T \ {p})
  BY <1>3, <1>4, SumPick
<1> HIDE DEF p
<1>6. p # y
  BY <1>3, <1>5
<1>7. Good(T \ {p}) /\ Good(T \ {y})
  BY <1>2, <1>3, <1>4
<1>8. /\ Sum(T \ {p}) = f[y] + Sum((T \ {p}) \ {y})
      /\ Sum(T \ {y}) = f[p] + Sum((T \ {y}) \ {p})
  BY <1>3, <1>4, <1>6, <1>7
<1>9. (T \ {p}) \ {y} = (T \ {y}) \ {p}
  OBVIOUS
<1>10. f[p] \in Int /\ f[y] \in Int /\ Sum((T \ {y}) \ {p}) \in Int
  BY <1>2, <1>3, <1>4, SumType
<1> HIDE DEF Sum
<1>11. ASSUME NEW a \in Int, NEW b \in Int, NEW c \in Int
       PROVE  a + (b + c) = b + (a + c)
  OBVIOUS
<1>12. f[p] + (f[y] + Sum((T \ {y}) \ {p})) = f[y] + (f[p] + Sum((T \ {y}) \ {p}))
  BY <1>10, <1>11
<1> QED BY <1>3, <1>5, <1>8, <1>9, <1>12

\* A sum changes as the one value that changes.
LEMMA SumChange ==
    ASSUME NEW S, IsFiniteSet(S), NEW f, NEW e, NEW x \in S,
           \A y \in S : f[y] \in Int /\ e[y] \in Int,
           \A y \in S \ {x} : e[y] = f[y]
    PROVE  SumFunctionOnSet(e, S) = SumFunctionOnSet(f, S) + e[x] - f[x]
<1>1. IsFiniteSet(S \ {x})
  BY FS_Subset
<1>2. SumFunctionOnSet(e, S \ {x}) = SumFunctionOnSet(f, S \ {x})
  BY <1>1, SumSame
<1>3. SumFunctionOnSet(f, S \ {x}) \in Int
  BY <1>1, SumType
<1>4. /\ SumFunctionOnSet(e, S) = e[x] + SumFunctionOnSet(e, S \ {x})
      /\ SumFunctionOnSet(f, S) = f[x] + SumFunctionOnSet(f, S \ {x})
  BY SumRemove
<1> QED BY <1>2, <1>3, <1>4

\* A sum is at most k times another one if every value is.
LEMMA SumOrder ==
    ASSUME NEW S, IsFiniteSet(S), NEW f, NEW e, NEW k \in Int,
           \A x \in S : f[x] \in Int /\ e[x] \in Int /\ f[x] <= k * e[x]
    PROVE  SumFunctionOnSet(f, S) <= k * SumFunctionOnSet(e, S)
<1> DEFINE Sum(s) == SumFunctionOnSet(f, s)
           Top(s) == SumFunctionOnSet(e, s)
           Bad == {s \in SUBSET S : ~(Sum(s) <= k * Top(s))}
<1>1. SUFFICES ASSUME Bad # {}  PROVE FALSE
  OBVIOUS
<1>2. PICK T \in Bad : \A U \in Bad : U \subseteq T => U = T
  <2>1. Bad \subseteq SUBSET S
    OBVIOUS
  <2> HIDE DEF Bad
  <2> QED BY <1>1, <2>1, LeastSubset
<1>3. T # {}
  <2>1. Sum({}) = 0 /\ k * Top({}) = 0
    <3>1. Top({}) = 0 /\ k * 0 = 0
      BY SumEmpty
    <3> QED BY <3>1, SumEmpty
  <2>2. ~(Sum(T) <= k * Top(T))
    BY <1>2
  <2> HIDE DEF Sum, Top
  <2> QED BY <2>1, <2>2
<1> DEFINE p == Pick(T)
           R == T \ {p}
<1>4. IsFiniteSet(T) /\ p \in T /\ p \in S /\ IsFiniteSet(R) /\ R \subseteq S
  BY <1>2, <1>3, PickIn, FS_Subset
<1>5. Sum(R) <= k * Top(R)
  BY <1>2, <1>4
<1>6. Sum(T) = f[p] + Sum(R) /\ Top(T) = e[p] + Top(R)
  BY <1>3, <1>4, SumPick
<1>7. Sum(R) \in Int /\ Top(R) \in Int
  BY <1>4, SumType
<1>8. f[p] \in Int /\ e[p] \in Int /\ f[p] <= k * e[p]
  BY <1>4
<1>9. ~(Sum(T) <= k * Top(T))
  BY <1>2
<1> HIDE DEF Sum, Top, p, R
<1>10. k * (e[p] + Top(R)) = k * e[p] + k * Top(R)
  BY <1>7, <1>8
<1>11. k * e[p] \in Int /\ k * Top(R) \in Int
  BY <1>7, <1>8
<1> QED BY <1>5, <1>6, <1>7, <1>8, <1>9, <1>10, <1>11

LEMMA SumZero ==
    ASSUME NEW S, IsFiniteSet(S), NEW f, \A x \in S : f[x] = 0
    PROVE  SumFunctionOnSet(f, S) = 0
<1> DEFINE Bad == {s \in SUBSET S : SumFunctionOnSet(f, s) # 0}
<1>1. SUFFICES ASSUME Bad # {}  PROVE FALSE
  OBVIOUS
<1>2. PICK T \in Bad : \A U \in Bad : U \subseteq T => U = T
  <2>1. Bad \subseteq SUBSET S
    OBVIOUS
  <2> HIDE DEF Bad
  <2> QED BY <1>1, <2>1, LeastSubset
<1>3. T # {}
  BY <1>2, SumEmpty
<1>4. IsFiniteSet(T) /\ Pick(T) \in T
  BY <1>2, <1>3, PickIn, FS_Subset
<1>5. SumFunctionOnSet(f, T \ {Pick(T)}) = 0 /\ f[Pick(T)] = 0
  BY <1>2, <1>4
<1> QED BY <1>2, <1>3, <1>4, <1>5, SumPick

\* The sum of a function over the set on which it is defined.
LEMMA SumWhole ==
    ASSUME NEW S, NEW f, DOMAIN f = S
    PROVE  SumFunction(f) = SumFunctionOnSet(f, S)
BY DEF SumFunction

-----------------------------------------------------------------------------
(* Counters.                                                               *)

\* The provers instantiate a lemma on set expressions only when they are named.
Inside(S, T)  == S \cap T
Outside(S, T) == S \ T
Adds(R, S, r) == r \notin S /\ R = S \cup {r}

\* A set that grows by one element counts one more, ...
LEMMA CountMore ==
    ASSUME NEW S, NEW R, NEW r, IsFiniteSet(S), Adds(R, S, r)
    PROVE  /\ IsFiniteSet(R)
           /\ Cardinality(S) \in Nat /\ Cardinality(R) = Cardinality(S) + 1
<1>1. r \notin S /\ R = S \cup {r}
  BY DEF Adds
<1>2. Cardinality(S \cup {r}) = Cardinality(S) + 1 /\ IsFiniteSet(S \cup {r})
  BY <1>1, FS_AddElement
<1> QED BY <1>1, <1>2, FS_CardinalityType

\* ... inside T or outside T.
LEMMA CountIn ==
    ASSUME NEW S, NEW R, NEW T, NEW r, IsFiniteSet(S), Adds(R, S, r), r \in T
    PROVE  /\ Cardinality(Inside(S, T)) \in Nat
           /\ Cardinality(Inside(R, T)) = Cardinality(Inside(S, T)) + 1
           /\ Outside(R, T) = Outside(S, T)
<1>1. IsFiniteSet(Inside(S, T))
  BY FS_Intersection DEF Inside
<1>2. Adds(Inside(R, T), Inside(S, T), r) /\ Outside(R, T) = Outside(S, T)
  BY DEF Adds, Inside, Outside
<1> QED BY <1>1, <1>2, CountMore

LEMMA CountOut ==
    ASSUME NEW S, NEW R, NEW T, NEW r, IsFiniteSet(S), Adds(R, S, r), r \notin T
    PROVE  /\ Cardinality(Outside(S, T)) \in Nat
           /\ Cardinality(Outside(R, T)) = Cardinality(Outside(S, T)) + 1
           /\ Inside(R, T) = Inside(S, T)
<1>1. IsFiniteSet(Outside(S, T))
  BY FS_Difference DEF Outside
<1>2. Adds(Outside(R, T), Outside(S, T), r) /\ Inside(R, T) = Inside(S, T)
  BY DEF Adds, Inside, Outside
<1> QED BY <1>1, <1>2, CountMore

-----------------------------------------------------------------------------
(* Sorted lists.                                                           *)

\* Neighbours in order are all in order, if the order is transitive.
LEMMA SortedPairs ==
    ASSUME NEW n \in Nat, NEW R,
           \A i \in 2..n : <<i - 1, i>> \in R,
           \A i, j, k \in 1..n : <<i, j>> \in R /\ <<j, k>> \in R => <<i, k>> \in R
    PROVE  \A i, j \in 1..n : i < j => <<i, j>> \in R
<1> SUFFICES ASSUME NEW i \in 1..n, \E j \in 1..n : i < j /\ <<i, j>> \notin R
             PROVE  FALSE
  OBVIOUS
<1> DEFINE Bad == {j \in 1..n : i < j /\ <<i, j>> \notin R}
<1>1. PICK j \in Bad : \A k \in Bad : j <= k
  <2>1. Bad \in SUBSET Nat
    OBVIOUS
  <2>2. Bad # {}
    OBVIOUS
  <2> HIDE DEF Bad
  <2> QED BY <2>1, <2>2, LeastNumber
<1>2. j \in 2..n /\ j - 1 \in 1..n /\ j - 1 \notin Bad
  BY <1>1
<1>3. <<j - 1, j>> \in R
  BY <1>2
<1>4. j - 1 # i
  BY <1>1, <1>3
<1>5. <<i, j - 1>> \in R
  BY <1>1, <1>2, <1>4
<1> QED BY <1>1, <1>2, <1>3, <1>5

\* A list as long as a set, of members of the set and without repetitions,
\* holds every member.
LEMMA ListsAll ==
    ASSUME NEW S, IsFiniteSet(S), NEW s \in [1..Cardinality(S) -> S],
           \A i, j \in DOMAIN s : s[i] = s[j] => i = j
    PROVE  Range(s) = S
<1>1. Cardinality(S) \in Nat
  BY FS_CardinalityType
<1>2. Cardinality(1..Cardinality(S)) = Cardinality(S)
  BY <1>1, FS_Interval
<1>3. s \in Injection(1..Cardinality(S), S)
  BY DEF Injection, IsInjective
<1>4. s \in Surjection(1..Cardinality(S), S)
  BY <1>2, <1>3, FS_Injection
<1> QED BY <1>4 DEF Surjection, Range
=============================================================================
