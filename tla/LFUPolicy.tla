----------------------------- MODULE LFUPolicy -----------------------------
(***************************************************************************)
(* What an LFU cache of bounded capacity promises: each key has a use      *)
(* count and an age, and a key makes room for another only when the cache  *)
(* is full and no other key was used less often, nor as often and longer   *)
(* ago.  LFUCache implements this specification with lists of keys by      *)
(* frequency and a running minimum.                                        *)
(***************************************************************************)
EXTENDS Integers, FiniteSets

CONSTANTS Keys,         \* the keys that policies can have
          Capacities    \* the capacities that can be configured

VARIABLES freq,         \* use count of each key, 0 for a key that is not cached
          before,       \* pairs <<j, k>> of cached keys, j last used before k
          capacity,
          lowered       \* the capacity has been lowered

lfuVars == <<freq, before, capacity, lowered>>

Cached == {k \in Keys : freq[k] > 0}
Full   == Cardinality(Cached) >= capacity

LeastUsed(v) ==
    /\ v \in Cached
    /\ \A k \in Cached \ {v} :
          freq[v] < freq[k] \/ (freq[v] = freq[k] /\ <<v, k>> \in before)

Init == /\ freq = [k \in Keys |-> 0] /\ before = {}
        /\ capacity \in Capacities /\ lowered = FALSE

\* The keys in out leave, k is used (again) if there is one.
Forget(out) == {p \in before : p[1] \notin out /\ p[2] \notin out}

Used(k, n, out) ==
    /\ freq' = [j \in Keys |-> IF j = k THEN n ELSE IF j \in out THEN 0 ELSE freq[j]]
    /\ before' = Forget(out \cup {k}) \cup ((Cached \ (out \cup {k})) \X {k})

Left(out) ==
    /\ freq' = [j \in Keys |-> IF j \in out THEN 0 ELSE freq[j]]
    /\ before' = Forget(out)

Use(k)        == k \in Cached /\ Used(k, freq[k] + 1, {}) /\ UNCHANGED <<capacity, lowered>>
Insert(k)     == k \notin Cached /\ ~Full /\ Used(k, 1, {}) /\ UNCHANGED <<capacity, lowered>>
Replace(v, k) == k \notin Cached /\ Full /\ LeastUsed(v) /\ Used(k, 1, {v})
                 /\ UNCHANGED <<capacity, lowered>>

\* A cache whose capacity was lowered may fail to make room.
Overflow(k) == lowered /\ k \notin Cached /\ Full /\ Used(k, 1, {})
               /\ UNCHANGED <<capacity, lowered>>

Remove(k)  == k \in Cached /\ Left({k}) /\ UNCHANGED <<capacity, lowered>>
Clear      == Left(Keys) /\ UNCHANGED <<capacity, lowered>>
Shrink(v)  == Cardinality(Cached) > capacity /\ LeastUsed(v) /\ Left({v})
              /\ UNCHANGED <<capacity, lowered>>

SetCapacity(n) == /\ capacity' = n
                  /\ lowered' = (lowered \/ n < capacity)
                  /\ UNCHANGED <<freq, before>>

Next == \/ \E k \in Keys : \/ Use(k) \/ Insert(k) \/ Overflow(k) \/ Remove(k)
                           \/ Shrink(k) \/ \E v \in Keys : Replace(v, k)
        \/ Clear
        \/ \E n \in Capacities : SetCapacity(n)

Spec == Init /\ [][Next]_lfuVars
=============================================================================
