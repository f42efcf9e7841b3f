-------------------------- MODULE ProviderStorage --------------------------
(***************************************************************************)
(* ProviderStorage of storage/provider_storage.go: the providers by        *)
(* address, and the index of providers by location.  Every operation holds *)
(* ps.mu from beginning to end and is one step; nothing changes a provider *)
(* once it is stored.                                                      *)
(***************************************************************************)
EXTENDS Models

CONSTANT MaxAdds    \* bound: how many times AddProvider is called

ASSUME StorageAssumption == MaxAdds \in Nat

Addresses == {Address[p] : p \in Providers}
Locations == {Location[p] : p \in Providers}

VARIABLES
    providers,              \* the providers stored, at most one per address
    providersByLocation,    \* the index: a list for each location
    readded,                \* history: addresses added while they were stored
    adds                    \* history: calls of AddProvider

storageVars == <<providers, providersByLocation, readded, adds>>

StorageInit ==
    /\ providers = {}
    /\ providersByLocation = [l \in Locations |-> <<>>]
    /\ readded = {} /\ adds = 0

At(a) == {p \in providers : Address[p] = a}

\* Variant of AddProvider with a bug: what has the address already stays as well.
AddProviderBeside(p) ==
    /\ adds < MaxAdds /\ adds' = adds + 1
    /\ providers' = providers \cup {p}
    /\ providersByLocation' =
           [providersByLocation EXCEPT ![Location[p]] = Append(@, p)]
    /\ UNCHANGED readded

\* The provider that had the address, if any, stays in the index.
AddProvider(p) ==
    /\ adds < MaxAdds /\ adds' = adds + 1
    /\ providers' = (providers \ At(Address[p])) \cup {p}
    /\ providersByLocation' =
           [providersByLocation EXCEPT ![Location[p]] = Append(@, p)]
    /\ readded' = IF At(Address[p]) = {} THEN readded ELSE readded \cup {Address[p]}

\* Variant of RemoveProvider with a bug: the index is left alone.
RemoveUnindexed(a) ==
    /\ At(a) # {}
    /\ providers' = providers \ At(a)
    /\ UNCHANGED <<providersByLocation, readded, adds>>

\* The first entry of that address leaves the list s.
Without(s, a) == RemoveFirstMatch(s, LAMBDA p : Address[p] = a)

RemoveProvider(a) ==
    /\ At(a) # {}
    /\ providers' = providers \ At(a)
    /\ \E p \in At(a) :
         providersByLocation' = [providersByLocation EXCEPT ![Location[p]] = Without(@, a)]
    /\ UNCHANGED <<readded, adds>>

StorageNext == \/ \E p \in Providers : AddProvider(p)
               \/ \E a \in Addresses : RemoveProvider(a)

-----------------------------------------------------------------------------
StorageTypeOK ==
    /\ providers \subseteq Providers
    /\ \A p, q \in providers : Address[p] = Address[q] => p = q
    /\ providersByLocation \in [Locations -> Seq(Providers)]
    /\ readded \subseteq Addresses /\ adds \in 0..MaxAdds

Indexed(l) == {providersByLocation[l][i] : i \in DOMAIN providersByLocation[l]}

\* GetProvidersByLocation never misses a stored provider, however often its
\* address was added and removed; and as long as no address is added again
\* while it is stored, it returns the stored providers of the location, each
\* one once.
IndexExact ==
    \A l \in Locations :
        LET stored == {p \in providers : Location[p] = l}
        IN  /\ stored \subseteq Indexed(l)
            /\ {p \in Indexed(l) : Address[p] \notin readded} \subseteq stored
            /\ readded = {} => Len(providersByLocation[l]) = Cardinality(stored)
=============================================================================
