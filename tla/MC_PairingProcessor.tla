------------------------ MODULE MC_PairingProcessor ------------------------
(***************************************************************************)
(* A small instance of PairingProcessor for TLC: two providers that pass   *)
(* for the policy "split", of different stake, and a third one with the    *)
(* address of one of them and another location.  The policy "joined" asks  *)
(* in one string for what "split" asks for in two, and nobody has that;    *)
(* the two have one cache key.                                             *)
(***************************************************************************)
EXTENDS PairingProcessor, TLC

CONSTANTS one, two, moved,              \* providers
          split, joined,                \* policies
          first, second, filters, ranks \* calls

MCAddress  == [p \in Providers |-> IF p = two THEN "b" ELSE "a"]
MCLocation == [p \in Providers |-> IF p = moved THEN "EU-West-1" ELSE "US-East-1"]
MCFeatures == [p \in Providers |-> IF p = moved THEN <<"gRPC">> ELSE <<"HTTP", "gRPC">>]
MCStake    == [p \in Providers |-> IF p = one THEN 100000 ELSE 1000]

MCRequiredLocation == [q \in Policies |-> "US-East-1"]
MCRequiredFeatures == [q \in Policies |-> IF q = split THEN <<"grpc", "HTTP">> ELSE <<"grpc HTTP">>]
MCMinStake         == [q \in Policies |-> 1000]

MCLower  == [f \in {"gRPC", "grpc"} |-> "grpc"] @@ ("HTTP" :> "http")
              @@ ("grpc HTTP" :> "grpc http") @@ (" " :> " ")
MCWords  == [f \in {"gRPC", "grpc", "HTTP"} |-> <<f>>]
              @@ ("grpc HTTP" :> <<"grpc", "HTTP">>) @@ (" " :> <<"", "">>)
MCLog10  == (100000 :> 100) @@ (1000 :> 60)
MCRegion == ("US-East-1" :> "US") @@ ("EU-West-1" :> "EU")

\* The weights of the code.
MCDefaultWeights == <<4, 3, 3>>
MCWeightings     == {MCDefaultWeights}

\* No scorers but those of the program.
MCCustomScore == [k \in {} |-> 0]

MCOperation ==
    [c \in Calls |-> CASE c = filters -> "FilterProviders" [] c = ranks -> "RankProviders"
                       [] OTHER -> "GetPairingListWithDetails"]
MCListOf    == [c \in Calls |-> CASE c = filters -> {two, moved} [] c = ranks -> {one, two} [] OTHER -> {}]
MCPolicyOf  == [c \in Calls |-> IF c = second THEN joined ELSE split]
=============================================================================
