------------------------- MODULE MC_CompositeScoring -------------------------
(***************************************************************************)
(* A small instance of CompositeScoring for TLC: a provider without stake, *)
(* one of 9M and with features to spare, one of 10M, where the score of a  *)
(* stake ends, and one of more.  One call ranks the first three, which     *)
(* pass the filters of a policy that asks for little; another one two that *)
(* miss something of what its policy asks for; the policy of the third     *)
(* call is not valid.  A client has a scorer that fails for one provider.  *)
(***************************************************************************)
EXTENDS CompositeScoring, TLC

CONSTANTS none, small, full, over,  \* providers
          lax, strict, empty,       \* policies
          filtered, unfiltered, invalid

ByProvider(a, b, c, d) ==
    [p \in Providers |-> CASE p = none -> a [] p = small -> b [] p = full -> c [] OTHER -> d]

MCAddress  == [p \in Providers |-> p]
MCLocation == ByProvider("US-East-1", "US-West-1", "EU-West-1", "US-East-1")
MCStake    == ByProvider(0, 9000000, 10000000, 100000000)
MCFeatures == ByProvider(<<"HTTP">>, <<"http", "gRPC", "UDP">>, <<"Http">>, <<"HTTP", "GRPC", "udp">>)
MCLower    == [f \in {"HTTP", "Http", "http"} |-> "http"] @@ [f \in {"gRPC", "GRPC", "grpc"} |-> "grpc"]
                @@ [f \in {"UDP", "udp"} |-> "udp"] @@ (" " :> " ")
MCLog10    == (9000000 :> 139) @@ (10000000 :> 140) @@ (100000000 :> 160)
MCRegion   == [l \in {"US-East-1", "US-West-1"} |-> "US"] @@ ("EU-West-1" :> "EU")

ByPolicy(a, b, c) == [q \in Policies |-> IF q = lax THEN a ELSE IF q = strict THEN b ELSE c]

MCRequiredLocation == ByPolicy(AnyLocation, "US-East-1", AnyLocation)
MCRequiredFeatures == ByPolicy(<<"http">>, <<"http", "grpc">>, <<" ">>)
MCMinStake         == ByPolicy(0, 100000, 0)

MCWeights == {-3, 0}

\* A scorer that prefers the last and dislikes the first, and fails for one.
MCCustomScore == [k \in CustomKinds |-> [p \in Providers |-> [q \in Policies |->
                     CASE p = none -> -One [] p = over -> 2 * One [] OTHER -> 0]]]
MCFaulty      == {<<"CustomScorer", small, lax>>}

MCPolicyOf == [c \in Calls |-> IF c = filtered THEN lax ELSE IF c = unfiltered THEN strict ELSE empty]
MCListed   == [c \in Calls |-> IF c = filtered THEN Providers \ {over} ELSE {small, over}]
=============================================================================
