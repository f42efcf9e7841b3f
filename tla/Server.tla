------------------------------- MODULE Server -------------------------------
(***************************************************************************)
(* cmd/server/main.go: the goroutines that submit policies, add providers  *)
(* and display results, main itself, and the generators of                 *)
(* testdata/fake_data_generators.go that they call.  The service is its    *)
(* promise, RequestLedger.                                                 *)
(*                                                                         *)
(* A feature list is built by drawing features at random until enough are  *)
(* selected that were not in use before; of a list only the number of its  *)
(* features counts here.  A draw of a feature that is in use changes       *)
(* nothing.                                                                *)
(***************************************************************************)
EXTENDS Integers, FiniteSets

CONSTANTS
    Requests,       \* the policies that are generated, at most
    FeatureCount,   \* how many features there are (24)
    RandomSizes,    \* features of GenerateRandomProvider (3..12)
    RichSizes,      \* features of a provider that is rich of them (10..19)
    RoundSizes      \* providers added in a round (5..15)

VARIABLES
    main,           \* where main is
    shutdown,       \* shutdownChan is closed
    display,        \* where periodicResultsDisplay is
    policies,       \* where continuousPolicyGeneration is, and
    batch,          \*   what it has yet to submit
    providers,      \* where continuousProviderGeneration is,
    left,           \*   how many providers it has yet to add in this round,
    used, wanted, selected,     \* and its feature list: how many features were
                                \* in use before, how many it wants and has
    status, draining            \* the service

policyVars   == <<policies, batch>>
providerVars == <<providers, left, used, wanted, selected>>
serviceVars  == <<status, draining>>
vars == <<main, shutdown, display, policyVars, providerVars, serviceVars>>

Service == INSTANCE RequestLedger

\* Stop has not begun while the goroutines run.
Init ==
    /\ main = "running" /\ shutdown = FALSE /\ display = "tick"
    /\ policies = "tick" /\ batch = {}
    /\ providers = "tick" /\ left = 0
    /\ used = 0 /\ wanted = 0 /\ selected = 0
    /\ Service!Init

Running == main # "exited"

-----------------------------------------------------------------------------
(* continuousPolicyGeneration.                                             *)

PolicyTick ==
    /\ policies = "tick" /\ policies' = "submit"
    /\ \E B \in SUBSET Service!In("new") : Cardinality(B) \in 1..3 /\ batch' = B
    /\ UNCHANGED <<main, shutdown, display, providerVars, serviceVars>>

SubmitPolicy ==
    /\ policies = "submit"
    /\ \E r \in batch :
         /\ Service!Accept(r)
         /\ batch' = batch \ {r}
         /\ policies' = IF batch' = {} THEN "tick" ELSE "submit"
    /\ UNCHANGED <<main, shutdown, display, providerVars>>

\* The queue is full: the rest of the batch is given up with a warning.
SubmitFails ==
    /\ policies = "submit" /\ policies' = "tick" /\ batch' = {}
    /\ UNCHANGED <<main, shutdown, display, providerVars, serviceVars>>

PolicyStop ==
    /\ policies = "tick" /\ shutdown /\ policies' = "stopped"
    /\ UNCHANGED <<main, shutdown, display, batch, providerVars, serviceVars>>

-----------------------------------------------------------------------------
(* continuousProviderGeneration.                                           *)

\* GenerateRandomProvider starts with no feature in use.
NextProvider(n) ==
    /\ providers' = IF n = 0 THEN "tick" ELSE "random"
    /\ left' = n /\ used' = 0 /\ selected' = 0
    /\ IF n = 0 THEN wanted' = 0 ELSE wanted' \in RandomSizes

ProviderTick ==
    /\ providers = "tick"
    /\ \E n \in RoundSizes : NextProvider(n)
    /\ UNCHANGED <<main, shutdown, display, policyVars, serviceVars>>

\* One more pass of a feature loop.
SelectFeature ==
    /\ providers \in {"random", "rich"}
    /\ selected < wanted /\ used + selected < FeatureCount
    /\ selected' = selected + 1
    /\ UNCHANGED <<main, shutdown, display, policyVars, providers, left, used, wanted,
                   serviceVars>>

\* The provider is stored as it is, or with a high stake.
AddProvider ==
    /\ providers = "random" /\ selected = wanted
    /\ NextProvider(left - 1)
    /\ UNCHANGED <<main, shutdown, display, policyVars, serviceVars>>

\* The provider gets another list, of features it does not have.
EnrichProvider ==
    /\ providers = "random" /\ selected = wanted
    /\ providers' = "rich" /\ used' = selected /\ selected' = 0
    /\ wanted' \in RichSizes
    /\ UNCHANGED <<main, shutdown, display, policyVars, left, serviceVars>>

AddRichProvider ==
    /\ providers = "rich" /\ (selected = wanted \/ selected = FeatureCount)
    /\ NextProvider(left - 1)
    /\ UNCHANGED <<main, shutdown, display, policyVars, serviceVars>>

ProviderStop ==
    /\ providers = "tick" /\ shutdown /\ providers' = "stopped"
    /\ UNCHANGED <<main, shutdown, display, policyVars, left, used, wanted, selected,
                   serviceVars>>

-----------------------------------------------------------------------------
(* periodicResultsDisplay, main and the service.                           *)

ShowResults ==
    /\ display = "tick" /\ Service!Answer
    /\ UNCHANGED <<main, shutdown, display, policyVars, providerVars>>

DisplayStop ==
    /\ display = "tick" /\ shutdown /\ display' = "stopped"
    /\ UNCHANGED <<main, shutdown, policyVars, providerVars, serviceVars>>

Signal ==
    /\ main = "running" /\ main' = "sleeping" /\ shutdown' = TRUE
    /\ UNCHANGED <<display, policyVars, providerVars, serviceVars>>

\* Two seconds later, whether or not the goroutines have stopped.
FinalResults ==
    /\ main = "sleeping" /\ main' = "final" /\ Service!Answer
    /\ UNCHANGED <<shutdown, display, policyVars, providerVars>>

\* The deferred Stop; main does not wait for what it abandons.
StopAndExit ==
    /\ main = "final" /\ main' = "exited" /\ Service!BeginDrain
    /\ UNCHANGED <<shutdown, display, policyVars, providerVars>>

ServiceStep ==
    /\ \E r \in Requests : Service!Collect(r)
    /\ UNCHANGED <<main, shutdown, display, policyVars, providerVars>>

Next ==
    /\ Running
    /\ \/ PolicyTick \/ SubmitPolicy \/ SubmitFails \/ PolicyStop
       \/ ProviderTick \/ SelectFeature \/ AddProvider \/ EnrichProvider
       \/ AddRichProvider \/ ProviderStop
       \/ ShowResults \/ DisplayStop
       \/ Signal \/ FinalResults \/ StopAndExit
       \/ ServiceStep

\* The ticker ticks, and a draw selects some unused feature at last if there is
\* one.  Nothing makes the signal come.
Spec ==
    /\ Init /\ [][Next]_vars
    /\ WF_vars(Running /\ (ProviderTick \/ AddProvider \/ AddRichProvider))
    /\ WF_vars(Running /\ SelectFeature)

-----------------------------------------------------------------------------
\* "continuousProviderGeneration adds providers continuously": until main exits,
\* a round that is begun comes to its end.
RoundsEnd == providers \in {"random", "rich"} ~> providers \in {"tick", "stopped"} \/ ~Running
=============================================================================
