-------------------------- MODULE EmbeddingCircuit --------------------------
(***************************************************************************)
(* EmbeddingCircuitBreaker as SemanticCacheService drives it.  A request   *)
(* embeds its text at most once: in lookup, or, when the open circuit made *)
(* lookup skip it, in storeReply.  After OpenAfter failures the circuit is *)
(* open: nothing is embedded for Cooldown ticks, then one trial.  Results  *)
(* of calls that began before the circuit opened are still applied to it.  *)
(***************************************************************************)
EXTENDS Naturals

CONSTANTS
    Requests,       \* chat requests that use the semantic cache
    OpenAfter,      \* EMBEDDING_CIRCUIT_OPEN_AFTER
    Cooldown,       \* EMBEDDING_CIRCUIT_COOLDOWN_MS in ticks
    EmbedTimeout    \* EMBEDDING_TIMEOUT_MS in ticks: the abort timer of embed

ASSUME TicksAssumption == EmbedTimeout \in Nat /\ Cooldown \in Nat
ASSUME OpenAfterAssumption == OpenAfter \in Nat \ {0}

VARIABLES
    failures,        \* consecutive failures, counted up to OpenAfter
    coolIn,          \* ticks left of the cooldown that began at openedAtMs
    trialInFlight,
    stage,           \* stage[r]: where request r is
    age,             \* age[r]: ticks since r's embed() began
    trials           \* history: requests whose running embed() is a trial

circuitVars == <<failures, coolIn, trialInFlight, stage, age, trials>>

Embedding == {"lookupEmbed", "storeEmbed"}
Answering == {"skipped", "failed", "vector"}

CircuitTypeOK ==
    /\ failures \in 0 .. OpenAfter
    /\ coolIn \in 0 .. Cooldown
    /\ trialInFlight \in BOOLEAN
    /\ stage \in [Requests -> {"idle", "knn"} \cup Embedding \cup Answering]
    /\ age \in [Requests -> 0 .. EmbedTimeout]
    /\ trials \in SUBSET Requests

CircuitInit ==
    /\ failures = 0
    /\ coolIn = 0
    /\ trialInFlight = FALSE
    /\ stage = [r \in Requests |-> "idle"]
    /\ age = [r \in Requests |-> 0]
    /\ trials = {}

open == failures >= OpenAfter

shouldSkipEmbed == open /\ (coolIn > 0 \/ trialInFlight)

\* shouldSkipEmbed answered false; embed() runs from here.
BeginEmbed(r, at) ==
    /\ ~shouldSkipEmbed
    /\ trialInFlight' = (trialInFlight \/ open)
    /\ trials' = IF open THEN trials \cup {r} ELSE trials
    /\ stage' = [stage EXCEPT ![r] = at]
    /\ age' = [age EXCEPT ![r] = 0]
    /\ UNCHANGED <<failures, coolIn>>

recordEmbedSuccess ==
    /\ failures' = 0
    /\ coolIn' = 0
    /\ trialInFlight' = FALSE

FaultOpensOnce ==
    /\ failures' = IF open THEN OpenAfter ELSE failures + 1
    /\ trialInFlight' = FALSE
    /\ coolIn' = IF failures + 1 = OpenAfter THEN Cooldown ELSE coolIn

\* Every failure while the circuit is open begins the cooldown anew.
recordEmbedFailure ==
    /\ failures' = IF open THEN OpenAfter ELSE failures + 1
    /\ trialInFlight' = FALSE
    /\ coolIn' = IF failures + 1 >= OpenAfter THEN Cooldown ELSE coolIn

LeaveEmbed(r, at) ==
    /\ stage' = [stage EXCEPT ![r] = at]
    /\ age' = [age EXCEPT ![r] = 0]
    /\ trials' = trials \ {r}

MoveTo(r, at) ==
    /\ stage' = [stage EXCEPT ![r] = at]
    /\ UNCHANGED <<failures, coolIn, trialInFlight, age, trials>>

\* lookup: the text was not found by identity.
LookupEmbeds(r) == stage[r] = "idle" /\ BeginEmbed(r, "lookupEmbed")
LookupSkips(r) == stage[r] = "idle" /\ shouldSkipEmbed /\ MoveTo(r, "skipped")

EmbedResolves(r) ==
    /\ stage[r] \in Embedding
    /\ recordEmbedSuccess
    /\ LeaveEmbed(r, IF stage[r] = "lookupEmbed" THEN "knn" ELSE "idle")

\* embed() failed or was aborted by its timer.
EmbedRejects(r) ==
    /\ stage[r] \in Embedding
    /\ recordEmbedFailure
    /\ LeaveEmbed(r, IF stage[r] = "lookupEmbed" THEN "failed" ELSE "idle")

\* The search after the embedding, over Redis.
Knn(r) == stage[r] = "knn" /\ \E found \in {"idle", "vector"} : MoveTo(r, found)

\* storeReply: a vector at hand is stored; an embedding that failed is not
\* tried again; a skipped one is, if the circuit lets it.
StoreReply(r) ==
    \/ stage[r] \in {"vector", "failed"} /\ MoveTo(r, "idle")
    \/ stage[r] = "skipped" /\ shouldSkipEmbed /\ MoveTo(r, "idle")
    \/ stage[r] = "skipped" /\ BeginEmbed(r, "storeEmbed")

\* The provider's reply is not stored.
NotStored(r) == stage[r] \in Answering /\ MoveTo(r, "idle")

CircuitSteps ==
    \E r \in Requests :
        \/ LookupEmbeds(r) \/ LookupSkips(r)
        \/ EmbedResolves(r) \/ EmbedRejects(r)
        \/ StoreReply(r) \/ NotStored(r)

\* Half open means one trial per cooldown: trials that run at the same time (a
\* late result of an older call may clear trialInFlight under a running trial)
\* began at least a cooldown apart, so there is only one when EMBEDDING_TIMEOUT_MS
\* is below the cooldown; and the flag never outlives its trial, which would keep
\* every later request from embedding until the process is restarted.
TrialsApart ==
    /\ \A r, s \in trials :
          r # s => age[r] >= age[s] + Cooldown \/ age[s] >= age[r] + Cooldown
    /\ trialInFlight => trials # {}
==============================================================================
