------------------------------ MODULE Backends ------------------------------
(***************************************************************************)
(* The backends of one gateway process together: the Redis connection, the *)
(* embedding circuit, and HealthService, whose readiness evaluations ask   *)
(* all of them.  Evaluations run concurrently (readiness requests and the  *)
(* metrics scrape); the probes of the embedding service and of the vector  *)
(* index are shared between them and remembered for a while.               *)
(*                                                                         *)
(* What the checks found is left out: no property is about it.  embed() of *)
(* a probe does not touch the circuit.                                     *)
(***************************************************************************)
EXTENDS RedisConnection, EmbeddingCircuit

CONSTANTS
    Evaluators,     \* callers of evaluateReadiness
    Scrape,         \* the one that stands for refreshMetricsForScrape
    FreshTicks      \* *_PROBE_REFRESH_MS and SCRAPE_REFRESH_MS in ticks

ASSUME EvaluatorsAssumption == Scrape \in Evaluators /\ FreshTicks \in Nat

VARIABLES
    check,        \* check[e]: the check that evaluation e is at
    waits,        \* waits[e]: e awaits the shared probe of that check
    inFlight,     \* inFlight[p]: embeddingsProbeInFlight, vectorStoreProbeInFlight
    calls,        \* calls[p]: probe calls of that kind that are running
    fresh,        \* fresh[p]: ticks for which the last result of p is reused
    scrapeIn      \* ticks before the scrape evaluates again

healthVars == <<check, waits, inFlight, calls, fresh, scrapeIn>>
vars == <<redisVars, circuitVars, healthVars>>

Probes == {"embeddings", "vectorStore"}

HealthTypeOK ==
    /\ check \in [Evaluators -> {"idle", "redis", "publish"} \cup Probes]
    /\ waits \in [Evaluators -> BOOLEAN]
    /\ inFlight \in [Probes -> BOOLEAN]
    /\ calls \in [Probes -> Nat]
    /\ fresh \in [Probes -> 0 .. FreshTicks]
    /\ scrapeIn \in 0 .. FreshTicks

TypeOK == RedisTypeOK /\ CircuitTypeOK /\ HealthTypeOK

HealthInit ==
    /\ check = [e \in Evaluators |-> "idle"]
    /\ waits = [e \in Evaluators |-> FALSE]
    /\ inFlight = [p \in Probes |-> FALSE]
    /\ calls = [p \in Probes |-> 0]
    /\ fresh = [p \in Probes |-> 0]
    /\ scrapeIn = 0

Init == RedisInit /\ CircuitInit /\ HealthInit

Following(p) == IF p = "embeddings" THEN "vectorStore" ELSE "publish"

\* evaluateReadiness begins with checkRedis: ping() when the client is ready,
\* otherwise isReady() starts a connection attempt and the check is over.
EvaluateReadiness(e) ==
    /\ check[e] = "idle"
    /\ e = Scrape => scrapeIn = 0
    /\ check' = [check EXCEPT ![e] = IF isReady THEN "redis" ELSE "embeddings"]
    /\ IF isReady THEN UNCHANGED redisVars ELSE AskForClient
    /\ UNCHANGED <<waits, inFlight, calls, fresh, scrapeIn, circuitVars>>

\* ping() answered or failed; a failed one asks isReady() again.
RedisChecked(e) ==
    /\ check[e] = "redis"
    /\ check' = [check EXCEPT ![e] = "embeddings"]
    /\ \/ UNCHANGED redisVars
       \/ AskForClient
    /\ UNCHANGED <<waits, inFlight, calls, fresh, scrapeIn, circuitVars>>

\* checkEmbeddings and checkVectorStore with a remembered result.
UseLastCheck(e) ==
    /\ check[e] \in Probes
    /\ ~waits[e]
    /\ fresh[check[e]] > 0
    /\ check' = [check EXCEPT ![e] = Following(check[e])]
    /\ UNCHANGED <<waits, inFlight, calls, fresh, scrapeIn, redisVars, circuitVars>>

JoinProbe(e) ==
    /\ check[e] \in Probes
    /\ ~waits[e]
    /\ fresh[check[e]] = 0
    /\ inFlight[check[e]]
    /\ waits' = [waits EXCEPT ![e] = TRUE]
    /\ UNCHANGED <<check, inFlight, calls, fresh, scrapeIn, redisVars, circuitVars>>

FaultProbeUnshared(e) ==
    /\ check[e] \in Probes
    /\ ~waits[e]
    /\ fresh[check[e]] = 0
    /\ waits' = [waits EXCEPT ![e] = TRUE]
    /\ inFlight' = [inFlight EXCEPT ![check[e]] = TRUE]
    /\ calls' = [calls EXCEPT ![check[e]] = @ + 1]
    /\ IF check[e] = "vectorStore" THEN AskForClient ELSE UNCHANGED redisVars
    /\ UNCHANGED <<check, fresh, scrapeIn, circuitVars>>

\* The first to find neither starts the probe; probeIndex asks for the client.
StartProbe(e) ==
    /\ check[e] \in Probes
    /\ ~waits[e]
    /\ fresh[check[e]] = 0
    /\ ~inFlight[check[e]]
    /\ waits' = [waits EXCEPT ![e] = TRUE]
    /\ inFlight' = [inFlight EXCEPT ![check[e]] = TRUE]
    /\ calls' = [calls EXCEPT ![check[e]] = @ + 1]
    /\ IF check[e] = "vectorStore" THEN AskForClient ELSE UNCHANGED redisVars
    /\ UNCHANGED <<check, fresh, scrapeIn, circuitVars>>

\* The probe answers or runs into its budget: its result is remembered, the
\* promise cleared, and everyone who awaited it goes on.
ProbeEnds(p) ==
    /\ calls[p] > 0
    /\ calls' = [calls EXCEPT ![p] = @ - 1]
    /\ inFlight' = [inFlight EXCEPT ![p] = FALSE]
    /\ fresh' = [fresh EXCEPT ![p] = FreshTicks]
    /\ check' = [e \in Evaluators |->
                    IF check[e] = p /\ waits[e] THEN Following(p) ELSE check[e]]
    /\ waits' = [e \in Evaluators |-> waits[e] /\ check[e] # p]
    /\ UNCHANGED <<scrapeIn, redisVars, circuitVars>>

\* getReadiness answers; a scrape refresh publishes and starts its window.
Publish(e) ==
    /\ check[e] = "publish"
    /\ check' = [check EXCEPT ![e] = "idle"]
    /\ scrapeIn' = IF e = Scrape THEN FreshTicks ELSE scrapeIn
    /\ UNCHANGED <<waits, inFlight, calls, fresh, redisVars, circuitVars>>

\* The cache or the rate limiter asks for the client.
UseRedis == AskForClient /\ UNCHANGED <<circuitVars, healthVars>>

\* The search of a lookup asks for the client as well.
Search(r) == Knn(r) /\ AskForClient /\ UNCHANGED healthVars

Less(n) == IF n = 0 THEN 0 ELSE n - 1

\* Time passes for everyone; embed() never outlives its abort timer.
Tick ==
    /\ \A r \in Requests : stage[r] \in Embedding => age[r] < EmbedTimeout
    /\ age' = [r \in Requests |-> IF stage[r] \in Embedding THEN age[r] + 1 ELSE age[r]]
    /\ coolIn' = Less(coolIn)
    /\ retryIn' = Less(retryIn)
    /\ fresh' = [p \in Probes |-> Less(fresh[p])]
    /\ scrapeIn' = Less(scrapeIn)
    /\ UNCHANGED <<client, status, connecting, connectOf, closed, shutdown>>
    /\ UNCHANGED <<failures, trialInFlight, stage, trials>>
    /\ UNCHANGED <<check, waits, inFlight, calls>>

Evaluation(e) ==
    RedisChecked(e) \/ UseLastCheck(e) \/ JoinProbe(e) \/ StartProbe(e) \/ Publish(e)

Next ==
    \/ RedisSteps /\ UNCHANGED <<circuitVars, healthVars>>
    \/ CircuitSteps /\ UNCHANGED <<redisVars, healthVars>>
    \/ \E r \in Requests : Search(r)
    \/ UseRedis
    \/ \E e \in Evaluators : EvaluateReadiness(e) \/ Evaluation(e)
    \/ \E p \in Probes : ProbeEnds(p)
    \/ Tick

Spec == Init /\ [][Next]_vars

\* One probe of a kind runs at a time, however many evaluations want it, and
\* nobody waits for a probe that is not running: an evaluation that missed the
\* end of the probe it joined would leave the readiness endpoint silent.
ProbesShared ==
    \A p \in Probes :
        /\ calls[p] <= 1
        /\ (\E e \in Evaluators : check[e] = p /\ waits[e]) => calls[p] = 1
==============================================================================
