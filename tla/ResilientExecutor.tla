-------------------------- MODULE ResilientExecutor --------------------------
(***************************************************************************)
(* The retry / fallback / timeout engine of the gateway:                   *)
(* src/chat/resilience/resilient-executor.ts.  One behaviour is one call   *)
(* of executeWithRetryAndFallback; the class keeps no state between calls, *)
(* so concurrent requests do not meet here.                                *)
(*                                                                         *)
(* runOnce is the provider call.  It is a promise that the executor races  *)
(* against a timer: when the timer wins, the executor goes on, while the   *)
(* promise keeps running until the SDK has noticed the abort signal.  Such *)
(* a call is "late" here: nobody awaits it and what it returns is dropped. *)
(***************************************************************************)
EXTENDS Naturals, FiniteSets

CONSTANTS
    Alias,            \* model aliases of gateway.config.yaml
    NoAlias,          \* fallbackAlias === undefined
    MaxAttemptsCap,   \* largest policy.retry.maxAttempts (the schema allows 5)
    Errors,           \* errors a provider call may be rejected with
    OnStatusChoices   \* the values of policy.retry.onStatus considered

(***************************************************************************)
(* An error is an HttpException whose body carries a gateway code          *)
(* ("coded", what every SDK adapter throws), an HttpException without one  *)
(* ("bare"), or any other throwable ("other").                             *)
(***************************************************************************)
ErrorKind == {"coded", "bare", "other"}
TimeoutHttpError == [kind |-> "coded", status |-> 504]
CircularFallbackError == [kind |-> "coded", status |-> 400]
BadGatewayError == [kind |-> "coded", status |-> 502]

ASSUME AliasAssumption == NoAlias \notin Alias
ASSUME CapAssumption == MaxAttemptsCap \in Nat \ {0}
ASSUME ErrorsAssumption ==
    /\ Errors \subseteq [kind : ErrorKind, status : Nat]
    /\ TimeoutHttpError \in Errors
ASSUME OnStatusAssumption == OnStatusChoices \subseteq SUBSET Nat

Options == [primaryAlias  : Alias,
            fallbackAlias : Alias \cup {NoAlias},
            maxAttempts   : 1 .. MaxAttemptsCap,
            onStatus      : OnStatusChoices]

(***************************************************************************)
(* Every runOnce(alias, attemptNo) the request may make, and what became   *)
(* of it: "open" is awaited by the executor, "late" lost the race with the *)
(* timer and still runs, "closed" has settled.                             *)
(***************************************************************************)
Call == Alias \X (1 .. MaxAttemptsCap)
CallState == {"none", "open", "late", "closed"}
NoError == [kind |-> "none", status |-> 0]
Pending == [tag |-> "pending"]
OkOutcome == [tag : {"ok"}, usedAlias : Alias, attempts : Nat, didFallback : BOOLEAN]
ErrorOutcome == [tag : {"error"}, error : Errors \cup {CircularFallbackError, BadGatewayError}]

VARIABLES
    options,        \* the arguments of executeWithRetryAndFallback
    stage,          \* "validate", "ready", "waiting", "backoff" or "settled"
    alias,          \* the alias tryAlias is working on
    attempt,        \* the loop counter of tryAlias
    calls,          \* the state of every provider call
    lastError,      \* lastError of the running tryAlias
    primaryError,   \* primary.error once the primary alias is exhausted
    primaryAttempts,\* primary.attempts, likewise
    outcome         \* how the returned promise settled

execVars == <<options, stage, alias, attempt, calls, lastError,
              primaryError, primaryAttempts, outcome>>

-----------------------------------------------------------------------------
isRetryableHttpError(e) ==
    /\ e.kind # "other"
    /\ e.status \in options.onStatus

\* The catch block of tryAlias goes on to sleep and to the next attempt.  Names
\* marked "Fault" in this and the other modules are variants of the definition
\* below them with a plausible bug, kept to show that the properties notice it.
FaultMayRetryAnyError(e) == attempt < options.maxAttempts
MayRetry(e) == isRetryableHttpError(e) /\ attempt < options.maxAttempts

\* toExhaustedException: the primary error speaks for both aliases.
FaultExhaustedAsBadGateway(e) == BadGatewayError
toExhaustedException(e) == IF e.kind = "coded" THEN e ELSE BadGatewayError

CurrentCall == <<alias, attempt>>
OnFallback == alias # options.primaryAlias
Started == {c \in Call : calls[c] # "none"}

Init ==
    /\ options \in Options
    /\ stage = "validate"
    /\ alias = options.primaryAlias
    /\ attempt = 1
    /\ calls = [c \in Call |-> "none"]
    /\ lastError = NoError
    /\ primaryError = NoError
    /\ primaryAttempts = 0
    /\ outcome = Pending

\* assertNoFallbackCycle: an alias cannot be its own fallback.
ValidateFallbackChain ==
    /\ stage = "validate"
    /\ IF options.fallbackAlias = options.primaryAlias
         THEN /\ stage' = "settled"
              /\ outcome' = [tag |-> "error", error |-> CircularFallbackError]
         ELSE /\ stage' = "ready"
              /\ UNCHANGED outcome
    /\ UNCHANGED <<options, alias, attempt, calls, lastError, primaryError, primaryAttempts>>

\* The head of the for loop of tryAlias: runOnce is called and the timer armed.
StartAttempt ==
    /\ stage = "ready"
    /\ stage' = "waiting"
    /\ calls' = [calls EXCEPT ![CurrentCall] = "open"]
    /\ UNCHANGED <<options, alias, attempt, lastError, primaryError, primaryAttempts, outcome>>

\* runOnce resolved before the timer.
AttemptSucceeds ==
    /\ stage = "waiting"
    /\ stage' = "settled"
    /\ calls' = [calls EXCEPT ![CurrentCall] = "closed"]
    /\ outcome' = [tag |-> "ok", usedAlias |-> alias,
                   attempts |-> primaryAttempts + attempt,
                   didFallback |-> OnFallback]
    /\ UNCHANGED <<options, alias, attempt, lastError, primaryError, primaryAttempts>>

\* The alias is given up after error e: on to the fallback alias, or out.
GiveUpAlias(e) ==
    IF OnFallback
      THEN /\ stage' = "settled"
           /\ outcome' = [tag |-> "error", error |-> toExhaustedException(primaryError)]
           /\ lastError' = e
           /\ UNCHANGED <<alias, attempt, primaryError, primaryAttempts>>
      ELSE /\ primaryError' = e
           /\ primaryAttempts' = attempt
           /\ IF options.fallbackAlias = NoAlias
                THEN /\ stage' = "settled"
                     /\ outcome' = [tag |-> "error", error |-> e]
                     /\ lastError' = e
                     /\ UNCHANGED <<alias, attempt>>
                ELSE /\ stage' = "ready"
                     /\ alias' = options.fallbackAlias
                     /\ attempt' = 1
                     /\ lastError' = NoError
                     /\ UNCHANGED outcome

\* The catch block of tryAlias, reached with error e.
CatchAttempt(e) ==
    \/ /\ MayRetry(e)
       /\ stage' = "backoff"
       /\ lastError' = e
       /\ UNCHANGED <<alias, attempt, primaryError, primaryAttempts, outcome>>
    \/ /\ ~ MayRetry(e)
       /\ GiveUpAlias(e)

\* runOnce was rejected before the timer.
AttemptFails(e) ==
    /\ stage = "waiting"
    /\ calls' = [calls EXCEPT ![CurrentCall] = "closed"]
    /\ CatchAttempt(e)
    /\ UNCHANGED options

\* runWithTimeout: the timer wins the race; the call goes on without us.
FaultTimeoutKeepsAwaiting ==
    /\ stage = "waiting"
    /\ UNCHANGED calls
    /\ CatchAttempt(TimeoutHttpError)
    /\ UNCHANGED options

AttemptTimesOut ==
    /\ stage = "waiting"
    /\ calls' = [calls EXCEPT ![CurrentCall] = "late"]
    /\ CatchAttempt(TimeoutHttpError)
    /\ UNCHANGED options

\* sleep(computeBackoffDelayMs(attempt)) is over: the next round of the loop.
FaultWakeUpSameAttempt ==
    /\ stage = "backoff"
    /\ stage' = "ready"
    /\ UNCHANGED <<options, alias, attempt, calls, lastError, primaryError, primaryAttempts, outcome>>

WakeUp ==
    /\ stage = "backoff"
    /\ stage' = "ready"
    /\ attempt' = attempt + 1
    /\ UNCHANGED <<options, alias, calls, lastError, primaryError, primaryAttempts, outcome>>

\* A call that lost its race settles at last; its result goes nowhere.
FaultLateCallAnswers(c) ==
    /\ calls[c] = "late"
    /\ calls' = [calls EXCEPT ![c] = "closed"]
    /\ outcome' = [tag |-> "ok", usedAlias |-> c[1], attempts |-> primaryAttempts + attempt,
                   didFallback |-> c[1] # options.primaryAlias]
    /\ stage' = "settled"
    /\ UNCHANGED <<options, alias, attempt, lastError, primaryError, primaryAttempts>>

LateCallSettles(c) ==
    /\ calls[c] = "late"
    /\ calls' = [calls EXCEPT ![c] = "closed"]
    /\ UNCHANGED <<options, stage, alias, attempt, lastError, primaryError, primaryAttempts, outcome>>

Next ==
    \/ ValidateFallbackChain
    \/ StartAttempt
    \/ AttemptSucceeds
    \/ \E e \in Errors : AttemptFails(e)
    \/ AttemptTimesOut
    \/ WakeUp
    \/ \E c \in Call : LateCallSettles(c)

Spec == Init /\ [][Next]_execVars

(***************************************************************************)
(* Fairness: the event loop runs what is runnable, timers fire.  Nothing   *)
(* is assumed of the provider: it may never answer.                        *)
(***************************************************************************)
ExecutorFairness ==
    /\ WF_execVars(ValidateFallbackChain)
    /\ WF_execVars(StartAttempt)
    /\ WF_execVars(AttemptTimesOut)
    /\ WF_execVars(WakeUp)

FairSpec == Spec /\ ExecutorFairness
-----------------------------------------------------------------------------
\* Type correctness of the executor's local state.
TypeOK ==
    /\ options \in Options
    /\ stage \in {"validate", "ready", "waiting", "backoff", "settled"}
    /\ alias \in Alias
    /\ attempt \in 1 .. MaxAttemptsCap
    /\ calls \in [Call -> CallState]
    /\ lastError \in Errors \cup {NoError}
    /\ primaryError \in Errors \cup {NoError}
    /\ primaryAttempts \in 0 .. MaxAttemptsCap
    /\ outcome \in {Pending} \cup OkOutcome \cup ErrorOutcome

\* Whatever timed out before, the request awaits at most one provider call, and
\* only while tryAlias is suspended on it: an abandoned call is never awaited again.
AwaitsOneCall ==
    \A c \in Call : calls[c] = "open" => stage = "waiting" /\ c = CurrentCall

\* The fallback alias is called only when the primary alias is used up: its last
\* error stops the loop or the attempts of its policy are spent, none of its calls
\* is still awaited, and no third alias is ever called (one hop).
FallbackOnlyAfterPrimary ==
    \A c \in Started :
        c[1] # options.primaryAlias =>
            /\ c[1] = options.fallbackAlias
            /\ primaryError \in Errors
            /\ isRetryableHttpError(primaryError) => primaryAttempts = options.maxAttempts
            /\ \A n \in 1 .. primaryAttempts :
                  calls[<<options.primaryAlias, n>>] \in {"late", "closed"}

\* The attempts a success reports (ResilientExecutionResult.attempts) are the
\* provider calls really made, over both aliases and counting abandoned ones.
AttemptsReported ==
    outcome.tag = "ok" => outcome.attempts = Cardinality(Started)

\* No alias is called more often than policy.retry.maxAttempts allows.
AttemptsWithinPolicy == \A c \in Started : c[2] <= options.maxAttempts

\* When both aliases fail, the caller is told what the primary alias answered and
\* never what the fallback did: the cooldown that handleProviderError sets for a
\* 429 is set for the primary provider and must be earned by it.
FailureBlamesPrimary ==
    outcome.tag = "error" /\ primaryError.kind = "coded" => outcome.error = primaryError

\* A provider is called again only after an answer the policy lists in onStatus,
\* and never while the call before it is awaited.
RetryOnlyAfterRetryable ==
    [][\A c \in Call :
          calls[c] = "none" /\ calls'[c] = "open" /\ c[2] > 1 =>
              /\ isRetryableHttpError(lastError)
              /\ calls[<<c[1], c[2] - 1>>] \in {"late", "closed"}]_execVars

\* A request always settles, though the provider may never answer.
Settles == <>(outcome # Pending)

-----------------------------------------------------------------------------
\* The executor seen from ChatService: of the outcome only who served it is left.
Verdict ==
    CASE outcome.tag = "pending" -> "pending"
      [] outcome.tag = "ok" -> IF outcome.didFallback THEN "fallback" ELSE "primary"
      [] outcome.tag = "error" -> "error"

Abstract == INSTANCE ProviderVerdict
    WITH primary <- options.primaryAlias, fallback <- options.fallbackAlias,
         verdict <- Verdict

\* The retry machinery implements a one-shot call: ChatService gets one verdict,
\* and it never changes.
ImplementsVerdict == Abstract!Spec
=============================================================================
