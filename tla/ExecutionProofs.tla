-------------------------- MODULE ExecutionProofs --------------------------
(***************************************************************************)
(* Proofs about ResilientExecutor and about the stream ChatStream runs on  *)
(* it, for every set of aliases and errors and every bound on the attempts *)
(* and the chunks.  The first part is about executeWithRetryAndFallback    *)
(* alone (Spec); the second shows that a stream is a run of it and builds  *)
(* the stream's invariant on the executor's.                               *)
(***************************************************************************)
EXTENDS ChatStream, FiniteSetTheorems, SequenceTheorems, TLAPS

\* The number of calls tryAlias has made on the alias it is working on.
Reached ==
    IF \/ stage \in {"waiting", "backoff"}
       \/ stage = "settled" /\ options.fallbackAlias # options.primaryAlias
      THEN attempt
      ELSE attempt - 1

\* The calls made so far: a prefix of the attempts on each alias.
CallsMade ==
    ({alias} \X (1 .. Reached))
        \cup (IF OnFallback THEN {options.primaryAlias} \X (1 .. primaryAttempts) ELSE {})

\* Where tryAlias stands: before the first call, on the primary alias, or on the
\* fallback alias with the primary's result at hand.
Progress ==
    /\ attempt <= options.maxAttempts
    /\ alias \in {options.primaryAlias, options.fallbackAlias}
    /\ stage = "validate" => alias = options.primaryAlias /\ attempt = 1
    /\ stage \in {"ready", "waiting", "backoff"} => options.fallbackAlias # options.primaryAlias
    /\ stage = "settled" /\ options.fallbackAlias = options.primaryAlias =>
          alias = options.primaryAlias /\ attempt = 1
    /\ ~ OnFallback => primaryAttempts = 0 \/ stage = "settled"
    /\ ~ OnFallback /\ outcome.tag = "ok" => primaryAttempts = 0
    /\ ~ OnFallback /\ stage # "settled" => primaryError = NoError

PrimaryUsedUp ==
    OnFallback =>
        /\ primaryError \in Errors
        /\ primaryAttempts \in 1 .. options.maxAttempts
        /\ isRetryableHttpError(primaryError) => primaryAttempts = options.maxAttempts

SettledOnce ==
    /\ stage = "settled" <=> outcome # Pending
    /\ outcome.tag = "ok" =>
          /\ options.fallbackAlias # options.primaryAlias
          /\ outcome.attempts = primaryAttempts + attempt
          /\ outcome.didFallback = OnFallback

RetryJustified ==
    /\ stage = "backoff" => MayRetry(lastError)
    /\ stage = "ready" /\ attempt > 1 => isRetryableHttpError(lastError)

IInv ==
    /\ TypeOK
    /\ Progress
    /\ PrimaryUsedUp
    /\ SettledOnce
    /\ Started = CallsMade
    /\ AwaitsOneCall
    /\ RetryJustified
    /\ FailureBlamesPrimary

-----------------------------------------------------------------------------
\* A request is pending exactly while its outcome carries the tag "pending".
LEMMA PendingTag ==
    ASSUME NEW o \in {Pending} \cup OkOutcome \cup ErrorOutcome
    PROVE  /\ o = Pending <=> o.tag = "pending"
           /\ o.tag \in {"pending", "ok", "error"}
           /\ o.tag = "ok" => o \in OkOutcome
BY DEF Pending, OkOutcome, ErrorOutcome

\* Initially nothing is called and nothing is settled.
LEMMA InitIInv == Init => IInv
<1> SUFFICES ASSUME Init PROVE IInv
    OBVIOUS
<1>1. TypeOK
    BY CapAssumption DEF Init, TypeOK, Options, CallState
<1>2. Progress /\ PrimaryUsedUp /\ SettledOnce /\ RetryJustified /\ FailureBlamesPrimary
    BY CapAssumption DEF Init, Progress, PrimaryUsedUp, SettledOnce, RetryJustified,
        FailureBlamesPrimary, OnFallback, Options, Pending, NoError
<1>3. Started = CallsMade /\ AwaitsOneCall
    BY DEF Init, Started, CallsMade, AwaitsOneCall, Reached, OnFallback, Call
<1> QED
    BY <1>1, <1>2, <1>3 DEF IInv

\* The two ways an attempt ends without success, with the state they leave the call in.
AttemptEnds(e, how) ==
    /\ stage = "waiting"
    /\ calls' = [calls EXCEPT ![CurrentCall] = how]
    /\ CatchAttempt(e)
    /\ UNCHANGED options

\* An attempt that fails or times out keeps the invariant, whichever way it leads.
LEMMA AttemptEndsIInv ==
    ASSUME IInv, NEW e \in Errors, NEW how \in {"late", "closed"}, AttemptEnds(e, how)
    PROVE  IInv'
<1> USE DEF IInv
<1>0. /\ attempt \in Nat /\ attempt >= 1 /\ attempt <= options.maxAttempts
      /\ options.maxAttempts \in 1 .. MaxAttemptsCap
      /\ CurrentCall \in Call /\ CurrentCall = <<alias, attempt>>
      /\ options.fallbackAlias # options.primaryAlias
      /\ options' = options /\ stage = "waiting" /\ outcome = Pending
      /\ calls' \in [Call -> CallState]
      /\ calls[CurrentCall] # "none"
    BY CapAssumption DEF TypeOK, Options, Progress, CurrentCall, Call, AttemptEnds, SettledOnce,
        CallState, CallsMade, Reached, Started
<1>1. /\ Started' = Started
      /\ \A c \in Call : calls'[c] # "open"
    BY <1>0 DEF AttemptEnds, Started, TypeOK, AwaitsOneCall
<1>2. AwaitsOneCall'
    BY <1>1 DEF AwaitsOneCall
<1>3. CASE MayRetry(e)
    <2>1. /\ stage' = "backoff" /\ lastError' = e
          /\ UNCHANGED <<alias, attempt, primaryError, primaryAttempts, outcome>>
        BY <1>3 DEF AttemptEnds, CatchAttempt
    <2>2. TypeOK'
        BY <1>0, <2>1 DEF TypeOK
    <2>3. Progress' /\ PrimaryUsedUp' /\ SettledOnce' /\ FailureBlamesPrimary'
        BY <1>0, <2>1 DEF Progress, PrimaryUsedUp, SettledOnce, FailureBlamesPrimary,
            OnFallback, isRetryableHttpError, Pending
    <2>4. RetryJustified'
        BY <1>0, <1>3, <2>1 DEF RetryJustified, MayRetry, isRetryableHttpError
    <2>5. CallsMade' = CallsMade
        BY <1>0, <2>1 DEF CallsMade, Reached, OnFallback
    <2> QED
        BY <1>1, <1>2, <2>2, <2>3, <2>4, <2>5
<1>4. CASE ~ MayRetry(e) /\ OnFallback
    <2>1. /\ stage' = "settled" /\ lastError' = e
          /\ outcome' = [tag |-> "error", error |-> toExhaustedException(primaryError)]
          /\ UNCHANGED <<alias, attempt, primaryError, primaryAttempts>>
        BY <1>4 DEF AttemptEnds, CatchAttempt, GiveUpAlias
    <2>2. primaryError \in Errors
        BY <1>4 DEF PrimaryUsedUp
    <2>3. outcome' \in ErrorOutcome
        BY <2>1, <2>2 DEF toExhaustedException, ErrorOutcome
    <2>4. TypeOK'
        BY <1>0, <2>1, <2>3 DEF TypeOK
    <2>5. Progress' /\ PrimaryUsedUp' /\ SettledOnce' /\ FailureBlamesPrimary' /\ RetryJustified'
        BY <1>0, <1>4, <2>1, <2>2 DEF Progress, PrimaryUsedUp, SettledOnce, FailureBlamesPrimary,
            OnFallback, isRetryableHttpError, Pending, toExhaustedException, RetryJustified
    <2>6. CallsMade' = CallsMade
        BY <1>0, <2>1 DEF CallsMade, Reached, OnFallback
    <2> QED
        BY <1>1, <1>2, <2>4, <2>5, <2>6
<1>5. CASE ~ MayRetry(e) /\ ~ OnFallback /\ options.fallbackAlias = NoAlias
    <2>1. /\ stage' = "settled" /\ lastError' = e
          /\ outcome' = [tag |-> "error", error |-> e]
          /\ primaryError' = e /\ primaryAttempts' = attempt
          /\ UNCHANGED <<alias, attempt>>
        BY <1>5 DEF AttemptEnds, CatchAttempt, GiveUpAlias
    <2>2. TypeOK'
        BY <1>0, <2>1 DEF TypeOK, ErrorOutcome
    <2>3. Progress' /\ PrimaryUsedUp' /\ SettledOnce' /\ FailureBlamesPrimary' /\ RetryJustified'
        BY <1>0, <1>5, <2>1 DEF Progress, PrimaryUsedUp, SettledOnce, FailureBlamesPrimary,
            OnFallback, Pending, RetryJustified
    <2>4. CallsMade' = CallsMade
        BY <1>0, <1>5, <2>1 DEF CallsMade, Reached, OnFallback
    <2> QED
        BY <1>1, <1>2, <2>2, <2>3, <2>4
<1>6. CASE ~ MayRetry(e) /\ ~ OnFallback /\ options.fallbackAlias # NoAlias
    <2>1. /\ stage' = "ready" /\ lastError' = NoError
          /\ primaryError' = e /\ primaryAttempts' = attempt
          /\ alias' = options.fallbackAlias /\ attempt' = 1
          /\ UNCHANGED outcome
        BY <1>6 DEF AttemptEnds, CatchAttempt, GiveUpAlias
    <2>2. TypeOK'
        BY <1>0, <1>6, <2>1, CapAssumption DEF TypeOK, Options
    <2>3. Progress' /\ SettledOnce' /\ FailureBlamesPrimary' /\ RetryJustified'
        BY <1>0, <1>6, <2>1 DEF Progress, SettledOnce, FailureBlamesPrimary,
            OnFallback, Pending, RetryJustified
    <2>4. PrimaryUsedUp'
        BY <1>0, <1>6, <2>1 DEF PrimaryUsedUp, MayRetry, isRetryableHttpError
    <2>5. CallsMade' = CallsMade
        BY <1>0, <1>6, <2>1 DEF CallsMade, Reached, OnFallback
    <2> QED
        BY <1>1, <1>2, <2>2, <2>3, <2>4, <2>5
<1> QED
    BY <1>3, <1>4, <1>5, <1>6

\* Every step of the executor keeps the invariant.
LEMMA NextIInv == IInv /\ [Next]_execVars => IInv'
<1> SUFFICES ASSUME IInv, [Next]_execVars PROVE IInv'
    OBVIOUS
<1> USE DEF IInv
<1>0. /\ attempt \in Nat /\ attempt >= 1 /\ attempt <= options.maxAttempts
      /\ options.maxAttempts \in 1 .. MaxAttemptsCap
      /\ CurrentCall \in Call /\ CurrentCall = <<alias, attempt>>
    BY CapAssumption DEF TypeOK, Options, Progress, CurrentCall, Call
<1>1. CASE ValidateFallbackChain
    <2>1. TypeOK'
        BY <1>1 DEF ValidateFallbackChain, TypeOK, ErrorOutcome
    <2>2. Progress' /\ PrimaryUsedUp' /\ SettledOnce' /\ FailureBlamesPrimary' /\ RetryJustified'
        BY <1>0, <1>1 DEF ValidateFallbackChain, Progress, PrimaryUsedUp, SettledOnce,
            FailureBlamesPrimary, RetryJustified, OnFallback, Pending, NoError
    <2>3. CallsMade' = CallsMade /\ Started' = Started
        BY <1>0, <1>1 DEF ValidateFallbackChain, CallsMade, Reached, OnFallback, Started, Progress
    <2>4. AwaitsOneCall'
        BY <1>1 DEF ValidateFallbackChain, AwaitsOneCall
    <2> QED
        BY <2>1, <2>2, <2>3, <2>4
<1>2. CASE StartAttempt
    <2>1. /\ stage = "ready" /\ stage' = "waiting"
          /\ calls' = [calls EXCEPT ![CurrentCall] = "open"]
          /\ UNCHANGED <<options, alias, attempt, lastError, primaryError, primaryAttempts, outcome>>
        BY <1>2 DEF StartAttempt
    <2>2. TypeOK'
        BY <1>0, <2>1 DEF TypeOK, CallState
    <2>3. Progress' /\ PrimaryUsedUp' /\ SettledOnce' /\ FailureBlamesPrimary' /\ RetryJustified'
        BY <1>0, <2>1 DEF Progress, PrimaryUsedUp, SettledOnce, FailureBlamesPrimary,
            RetryJustified, OnFallback, Pending, isRetryableHttpError
    <2>4. Started' = Started \cup {CurrentCall}
        BY <1>0, <2>1 DEF Started, TypeOK
    <2>5. CallsMade' = CallsMade \cup {CurrentCall}
        BY <1>0, <2>1 DEF CallsMade, Reached, OnFallback
    <2>6. AwaitsOneCall'
        BY <1>0, <2>1 DEF AwaitsOneCall, CurrentCall, TypeOK
    <2> QED
        BY <2>2, <2>3, <2>4, <2>5, <2>6
<1>3. CASE AttemptSucceeds
    <2>1. /\ stage = "waiting" /\ stage' = "settled"
          /\ calls' = [calls EXCEPT ![CurrentCall] = "closed"]
          /\ outcome' = [tag |-> "ok", usedAlias |-> alias,
                         attempts |-> primaryAttempts + attempt, didFallback |-> OnFallback]
          /\ UNCHANGED <<options, alias, attempt, lastError, primaryError, primaryAttempts>>
        BY <1>3 DEF AttemptSucceeds
    <2>2. OnFallback \in BOOLEAN /\ primaryAttempts + attempt \in Nat
        BY <1>0 DEF OnFallback, TypeOK
    <2>3. TypeOK'
        BY <1>0, <2>1, <2>2 DEF TypeOK, CallState, OkOutcome
    <2>4. Progress' /\ PrimaryUsedUp' /\ SettledOnce' /\ FailureBlamesPrimary' /\ RetryJustified'
        BY <1>0, <2>1 DEF Progress, PrimaryUsedUp, SettledOnce, FailureBlamesPrimary,
            RetryJustified, OnFallback, Pending, isRetryableHttpError
    <2>5. calls[CurrentCall] # "none"
        BY <1>0, <2>1 DEF CallsMade, Reached, Started
    <2>6. Started' = Started
        BY <1>0, <2>1, <2>5 DEF Started, TypeOK
    <2>7. CallsMade' = CallsMade
        BY <1>0, <2>1 DEF CallsMade, Reached, OnFallback, Progress
    <2>8. AwaitsOneCall'
        BY <1>0, <2>1 DEF AwaitsOneCall, TypeOK
    <2> QED
        BY <2>3, <2>4, <2>6, <2>7, <2>8
<1>4. ASSUME NEW e \in Errors, AttemptFails(e)
      PROVE  IInv'
    <2>1. AttemptEnds(e, "closed")
        BY <1>4 DEF AttemptFails, AttemptEnds
    <2> QED
        BY <2>1, AttemptEndsIInv
<1>5. CASE AttemptTimesOut
    <2>1. AttemptEnds(TimeoutHttpError, "late")
        BY <1>5 DEF AttemptTimesOut, AttemptEnds
    <2> QED
        BY <2>1, AttemptEndsIInv, ErrorsAssumption
<1>6. CASE WakeUp
    <2>1. /\ stage = "backoff" /\ stage' = "ready" /\ attempt' = attempt + 1
          /\ UNCHANGED <<options, alias, calls, lastError, primaryError, primaryAttempts, outcome>>
        BY <1>6 DEF WakeUp
    <2>2. attempt < options.maxAttempts /\ isRetryableHttpError(lastError)
        BY <2>1 DEF RetryJustified, MayRetry
    <2>3. TypeOK'
        BY CapAssumption, <1>0, <2>1, <2>2 DEF TypeOK
    <2>4. Progress' /\ PrimaryUsedUp' /\ SettledOnce' /\ FailureBlamesPrimary'
        BY <1>0, <2>1, <2>2 DEF Progress, PrimaryUsedUp, SettledOnce, FailureBlamesPrimary,
            OnFallback, Pending, isRetryableHttpError
    <2>5. RetryJustified'
        BY <2>1, <2>2 DEF RetryJustified, isRetryableHttpError
    <2>6. CallsMade' = CallsMade /\ Started' = Started
        BY <1>0, <2>1 DEF CallsMade, Reached, OnFallback, Started
    <2>7. AwaitsOneCall'
        BY <2>1 DEF AwaitsOneCall
    <2> QED
        BY <2>3, <2>4, <2>5, <2>6, <2>7
<1>7. ASSUME NEW c \in Call, LateCallSettles(c)
      PROVE  IInv'
    <2>1. /\ calls[c] = "late" /\ calls' = [calls EXCEPT ![c] = "closed"]
          /\ UNCHANGED <<options, stage, alias, attempt, lastError, primaryError, primaryAttempts, outcome>>
        BY <1>7 DEF LateCallSettles
    <2>2. TypeOK'
        BY <1>7, <2>1 DEF TypeOK, CallState
    <2>3. Progress' /\ PrimaryUsedUp' /\ SettledOnce' /\ FailureBlamesPrimary' /\ RetryJustified'
        BY <2>1 DEF Progress, PrimaryUsedUp, SettledOnce, FailureBlamesPrimary,
            RetryJustified, OnFallback, MayRetry, isRetryableHttpError
    <2>4. Started' = Started /\ CallsMade' = CallsMade
        BY <2>1 DEF Started, TypeOK, CallsMade, Reached, OnFallback
    <2>5. AwaitsOneCall'
        BY <2>1 DEF AwaitsOneCall, TypeOK, CurrentCall
    <2> QED
        BY <2>2, <2>3, <2>4, <2>5
<1>8. CASE UNCHANGED execVars
    BY <1>8 DEF execVars, TypeOK, Progress, PrimaryUsedUp, SettledOnce, FailureBlamesPrimary,
        RetryJustified, OnFallback, MayRetry, isRetryableHttpError, Started, CallsMade, Reached,
        AwaitsOneCall, CurrentCall
<1> QED
    BY <1>1, <1>2, <1>3, <1>4, <1>5, <1>6, <1>7, <1>8 DEF Next

\* The inductive invariant of the executor holds throughout.
THEOREM ExecutorInvariant == Spec => []IInv
BY InitIInv, NextIInv, PTL DEF Spec

\* Type correctness.
THEOREM TypeCorrect == Spec => []TypeOK
<1>1. IInv => TypeOK
    BY DEF IInv
<1> QED
    BY <1>1, ExecutorInvariant, PTL

\* At most one provider call is awaited, for any number of aliases and attempts.
THEOREM OneAwaitedCall == Spec => []AwaitsOneCall
<1>1. IInv => AwaitsOneCall
    BY DEF IInv
<1> QED
    BY <1>1, ExecutorInvariant, PTL

\* The caller of a failed request learns what the primary alias answered.
THEOREM PrimaryBlamed == Spec => []FailureBlamesPrimary
<1>1. IInv => FailureBlamesPrimary
    BY DEF IInv
<1> QED
    BY <1>1, ExecutorInvariant, PTL

\* No alias is called more often than its policy allows.
THEOREM WithinPolicy == Spec => []AttemptsWithinPolicy
<1>1. IInv => AttemptsWithinPolicy
    <2> SUFFICES ASSUME IInv, NEW c \in Started PROVE c[2] <= options.maxAttempts
        BY DEF AttemptsWithinPolicy
    <2>1. c \in CallsMade
        BY DEF IInv
    <2> QED
        BY <2>1, CapAssumption DEF IInv, CallsMade, Reached, Progress, PrimaryUsedUp, TypeOK, Options
<1> QED
    BY <1>1, ExecutorInvariant, PTL

\* The fallback alias is used only when the primary alias is used up.
THEOREM FallbackAfterPrimary == Spec => []FallbackOnlyAfterPrimary
<1>1. IInv => FallbackOnlyAfterPrimary
    <2> SUFFICES ASSUME IInv, NEW c \in Started, c[1] # options.primaryAlias
                 PROVE  /\ c[1] = options.fallbackAlias
                        /\ primaryError \in Errors
                        /\ isRetryableHttpError(primaryError) =>
                              primaryAttempts = options.maxAttempts
                        /\ \A n \in 1 .. primaryAttempts :
                              calls[<<options.primaryAlias, n>>] \in {"late", "closed"}
        BY DEF FallbackOnlyAfterPrimary
    <2>1. c \in CallsMade /\ Started = CallsMade
        BY DEF IInv
    <2>2. OnFallback /\ c[1] = alias
        BY <2>1 DEF CallsMade, OnFallback
    <2>3. ASSUME NEW n \in 1 .. primaryAttempts
          PROVE  calls[<<options.primaryAlias, n>>] \in {"late", "closed"}
        <3>1. <<options.primaryAlias, n>> \in Started
            BY <2>1, <2>2 DEF CallsMade
        <3>2. /\ <<options.primaryAlias, n>> \in Call
              /\ calls[<<options.primaryAlias, n>>] # "none"
            BY <3>1 DEF Started
        <3>3. calls[<<options.primaryAlias, n>>] # "open"
            BY <3>2, <2>2 DEF IInv, AwaitsOneCall, CurrentCall, OnFallback
        <3> QED
            BY <3>2, <3>3 DEF IInv, TypeOK, CallState
    <2> QED
        BY <2>2, <2>3 DEF IInv, PrimaryUsedUp, Progress, OnFallback
<1> QED
    BY <1>1, ExecutorInvariant, PTL

\* The attempts 1..k on one alias are k calls.
LEMMA CallsOnAlias ==
    ASSUME NEW x, NEW k \in Nat
    PROVE  /\ IsFiniteSet({x} \X (1 .. k))
           /\ Cardinality({x} \X (1 .. k)) = k
<1>1. IsFiniteSet({x}) /\ Cardinality({x}) = 1
    BY FS_Singleton
<1>2. IsFiniteSet(1 .. k) /\ Cardinality(1 .. k) = k
    BY FS_Interval
<1>3. /\ IsFiniteSet({x} \X (1 .. k))
      /\ Cardinality({x} \X (1 .. k)) = Cardinality({x}) * Cardinality(1 .. k)
    BY <1>1, <1>2, FS_Product, Zenon
<1> QED
    BY <1>1, <1>2, <1>3

\* A success reports exactly the provider calls that were made for it.
THEOREM AttemptsCounted == Spec => []AttemptsReported
<1>1. IInv => AttemptsReported
    <2> SUFFICES ASSUME IInv, outcome.tag = "ok"
                 PROVE  outcome.attempts = Cardinality(Started)
        BY DEF AttemptsReported
    <2>1. /\ stage = "settled"
          /\ options.fallbackAlias # options.primaryAlias
          /\ outcome.attempts = primaryAttempts + attempt
          /\ Started = CallsMade
        BY DEF IInv, SettledOnce, Pending
    <2>2. attempt \in Nat /\ primaryAttempts \in Nat
        BY DEF IInv, TypeOK
    <2> DEFINE here == {alias} \X (1 .. attempt)
               before == {options.primaryAlias} \X (1 .. primaryAttempts)
    <2>3. /\ IsFiniteSet(here) /\ Cardinality(here) = attempt
          /\ IsFiniteSet(before) /\ Cardinality(before) = primaryAttempts
        BY <2>2, CallsOnAlias
    <2>4. CASE OnFallback
        <3>1. CallsMade = here \cup before
            BY <2>1, <2>4 DEF CallsMade, Reached
        <3>2. here \cap before = {}
            BY <2>4 DEF OnFallback
        <3>3. Cardinality(here \cup before)
                = Cardinality(here) + Cardinality(before) - Cardinality(here \cap before)
            BY <2>3, FS_Union
        <3>4. Cardinality(here \cap before) = 0
            BY <3>2, FS_EmptySet
        <3> QED
            BY <2>1, <2>2, <2>3, <3>1, <3>3, <3>4
    <2>5. CASE ~ OnFallback
        <3>1. CallsMade = here
            BY <2>1, <2>5 DEF CallsMade, Reached
        <3>2. primaryAttempts = 0
            BY <2>5 DEF IInv, Progress
        <3> QED
            BY <2>1, <2>2, <2>3, <3>1, <3>2
    <2> QED
        BY <2>4, <2>5
<1> QED
    BY <1>1, ExecutorInvariant, PTL

\* A provider is called again only after an error the policy retries.
THEOREM RetriesJustified == Spec => RetryOnlyAfterRetryable
<1> DEFINE Justified ==
        \A c \in Call :
          calls[c] = "none" /\ calls'[c] = "open" /\ c[2] > 1 =>
              /\ isRetryableHttpError(lastError)
              /\ calls[<<c[1], c[2] - 1>>] \in {"late", "closed"}
<1>1. IInv /\ [Next]_execVars => [Justified]_execVars
    <2> SUFFICES ASSUME IInv, Next, NEW c \in Call,
                        calls[c] = "none", calls'[c] = "open", c[2] > 1
                 PROVE  /\ isRetryableHttpError(lastError)
                        /\ calls[<<c[1], c[2] - 1>>] \in {"late", "closed"}
        OBVIOUS
    <2>0. attempt \in Nat /\ CurrentCall \in Call /\ calls \in [Call -> CallState]
        BY DEF IInv, TypeOK, CurrentCall, Call
    <2>1. StartAttempt /\ c = CurrentCall
        <3>1. StartAttempt \/ calls' = calls \/ (\E d \in Call, how \in {"late", "closed"} :
                                                      calls' = [calls EXCEPT ![d] = how])
            BY <2>0 DEF Next, ValidateFallbackChain, AttemptSucceeds, AttemptFails,
                AttemptTimesOut, WakeUp, LateCallSettles
        <3> QED
            BY <3>1, <2>0 DEF StartAttempt
    <2>2. stage = "ready" /\ c = <<alias, attempt>> /\ attempt > 1
        BY <2>1 DEF StartAttempt, CurrentCall
    <2> DEFINE d == <<alias, attempt - 1>>
    <2>3. d \in CallsMade
        BY <2>0, <2>2 DEF CallsMade, Reached
    <2>4. d \in Call /\ calls[d] # "none"
        BY <2>3 DEF IInv, Started
    <2>5. calls[d] # "open"
        BY <2>2, <2>4 DEF IInv, AwaitsOneCall
    <2>6. calls[d] \in {"late", "closed"}
        BY <2>0, <2>4, <2>5 DEF CallState
    <2> QED
        BY <2>2, <2>6 DEF IInv, RetryJustified
<1> QED
    BY <1>1, ExecutorInvariant, PTL DEF Spec, RetryOnlyAfterRetryable

\* The executor implements the one-shot call that ChatService relies on.
THEOREM Refinement == Spec => ImplementsVerdict
<1>1. Init => Abstract!Init
    BY DEF Init, Abstract!Init, Options, Verdict, Pending
<1>2. IInv /\ IInv' /\ [Next]_execVars => [Abstract!Next]_(Abstract!vars)
    <2> SUFFICES ASSUME IInv, IInv', [Next]_execVars
                 PROVE  [Abstract!Next]_(Abstract!vars)
        OBVIOUS
    <2>1. options' = options
        BY DEF Next, execVars, ValidateFallbackChain, StartAttempt, AttemptSucceeds, AttemptFails,
            AttemptTimesOut, WakeUp, LateCallSettles
    <2>2. CASE outcome' = outcome
        BY <2>1, <2>2 DEF Abstract!vars, Verdict
    <2>3. CASE outcome' # outcome
        <3>1. stage # "settled"
            BY <2>3 DEF Next, execVars, ValidateFallbackChain, StartAttempt, AttemptSucceeds,
                AttemptFails, AttemptTimesOut, WakeUp, LateCallSettles
        <3>2. outcome = Pending
            BY <3>1 DEF IInv, SettledOnce
        <3>3. Verdict = "pending"
            BY <3>2 DEF Verdict, Pending
        <3>4. outcome' # Pending
            BY <2>3, <3>2
        <3>5. outcome'.tag \in {"ok", "error"}
            BY <3>4, PendingTag DEF IInv, TypeOK, Pending
        <3>6. CASE outcome'.tag = "error"
            <4>1. Verdict' = "error"
                BY <3>6 DEF Verdict
            <4> QED
                BY <2>1, <3>3, <4>1 DEF Abstract!Next, Abstract!Failed
        <3>7. CASE outcome'.tag = "ok"
            <4>1. /\ options.fallbackAlias # options.primaryAlias
                  /\ outcome'.didFallback = OnFallback'
                BY <2>1, <3>7 DEF IInv, SettledOnce
            <4>2. CASE OnFallback'
                <5>1. Verdict' = "fallback"
                    BY <3>7, <4>1, <4>2 DEF Verdict
                <5>2. options.fallbackAlias # NoAlias
                    BY <2>1, <4>2, AliasAssumption DEF OnFallback, IInv, Progress, TypeOK
                <5> QED
                    BY <2>1, <3>3, <4>1, <5>1, <5>2 DEF Abstract!Next, Abstract!Served
            <4>3. CASE ~ OnFallback'
                <5>1. Verdict' = "primary"
                    BY <3>7, <4>1, <4>3 DEF Verdict
                <5> QED
                    BY <2>1, <3>3, <4>1, <5>1 DEF Abstract!Next, Abstract!Served
            <4> QED
                BY <4>2, <4>3
        <3> QED
            BY <3>5, <3>6, <3>7
    <2> QED
        BY <2>2, <2>3
<1> QED
    BY <1>1, <1>2, ExecutorInvariant, PTL DEF Spec, ImplementsVerdict, Abstract!Spec

-----------------------------------------------------------------------------
(***************************************************************************)
(* The stream.                                                             *)
(***************************************************************************)
Chunk == Call \X (1 .. MaxChunks)
Event == [name : {"meta", "delta", "done"}, call : Call, chunk : 0 .. MaxChunks]

\* Types of the stream's own state; a call has a stream only once it was started.
StreamTypes ==
    /\ metaEmitted \in BOOLEAN
    /\ opened \subseteq Started
    /\ assembled \in [Call -> Seq(Chunk)]
    /\ finishReason \in FinishReason
    /\ wire \in Seq(Event)
    /\ service \in {"running", "storing", "failing", "ended"}
    /\ cached \in Seq(Chunk)
    /\ cooldown \in BOOLEAN

\* The service goes on only when the executor has settled, along its outcome.
ServiceFollows ==
    /\ service # "running" => stage = "settled"
    /\ service = "storing" => outcome.tag = "ok"
    /\ service = "failing" => outcome.tag = "error"
    /\ stage = "waiting" => calls[CurrentCall] = "open"
    /\ outcome.tag = "ok" => calls[CurrentCall] = "closed" /\ outcome.usedAlias = alias

\* What the executor reports, if it is an error, is the primary's or one of its own.
ErrorKnown ==
    outcome.tag = "error" => outcome.error \in {primaryError, BadGatewayError, CircularFallbackError}

\* What a call has assembled are its own chunks, in order.
TextsOwn ==
    \A c \in Call :
        /\ c \notin opened => assembled[c] = <<>>
        /\ \A i \in 1 .. Len(assembled[c]) : assembled[c][i] = <<c, i>>

MetaFirst ==
    /\ metaEmitted <=> wire # <<>>
    /\ opened # {} => metaEmitted
    /\ wire # <<>> => wire[1].name = "meta"
    /\ \A i \in 2 .. Len(wire) : wire[i].name # "meta"

DoneLast ==
    /\ \A i \in 1 .. Len(wire) : wire[i].name = "done" => service # "running" /\ outcome.tag = "ok"
    /\ \A i, j \in 1 .. Len(wire) : wire[i].name = "done" /\ wire[j].name = "done" => i = j
    /\ AfterDoneOnlyAbandoned

DeltasOfOpened ==
    \A i \in 1 .. Len(wire) : wire[i].name = "delta" => wire[i].call \in opened

\* The call the executor awaits, or that succeeded, has written what it assembled.
CurrentDelivered ==
    /\ stage = "waiting" \/ outcome.tag = "ok" =>
          Delivered(wire, CurrentCall, assembled[CurrentCall])
    /\ outcome.tag = "ok" => CurrentCall \in opened

StoredFromWinner ==
    cached # NoText =>
        /\ service = "ended" /\ outcome.tag = "ok" /\ ~ outcome.didFallback
        /\ cached = assembled[CurrentCall]

StreamInv ==
    /\ StreamTypes
    /\ ServiceFollows
    /\ ErrorKnown
    /\ TextsOwn
    /\ MetaFirst
    /\ DoneLast
    /\ DeltasOfOpened
    /\ CurrentDelivered
    /\ StoredFromWinner
    /\ CooldownEarned

-----------------------------------------------------------------------------
\* A stream is a run of the executor: every step is one of its steps or leaves it alone.
LEMMA StreamStep == [StreamNext]_vars => [Next]_execVars
  BY DEF StreamNext, vars, execVars, streamVars, requestVars, Next, BeginExecution, OpenStream, RefuseStream,
     EmitDelta, FailStream, TimeoutStream, RetryStream, LateStreamEnds, CompleteStream,
     EmitDone, StoreAndEnd, HandleProviderError, EndAfterError

\* executeStreamMiss uses the executor as it is: whatever is proved of
\* executeWithRetryAndFallback holds of every stream.
THEOREM StreamRunsExecutor == StreamSafetySpec => Spec
<1>1. StreamInit => Init
    BY DEF StreamInit
<1> QED
    BY <1>1, StreamStep, PTL DEF StreamSafetySpec, Spec

-----------------------------------------------------------------------------
\* One more event on the wire.
LEMMA Appended ==
    ASSUME NEW w \in Seq(Event), NEW ev \in Event
    PROVE  /\ Append(w, ev) \in Seq(Event) /\ Append(w, ev) # <<>>
           /\ Len(w) \in Nat /\ Len(Append(w, ev)) = Len(w) + 1
           /\ \A i \in 1 .. Len(w) : Append(w, ev)[i] = w[i]
           /\ Append(w, ev)[Len(w) + 1] = ev
           /\ \A i \in 1 .. Len(w) : w[i] \in Event
           /\ w # <<>> => Len(w) >= 1
           /\ w = <<>> => Len(w) = 0
  BY AppendProperties, LenProperties, ElementOfSeq, EmptySeq

\* An event of another call, or none of a text, changes nothing of what was delivered.
LEMMA DeliveredOthers ==
    ASSUME NEW w \in Seq(Event), NEW ev \in Event, NEW c \in Call, NEW text \in Seq(Chunk),
           Delivered(w, c, text), ~ IsDeltaOf(ev, c)
    PROVE  Delivered(Append(w, ev), c, text)
<1> DEFINE v == Append(w, ev)
<1>1. /\ Len(w) \in Nat /\ Len(v) = Len(w) + 1
      /\ \A i \in 1 .. Len(w) : v[i] = w[i]
      /\ v[Len(w) + 1] = ev
    BY Appended
<1> HIDE DEF v
<1>2. \A i \in 1 .. Len(v) : IsDeltaOf(v[i], c) => i \in 1 .. Len(w) /\ v[i] = w[i]
    BY <1>1
<1>3. \A n \in 1 .. Len(text) : \E i \in 1 .. Len(v) : v[i] = DeltaEvent(c, n)
    <2> SUFFICES ASSUME NEW n \in 1 .. Len(text)
                 PROVE  \E i \in 1 .. Len(v) : v[i] = DeltaEvent(c, n)
        OBVIOUS
    <2>1. PICK i \in 1 .. Len(w) : w[i] = DeltaEvent(c, n)
        BY DEF Delivered
    <2> QED
        BY <1>1, <2>1
<1>4. Delivered(v, c, text)
    BY <1>2, <1>3 DEF Delivered
<1> QED
    BY <1>4 DEF v

\* The next chunk of the call itself.
LEMMA DeliveredNext ==
    ASSUME NEW w \in Seq(Event), NEW c \in Call, NEW text \in Seq(Chunk),
           Len(text) + 1 <= MaxChunks, Delivered(w, c, text)
    PROVE  Delivered(Append(w, DeltaEvent(c, Len(text) + 1)), c,
                     Append(text, <<c, Len(text) + 1>>))
<1> DEFINE n == Len(text) + 1
           ev == DeltaEvent(c, n)
           v == Append(w, ev)
           longer == Append(text, <<c, n>>)
<1>0. Len(text) \in Nat /\ n \in Nat /\ n \in 1 .. MaxChunks
    BY LenProperties, MaxChunksAssumption
<1>1. ev \in Event /\ <<c, n>> \in Chunk
    BY <1>0, MaxChunksAssumption DEF DeltaEvent, Event, Chunk
<1>2. Len(longer) = n
    BY <1>1, AppendProperties
<1>3. /\ Len(w) \in Nat /\ Len(v) = Len(w) + 1
      /\ \A i \in 1 .. Len(w) : v[i] = w[i]
      /\ v[Len(w) + 1] = ev
    BY <1>1, Appended
<1>4. ev.chunk = n /\ IsDeltaOf(ev, c)
    BY DEF DeltaEvent, IsDeltaOf
<1> HIDE DEF v, longer, n, ev
<1>5. \A k \in 1 .. n : \E i \in 1 .. Len(v) : v[i] = DeltaEvent(c, k)
    <2> SUFFICES ASSUME NEW k \in 1 .. n
                 PROVE  \E i \in 1 .. Len(v) : v[i] = DeltaEvent(c, k)
        OBVIOUS
    <2>1. CASE k = n
        BY <1>3, <2>1 DEF ev
    <2>2. CASE k # n
        <3>1. k \in 1 .. Len(text)
            BY <1>0, <2>2 DEF n
        <3>2. PICK i \in 1 .. Len(w) : w[i] = DeltaEvent(c, k)
            BY <3>1 DEF Delivered
        <3> QED
            BY <1>3, <3>2
    <2> QED
        BY <2>1, <2>2
<1>6. \A i \in 1 .. Len(w) : IsDeltaOf(w[i], c) => w[i].chunk \in 1 .. Len(text)
    BY DEF Delivered
<1>7. \A i \in 1 .. Len(v) : IsDeltaOf(v[i], c) => v[i].chunk \in 1 .. n
    <2> SUFFICES ASSUME NEW i \in 1 .. Len(v), IsDeltaOf(v[i], c) PROVE v[i].chunk \in 1 .. n
        OBVIOUS
    <2>1. CASE i \in 1 .. Len(w)
        BY <1>0, <1>3, <1>6, <2>1 DEF n
    <2>2. CASE i = Len(w) + 1
        BY <1>0, <1>3, <1>4, <2>2
    <2> QED
        BY <1>3, <2>1, <2>2
<1>8. \A i, j \in 1 .. Len(v) :
          IsDeltaOf(v[i], c) /\ IsDeltaOf(v[j], c) /\ i < j => v[i].chunk < v[j].chunk
    <2> SUFFICES ASSUME NEW i \in 1 .. Len(v), NEW j \in 1 .. Len(v),
                        IsDeltaOf(v[i], c), IsDeltaOf(v[j], c), i < j
                 PROVE  v[i].chunk < v[j].chunk
        OBVIOUS
    <2>1. i \in 1 .. Len(w) /\ v[i] = w[i]
        BY <1>3
    <2>2. CASE j = Len(w) + 1
        BY <1>0, <1>3, <1>4, <1>6, <2>1, <2>2 DEF n
    <2>3. CASE j \in 1 .. Len(w)
        BY <1>3, <2>1, <2>3 DEF Delivered
    <2> QED
        BY <1>3, <2>2, <2>3
<1>9. Delivered(v, c, longer)
    BY <1>2, <1>5, <1>7, <1>8 DEF Delivered
<1> QED
    BY <1>9 DEF v, longer, n, ev

\* A call without a stream has delivered the empty text.
LEMMA DeliveredNothing ==
    ASSUME NEW w \in Seq(Event), NEW c \in Call,
           \A i \in 1 .. Len(w) : ~ IsDeltaOf(w[i], c)
    PROVE  Delivered(w, c, <<>>)
  BY DEF Delivered

-----------------------------------------------------------------------------
\* Provider calls only go on: none is forgotten, an abandoned or finished one is never
\* awaited again, and a settled execution keeps its outcome.
LEMMA Onward ==
    ASSUME IInv, ServiceFollows, [Next]_execVars
    PROVE  /\ \A c \in Call : calls[c] # "none" => calls'[c] # "none"
           /\ \A c \in Call : calls[c] \in {"late", "closed"} => calls'[c] \in {"late", "closed"}
           /\ \A c \in Call : calls[c] = "closed" => calls'[c] = "closed"
           /\ options' = options
           /\ stage = "settled" => UNCHANGED <<stage, alias, attempt, outcome, primaryError>>
<1>0. /\ calls \in [Call -> CallState] /\ CurrentCall \in Call
      /\ stage = "ready" => calls[CurrentCall] = "none"
      /\ stage = "waiting" => calls[CurrentCall] = "open"
    <2>1. attempt \in Nat /\ attempt >= 1 /\ CurrentCall \in Call /\ calls \in [Call -> CallState]
        BY CapAssumption DEF IInv, TypeOK, CurrentCall, Call
    <2>2. stage = "ready" => CurrentCall \notin CallsMade
        BY <2>1 DEF CallsMade, Reached, CurrentCall, OnFallback
    <2>3. stage = "waiting" => calls[CurrentCall] = "open"
        BY DEF ServiceFollows
    <2> QED
        BY <2>1, <2>2, <2>3 DEF IInv, Started
<1> QED
    BY <1>0 DEF Next, execVars, ValidateFallbackChain, StartAttempt, AttemptSucceeds, AttemptFails,
       AttemptTimesOut, WakeUp, LateCallSettles, CallState

\* Before a call is started nothing of it is on the wire.
LEMMA ReadyCall ==
    ASSUME IInv, StreamInv, stage = "ready"
    PROVE  /\ CurrentCall \in Call /\ calls[CurrentCall] = "none" /\ CurrentCall \notin opened
           /\ assembled[CurrentCall] = <<>>
           /\ service = "running" /\ outcome = Pending
           /\ Delivered(wire, CurrentCall, <<>>)
<1>1. attempt \in Nat /\ attempt >= 1 /\ CurrentCall \in Call
    BY CapAssumption DEF IInv, TypeOK, CurrentCall, Call
<1>2. CurrentCall \notin CallsMade
    BY <1>1 DEF CallsMade, Reached, CurrentCall, OnFallback
<1>3. calls[CurrentCall] = "none" /\ CurrentCall \notin opened
    BY <1>1, <1>2 DEF IInv, Started, StreamInv, StreamTypes
<1>4. assembled[CurrentCall] = <<>>
    BY <1>1, <1>3 DEF StreamInv, TextsOwn
<1>5. service = "running" /\ outcome = Pending
    BY DEF StreamInv, ServiceFollows, IInv, SettledOnce
<1>6. Delivered(wire, CurrentCall, <<>>)
    BY <1>1, <1>3, DeliveredNothing DEF StreamInv, StreamTypes, DeltasOfOpened, IsDeltaOf
<1> QED
    BY <1>1, <1>3, <1>4, <1>5, <1>6

\* The executor's steps and the parts of the invariant that are about it.
LEMMA ExecutorPart ==
    ASSUME IInv, IInv', ServiceFollows, ErrorKnown, [Next]_execVars, service' = service
    PROVE  ServiceFollows' /\ ErrorKnown'
<1>0. /\ calls \in [Call -> CallState] /\ CurrentCall \in Call /\ CurrentCall = <<alias, attempt>>
      /\ stage # "settled" => service = "running" /\ outcome = Pending
      /\ stage' # "settled" => outcome' = Pending
    BY DEF IInv, TypeOK, CurrentCall, Call, ServiceFollows, SettledOnce
<1>1. CASE stage = "settled"
    <2>1. UNCHANGED <<stage, alias, attempt, outcome, primaryError>>
        BY <1>1, Onward
    <2>2. \A c \in Call : calls[c] = "closed" => calls'[c] = "closed"
        BY Onward
    <2> QED
        BY <1>0, <1>1, <2>1, <2>2 DEF ServiceFollows, ErrorKnown, CurrentCall
<1>2. CASE ValidateFallbackChain
    BY <1>0, <1>2 DEF ValidateFallbackChain, ServiceFollows, ErrorKnown, Pending
<1>3. CASE StartAttempt
    BY <1>0, <1>3 DEF StartAttempt, ServiceFollows, ErrorKnown, Pending, CurrentCall
<1>4. CASE AttemptSucceeds
    BY <1>0, <1>4 DEF AttemptSucceeds, ServiceFollows, ErrorKnown, CurrentCall
<1>5. ASSUME NEW e \in Errors, NEW how \in {"late", "closed"}, AttemptEnds(e, how)
      PROVE  ServiceFollows' /\ ErrorKnown'
    BY <1>0, <1>5 DEF AttemptEnds, CatchAttempt, GiveUpAlias, ServiceFollows, ErrorKnown, Pending,
       toExhaustedException
<1>6. ASSUME NEW e \in Errors, AttemptFails(e) PROVE ServiceFollows' /\ ErrorKnown'
    BY <1>5, <1>6 DEF AttemptFails, AttemptEnds
<1>7. CASE AttemptTimesOut
    BY <1>5, <1>7, ErrorsAssumption DEF AttemptTimesOut, AttemptEnds
<1>8. CASE WakeUp
    BY <1>0, <1>8 DEF WakeUp, ServiceFollows, ErrorKnown, Pending
<1>9. ASSUME NEW c \in Call, LateCallSettles(c), stage # "settled" PROVE ServiceFollows' /\ ErrorKnown'
    BY <1>0, <1>9 DEF LateCallSettles, ServiceFollows, ErrorKnown, Pending, CurrentCall
<1>10. CASE UNCHANGED execVars
    BY <1>10 DEF execVars, ServiceFollows, ErrorKnown, CurrentCall
<1> QED
    BY <1>1, <1>2, <1>3, <1>4, <1>6, <1>7, <1>8, <1>9, <1>10 DEF Next

\* Steps that write nothing to the client.
LEMMA QuietWire ==
    ASSUME IInv, StreamInv, [Next]_execVars,
           UNCHANGED <<wire, opened, metaEmitted, service>>
    PROVE  MetaFirst' /\ DoneLast' /\ DeltasOfOpened' /\ opened' \subseteq Started'
<1>1. ServiceFollows
    BY DEF StreamInv
<1>2. MetaFirst' /\ DeltasOfOpened'
    BY DEF StreamInv, MetaFirst, DeltasOfOpened
<1>3. opened' \subseteq Started'
    BY <1>1, Onward DEF StreamInv, StreamTypes, Started
<1>4. ASSUME \A i \in 1 .. Len(wire) : wire[i].name # "done" PROVE DoneLast'
    BY <1>4 DEF DoneLast, AfterDoneOnlyAbandoned
<1>5. ASSUME \E i \in 1 .. Len(wire) : wire[i].name = "done" PROVE DoneLast'
    <2>1. outcome.tag = "ok" /\ stage = "settled"
        BY <1>5 DEF StreamInv, DoneLast, ServiceFollows
    <2>2. UNCHANGED <<alias, attempt, outcome>>
        BY <1>1, <2>1, Onward
    <2>3. \A c \in Call : calls[c] \in {"late", "closed"} => calls'[c] \in {"late", "closed"}
        BY <1>1, Onward
    <2>4. \A i \in 1 .. Len(wire) : wire[i].call \in Call
        <3>1. \A i \in 1 .. Len(wire) : wire[i] \in Event
            BY ElementOfSeq DEF StreamInv, StreamTypes
        <3> QED
            BY <3>1 DEF Event
    <2> QED
        BY <2>2, <2>3, <2>4 DEF StreamInv, DoneLast, AfterDoneOnlyAbandoned, Winner, CurrentCall
<1> QED
    BY <1>2, <1>3, <1>4, <1>5

\* A step of the executor that writes nothing keeps the rest of the invariant, once the
\* texts and what the current call has delivered are accounted for.
LEMMA QuietStep ==
    ASSUME IInv, IInv', StreamInv, [Next]_execVars,
           UNCHANGED <<wire, opened, metaEmitted, service, cached, cooldown>>,
           assembled' \in [Call -> Seq(Chunk)], TextsOwn', finishReason' \in FinishReason,
           CurrentDelivered',
           outcome.tag = "ok" => assembled'[CurrentCall] = assembled[CurrentCall]
    PROVE  StreamInv'
<1>1. MetaFirst' /\ DoneLast' /\ DeltasOfOpened' /\ opened' \subseteq Started'
    BY QuietWire
<1>2. ServiceFollows' /\ ErrorKnown'
    BY ExecutorPart DEF StreamInv
<1>3. StreamTypes'
    BY <1>1 DEF StreamInv, StreamTypes
<1>4. ServiceFollows /\ (outcome # Pending => stage = "settled") /\ Pending.tag = "pending"
    BY DEF StreamInv, IInv, SettledOnce, Pending
<1>5. StoredFromWinner'
    <2>1. cached # NoText => outcome.tag = "ok" /\ stage = "settled"
        BY <1>4 DEF StreamInv, StoredFromWinner
    <2>2. cached # NoText => UNCHANGED <<alias, attempt, outcome>>
        BY <1>4, <2>1, Onward
    <2> QED
        BY <2>1, <2>2 DEF StreamInv, StoredFromWinner, CurrentCall, NoText
<1>6. CooldownEarned'
    <2>1. cooldown => stage = "settled"
        BY <1>4 DEF StreamInv, CooldownEarned
    <2> QED
        BY <1>4, <2>1, Onward DEF StreamInv, CooldownEarned
<1> QED
    BY <1>1, <1>2, <1>3, <1>5, <1>6 DEF StreamInv

\* The steps of the executor during which the stream is silent.
LEMMA BeginKeeps ==
    ASSUME IInv, IInv', StreamInv, BeginExecution PROVE StreamInv'
<1>1. [Next]_execVars /\ UNCHANGED streamVars
    BY DEF BeginExecution, Next
<1>2. CurrentDelivered'
    BY DEF BeginExecution, ValidateFallbackChain, CurrentDelivered, IInv, SettledOnce, Pending
<1> QED
    BY <1>1, <1>2, QuietStep DEF streamVars, StreamInv, StreamTypes, TextsOwn

\* A refused attempt has delivered nothing.
LEMMA RefuseKeeps ==
    ASSUME IInv, IInv', StreamInv, RefuseStream PROVE StreamInv'
<1>1. [Next]_execVars /\ UNCHANGED streamVars
    BY DEF RefuseStream, Next
<1>2. CurrentDelivered'
    BY ReadyCall DEF RefuseStream, StartAttempt, CurrentDelivered, streamVars, CurrentCall, Pending
<1> QED
    BY <1>1, <1>2, QuietStep DEF streamVars, StreamInv, StreamTypes, TextsOwn

\* Waking up for a retry delivers nothing either.
LEMMA RetryKeeps ==
    ASSUME IInv, IInv', StreamInv, RetryStream PROVE StreamInv'
<1>1. [Next]_execVars /\ UNCHANGED streamVars
    BY DEF RetryStream, Next
<1>2. CurrentDelivered'
    BY DEF RetryStream, WakeUp, CurrentDelivered, IInv, SettledOnce, Pending
<1> QED
    BY <1>1, <1>2, QuietStep DEF streamVars, StreamInv, StreamTypes, TextsOwn

\* An attempt that fails or times out leaves nobody to deliver to.
LEMMA AttemptEndsQuietly ==
    ASSUME IInv, NEW e \in Errors, NEW how \in {"late", "closed"}, AttemptEnds(e, how)
    PROVE  stage' # "waiting" /\ outcome'.tag # "ok" /\ outcome.tag # "ok"
  BY DEF AttemptEnds, CatchAttempt, GiveUpAlias, IInv, SettledOnce, Pending

\* A timeout abandons the attempt and leaves its text where it was.
LEMMA TimeoutKeeps ==
    ASSUME IInv, IInv', StreamInv, TimeoutStream PROVE StreamInv'
<1>1. [Next]_execVars /\ UNCHANGED streamVars
    BY DEF TimeoutStream, Next
<1>2. stage' # "waiting" /\ outcome'.tag # "ok" /\ outcome.tag # "ok"
    BY AttemptEndsQuietly, ErrorsAssumption DEF TimeoutStream, AttemptTimesOut, AttemptEnds
<1>3. CurrentDelivered'
    BY <1>2 DEF CurrentDelivered
<1> QED
    BY <1>1, <1>2, <1>3, QuietStep DEF streamVars, StreamInv, StreamTypes, TextsOwn

\* Locals that are gone.
LEMMA Unwound ==
    ASSUME StreamInv, NEW c \in Call, Unwind(c)
    PROVE  /\ assembled' \in [Call -> Seq(Chunk)] /\ TextsOwn'
           /\ \A d \in Call : d # c => assembled'[d] = assembled[d]
           /\ UNCHANGED <<wire, opened, metaEmitted, service, cached, cooldown, finishReason>>
<1>1. <<>> \in Seq(Chunk) /\ Len(<<>>) = 0
    BY EmptySeq
<1>2. assembled' = [assembled EXCEPT ![c] = <<>>] /\ assembled \in [Call -> Seq(Chunk)]
    BY DEF Unwind, StreamInv, StreamTypes
<1>3. UNCHANGED <<wire, opened, metaEmitted, service, cached, cooldown, finishReason>>
    BY DEF Unwind
<1>4. TextsOwn'
    BY <1>1, <1>2, <1>3 DEF StreamInv, TextsOwn
<1> QED
    BY <1>1, <1>2, <1>3, <1>4

\* A stream that fails unwinds its own text only.
LEMMA FailKeeps ==
    ASSUME IInv, IInv', StreamInv, NEW e \in Errors, FailStream(e) PROVE StreamInv'
<1>1. [Next]_execVars
    BY DEF FailStream, Next
<1>2. stage' # "waiting" /\ outcome'.tag # "ok" /\ outcome.tag # "ok"
    BY AttemptEndsQuietly DEF FailStream, AttemptFails, AttemptEnds
<1>3. CurrentDelivered'
    BY <1>2 DEF CurrentDelivered
<1>4. CurrentCall \in Call
    BY DEF IInv, TypeOK, CurrentCall, Call
<1> QED
    BY <1>1, <1>2, <1>3, <1>4, Unwound, QuietStep DEF FailStream, StreamInv, StreamTypes

\* An abandoned stream that ends unwinds its own text, never the winner's.
LEMMA LateEndKeeps ==
    ASSUME IInv, IInv', StreamInv, NEW c \in Call, LateStreamEnds(c) PROVE StreamInv'
<1>1. [Next]_execVars
    BY DEF LateStreamEnds, Next
<1>2. CurrentCall \in Call /\ (stage = "waiting" \/ outcome.tag = "ok" => CurrentCall # c)
    BY DEF IInv, TypeOK, CurrentCall, Call, StreamInv, ServiceFollows, LateStreamEnds, LateCallSettles
<1>3. /\ assembled' \in [Call -> Seq(Chunk)] /\ TextsOwn'
      /\ \A d \in Call : d # c => assembled'[d] = assembled[d]
      /\ UNCHANGED <<wire, opened, metaEmitted, service, cached, cooldown, finishReason>>
    BY Unwound DEF LateStreamEnds
<1>4. UNCHANGED <<stage, alias, attempt, outcome>>
    BY DEF LateStreamEnds, LateCallSettles
<1>5. CurrentDelivered'
    BY <1>2, <1>3, <1>4 DEF StreamInv, CurrentDelivered, CurrentCall
<1> QED
    BY <1>1, <1>2, <1>3, <1>5, QuietStep DEF StreamInv, StreamTypes

\* The stream that completes is the one delivered so far.
LEMMA CompleteKeeps ==
    ASSUME IInv, IInv', StreamInv, CompleteStream PROVE StreamInv'
<1>1. [Next]_execVars
    BY DEF CompleteStream, Next
<1>2. /\ UNCHANGED <<wire, opened, metaEmitted, service, cached, cooldown, assembled, alias, attempt>>
      /\ finishReason' \in FinishReason /\ stage = "waiting" /\ CurrentCall \in opened
    BY DEF CompleteStream, AttemptSucceeds
<1>3. CurrentDelivered' /\ TextsOwn'
    BY <1>2 DEF StreamInv, CurrentDelivered, CurrentCall, TextsOwn
<1> QED
    BY <1>1, <1>2, <1>3, QuietStep DEF StreamInv, StreamTypes

\* The first attempt to get a stream opens the response; the later ones write nothing.
LEMMA OpenKeeps ==
    ASSUME IInv, IInv', StreamInv, OpenStream PROVE StreamInv'
<1> USE DEF StreamInv
<1>1. /\ CurrentCall \in Call /\ assembled[CurrentCall] = <<>>
      /\ service = "running" /\ outcome = Pending /\ stage = "ready"
      /\ Delivered(wire, CurrentCall, <<>>)
    BY ReadyCall DEF OpenStream, StartAttempt
<1>2. /\ StartAttempt /\ [Next]_execVars /\ opened' = opened \cup {CurrentCall} /\ metaEmitted' = TRUE
      /\ UNCHANGED <<assembled, finishReason, service, cached, cooldown, alias, attempt, outcome>>
      /\ CurrentCall' = CurrentCall
    BY DEF OpenStream, StartAttempt, Next, CurrentCall
<1>3. MetaEvent(CurrentCall) \in Event /\ ~ IsDeltaOf(MetaEvent(CurrentCall), CurrentCall)
      /\ MetaEvent(CurrentCall).name = "meta"
    BY <1>1, MaxChunksAssumption DEF MetaEvent, Event, IsDeltaOf
<1>4. wire \in Seq(Event) /\ (metaEmitted <=> wire # <<>>) /\ <<>> \in Seq(Chunk)
    BY EmptySeq DEF StreamTypes, MetaFirst
<1>5. \/ metaEmitted /\ wire' = wire
      \/ wire = <<>> /\ wire' = Append(wire, MetaEvent(CurrentCall))
    BY <1>1, <1>4 DEF OpenStream, emit
<1>6. /\ wire' \in Seq(Event) /\ wire' # <<>> /\ wire'[1].name = "meta"
      /\ \A i \in 2 .. Len(wire') : wire'[i].name # "meta"
      /\ \A i \in 1 .. Len(wire') : wire'[i].name # "done"
      /\ DeltasOfOpened' /\ Delivered(wire', CurrentCall, <<>>)
    <2>1. \A i \in 1 .. Len(wire) : wire[i].name # "done"
        BY <1>1 DEF DoneLast
    <2>2. CASE metaEmitted /\ wire' = wire
        BY <1>1, <1>2, <1>4, <2>1, <2>2 DEF MetaFirst, DeltasOfOpened
    <2>3. CASE wire = <<>> /\ wire' = Append(wire, MetaEvent(CurrentCall))
        <3>1. /\ wire' \in Seq(Event) /\ wire' # <<>> /\ Len(wire') = 1
              /\ wire'[1] = MetaEvent(CurrentCall)
            BY <1>3, <1>4, <2>3, Appended
        <3>2. Delivered(wire', CurrentCall, <<>>)
            BY <1>1, <1>3, <1>4, <2>3, DeliveredOthers
        <3> QED
            BY <1>3, <3>1, <3>2 DEF DeltasOfOpened
    <2> QED
        BY <1>5, <2>2, <2>3
<1>7. ServiceFollows' /\ ErrorKnown'
    BY <1>2, ExecutorPart
<1>8. opened' \subseteq Started'
    <2>1. calls'[CurrentCall] = "open"
        BY <1>1 DEF OpenStream, StartAttempt, IInv, TypeOK
    <2>2. \A c \in Call : calls[c] # "none" => calls'[c] # "none"
        BY <1>2, Onward
    <2> QED
        BY <1>1, <1>2, <2>1, <2>2 DEF StreamTypes, Started
<1>9. StreamTypes' /\ MetaFirst' /\ DoneLast'
    BY <1>2, <1>6, <1>8 DEF StreamTypes, MetaFirst, DoneLast, AfterDoneOnlyAbandoned
<1>10. TextsOwn' /\ CurrentDelivered' /\ StoredFromWinner' /\ CooldownEarned'
    BY <1>1, <1>2, <1>6 DEF TextsOwn, CurrentDelivered, StoredFromWinner, CooldownEarned, Pending
<1> QED
    BY <1>6, <1>7, <1>9, <1>10

\* The text of a call with one more chunk.
LEMMA LongerText ==
    ASSUME StreamInv, NEW c \in Call, EmitDelta(c)
    PROVE  /\ assembled' \in [Call -> Seq(Chunk)] /\ TextsOwn'
           /\ assembled'[c] = Append(assembled[c], <<c, Len(assembled[c]) + 1>>)
           /\ \A d \in Call : d # c => assembled'[d] = assembled[d]
           /\ Len(assembled[c]) + 1 \in 1 .. MaxChunks
<1> DEFINE n == Len(assembled[c]) + 1
<1>1. /\ assembled \in [Call -> Seq(Chunk)] /\ c \in opened /\ opened' = opened
      /\ assembled' = [assembled EXCEPT ![c] = Append(assembled[c], <<c, n>>)]
      /\ n <= MaxChunks
    BY DEF StreamInv, StreamTypes, EmitDelta
<1>2. Len(assembled[c]) \in Nat /\ n \in 1 .. MaxChunks
    BY <1>1, LenProperties, MaxChunksAssumption
<1>3. <<c, n>> \in Chunk
    BY <1>2 DEF Chunk
<1>4. /\ Append(assembled[c], <<c, n>>) \in Seq(Chunk)
      /\ Len(Append(assembled[c], <<c, n>>)) = n
      /\ Append(assembled[c], <<c, n>>)[n] = <<c, n>>
      /\ \A i \in 1 .. Len(assembled[c]) : Append(assembled[c], <<c, n>>)[i] = assembled[c][i]
    BY <1>1, <1>3, AppendProperties
<1> HIDE DEF n
<1>5. TextsOwn'
    <2> SUFFICES ASSUME NEW d \in Call
                 PROVE  /\ d \notin opened' => assembled'[d] = <<>>
                        /\ \A i \in 1 .. Len(assembled'[d]) : assembled'[d][i] = <<d, i>>
        BY DEF TextsOwn
    <2>1. CASE d # c
        BY <1>1, <2>1 DEF StreamInv, TextsOwn
    <2>2. CASE d = c
        <3>1. \A i \in 1 .. Len(assembled[c]) : assembled[c][i] = <<c, i>>
            BY DEF StreamInv, TextsOwn
        <3> QED
            BY <1>1, <1>2, <1>4, <2>2, <3>1 DEF n
    <2> QED
        BY <2>1, <2>2
<1> QED
    BY <1>1, <1>2, <1>4, <1>5 DEF n

\* A chunk of the awaited attempt, or of one that was abandoned and has not noticed.
LEMMA DeltaKeeps ==
    ASSUME IInv, StreamInv, NEW c \in Call, EmitDelta(c) PROVE StreamInv'
<1> USE DEF StreamInv
<1> DEFINE n == Len(assembled[c]) + 1
           ev == DeltaEvent(c, n)
<1>1. /\ UNCHANGED <<execVars, metaEmitted, opened, finishReason, service, cached, cooldown>>
      /\ c \in opened /\ calls[c] \in {"open", "late"}
      /\ wire' = IF service = "ended" THEN wire ELSE Append(wire, ev)
    BY DEF EmitDelta, emit
<1>2. /\ assembled' \in [Call -> Seq(Chunk)] /\ TextsOwn'
      /\ assembled'[c] = Append(assembled[c], <<c, n>>)
      /\ \A d \in Call : d # c => assembled'[d] = assembled[d]
      /\ n \in 1 .. MaxChunks
    BY LongerText
<1>3. ev \in Event /\ ev.name = "delta" /\ ev.call = c
    BY <1>2, MaxChunksAssumption DEF DeltaEvent, Event
<1>4. wire \in Seq(Event) /\ assembled \in [Call -> Seq(Chunk)]
    BY DEF StreamTypes
<1>5. UNCHANGED <<stage, alias, attempt, outcome, primaryError, calls, CurrentCall, Started>>
    BY <1>1 DEF execVars, CurrentCall, Started
<1>6. CurrentCall \in Call /\ (outcome.tag = "ok" => c # CurrentCall /\ calls[c] = "late")
    <2>1. outcome.tag = "ok" => stage = "settled" /\ calls[CurrentCall] = "closed"
        BY DEF ServiceFollows, IInv, SettledOnce, Pending
    <2> QED
        BY <1>1, <2>1 DEF IInv, TypeOK, CurrentCall, Call, AwaitsOneCall
<1>7. ServiceFollows' /\ ErrorKnown' /\ CooldownEarned'
    BY <1>1, <1>5 DEF ServiceFollows, ErrorKnown, CooldownEarned
<1>8. StoredFromWinner'
    BY <1>1, <1>2, <1>5, <1>6 DEF StoredFromWinner
<1>9. CASE service = "ended"
    <2>1. wire' = wire /\ stage # "waiting"
        BY <1>1, <1>9 DEF ServiceFollows
    <2>2. CurrentDelivered'
        BY <1>1, <1>2, <1>5, <1>6, <2>1 DEF CurrentDelivered
    <2>3. StreamTypes' /\ MetaFirst' /\ DoneLast' /\ DeltasOfOpened'
        BY <1>1, <1>2, <1>5, <2>1 DEF StreamTypes, MetaFirst, DoneLast, AfterDoneOnlyAbandoned, Winner,
           DeltasOfOpened
    <2> QED
        BY <1>2, <1>7, <1>8, <2>2, <2>3
<1>10. CASE service # "ended"
    <2>1. wire' = Append(wire, ev)
        BY <1>1, <1>10
    <2>2. /\ wire' \in Seq(Event) /\ wire' # <<>> /\ Len(wire) \in Nat /\ Len(wire') = Len(wire) + 1
          /\ \A i \in 1 .. Len(wire) : wire'[i] = wire[i]
          /\ wire'[Len(wire) + 1] = ev
          /\ wire # <<>> => Len(wire) >= 1
        BY <1>3, <1>4, <2>1, Appended
    <2> HIDE DEF ev, n
    <2>3. metaEmitted /\ wire # <<>>
        BY <1>1 DEF MetaFirst
    <2>4. StreamTypes'
        BY <1>1, <1>2, <1>5, <2>2 DEF StreamTypes
    <2>5. MetaFirst'
        BY <1>1, <1>3, <2>2, <2>3 DEF MetaFirst
    <2>6. DeltasOfOpened'
        BY <1>1, <1>3, <2>2 DEF DeltasOfOpened
    <2>7. AfterDoneOnlyAbandoned'
        <3> SUFFICES ASSUME NEW i \in 1 .. Len(wire'), NEW j \in 1 .. Len(wire'),
                            wire'[i].name = "done", i < j
                     PROVE  wire'[j].name = "delta" /\ wire'[j].call # CurrentCall
                               /\ calls[wire'[j].call] \in {"late", "closed"}
            BY <1>5 DEF AfterDoneOnlyAbandoned, Winner
        <3>1. i \in 1 .. Len(wire) /\ wire[i].name = "done"
            BY <2>2
        <3>2. CASE j \in 1 .. Len(wire)
            BY <2>2, <3>1, <3>2 DEF DoneLast, AfterDoneOnlyAbandoned, Winner
        <3>3. CASE j = Len(wire) + 1
            <4>1. outcome.tag = "ok"
                BY <3>1 DEF DoneLast
            <4> QED
                BY <1>3, <1>6, <2>2, <3>3, <4>1
        <3> QED
            BY <2>2, <3>2, <3>3
    <2>8. DoneLast'
        <3>1. \A i \in 1 .. Len(wire') : wire'[i].name = "done" => i \in 1 .. Len(wire) /\ wire[i].name = "done"
            BY <1>3, <2>2
        <3> QED
            BY <1>1, <1>5, <2>7, <3>1 DEF DoneLast
    <2>9. CurrentDelivered'
        <3> SUFFICES ASSUME stage = "waiting" \/ outcome.tag = "ok"
                     PROVE  Delivered(wire', CurrentCall, assembled'[CurrentCall])
            BY <1>1, <1>5 DEF CurrentDelivered
        <3>1. Delivered(wire, CurrentCall, assembled[CurrentCall])
            BY DEF CurrentDelivered
        <3>2. CASE c = CurrentCall
            <4>1. Len(assembled[c]) + 1 <= MaxChunks
                BY <1>2, MaxChunksAssumption DEF n
            <4>2. Delivered(Append(wire, ev), c, Append(assembled[c], <<c, n>>))
                BY <1>4, <3>1, <3>2, <4>1, DeliveredNext DEF n, ev
            <4> QED
                BY <1>2, <2>1, <3>2, <4>2
        <3>3. CASE c # CurrentCall
            <4>1. ~ IsDeltaOf(ev, CurrentCall)
                BY <1>3, <3>3 DEF IsDeltaOf
            <4> QED
                BY <1>2, <1>3, <1>4, <1>6, <2>1, <3>1, <3>3, <4>1, DeliveredOthers
        <3> QED
            BY <3>2, <3>3
    <2> QED
        BY <1>2, <1>7, <1>8, <2>4, <2>5, <2>6, <2>8, <2>9
<1> QED
    BY <1>9, <1>10

\* done, once, by the attempt that succeeded.
LEMMA DoneKeeps ==
    ASSUME IInv, StreamInv, EmitDone PROVE StreamInv'
<1> USE DEF StreamInv
<1> DEFINE ev == DoneEvent(CurrentCall)
<1>1. /\ UNCHANGED <<execVars, metaEmitted, opened, assembled, finishReason, cached, cooldown>>
      /\ service = "running" /\ outcome.tag = "ok" /\ service' = "storing"
      /\ wire' = Append(wire, ev)
    BY DEF EmitDone, emit
<1>2. UNCHANGED <<stage, alias, attempt, outcome, primaryError, calls, CurrentCall, Started>>
    BY <1>1 DEF execVars, CurrentCall, Started
<1>3. CurrentCall \in Call /\ stage = "settled"
    BY <1>1 DEF IInv, TypeOK, CurrentCall, Call, SettledOnce, Pending
<1>4. ev \in Event /\ ev.name = "done" /\ ~ IsDeltaOf(ev, CurrentCall)
    BY <1>3, MaxChunksAssumption DEF DoneEvent, Event, IsDeltaOf
<1>5. wire \in Seq(Event) /\ assembled \in [Call -> Seq(Chunk)]
    BY DEF StreamTypes
<1>6. /\ wire' \in Seq(Event) /\ wire' # <<>> /\ Len(wire) \in Nat /\ Len(wire') = Len(wire) + 1
      /\ \A i \in 1 .. Len(wire) : wire'[i] = wire[i]
      /\ wire'[Len(wire) + 1] = ev
      /\ wire # <<>> => Len(wire) >= 1
    BY <1>1, <1>4, <1>5, Appended
<1> HIDE DEF ev
<1>7. \A i \in 1 .. Len(wire) : wire[i].name # "done"
    BY <1>1 DEF DoneLast
<1>8. metaEmitted /\ wire # <<>>
    <2>1. opened # {}
        BY <1>1 DEF CurrentDelivered
    <2> QED
        BY <2>1 DEF MetaFirst
<1>9. StreamTypes' /\ ServiceFollows' /\ ErrorKnown' /\ TextsOwn' /\ StoredFromWinner' /\ CooldownEarned'
    BY <1>1, <1>2, <1>3, <1>6 DEF StreamTypes, ServiceFollows, ErrorKnown, TextsOwn, StoredFromWinner,
       CooldownEarned
<1>10. MetaFirst' /\ DeltasOfOpened'
    BY <1>1, <1>4, <1>6, <1>8 DEF MetaFirst, DeltasOfOpened
<1>11. DoneLast'
    BY <1>1, <1>2, <1>4, <1>6, <1>7 DEF DoneLast, AfterDoneOnlyAbandoned
<1>12. CurrentDelivered'
    BY <1>1, <1>2, <1>3, <1>4, <1>5, DeliveredOthers DEF CurrentDelivered
<1> QED
    BY <1>9, <1>10, <1>11, <1>12

\* The end of a successful stream: the winner's text, or none, goes to the caches.
LEMMA StoreKeeps ==
    ASSUME IInv, StreamInv, StoreAndEnd PROVE StreamInv'
<1> USE DEF StreamInv
<1>1. /\ UNCHANGED <<execVars, metaEmitted, opened, assembled, finishReason, wire, cooldown>>
      /\ service = "storing" /\ service' = "ended"
    BY DEF StoreAndEnd
<1>0. cached' = NoText \/ (~ outcome.didFallback /\ cached' = assembled[CurrentCall])
    <2>1. cached' \in IF Storable THEN {NoText, assembled[CurrentCall]} ELSE {NoText}
        BY DEF StoreAndEnd
    <2>2. CASE Storable
        <3>1. ~ outcome.didFallback
            BY <2>2 DEF Storable
        <3> QED
            BY <2>1, <2>2, <3>1
    <2>3. CASE ~ Storable
        BY <2>1, <2>3
    <2> QED
        BY <2>2, <2>3
<1>2. UNCHANGED <<stage, alias, attempt, outcome, primaryError, calls, CurrentCall, Started>>
    BY <1>1 DEF execVars, CurrentCall, Started
<1>3. CurrentCall \in Call /\ stage = "settled" /\ outcome.tag = "ok"
    BY <1>1 DEF IInv, TypeOK, CurrentCall, Call, ServiceFollows
<1>4. cached' \in Seq(Chunk)
    BY <1>0, <1>1, <1>3, EmptySeq DEF StreamTypes, NoText
<1>5. StreamTypes' /\ ServiceFollows' /\ ErrorKnown' /\ TextsOwn' /\ MetaFirst'
    BY <1>1, <1>2, <1>3, <1>4 DEF StreamTypes, ServiceFollows, ErrorKnown, TextsOwn, MetaFirst
<1>6. DoneLast' /\ DeltasOfOpened' /\ CurrentDelivered'
    BY <1>1, <1>2, <1>3 DEF DoneLast, AfterDoneOnlyAbandoned, Winner, DeltasOfOpened, CurrentDelivered
<1>7. StoredFromWinner' /\ CooldownEarned'
    BY <1>0, <1>1, <1>2, <1>3 DEF StoredFromWinner, CooldownEarned
<1> QED
    BY <1>5, <1>6, <1>7

\* The end of a failed stream.
LEMMA ErrorKeeps ==
    ASSUME IInv, StreamInv, HandleProviderError \/ EndAfterError PROVE StreamInv'
<1> USE DEF StreamInv
<1>1. /\ UNCHANGED <<execVars, metaEmitted, opened, assembled, finishReason, wire, cached>>
      /\ service \in {"running", "failing"} /\ service' \in {"failing", "ended"}
      /\ outcome.tag = "error"
    BY DEF HandleProviderError, EndAfterError, ServiceFollows
<1>2. UNCHANGED <<stage, alias, attempt, outcome, primaryError, calls, CurrentCall, Started>>
    BY <1>1 DEF execVars, CurrentCall, Started
<1>3. stage = "settled"
    BY <1>1 DEF IInv, SettledOnce, Pending
<1>4. /\ cooldown' \in BOOLEAN
      /\ cooldown' => cooldown \/ outcome.error.status = 429
    <2>1. CASE HandleProviderError
        <3>1. cooldown' = (outcome.error.kind # "other" /\ outcome.error.status = 429)
            BY <2>1 DEF HandleProviderError
        <3> QED
            BY <3>1
    <2>2. CASE EndAfterError
        BY <2>2 DEF EndAfterError, StreamTypes
    <2> QED
        BY <2>1, <2>2
<1>5. CooldownEarned'
    <2>1. outcome.error.status = 429 => primaryError.status = 429
        BY <1>1 DEF ErrorKnown, BadGatewayError, CircularFallbackError
    <2> QED
        BY <1>1, <1>2, <1>4, <2>1 DEF CooldownEarned
<1>6. StreamTypes' /\ ServiceFollows' /\ ErrorKnown' /\ TextsOwn' /\ MetaFirst'
    BY <1>1, <1>2, <1>3, <1>4 DEF StreamTypes, ServiceFollows, ErrorKnown, TextsOwn, MetaFirst
<1>7. DoneLast' /\ DeltasOfOpened' /\ CurrentDelivered' /\ StoredFromWinner'
    BY <1>1, <1>2, <1>3 DEF DoneLast, AfterDoneOnlyAbandoned, Winner, DeltasOfOpened, CurrentDelivered,
       StoredFromWinner
<1> QED
    BY <1>5, <1>6, <1>7

\* Nothing is delivered, stored or cooling down before the first step.
LEMMA StreamInitInv == StreamInit => StreamInv
<1> SUFFICES ASSUME StreamInit PROVE StreamInv
    OBVIOUS
<1>1. <<>> \in Seq(Chunk) /\ <<>> \in Seq(Event) /\ Len(<<>>) = 0
    BY EmptySeq
<1>2. assembled \in [Call -> Seq(Chunk)]
    BY <1>1 DEF StreamInit
<1>3. StreamTypes
    BY <1>1, <1>2 DEF StreamInit, StreamTypes, FinishReason, NoText
<1>4. TextsOwn
    BY <1>1 DEF StreamInit, TextsOwn
<1>5. ServiceFollows /\ ErrorKnown
    BY DEF StreamInit, Init, ServiceFollows, ErrorKnown, Pending
<1>6. MetaFirst /\ DoneLast /\ DeltasOfOpened
    BY <1>1 DEF StreamInit, MetaFirst, DoneLast, AfterDoneOnlyAbandoned, DeltasOfOpened
<1>7. CurrentDelivered /\ StoredFromWinner /\ CooldownEarned
    BY DEF StreamInit, Init, Pending, CurrentDelivered, StoredFromWinner, CooldownEarned
<1> QED
    BY <1>3, <1>4, <1>5, <1>6, <1>7 DEF StreamInv

\* Every step of the streaming chat keeps the invariant.
LEMMA StreamNextInv == IInv /\ IInv' /\ StreamInv /\ [StreamNext]_vars => StreamInv'
<1> SUFFICES ASSUME IInv, IInv', StreamInv, [StreamNext]_vars PROVE StreamInv'
    OBVIOUS
<1>1. CASE UNCHANGED vars
    <2>1. UNCHANGED <<execVars, streamVars, CurrentCall, Started>>
        BY <1>1 DEF vars, execVars, CurrentCall, Started
    <2> QED
        BY <2>1 DEF execVars, streamVars, StreamInv, StreamTypes, ServiceFollows, ErrorKnown, TextsOwn,
           MetaFirst, DoneLast, AfterDoneOnlyAbandoned, Winner, DeltasOfOpened, CurrentDelivered,
           StoredFromWinner, CooldownEarned
<1>2. CASE StreamNext
    BY <1>2, BeginKeeps, OpenKeeps, RefuseKeeps, DeltaKeeps, FailKeeps, TimeoutKeeps, RetryKeeps,
       LateEndKeeps, CompleteKeeps, DoneKeeps, StoreKeeps, ErrorKeeps DEF StreamNext
<1> QED
    BY <1>1, <1>2

-----------------------------------------------------------------------------
\* The inductive invariant of a stream, on top of the executor's.
THEOREM StreamInvariant == StreamSafetySpec => [](IInv /\ StreamInv)
<1>1. StreamInit => IInv /\ StreamInv
    BY InitIInv, StreamInitInv DEF StreamInit
<1>2. IInv /\ StreamInv /\ [StreamNext]_vars => (IInv /\ StreamInv)'
    BY StreamStep, NextIInv, StreamNextInv
<1> QED
    BY <1>1, <1>2, PTL DEF StreamSafetySpec

\* meta first and once, done at most once and never on a failed stream, whatever the
\* attempts of executeStreamMiss do.
THEOREM StreamsWellShaped == StreamSafetySpec => []StreamShape
<1>1. StreamInv => StreamShape
    BY DEF StreamInv, MetaFirst, DoneLast, StreamShape
<1> QED
    BY <1>1, StreamInvariant, PTL

\* Nothing of a failed or abandoned attempt gets into the caches, and what does is what
\* the client was sent, chunk by chunk.
THEOREM CachedTextIsWinners == StreamSafetySpec => []CachedIsWinnersText
<1>1. ASSUME IInv, StreamInv, cached # NoText
      PROVE  /\ outcome.tag = "ok" /\ outcome.usedAlias = options.primaryAlias
             /\ cached = ChunksUpTo(Winner, Len(cached))
             /\ Delivered(wire, Winner, cached)
    <2>1. /\ outcome.tag = "ok" /\ ~ outcome.didFallback /\ cached = assembled[CurrentCall]
          /\ CurrentCall \in Call /\ Winner = CurrentCall
        BY <1>1 DEF StreamInv, StoredFromWinner, IInv, TypeOK, CurrentCall, Call, Winner
    <2>2. outcome.usedAlias = alias /\ alias = options.primaryAlias
        BY <1>1, <2>1 DEF StreamInv, ServiceFollows, IInv, SettledOnce, OnFallback
    <2>3. cached = ChunksUpTo(Winner, Len(cached))
        <3>1. cached \in Seq(Chunk) /\ \A i \in 1 .. Len(cached) : cached[i] = <<CurrentCall, i>>
            BY <1>1, <2>1 DEF StreamInv, StreamTypes, TextsOwn
        <3>2. Len(cached) \in Nat /\ cached = [i \in 1 .. Len(cached) |-> cached[i]]
            BY <3>1, LenProperties
        <3> QED
            BY <2>1, <3>1, <3>2 DEF ChunksUpTo
    <2>4. Delivered(wire, Winner, cached)
        BY <1>1, <2>1 DEF StreamInv, CurrentDelivered
    <2> QED
        BY <2>1, <2>2, <2>3, <2>4
<1>2. IInv /\ StreamInv => CachedIsWinnersText
    BY <1>1 DEF CachedIsWinnersText
<1> QED
    BY <1>2, StreamInvariant, PTL

\* What reaches the client after done comes from attempts the executor had given up.
THEOREM OnlyAbandonedAfterDone == StreamSafetySpec => []AfterDoneOnlyAbandoned
<1>1. StreamInv => AfterDoneOnlyAbandoned
    BY DEF StreamInv, DoneLast
<1> QED
    BY <1>1, StreamInvariant, PTL

\* handleProviderError never blames the primary provider for a 429 it did not send.
THEOREM CooldownsEarned == StreamSafetySpec => []CooldownEarned
<1>1. StreamInv => CooldownEarned
    BY DEF StreamInv
<1> QED
    BY <1>1, StreamInvariant, PTL

\* Attempts that outlive the response write nothing to it.
THEOREM EndedStreamsAreSilent == StreamSafetySpec => SilentAfterEnd
<1>1. IInv /\ StreamInv /\ [StreamNext]_vars => [service = "ended" => wire' = wire]_vars
    <2> SUFFICES ASSUME IInv, StreamInv, StreamNext, service = "ended" PROVE wire' = wire
        OBVIOUS
    <2>1. stage = "settled"
        BY DEF StreamInv, ServiceFollows
    <2> QED
        BY <2>1 DEF StreamNext, BeginExecution, OpenStream, StartAttempt, RefuseStream, EmitDelta, emit,
           FailStream, Unwind, TimeoutStream, RetryStream, LateStreamEnds, CompleteStream, EmitDone,
           StoreAndEnd, HandleProviderError, EndAfterError, streamVars
<1> QED
    BY <1>1, StreamInvariant, PTL DEF StreamSafetySpec, SilentAfterEnd

\* A stream keeps the promise of ProviderVerdict: one verdict, on one alias, and final.
THEOREM StreamImplementsVerdict == StreamSafetySpec => ImplementsVerdict
  BY StreamRunsExecutor, Refinement, PTL

=============================================================================
