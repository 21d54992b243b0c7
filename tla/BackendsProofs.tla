--------------------------- MODULE BackendsProofs ---------------------------
(***************************************************************************)
(* Proofs that, for any number of clients, requests and evaluations and    *)
(* any times, no Redis client is lost sight of, trials of the embedding    *)
(* circuit begin a cooldown apart, and probes are shared.  The three parts *)
(* share no variable of their invariants, so each has its own inductive    *)
(* invariant.                                                              *)
(***************************************************************************)
EXTENDS Backends, TLAPS

-----------------------------------------------------------------------------
(* The Redis connection.  Shutdown is over only after closed was set, and  *)
(* a closed service starts no attempt.                                     *)

RedisInv ==
    /\ status \in [Clients -> {"connecting", "ready", "reconnecting", "end"}]
    /\ NoStrayClient
    /\ shutdown # "running" => closed

\* ensureConnected, from whichever caller, keeps the clients in sight.
LEMMA AskKeepsRedis ==
    ASSUME RedisInv, AskForClient
    PROVE  RedisInv'
<1>1. CASE UNCHANGED redisVars
  BY <1>1 DEF RedisInv, NoStrayClient, redisVars
<1>2. CASE client = NoClient /\ mayConnect /\ establishConnection
  <2>1. PICK c \in Clients :
           /\ client' = c
           /\ status' = [Disposed EXCEPT ![c] = "connecting"]
    BY <1>2 DEF establishConnection
  <2>2. \A d \in Clients : Disposed[d] = "end"
    BY <1>2, ClientsAssumption DEF RedisInv, NoStrayClient, Disposed
  <2>3. \A d \in Clients : status'[d] # "end" => client' = d
    BY <2>1, <2>2 DEF Disposed
  <2>4. status' \in [Clients -> {"connecting", "ready", "reconnecting", "end"}]
    BY <2>1, <2>2 DEF Disposed, RedisInv
  <2>5. shutdown = "running" /\ shutdown' = shutdown /\ closed' = closed
    BY <1>2 DEF mayConnect, establishConnection, RedisInv
  <2> QED BY <2>3, <2>4, <2>5 DEF RedisInv, NoStrayClient
<1> QED BY <1>1, <1>2 DEF AskForClient, ensureConnected

\* So does every step of an attempt, of the library and of shutdown.
LEMMA RedisStepsKeep ==
    ASSUME RedisInv, RedisSteps
    PROVE  RedisInv'
<1> USE ClientsAssumption
<1>1. \A c \in Clients : Disposed[c] # "end" => FALSE
  BY DEF RedisInv, NoStrayClient, Disposed
<1>2. Disposed \in [Clients -> {"connecting", "ready", "reconnecting", "end"}]
  BY DEF RedisInv, Disposed
<1>3. CASE ConnectResolves
  BY <1>3 DEF ConnectResolves, RedisInv, NoStrayClient
<1>4. CASE AttemptFails
  BY <1>1, <1>2, <1>4 DEF AttemptFails, RedisInv, NoStrayClient
<1>5. CASE PingResolves
  BY <1>5 DEF PingResolves, RedisInv, NoStrayClient
<1>6. CASE Drop
  BY <1>6 DEF Drop, RedisInv, NoStrayClient
<1>7. CASE Reconnect
  BY <1>7 DEF Reconnect, RedisInv, NoStrayClient
<1>8. CASE CloseWithoutClient
  BY <1>8 DEF CloseWithoutClient, RedisInv, NoStrayClient
<1>9. CASE CloseAtOnce
  BY <1>1, <1>2, <1>9 DEF CloseAtOnce, LetGo, RedisInv, NoStrayClient
<1>10. CASE Quit
  BY <1>10 DEF Quit, RedisInv, NoStrayClient
<1>11. CASE QuitResolves
  BY <1>1, <1>2, <1>11 DEF QuitResolves, LetGo, RedisInv, NoStrayClient
<1>12. CASE QuitRejects
  BY <1>1, <1>2, <1>12 DEF QuitRejects, LetGo, RedisInv, NoStrayClient
<1> QED
  BY <1>3, <1>4, <1>5, <1>6, <1>7, <1>8, <1>9, <1>10, <1>11, <1>12
     DEF RedisSteps, ConnectRejects, PingRejects

\* The connection keeps its invariant in every behaviour.
LEMMA RedisInvariance == Spec => []RedisInv
<1>1. Init => RedisInv
  BY DEF Init, RedisInit, RedisInv, NoStrayClient
<1>2. RedisInv /\ [Next]_vars => RedisInv'
  <2> SUFFICES ASSUME RedisInv, [Next]_vars PROVE RedisInv'
    OBVIOUS
  <2>1. CASE UNCHANGED redisVars
    BY <2>1 DEF RedisInv, NoStrayClient, redisVars
  <2>2. CASE AskForClient
    BY <2>2, AskKeepsRedis
  <2>3. CASE RedisSteps
    BY <2>3, RedisStepsKeep
  <2>4. CASE Tick
    BY <2>4 DEF Tick, RedisInv, NoStrayClient
  <2>5. ASSUME NEW e \in Evaluators, EvaluateReadiness(e) \/ Evaluation(e)
        PROVE  AskForClient \/ UNCHANGED redisVars
    <3>1. CASE EvaluateReadiness(e)  BY <3>1 DEF EvaluateReadiness
    <3>2. CASE RedisChecked(e)  BY <3>2 DEF RedisChecked
    <3>3. CASE UseLastCheck(e)  BY <3>3 DEF UseLastCheck
    <3>4. CASE JoinProbe(e)  BY <3>4 DEF JoinProbe
    <3>5. CASE StartProbe(e)  BY <3>5 DEF StartProbe
    <3>6. CASE Publish(e)  BY <3>6 DEF Publish
    <3> QED BY <2>5, <3>1, <3>2, <3>3, <3>4, <3>5, <3>6 DEF Evaluation
  <2>6. CASE UNCHANGED vars
    BY <2>6, <2>1 DEF vars
  <2> QED
    BY <2>1, <2>2, <2>3, <2>4, <2>5, <2>6 DEF Next, Search, UseRedis, ProbeEnds
<1> QED BY <1>1, <1>2, PTL DEF Spec

\* Every live Redis client is the one the service holds, and none is left when
\* onModuleDestroy is over, for any number of clients and any cooldown.
THEOREM ClientsInSight == Spec => []NoStrayClient
<1>1. RedisInv => NoStrayClient  BY DEF RedisInv
<1> QED BY <1>1, RedisInvariance, PTL

-----------------------------------------------------------------------------
(* The embedding circuit.  A running trial that is no longer the one in    *)
(* flight is as old as the part of the cooldown that has passed.           *)

CircuitInv ==
    /\ CircuitTypeOK
    /\ TrialsApart
    /\ \A r \in trials : stage[r] \in Embedding
    /\ \A r \in trials :
          trialInFlight \/ failures < OpenAfter \/ coolIn + age[r] >= Cooldown

\* A request that starts to embed has been let through by the circuit.
LEMMA BeginKeepsCircuit ==
    ASSUME CircuitInv, NEW r \in Requests, stage[r] \notin Embedding,
           NEW at \in Embedding, BeginEmbed(r, at)
    PROVE  CircuitInv'
<1> USE TicksAssumption, OpenAfterAssumption
<1> USE DEF CircuitInv, CircuitTypeOK
<1>1. r \notin trials
  OBVIOUS
<1>2. CircuitTypeOK'
  BY DEF BeginEmbed, Embedding
<1>3. \A s \in trials' : stage'[s] \in Embedding
  BY <1>1 DEF BeginEmbed
<1>4. \A s \in trials : age'[s] = age[s]
  BY <1>1 DEF BeginEmbed
<1>5. CASE open
  <2>1. \A s \in trials : age[s] >= Cooldown
    BY <1>5 DEF open, shouldSkipEmbed, BeginEmbed
  <2>2. age'[r] = 0 /\ trialInFlight' /\ trials' = trials \cup {r}
    BY <1>5 DEF BeginEmbed
  <2>3. TrialsApart'
    BY <1>4, <2>1, <2>2 DEF TrialsApart
  <2> QED BY <1>2, <1>3, <2>2, <2>3
<1>6. CASE ~open
  <2>1. trials' = trials /\ trialInFlight' = trialInFlight
    BY <1>6 DEF BeginEmbed
  <2>2. TrialsApart'
    BY <1>4, <2>1 DEF TrialsApart
  <2> QED BY <1>2, <1>3, <1>4, <2>1, <2>2 DEF BeginEmbed
<1> QED BY <1>5, <1>6

\* An embedding that ends is counted by recordEmbedSuccess or recordEmbedFailure.
LEMMA EndKeepsCircuit ==
    ASSUME CircuitInv, NEW r \in Requests, stage[r] \in Embedding,
           NEW at \in {"idle", "knn"} \cup Answering, LeaveEmbed(r, at),
           recordEmbedSuccess \/ recordEmbedFailure
    PROVE  CircuitInv'
<1> USE TicksAssumption, OpenAfterAssumption
<1> USE DEF CircuitInv, CircuitTypeOK
<1>1. CircuitTypeOK'
  <2>1. failures' \in 0 .. OpenAfter
    BY DEF recordEmbedSuccess, recordEmbedFailure, open
  <2>2. coolIn' \in 0 .. Cooldown /\ trialInFlight' = FALSE
    BY DEF recordEmbedSuccess, recordEmbedFailure
  <2>3. /\ stage' \in [Requests -> {"idle", "knn"} \cup Embedding \cup Answering]
        /\ age' \in [Requests -> 0 .. EmbedTimeout]
        /\ trials' \in SUBSET Requests
    BY DEF LeaveEmbed
  <2> QED BY <2>1, <2>2, <2>3
<1>2. \A s \in trials' : s \in trials /\ stage'[s] = stage[s] /\ age'[s] = age[s]
  BY DEF LeaveEmbed
<1>3. ~trialInFlight'
  BY DEF recordEmbedSuccess, recordEmbedFailure
<1>4. failures' < OpenAfter \/ coolIn' = Cooldown
  BY DEF recordEmbedSuccess, recordEmbedFailure, open
<1>5. TrialsApart'
  BY <1>2, <1>3 DEF TrialsApart
<1>6. \A s \in trials' : age'[s] \in Nat
  BY <1>1
<1> QED BY <1>1, <1>2, <1>4, <1>5, <1>6

\* Requests that do not embed leave the circuit alone.
LEMMA MoveKeepsCircuit ==
    ASSUME CircuitInv, NEW r \in Requests, stage[r] \notin Embedding,
           NEW at \in {"idle", "knn"} \cup Answering, MoveTo(r, at)
    PROVE  CircuitInv'
<1> USE DEF CircuitInv, CircuitTypeOK
<1>1. CircuitTypeOK'
  BY DEF MoveTo
<1>2. \A s \in trials' : s \in trials /\ stage'[s] = stage[s] /\ age'[s] = age[s]
  BY DEF MoveTo
<1>3. TrialsApart'
  BY <1>2 DEF MoveTo, TrialsApart
<1> QED BY <1>1, <1>2, <1>3 DEF MoveTo

\* Time ages the trials and the cooldown alike.
LEMMA TickKeepsCircuit ==
    ASSUME CircuitInv, Tick
    PROVE  CircuitInv'
<1> USE TicksAssumption, OpenAfterAssumption
<1> USE DEF CircuitInv, CircuitTypeOK
<1>1. CircuitTypeOK'
  <2>1. coolIn' \in 0 .. Cooldown
    BY DEF Tick, Less
  <2>2. age' \in [Requests -> 0 .. EmbedTimeout]
    BY DEF Tick
  <2> QED BY <2>1, <2>2 DEF Tick
<1>2. \A r \in trials : age'[r] = age[r] + 1 /\ stage'[r] = stage[r]
  BY DEF Tick
<1>3. coolIn' >= coolIn - 1 /\ coolIn' \in Nat
  BY DEF Tick, Less
<1>4. TrialsApart'
  BY <1>2 DEF Tick, TrialsApart
<1>5. trials' = trials /\ trialInFlight' = trialInFlight /\ failures' = failures
  BY DEF Tick
<1>6. \A r \in trials : coolIn + age[r] >= Cooldown => coolIn' + age'[r] >= Cooldown
  BY <1>2, <1>3
<1> QED BY <1>1, <1>2, <1>4, <1>5, <1>6

\* The circuit keeps its invariant in every behaviour.
LEMMA CircuitInvariance == Spec => []CircuitInv
<1>1. Init => CircuitInv
  <2> SUFFICES ASSUME CircuitInit PROVE CircuitInv
    BY DEF Init
  <2> USE DEF CircuitInit
  <2>1. /\ failures \in 0 .. OpenAfter
        /\ coolIn \in 0 .. Cooldown
        /\ trials \in SUBSET Requests
    BY TicksAssumption, OpenAfterAssumption
  <2>2. age \in [Requests -> 0 .. EmbedTimeout]
    BY TicksAssumption
  <2>3. stage \in [Requests -> {"idle", "knn"} \cup Embedding \cup Answering]
    OBVIOUS
  <2>4. trialInFlight \in BOOLEAN /\ TrialsApart
    BY DEF TrialsApart
  <2> QED BY <2>1, <2>2, <2>3, <2>4 DEF CircuitInv, CircuitTypeOK
<1>2. CircuitInv /\ [Next]_vars => CircuitInv'
  <2> SUFFICES ASSUME CircuitInv, [Next]_vars PROVE CircuitInv'
    OBVIOUS
  <2>1. CASE UNCHANGED circuitVars
    BY <2>1 DEF circuitVars, CircuitInv, CircuitTypeOK, TrialsApart
  <2>2. ASSUME NEW r \in Requests,
               \/ LookupEmbeds(r) \/ LookupSkips(r) \/ EmbedResolves(r)
               \/ EmbedRejects(r) \/ StoreReply(r) \/ NotStored(r) \/ Knn(r)
        PROVE  CircuitInv'
    <3> USE DEF Embedding, Answering
    <3>1. CASE LookupEmbeds(r)
      BY <3>1, BeginKeepsCircuit DEF LookupEmbeds
    <3>2. CASE LookupSkips(r)
      BY <3>2, MoveKeepsCircuit DEF LookupSkips
    <3>3. CASE EmbedResolves(r)
      BY <3>3, EndKeepsCircuit DEF EmbedResolves
    <3>4. CASE EmbedRejects(r)
      BY <3>4, EndKeepsCircuit DEF EmbedRejects
    <3>5. CASE StoreReply(r)
      BY <3>5, BeginKeepsCircuit, MoveKeepsCircuit DEF StoreReply
    <3>6. CASE NotStored(r)
      BY <3>6, MoveKeepsCircuit DEF NotStored
    <3>7. CASE Knn(r)
      BY <3>7, MoveKeepsCircuit DEF Knn
    <3> QED BY <2>2, <3>1, <3>2, <3>3, <3>4, <3>5, <3>6, <3>7
  <2>3. CASE Tick
    BY <2>3, TickKeepsCircuit
  <2>4. ASSUME NEW e \in Evaluators, EvaluateReadiness(e) \/ Evaluation(e)
        PROVE  UNCHANGED circuitVars
    BY <2>4 DEF EvaluateReadiness, Evaluation, RedisChecked, UseLastCheck,
                JoinProbe, StartProbe, Publish
  <2>5. CASE UNCHANGED vars
    BY <2>5, <2>1 DEF vars
  <2> QED
    BY <2>1, <2>2, <2>3, <2>4, <2>5
       DEF Next, CircuitSteps, Search, UseRedis, ProbeEnds
<1> QED BY <1>1, <1>2, PTL DEF Spec

\* Trials of the embedding circuit that run at once began a cooldown apart, and
\* trialInFlight is set only while a trial runs, for all numbers and times.
THEOREM TrialsKeepApart == Spec => []TrialsApart
<1>1. CircuitInv => TrialsApart  BY DEF CircuitInv
<1> QED BY <1>1, CircuitInvariance, PTL

-----------------------------------------------------------------------------
(* The probes: the promise is set exactly while one call runs, and whoever *)
(* waits is at a check whose promise is set.                               *)

ProbesInv ==
    /\ check \in [Evaluators -> {"idle", "redis", "publish"} \cup Probes]
    /\ waits \in [Evaluators -> BOOLEAN]
    /\ inFlight \in [Probes -> BOOLEAN]
    /\ calls \in [Probes -> Nat]
    /\ \A p \in Probes : calls[p] = IF inFlight[p] THEN 1 ELSE 0
    /\ \A e \in Evaluators : waits[e] => check[e] \in Probes /\ inFlight[check[e]]

\* The readiness probes keep theirs.
LEMMA ProbesInvariance == Spec => []ProbesInv
<1>1. Init => ProbesInv
  BY DEF Init, HealthInit, ProbesInv, Probes
<1>2. ProbesInv /\ [Next]_vars => ProbesInv'
  <2> SUFFICES ASSUME ProbesInv, [Next]_vars PROVE ProbesInv'
    OBVIOUS
  <2> USE DEF ProbesInv
  <2>1. CASE UNCHANGED <<check, waits, inFlight, calls>>
    BY <2>1
  <2>2. ASSUME NEW e \in Evaluators, EvaluateReadiness(e) \/ Evaluation(e)
        PROVE  ProbesInv'
    <3>1. CASE EvaluateReadiness(e)
      BY <3>1 DEF EvaluateReadiness, Probes
    <3>2. CASE RedisChecked(e)
      BY <3>2 DEF RedisChecked, Probes
    <3>3. CASE UseLastCheck(e)
      BY <3>3 DEF UseLastCheck, Following, Probes
    <3>4. CASE JoinProbe(e)
      BY <3>4 DEF JoinProbe
    <3>5. CASE StartProbe(e)
      BY <3>5 DEF StartProbe
    <3>6. CASE Publish(e)
      BY <3>6 DEF Publish, Probes
    <3> QED BY <2>2, <3>1, <3>2, <3>3, <3>4, <3>5, <3>6 DEF Evaluation
  <2>3. ASSUME NEW p \in Probes, ProbeEnds(p)
        PROVE  ProbesInv'
    <3>1. calls[p] = 1 /\ inFlight[p]
      BY <2>3 DEF ProbeEnds
    <3>2. calls' = [calls EXCEPT ![p] = 0] /\ inFlight' = [inFlight EXCEPT ![p] = FALSE]
      BY <2>3, <3>1 DEF ProbeEnds
    <3>3. /\ check' \in [Evaluators -> {"idle", "redis", "publish"} \cup Probes]
          /\ waits' \in [Evaluators -> BOOLEAN]
      BY <2>3 DEF ProbeEnds, Following, Probes
    <3>4. \A e \in Evaluators :
             waits'[e] => waits[e] /\ check[e] # p /\ check'[e] = check[e]
      BY <2>3 DEF ProbeEnds
    <3> QED BY <3>2, <3>3, <3>4
  <2>4. ASSUME NEW r \in Requests, Search(r)
        PROVE  UNCHANGED <<check, waits, inFlight, calls>>
    BY <2>4 DEF Search, healthVars
  <2>5. CASE Tick
    BY <2>5, <2>1 DEF Tick
  <2>6. CASE UNCHANGED healthVars
    BY <2>6, <2>1 DEF healthVars
  <2> QED
    BY <2>1, <2>2, <2>3, <2>4, <2>5, <2>6 DEF Next, UseRedis, vars
<1> QED BY <1>1, <1>2, PTL DEF Spec

\* At most one probe of each kind runs, and nobody waits for one that does not
\* run, for any number of concurrent evaluations.
THEOREM ProbesAreShared == Spec => []ProbesShared
<1>1. ProbesInv => ProbesShared
  BY DEF ProbesInv, ProbesShared
<1> QED BY <1>1, ProbesInvariance, PTL
==============================================================================
