--------------------------- MODULE ChatCompletion ---------------------------
(***************************************************************************)
(* Concurrent chat requests in ChatService: executeChat with its cache     *)
(* lookup, in-process singleflight, provider call and dual write, and the  *)
(* stream path that shares the cache but does not coalesce.  Replicas of   *)
(* the gateway share Redis (exact and semantic cache, cooldowns); each has *)
(* a singleflight map of its own.                                          *)
(*                                                                         *)
(* The provider call is the one-shot call of ProviderVerdict, which the    *)
(* ResilientExecutor is shown to implement.  A cached or returned text is  *)
(* represented by the request whose provider call produced it.             *)
(***************************************************************************)
EXTENDS Naturals, FiniteSets

CONSTANTS
    Request,      \* chat requests
    Replica,      \* gateway processes
    Key,          \* buildIdentityKey: (alias, client, messages, system, params)
    Partition,    \* TAG partition of the semantic cache: a Key without messages
    PartitionOf,  \* the partition of each key; it fixes client and provider too
    RequestMixes, \* the assignments of attributes to requests considered
    NoRequest

Attributes == [key       : Key,
               replica   : Replica,
               kind      : {"json", "stream"},
               cacheable : BOOLEAN]   \* no tooling, known client, provider enabled

ASSUME PartitionAssumption == PartitionOf \in [Key -> Partition]
ASSUME MixAssumption == RequestMixes \subseteq [Request -> Attributes]
Corrupt == "corrupt"   \* an entry parseCachedChatResponse or isUnservable rejects

ASSUME RequestAssumption == NoRequest \notin Request /\ Corrupt \notin Request
                                /\ NoRequest # Corrupt

\* How a provider call ended.  The requested alias answered, and its adapter reported
\* finishReason "stop" with text and no tool calls ("stopped") or anything else
\* ("unfinished"); what the adapter reports need not be what the model did, see
\* OnlyFullRepliesStored of FacadeRequest.  Or the fallback alias answered; or nobody.
OfRequestedAlias == {"stopped", "unfinished"}
Answered == OfRequestedAlias \cup {"fallback"}
VerdictKind == Answered \cup {"none", "rateLimited", "failed"}
Source == {"exact", "semantic", "live"}
Working == {"calling", "storing", "storingSemantic", "failing", "settling"}
Location == {"new", "lookup", "purge", "semantic", "missed", "waiting", "done", "dropped"}
                \cup Working
NoResponse == [source |-> "none", origin |-> NoRequest, stamp |-> NoRequest]

VARIABLES
    attr,       \* the attributes of each request
    pc,         \* where each request is
    inFlight,   \* createInProcessSingleflight's map, per replica
    exact,      \* the exact cache: the origin of the entry of each key
    semantic,   \* the semantic cache, likewise
    cooldown,   \* partitions whose (gateway key, provider) is in cooldown
    verdict,    \* how each request's own provider call ended
    response    \* what each request was answered; stamp is whose requestId and
                \* conversationId it carries

vars == <<attr, pc, inFlight, exact, semantic, cooldown, verdict, response>>

-----------------------------------------------------------------------------
KeyOf(r) == attr[r].key
ScopeOf(r) == PartitionOf[KeyOf(r)]

\* mayCoalesce of executeChat; streams never coalesce.
Coalesces(r) == attr[r].kind = "json" /\ attr[r].cacheable

\* The entry of the singleflight map a request uses.
Flight(r) == <<attr[r].replica, KeyOf(r)>>

Goto(r, loc) == pc' = [pc EXCEPT ![r] = loc]

\* An answer of its own: the requestId and conversationId of r are stamped on it.
Answer(r, source, origin) ==
    response' = [response EXCEPT ![r] = [source |-> source, origin |-> origin, stamp |-> r]]

Init ==
    /\ attr \in RequestMixes
    /\ pc = [r \in Request |-> "new"]
    /\ inFlight = [f \in Replica \X Key |-> NoRequest]
    /\ exact \in [Key -> {NoRequest, Corrupt}]
    /\ semantic = [k \in Key |-> NoRequest]
    /\ cooldown = {}
    /\ verdict = [r \in Request |-> "none"]
    /\ response = [r \in Request |-> NoResponse]

\* prepareRequestForExecution of a request that validates: assertNotInCooldown
\* rejects it with a 429, unless Redis cannot be asked.
Prepare(r) ==
    /\ pc[r] = "new"
    /\ \/ ScopeOf(r) \in cooldown /\ Goto(r, "done")
       \/ Goto(r, IF attr[r].cacheable THEN "lookup" ELSE "missed")
    /\ UNCHANGED <<attr, inFlight, exact, semantic, cooldown, verdict, response>>

\* ResponseCacheService.getCachedResponse: GET and parse.  Redis may be unavailable.
LookupExact(r) ==
    /\ pc[r] = "lookup"
    /\ \/ /\ exact[KeyOf(r)] \in Request
          /\ Answer(r, "exact", exact[KeyOf(r)])
          /\ Goto(r, "done")
       \/ /\ exact[KeyOf(r)] = Corrupt
          /\ Goto(r, "purge")
          /\ UNCHANGED response
       \/ /\ Goto(r, "semantic")
          /\ UNCHANGED response
    /\ UNCHANGED <<attr, inFlight, exact, semantic, cooldown, verdict>>

\* The DELETE that follows an unusable entry; by now the entry may be another one.
PurgeExact(r) ==
    /\ pc[r] = "purge"
    /\ exact' = [exact EXCEPT ![KeyOf(r)] = NoRequest]
    /\ Goto(r, "semantic")
    /\ UNCHANGED <<attr, inFlight, semantic, cooldown, verdict, response>>

\* SemanticCacheService.lookup: the same text by hash, or a similar one by KNN, from
\* the request's own partition; any failure is a miss.
FaultSimilarAnywhere(r) == Key
SimilarTo(r) == {k \in Key : PartitionOf[k] = ScopeOf(r)}

LookupSemantic(r) ==
    /\ pc[r] = "semantic"
    /\ \/ \E k \in SimilarTo(r) :
             /\ semantic[k] # NoRequest
             /\ Answer(r, "semantic", semantic[k])
             /\ Goto(r, "done")
       \/ /\ Goto(r, "missed")
          /\ UNCHANGED response
    /\ UNCHANGED <<attr, inFlight, exact, semantic, cooldown, verdict>>

\* singleflightChat: join the call in flight for this key, or start one.  Requests
\* that may not coalesce call the provider themselves.
FaultAlwaysCall(r) ==
    /\ pc[r] = "missed"
    /\ IF Coalesces(r) THEN inFlight' = [inFlight EXCEPT ![Flight(r)] = r] ELSE UNCHANGED inFlight
    /\ Goto(r, "calling")
    /\ UNCHANGED <<attr, exact, semantic, cooldown, verdict, response>>

JoinOrCall(r) ==
    /\ pc[r] = "missed"
    /\ IF Coalesces(r)
         THEN IF inFlight[Flight(r)] = NoRequest
                THEN /\ inFlight' = [inFlight EXCEPT ![Flight(r)] = r]
                     /\ Goto(r, "calling")
                ELSE /\ Goto(r, "waiting")
                     /\ UNCHANGED inFlight
         ELSE /\ Goto(r, "calling")
              /\ UNCHANGED inFlight
    /\ UNCHANGED <<attr, exact, semantic, cooldown, verdict, response>>

\* The didFallback test, the gates of setCachedIfAllowed and shouldStoreChatResponse,
\* which goes by what the adapter reported.
FaultMayStoreFallback(r, v) == attr[r].cacheable /\ v \in {"stopped", "fallback"}
MayStore(r, v) == attr[r].cacheable /\ v = "stopped"

\* executeWithRetryAndFallback settles.
ProviderSettles(r, v) ==
    /\ pc[r] = "calling"
    /\ verdict' = [verdict EXCEPT ![r] = v]
    /\ Goto(r, IF v \in {"rateLimited", "failed"} THEN "failing"
               ELSE IF MayStore(r, v) THEN "storing" ELSE "settling")
    /\ UNCHANGED <<attr, inFlight, exact, semantic, cooldown, response>>

\* SET key value NX: the first writer wins.  An unavailable Redis stores nothing.
FaultStoreOverwrites(r) ==
    /\ pc[r] = "storing"
    /\ exact' = [exact EXCEPT ![KeyOf(r)] = r]
    /\ Goto(r, "storingSemantic")
    /\ UNCHANGED <<attr, inFlight, semantic, cooldown, verdict, response>>

StoreExact(r) ==
    /\ pc[r] = "storing"
    /\ \/ exact' = [exact EXCEPT ![KeyOf(r)] = IF @ = NoRequest THEN r ELSE @]
       \/ UNCHANGED exact
    /\ Goto(r, "storingSemantic")
    /\ UNCHANGED <<attr, inFlight, semantic, cooldown, verdict, response>>

\* storeReply: HSETNX on the reply field; skipped without an embedding.
StoreSemantic(r) ==
    /\ pc[r] = "storingSemantic"
    /\ \/ semantic' = [semantic EXCEPT ![KeyOf(r)] = IF @ = NoRequest THEN r ELSE @]
       \/ UNCHANGED semantic
    /\ Goto(r, "settling")
    /\ UNCHANGED <<attr, inFlight, exact, cooldown, verdict, response>>

\* handleProviderError: a 429 starts a cooldown if Redis takes it; then the error
\* goes to everyone who waits.
HandleProviderError(r) ==
    /\ pc[r] = "failing"
    /\ \/ verdict[r] = "rateLimited" /\ cooldown' = cooldown \cup {ScopeOf(r)}
       \/ UNCHANGED cooldown
    /\ Goto(r, "settling")
    /\ UNCHANGED <<attr, inFlight, exact, semantic, verdict, response>>

\* Those who hold the promise of r: r itself and, if it leads, its followers.
Sharers(r) ==
    {r} \cup {s \in Request : /\ pc[s] = "waiting"
                              /\ Coalesces(r)
                              /\ Flight(s) = Flight(r)}

\* The promise of r settles: finally() clears the map entry, and every holder gets
\* the same response object, which carries the ids of r.
FaultSettleKeepsEntry(r) ==
    /\ pc[r] = "settling"
    /\ pc' = [s \in Request |-> IF s \in Sharers(r) THEN "done" ELSE pc[s]]
    /\ response' =
          [s \in Request |->
              IF s \in Sharers(r) /\ verdict[r] \in Answered
                THEN [source |-> "live", origin |-> r, stamp |-> r] ELSE response[s]]
    /\ UNCHANGED <<attr, inFlight, exact, semantic, cooldown, verdict>>

Settle(r) ==
    /\ pc[r] = "settling"
    /\ pc' = [s \in Request |-> IF s \in Sharers(r) THEN "done" ELSE pc[s]]
    /\ response' =
          [s \in Request |->
              IF s \in Sharers(r) /\ verdict[r] \in Answered
                THEN [source |-> "live", origin |-> r, stamp |-> r] ELSE response[s]]
    /\ inFlight' = IF Coalesces(r) THEN [inFlight EXCEPT ![Flight(r)] = NoRequest] ELSE inFlight
    /\ UNCHANGED <<attr, exact, semantic, cooldown, verdict>>

\* CACHE_TTL passes for an entry of either layer; a cooldown runs out.
ExpireExact(k) ==
    /\ exact[k] # NoRequest
    /\ exact' = [exact EXCEPT ![k] = NoRequest]
    /\ UNCHANGED <<attr, pc, inFlight, semantic, cooldown, verdict, response>>

ExpireSemantic(k) ==
    /\ semantic[k] # NoRequest
    /\ semantic' = [semantic EXCEPT ![k] = NoRequest]
    /\ UNCHANGED <<attr, pc, inFlight, exact, cooldown, verdict, response>>

ExpireCooldown(p) ==
    /\ p \in cooldown
    /\ cooldown' = cooldown \ {p}
    /\ UNCHANGED <<attr, pc, inFlight, exact, semantic, verdict, response>>

\* A gateway process dies with its singleflight map; Redis keeps what was stored.
Crash(p) ==
    /\ \E r \in Request : attr[r].replica = p /\ pc[r] \notin {"new", "done", "dropped"}
    /\ pc' = [r \in Request |->
                 IF attr[r].replica = p /\ pc[r] \notin {"new", "done"} THEN "dropped" ELSE pc[r]]
    /\ inFlight' = [f \in Replica \X Key |-> IF f[1] = p THEN NoRequest ELSE inFlight[f]]
    /\ UNCHANGED <<attr, exact, semantic, cooldown, verdict, response>>

Serve(r) ==
    \/ Prepare(r)
    \/ LookupExact(r)
    \/ PurgeExact(r)
    \/ LookupSemantic(r)
    \/ JoinOrCall(r)
    \/ \E v \in VerdictKind \ {"none"} : ProviderSettles(r, v)
    \/ StoreExact(r)
    \/ StoreSemantic(r)
    \/ HandleProviderError(r)
    \/ Settle(r)

Next ==
    \/ \E r \in Request : Serve(r)
    \/ \E k \in Key : ExpireExact(k) \/ ExpireSemantic(k)
    \/ \E p \in Partition : ExpireCooldown(p)
    \/ \E p \in Replica : Crash(p)

Spec == Init /\ [][Next]_vars

\* Every request is an async function whose awaits all settle: the provider call by
\* the executor's timeouts, Redis calls by success or error.
Fairness == \A r \in Request : WF_vars(Serve(r))
FairSpec == Spec /\ Fairness

-----------------------------------------------------------------------------
\* Type correctness.
TypeOK ==
    /\ attr \in [Request -> Attributes]
    /\ pc \in [Request -> Location]
    /\ inFlight \in [Replica \X Key -> Request \cup {NoRequest}]
    /\ exact \in [Key -> Request \cup {NoRequest, Corrupt}]
    /\ semantic \in [Key -> Request \cup {NoRequest}]
    /\ cooldown \subseteq Partition
    /\ verdict \in [Request -> VerdictKind]
    /\ response \in [Request -> [source : Source \cup {"none"},
                                 origin : Request \cup {NoRequest},
                                 stamp  : Request \cup {NoRequest}]]

\* Coalescing works: in one process at most one of the identical JSON requests is
\* past the singleflight, and the map points at it.
OneCallPerFlight ==
    \A r \in Request : Coalesces(r) /\ pc[r] \in Working => inFlight[Flight(r)] = r

\* Nobody waits for a promise that nobody is going to settle.
FollowersHaveLeader ==
    \A r \in Request :
        pc[r] = "waiting" =>
            /\ inFlight[Flight(r)] \in Request
            /\ pc[inFlight[Flight(r)]] \in Working
            /\ Coalesces(inFlight[Flight(r)])
            /\ Flight(inFlight[Flight(r)]) = Flight(r)

\* What a client is answered was produced for its own client, alias, system prompt
\* and parameters; unless it came by similarity, for the very same messages too.
AnswersBelong ==
    \A r \in Request :
        response[r].source # "none" =>
            LET o == response[r].origin
            IN  /\ ScopeOf(o) = ScopeOf(r)
                /\ response[r].source # "semantic" => KeyOf(o) = KeyOf(r)

\* What a cache holds, or has ever answered, was said by the requested alias to a request
\* without tooling, and never by a fallback that stood in for it (SPEC-CHAT F-8b, F-10),
\* though coalesced requests, streams and other replicas store for each other.  Whether
\* the answer was whole is not said here: that depends on the adapters.
CacheHoldsPrimaryAnswers ==
    LET Sound(o) == verdict[o] \in OfRequestedAlias /\ attr[o].cacheable
    IN  /\ \A r \in Request :
              response[r].source \in {"exact", "semantic"} => Sound(response[r].origin)
        /\ \A k \in Key : /\ exact[k] \in Request => Sound(exact[k])
                          /\ semantic[k] \in Request => Sound(semantic[k])

\* First writer wins: a stored answer is never replaced by another one; it can only
\* disappear.
FirstWriterWins ==
    [][\A k \in Key : /\ exact[k] \in Request => exact'[k] \in {exact[k], NoRequest}
                      /\ semantic[k] \in Request => semantic'[k] \in {semantic[k], NoRequest}]_vars

\* Every request that is not lost in a crash is answered or rejected.
EveryRequestEnds == <>(\A r \in Request : pc[r] \in {"done", "dropped"})

=============================================================================
