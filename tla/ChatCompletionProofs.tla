------------------------ MODULE ChatCompletionProofs ------------------------
(***************************************************************************)
(* Coalescing and cache provenance, for any number of requests, replicas   *)
(* and keys.                                                               *)
(***************************************************************************)
EXTENDS ChatCompletion, TLAPS

\* The singleflight map points only at requests that lead a call of that entry.
FlightLeads ==
    \A f \in Replica \X Key :
        inFlight[f] # NoRequest =>
            /\ inFlight[f] \in Request
            /\ pc[inFlight[f]] \in Working
            /\ Coalesces(inFlight[f])
            /\ Flight(inFlight[f]) = f

SharingInv == TypeOK /\ OneCallPerFlight /\ FlightLeads /\ FollowersHaveLeader

Storable(r) == verdict[r] = "stopped" /\ attr[r].cacheable
Undecided == {"new", "lookup", "purge", "semantic", "missed", "waiting", "calling"}

\* A request has no verdict before its provider call has settled, and only an answer
\* that may be stored is on its way to the caches.
VerdictTiming ==
    \A r \in Request : /\ pc[r] \in Undecided => verdict[r] = "none"
                       /\ pc[r] \in {"storing", "storingSemantic"} => Storable(r)

\* Every stored answer was produced by a call for the key it is stored under.
EntriesOwned ==
    \A k \in Key : /\ exact[k] \in Request => KeyOf(exact[k]) = k
                   /\ semantic[k] \in Request => KeyOf(semantic[k]) = k

AnsweredByRequest == \A r \in Request : response[r].source # "none" => response[r].origin \in Request

CacheInv == TypeOK /\ VerdictTiming /\ EntriesOwned /\ AnsweredByRequest /\ AnswersBelong /\ CacheHoldsPrimaryAnswers

-----------------------------------------------------------------------------
\* The initial states are typed.
LEMMA InitTypeOK == Init => TypeOK
BY MixAssumption, RequestAssumption
   DEF Init, TypeOK, Location, VerdictKind, NoResponse, Source

\* The flight, the key and the scope of a request.
LEMMA FlightType == ASSUME TypeOK, NEW r \in Request
                    PROVE  /\ Flight(r) \in Replica \X Key
                           /\ KeyOf(r) \in Key
                           /\ ScopeOf(r) \in Partition
BY PartitionAssumption DEF TypeOK, Attributes, Flight, KeyOf, ScopeOf

\* Every step preserves the type invariant.
LEMMA NextTypeOK == TypeOK /\ [Next]_vars => TypeOK'
<1> SUFFICES ASSUME TypeOK, [Next]_vars PROVE TypeOK'
  OBVIOUS
<1> USE DEF TypeOK, Goto
<1>1. ASSUME NEW r \in Request, Prepare(r) PROVE TypeOK'
  BY <1>1 DEF Prepare, Location
<1>2. ASSUME NEW r \in Request, LookupExact(r) PROVE TypeOK'
  <2>1. pc' \in [Request -> Location]
    BY <1>2 DEF LookupExact, Location
  <2>2. response' \in [Request -> [source : Source \cup {"none"},
                                   origin : Request \cup {NoRequest},
                                   stamp  : Request \cup {NoRequest}]]
    BY <1>2 DEF LookupExact, Answer, Source
  <2>. QED
    BY <1>2, <2>1, <2>2 DEF LookupExact
<1>3. ASSUME NEW r \in Request, PurgeExact(r) PROVE TypeOK'
  BY <1>3, FlightType DEF PurgeExact, Location
<1>4. ASSUME NEW r \in Request, LookupSemantic(r) PROVE TypeOK'
  <2>1. pc' \in [Request -> Location]
    BY <1>4 DEF LookupSemantic, Location
  <2>2. response' \in [Request -> [source : Source \cup {"none"},
                                   origin : Request \cup {NoRequest},
                                   stamp  : Request \cup {NoRequest}]]
    BY <1>4 DEF LookupSemantic, SimilarTo, Answer, Source
  <2>. QED
    BY <1>4, <2>1, <2>2 DEF LookupSemantic
<1>5. ASSUME NEW r \in Request, JoinOrCall(r) PROVE TypeOK'
  BY <1>5, FlightType DEF JoinOrCall, Location, Working
<1>6. ASSUME NEW r \in Request, NEW v \in VerdictKind \ {"none"}, ProviderSettles(r, v) PROVE TypeOK'
  BY <1>6 DEF ProviderSettles, Location, Working
<1>7. ASSUME NEW r \in Request, StoreExact(r) PROVE TypeOK'
  BY <1>7, FlightType DEF StoreExact, Location, Working
<1>8. ASSUME NEW r \in Request, StoreSemantic(r) PROVE TypeOK'
  BY <1>8, FlightType DEF StoreSemantic, Location, Working
<1>9. ASSUME NEW r \in Request, HandleProviderError(r) PROVE TypeOK'
  BY <1>9, FlightType DEF HandleProviderError, Location, Working
<1>10. ASSUME NEW r \in Request, Settle(r) PROVE TypeOK'
  BY <1>10, FlightType DEF Settle, Location, Source
<1>11. ASSUME NEW k \in Key, ExpireExact(k) PROVE TypeOK'
  BY <1>11 DEF ExpireExact
<1>12. ASSUME NEW k \in Key, ExpireSemantic(k) PROVE TypeOK'
  BY <1>12 DEF ExpireSemantic
<1>13. ASSUME NEW p \in Partition, ExpireCooldown(p) PROVE TypeOK'
  BY <1>13 DEF ExpireCooldown
<1>14. ASSUME NEW p \in Replica, Crash(p) PROVE TypeOK'
  BY <1>14 DEF Crash, Location
<1>15. CASE UNCHANGED vars
  BY <1>15 DEF vars
<1>. QED
  BY <1>1, <1>2, <1>3, <1>4, <1>5, <1>6, <1>7, <1>8, <1>9, <1>10, <1>11, <1>12,
     <1>13, <1>14, <1>15 DEF Next, Serve

-----------------------------------------------------------------------------
\* A step that neither reaches nor leaves the singleflight does not disturb it.
LEMMA OutsideSingleflight ==
    ASSUME SharingInv, NEW r \in Request, NEW loc,
           pc' = [pc EXCEPT ![r] = loc], UNCHANGED <<attr, inFlight>>,
           pc[r] \in Working <=> loc \in Working,
           pc[r] # "waiting", loc # "waiting"
    PROVE  (OneCallPerFlight /\ FlightLeads /\ FollowersHaveLeader)'
<1>1. /\ \A s \in Request : Flight(s)' = Flight(s) /\ (Coalesces(s)' <=> Coalesces(s))
      /\ \A s \in Request : pc'[s] \in Working <=> pc[s] \in Working
      /\ \A s \in Request : pc'[s] = "waiting" <=> pc[s] = "waiting"
  BY DEF SharingInv, TypeOK, Flight, KeyOf, Coalesces
<1>2. OneCallPerFlight'
  BY <1>1 DEF SharingInv, OneCallPerFlight
<1>3. FlightLeads'
  BY <1>1 DEF SharingInv, FlightLeads
<1>4. FollowersHaveLeader'
  BY <1>1 DEF SharingInv, FollowersHaveLeader
<1>. QED  BY <1>2, <1>3, <1>4

\* Every step keeps what requests of one flight share.
LEMMA NextSharing == SharingInv /\ TypeOK' /\ [Next]_vars => SharingInv'
<1> SUFFICES ASSUME SharingInv, TypeOK', [Next]_vars
             PROVE  (OneCallPerFlight /\ FlightLeads /\ FollowersHaveLeader)'
  BY DEF SharingInv
<1> DEFINE Sharing == OneCallPerFlight /\ FlightLeads /\ FollowersHaveLeader
<1>1. ASSUME NEW r \in Request, Prepare(r) PROVE Sharing'
  BY <1>1, OutsideSingleflight DEF Prepare, Goto, Working
<1>2. ASSUME NEW r \in Request, LookupExact(r) PROVE Sharing'
  BY <1>2, OutsideSingleflight DEF LookupExact, Goto, Working
<1>3. ASSUME NEW r \in Request, PurgeExact(r) PROVE Sharing'
  BY <1>3, OutsideSingleflight DEF PurgeExact, Goto, Working
<1>4. ASSUME NEW r \in Request, LookupSemantic(r) PROVE Sharing'
  BY <1>4, OutsideSingleflight DEF LookupSemantic, Goto, Working
<1>5. ASSUME NEW r \in Request, JoinOrCall(r) PROVE Sharing'
  <2>1. /\ \A s \in Request : Flight(s)' = Flight(s) /\ (Coalesces(s)' <=> Coalesces(s))
        /\ \A s \in Request \ {r} : pc'[s] = pc[s]
        /\ pc[r] = "missed"
    BY <1>5 DEF JoinOrCall, Goto, SharingInv, TypeOK, Flight, KeyOf, Coalesces
  <2>2. CASE Coalesces(r) /\ inFlight[Flight(r)] = NoRequest
    <3>1. /\ pc'[r] = "calling" /\ inFlight'[Flight(r)] = r
          /\ \A f \in Replica \X Key : f # Flight(r) => inFlight'[f] = inFlight[f]
      BY <1>5, <2>2, FlightType DEF JoinOrCall, Goto, SharingInv, TypeOK
    <3>2. OneCallPerFlight'
      BY <2>1, <2>2, <3>1, FlightType, RequestAssumption DEF SharingInv, OneCallPerFlight
    <3>3. FlightLeads'
      BY <2>1, <2>2, <3>1, FlightType DEF SharingInv, FlightLeads, Working
    <3>4. FollowersHaveLeader'
      <4>1. ASSUME NEW s \in Request, pc'[s] = "waiting"
            PROVE  s # r /\ pc[s] = "waiting" /\ Flight(s) # Flight(r)
        BY <2>1, <2>2, <3>1, <4>1, RequestAssumption DEF SharingInv, FollowersHaveLeader
      <4>. QED
        BY <2>1, <3>1, <4>1, FlightType DEF SharingInv, FollowersHaveLeader, Working
    <3>. QED  BY <3>2, <3>3, <3>4
  <2>3. CASE Coalesces(r) /\ inFlight[Flight(r)] # NoRequest
    <3>1. pc'[r] = "waiting" /\ inFlight' = inFlight
      BY <1>5, <2>3 DEF JoinOrCall, Goto, SharingInv, TypeOK
    <3>2. OneCallPerFlight'
      BY <2>1, <3>1 DEF SharingInv, OneCallPerFlight, Working
    <3>3. FlightLeads'
      BY <2>1, <3>1 DEF SharingInv, FlightLeads, Working
    <3>4. FollowersHaveLeader'
      BY <2>1, <2>3, <3>1, FlightType DEF SharingInv, FlightLeads, FollowersHaveLeader, Working
    <3>. QED  BY <3>2, <3>3, <3>4
  <2>4. CASE ~ Coalesces(r)
    <3>1. pc'[r] = "calling" /\ inFlight' = inFlight
      BY <1>5, <2>4 DEF JoinOrCall, Goto, SharingInv, TypeOK
    <3>2. OneCallPerFlight'
      BY <2>1, <2>4, <3>1 DEF SharingInv, OneCallPerFlight, Working
    <3>3. FlightLeads'
      BY <2>1, <3>1 DEF SharingInv, FlightLeads, Working
    <3>4. FollowersHaveLeader'
      BY <2>1, <3>1 DEF SharingInv, FollowersHaveLeader, Working
    <3>. QED  BY <3>2, <3>3, <3>4
  <2>. QED  BY <2>2, <2>3, <2>4
<1>6. ASSUME NEW r \in Request, NEW v \in VerdictKind \ {"none"}, ProviderSettles(r, v)
      PROVE  Sharing'
  BY <1>6, OutsideSingleflight DEF ProviderSettles, Goto, Working
<1>7. ASSUME NEW r \in Request, StoreExact(r) PROVE Sharing'
  BY <1>7, OutsideSingleflight DEF StoreExact, Goto, Working
<1>8. ASSUME NEW r \in Request, StoreSemantic(r) PROVE Sharing'
  BY <1>8, OutsideSingleflight DEF StoreSemantic, Goto, Working
<1>9. ASSUME NEW r \in Request, HandleProviderError(r) PROVE Sharing'
  BY <1>9, OutsideSingleflight DEF HandleProviderError, Goto, Working
<1>10. ASSUME NEW r \in Request, Settle(r) PROVE Sharing'
  <2>1. /\ \A s \in Request : Flight(s)' = Flight(s) /\ (Coalesces(s)' <=> Coalesces(s))
        /\ \A s \in Request : pc'[s] = IF s \in Sharers(r) THEN "done" ELSE pc[s]
        /\ pc[r] = "settling" /\ r \in Sharers(r)
    BY <1>10 DEF Settle, SharingInv, TypeOK, Flight, KeyOf, Coalesces, Sharers
  <2>2. CASE Coalesces(r)
    <3>1. /\ inFlight[Flight(r)] = r /\ inFlight'[Flight(r)] = NoRequest
          /\ \A f \in Replica \X Key : f # Flight(r) => inFlight'[f] = inFlight[f]
      BY <1>10, <2>1, <2>2, FlightType DEF Settle, SharingInv, TypeOK, OneCallPerFlight, Working
    <3>2. \A s \in Request : pc[s] = "waiting" /\ s \notin Sharers(r) => Flight(s) # Flight(r)
      BY <2>2 DEF Sharers
    <3>3. \A s \in Request : s \in Sharers(r) /\ s # r => pc[s] = "waiting"
      BY DEF Sharers
    <3>4. OneCallPerFlight'
      BY <2>1, <3>1, FlightType DEF SharingInv, OneCallPerFlight, Working
    <3>5. FlightLeads'
      BY <2>1, <3>1, <3>3, FlightType DEF SharingInv, FlightLeads, Working
    <3>6. FollowersHaveLeader'
      BY <2>1, <3>1, <3>2, <3>3, FlightType DEF SharingInv, FollowersHaveLeader, Working
    <3>. QED  BY <3>4, <3>5, <3>6
  <2>3. CASE ~ Coalesces(r)
    <3>1. inFlight' = inFlight /\ Sharers(r) = {r}
      BY <1>10, <2>3 DEF Settle, Sharers
    <3>2. OneCallPerFlight'
      BY <2>1, <3>1 DEF SharingInv, OneCallPerFlight, Working
    <3>3. FlightLeads'
      BY <2>1, <2>3, <3>1 DEF SharingInv, FlightLeads
    <3>4. FollowersHaveLeader'
      BY <2>1, <2>3, <3>1 DEF SharingInv, FollowersHaveLeader
    <3>. QED  BY <3>2, <3>3, <3>4
  <2>. QED  BY <2>2, <2>3
<1>11. ASSUME UNCHANGED <<attr, pc, inFlight>> PROVE Sharing'
  BY <1>11 DEF SharingInv, OneCallPerFlight, FlightLeads, FollowersHaveLeader, Flight, KeyOf, Coalesces
<1>12. ASSUME NEW p \in Replica, Crash(p) PROVE Sharing'
  <2>1. /\ \A s \in Request : Flight(s)' = Flight(s) /\ (Coalesces(s)' <=> Coalesces(s))
        /\ \A s \in Request : Flight(s)[1] = attr[s].replica
        /\ \A s \in Request : Flight(s)[1] = p => pc'[s] \notin Working \cup {"waiting"}
        /\ \A s \in Request : Flight(s)[1] # p => pc'[s] = pc[s]
        /\ \A f \in Replica \X Key : inFlight'[f] = IF f[1] = p THEN NoRequest ELSE inFlight[f]
    BY <1>12 DEF Crash, SharingInv, TypeOK, Flight, KeyOf, Coalesces, Working
  <2>2. OneCallPerFlight'
    BY <2>1, FlightType DEF SharingInv, OneCallPerFlight
  <2>3. FlightLeads'
    BY <2>1 DEF SharingInv, FlightLeads
  <2>4. FollowersHaveLeader'
    BY <2>1, FlightType DEF SharingInv, FollowersHaveLeader
  <2>. QED  BY <2>2, <2>3, <2>4
<1>. QED
  BY <1>1, <1>2, <1>3, <1>4, <1>5, <1>6, <1>7, <1>8, <1>9, <1>10, <1>11, <1>12
  DEF Next, Serve, vars, ExpireExact, ExpireSemantic, ExpireCooldown

\* The singleflight invariant holds in every reachable state.
LEMMA Sharing == Spec => []SharingInv
<1>1. Init => SharingInv
  <2> SUFFICES ASSUME Init PROVE SharingInv
    OBVIOUS
  <2>1. TypeOK
    BY InitTypeOK
  <2>2. OneCallPerFlight /\ FlightLeads /\ FollowersHaveLeader
    BY DEF Init, OneCallPerFlight, FlightLeads, FollowersHaveLeader, Working
  <2>. QED  BY <2>1, <2>2 DEF SharingInv
<1>2. SharingInv /\ [Next]_vars => SharingInv'
  BY NextTypeOK, NextSharing DEF SharingInv
<1>. QED  BY <1>1, <1>2, PTL DEF Spec

\* The shared state of the gateway is well typed: ChatCompletion's TypeOK.
THEOREM TypeCorrect == Spec => []TypeOK
BY Sharing, PTL DEF SharingInv

\* In every process and for any number of concurrent identical requests, at most one
\* is past the singleflight: createInProcessSingleflight coalesces.
THEOREM Coalescing == Spec => []OneCallPerFlight
BY Sharing, PTL DEF SharingInv

\* A request that joined a call in flight always has a leader at work in its own
\* process, whatever crashes, expires or fails: no follower is orphaned.
THEOREM NoOrphans == Spec => []FollowersHaveLeader
BY Sharing, PTL DEF SharingInv

-----------------------------------------------------------------------------
\* Every step keeps the entries of the caches answers to their own keys.
LEMMA NextCache == CacheInv /\ TypeOK' /\ [Next]_vars => CacheInv'
<1> SUFFICES ASSUME CacheInv, TypeOK', [Next]_vars
             PROVE  /\ VerdictTiming' /\ EntriesOwned' /\ AnsweredByRequest'
                    /\ AnswersBelong' /\ CacheHoldsPrimaryAnswers'
  BY DEF CacheInv
<1> DEFINE Provenance == /\ VerdictTiming /\ EntriesOwned /\ AnsweredByRequest
                         /\ AnswersBelong /\ CacheHoldsPrimaryAnswers
<1>0. ASSUME UNCHANGED <<attr, exact, semantic, verdict, response>>, VerdictTiming'
      PROVE  Provenance'
  BY <1>0 DEF CacheInv, EntriesOwned, AnsweredByRequest, AnswersBelong, CacheHoldsPrimaryAnswers,
              KeyOf, ScopeOf
<1>1. ASSUME NEW r \in Request, Prepare(r) PROVE Provenance'
  <2>. VerdictTiming'
    BY <1>1 DEF Prepare, Goto, CacheInv, TypeOK, VerdictTiming, Storable, Undecided
  <2>. QED  BY <1>0, <1>1 DEF Prepare
<1>2. ASSUME NEW r \in Request, LookupExact(r) PROVE Provenance'
  <2>1. VerdictTiming'
    BY <1>2 DEF LookupExact, Goto, CacheInv, TypeOK, VerdictTiming, Storable, Undecided
  <2>2. EntriesOwned'
    BY <1>2 DEF LookupExact, CacheInv, EntriesOwned, KeyOf
  <2>3. CASE UNCHANGED response
    BY <1>0, <1>2, <2>1, <2>3 DEF LookupExact
  <2>4. CASE exact[KeyOf(r)] \in Request /\ Answer(r, "exact", exact[KeyOf(r)])
    <3>1. /\ response'[r] = [source |-> "exact", origin |-> exact[KeyOf(r)], stamp |-> r]
          /\ \A s \in Request \ {r} : response'[s] = response[s]
          /\ UNCHANGED <<attr, exact, semantic, verdict>>
      BY <1>2, <2>4 DEF LookupExact, Answer, CacheInv, TypeOK
    <3>2. KeyOf(exact[KeyOf(r)]) = KeyOf(r) /\ verdict[exact[KeyOf(r)]] \in OfRequestedAlias
          /\ attr[exact[KeyOf(r)]].cacheable
      BY <2>4, FlightType DEF CacheInv, EntriesOwned, CacheHoldsPrimaryAnswers
    <3>3. AnsweredByRequest'
      BY <2>4, <3>1 DEF CacheInv, AnsweredByRequest
    <3>4. AnswersBelong'
      BY <2>4, <3>1, <3>2 DEF CacheInv, AnswersBelong, ScopeOf, KeyOf
    <3>5. CacheHoldsPrimaryAnswers'
      BY <2>4, <3>1, <3>2 DEF CacheInv, CacheHoldsPrimaryAnswers
    <3>. QED  BY <2>1, <2>2, <3>3, <3>4, <3>5
  <2>. QED  BY <1>2, <2>3, <2>4 DEF LookupExact
<1>3. ASSUME NEW r \in Request, PurgeExact(r) PROVE Provenance'
  <2>1. VerdictTiming'
    BY <1>3 DEF PurgeExact, Goto, CacheInv, TypeOK, VerdictTiming, Storable, Undecided
  <2>2. \A k \in Key : exact'[k] \in {exact[k], NoRequest}
    BY <1>3 DEF PurgeExact, CacheInv, TypeOK
  <2>3. EntriesOwned'
    BY <1>3, <2>2, RequestAssumption DEF PurgeExact, CacheInv, EntriesOwned, KeyOf
  <2>4. AnsweredByRequest' /\ AnswersBelong'
    BY <1>3 DEF PurgeExact, CacheInv, AnsweredByRequest, AnswersBelong, KeyOf, ScopeOf
  <2>5. CacheHoldsPrimaryAnswers'
    BY <1>3, <2>2, RequestAssumption DEF PurgeExact, CacheInv, CacheHoldsPrimaryAnswers
  <2>. QED  BY <2>1, <2>3, <2>4, <2>5
<1>4. ASSUME NEW r \in Request, LookupSemantic(r) PROVE Provenance'
  <2>1. VerdictTiming'
    BY <1>4 DEF LookupSemantic, Goto, CacheInv, TypeOK, VerdictTiming, Storable, Undecided
  <2>2. EntriesOwned'
    BY <1>4 DEF LookupSemantic, CacheInv, EntriesOwned, KeyOf
  <2>3. CASE UNCHANGED response
    BY <1>0, <1>4, <2>1, <2>3 DEF LookupSemantic
  <2>4. ASSUME NEW k \in SimilarTo(r), semantic[k] # NoRequest, Answer(r, "semantic", semantic[k])
        PROVE  Provenance'
    <3>0. k \in Key /\ PartitionOf[k] = ScopeOf(r) /\ semantic[k] \in Request
      BY <2>4 DEF SimilarTo, CacheInv, TypeOK
    <3>1. /\ response'[r] = [source |-> "semantic", origin |-> semantic[k], stamp |-> r]
          /\ \A s \in Request \ {r} : response'[s] = response[s]
          /\ UNCHANGED <<attr, exact, semantic, verdict>>
      BY <1>4, <2>4 DEF LookupSemantic, Answer, CacheInv, TypeOK
    <3>2. KeyOf(semantic[k]) = k /\ verdict[semantic[k]] \in OfRequestedAlias
          /\ attr[semantic[k]].cacheable
      BY <3>0 DEF CacheInv, EntriesOwned, CacheHoldsPrimaryAnswers
    <3>3. AnsweredByRequest'
      BY <3>0, <3>1 DEF CacheInv, AnsweredByRequest
    <3>4. AnswersBelong'
      BY <3>0, <3>1, <3>2 DEF CacheInv, AnswersBelong, ScopeOf, KeyOf
    <3>5. CacheHoldsPrimaryAnswers'
      BY <3>0, <3>1, <3>2 DEF CacheInv, CacheHoldsPrimaryAnswers
    <3>. QED  BY <2>1, <2>2, <3>3, <3>4, <3>5
  <2>. QED  BY <1>4, <2>3, <2>4 DEF LookupSemantic
<1>5. ASSUME NEW r \in Request, JoinOrCall(r) PROVE Provenance'
  <2>. VerdictTiming'
    BY <1>5 DEF JoinOrCall, Goto, CacheInv, TypeOK, VerdictTiming, Storable, Undecided
  <2>. QED  BY <1>0, <1>5 DEF JoinOrCall
<1>6. ASSUME NEW r \in Request, NEW v \in VerdictKind \ {"none"}, ProviderSettles(r, v)
      PROVE  Provenance'
  <2>1. /\ verdict[r] = "none" /\ verdict'[r] = v
        /\ \A s \in Request \ {r} : verdict'[s] = verdict[s]
    BY <1>6 DEF ProviderSettles, CacheInv, TypeOK, VerdictTiming, Storable, Undecided
  <2>2. VerdictTiming'
    BY <1>6 DEF ProviderSettles, MayStore, Goto, CacheInv, TypeOK, VerdictTiming, Storable, Undecided
  <2>3. EntriesOwned' /\ AnsweredByRequest' /\ AnswersBelong'
    BY <1>6 DEF ProviderSettles, CacheInv, EntriesOwned, AnsweredByRequest, AnswersBelong, KeyOf, ScopeOf
  <2>4. CacheHoldsPrimaryAnswers'
    BY <1>6, <2>1 DEF ProviderSettles, CacheInv, AnsweredByRequest, CacheHoldsPrimaryAnswers, OfRequestedAlias
  <2>. QED  BY <2>2, <2>3, <2>4
<1>7. ASSUME NEW r \in Request, StoreExact(r) PROVE Provenance'
  <2>1. VerdictTiming'
    BY <1>7 DEF StoreExact, Goto, CacheInv, TypeOK, VerdictTiming, Storable, Undecided
  <2>2. /\ Storable(r)
        /\ \A k \in Key : exact'[k] = exact[k] \/ (k = KeyOf(r) /\ exact'[k] = r)
    BY <1>7 DEF StoreExact, CacheInv, TypeOK, VerdictTiming, Storable
  <2>3. EntriesOwned'
    BY <1>7, <2>2 DEF StoreExact, CacheInv, EntriesOwned, KeyOf
  <2>4. AnsweredByRequest' /\ AnswersBelong'
    BY <1>7 DEF StoreExact, CacheInv, AnsweredByRequest, AnswersBelong, KeyOf, ScopeOf
  <2>5. CacheHoldsPrimaryAnswers'
    BY <1>7, <2>2 DEF StoreExact, CacheInv, CacheHoldsPrimaryAnswers, Storable, OfRequestedAlias
  <2>. QED  BY <2>1, <2>3, <2>4, <2>5
<1>8. ASSUME NEW r \in Request, StoreSemantic(r) PROVE Provenance'
  <2>1. VerdictTiming'
    BY <1>8 DEF StoreSemantic, Goto, CacheInv, TypeOK, VerdictTiming, Storable, Undecided
  <2>2. /\ Storable(r)
        /\ \A k \in Key : semantic'[k] = semantic[k] \/ (k = KeyOf(r) /\ semantic'[k] = r)
    BY <1>8 DEF StoreSemantic, CacheInv, TypeOK, VerdictTiming
  <2>3. EntriesOwned'
    BY <1>8, <2>2 DEF StoreSemantic, CacheInv, EntriesOwned, KeyOf
  <2>4. AnsweredByRequest' /\ AnswersBelong'
    BY <1>8 DEF StoreSemantic, CacheInv, AnsweredByRequest, AnswersBelong, KeyOf, ScopeOf
  <2>5. CacheHoldsPrimaryAnswers'
    BY <1>8, <2>2 DEF StoreSemantic, CacheInv, CacheHoldsPrimaryAnswers, Storable, OfRequestedAlias
  <2>. QED  BY <2>1, <2>3, <2>4, <2>5
<1>9. ASSUME NEW r \in Request, HandleProviderError(r) PROVE Provenance'
  <2>. VerdictTiming'
    BY <1>9 DEF HandleProviderError, Goto, CacheInv, TypeOK, VerdictTiming, Storable, Undecided
  <2>. QED  BY <1>0, <1>9 DEF HandleProviderError
<1>10. ASSUME NEW r \in Request, Settle(r) PROVE Provenance'
  <2>1. VerdictTiming'
    BY <1>10 DEF Settle, CacheInv, TypeOK, VerdictTiming, Storable, Undecided
  <2>2. EntriesOwned'
    BY <1>10 DEF Settle, CacheInv, EntriesOwned, KeyOf
  <2>3. \A s \in Request :
           \/ response'[s] = response[s]
           \/ /\ response'[s] = [source |-> "live", origin |-> r, stamp |-> r]
              /\ KeyOf(s) = KeyOf(r)
    BY <1>10 DEF Settle, Sharers, Flight, CacheInv, TypeOK
  <2>4. AnsweredByRequest'
    BY <2>3 DEF CacheInv, AnsweredByRequest
  <2>5. AnswersBelong'
    BY <1>10, <2>3 DEF Settle, CacheInv, AnswersBelong, ScopeOf, KeyOf
  <2>6. CacheHoldsPrimaryAnswers'
    BY <1>10, <2>3 DEF Settle, CacheInv, CacheHoldsPrimaryAnswers
  <2>. QED  BY <2>1, <2>2, <2>4, <2>5, <2>6
<1>11. ASSUME NEW k \in Key, ExpireExact(k) \/ ExpireSemantic(k) PROVE Provenance'
  <2>1. /\ \A j \in Key : /\ exact'[j] \in {exact[j], NoRequest}
                          /\ semantic'[j] \in {semantic[j], NoRequest}
        /\ UNCHANGED <<attr, pc, verdict, response>>
    BY <1>11 DEF ExpireExact, ExpireSemantic, CacheInv, TypeOK
  <2>2. VerdictTiming' /\ AnsweredByRequest' /\ AnswersBelong'
    BY <2>1 DEF CacheInv, VerdictTiming, Storable, AnsweredByRequest, AnswersBelong, KeyOf, ScopeOf
  <2>3. EntriesOwned'
    BY <2>1, RequestAssumption DEF CacheInv, EntriesOwned, KeyOf
  <2>4. CacheHoldsPrimaryAnswers'
    BY <2>1, RequestAssumption DEF CacheInv, CacheHoldsPrimaryAnswers
  <2>. QED  BY <2>2, <2>3, <2>4
<1>12. ASSUME NEW p \in Partition, ExpireCooldown(p) PROVE Provenance'
  <2>. VerdictTiming'
    BY <1>12 DEF ExpireCooldown, CacheInv, VerdictTiming, Storable
  <2>. QED  BY <1>0, <1>12 DEF ExpireCooldown
<1>13. ASSUME NEW p \in Replica, Crash(p) PROVE Provenance'
  <2>. VerdictTiming'
    BY <1>13 DEF Crash, CacheInv, TypeOK, VerdictTiming, Storable, Undecided
  <2>. QED  BY <1>0, <1>13 DEF Crash
<1>14. CASE UNCHANGED vars
  <2>. VerdictTiming'
    BY <1>14 DEF vars, CacheInv, VerdictTiming, Storable
  <2>. QED  BY <1>0, <1>14 DEF vars
<1>. QED
  BY <1>1, <1>2, <1>3, <1>4, <1>5, <1>6, <1>7, <1>8, <1>9, <1>10, <1>11, <1>12, <1>13, <1>14
  DEF Next, Serve

\* The provenance invariant holds in every reachable state.
LEMMA Provenance == Spec => []CacheInv
<1>1. Init => CacheInv
  <2> SUFFICES ASSUME Init PROVE CacheInv
    OBVIOUS
  <2>1. TypeOK
    BY InitTypeOK
  <2>2. /\ VerdictTiming /\ EntriesOwned /\ AnsweredByRequest
        /\ AnswersBelong /\ CacheHoldsPrimaryAnswers
    BY RequestAssumption
       DEF Init, NoResponse, VerdictTiming, EntriesOwned, AnsweredByRequest, AnswersBelong,
           CacheHoldsPrimaryAnswers
  <2>. QED  BY <2>1, <2>2 DEF CacheInv
<1>2. CacheInv /\ [Next]_vars => CacheInv'
  BY NextTypeOK, NextCache DEF CacheInv
<1>. QED  BY <1>1, <1>2, PTL DEF Spec

\* No client is ever answered with what was produced for another client, alias,
\* system prompt or parameters, by either cache layer or by coalescing.
THEOREM AnswersIsolated == Spec => []AnswersBelong
BY Provenance, PTL DEF CacheInv

\* Neither cache ever holds, and no request is ever served from, an answer of the fallback
\* alias, of a failed call or of a request with tooling, with any number of replicas.
THEOREM CacheClean == Spec => []CacheHoldsPrimaryAnswers
BY Provenance, PTL DEF CacheInv

\* SET NX and HSETNX: a stored answer is never overwritten by another one, with any
\* number of replicas writing, purging and expiring.
THEOREM NoOverwrite == Spec => FirstWriterWins
<1>1. TypeOK /\ [Next]_vars =>
        [\A k \in Key : /\ exact[k] \in Request => exact'[k] \in {exact[k], NoRequest}
                        /\ semantic[k] \in Request => semantic'[k] \in {semantic[k], NoRequest}]_vars
  <2> SUFFICES ASSUME TypeOK, Next, NEW k \in Key
               PROVE  /\ exact[k] \in Request => exact'[k] \in {exact[k], NoRequest}
                      /\ semantic[k] \in Request => semantic'[k] \in {semantic[k], NoRequest}
    OBVIOUS
  <2>1. ASSUME NEW r \in Request, Serve(r)
        PROVE  /\ exact[k] \in Request => exact'[k] \in {exact[k], NoRequest}
               /\ semantic[k] \in Request => semantic'[k] \in {semantic[k], NoRequest}
    BY <2>1, RequestAssumption
       DEF Serve, TypeOK, Prepare, LookupExact, PurgeExact, LookupSemantic, JoinOrCall,
           ProviderSettles, StoreExact, StoreSemantic, HandleProviderError, Settle
  <2>2. ASSUME NEW j \in Key, ExpireExact(j) \/ ExpireSemantic(j)
        PROVE  /\ exact[k] \in Request => exact'[k] \in {exact[k], NoRequest}
               /\ semantic[k] \in Request => semantic'[k] \in {semantic[k], NoRequest}
    BY <2>2 DEF TypeOK, ExpireExact, ExpireSemantic
  <2>3. CASE UNCHANGED <<exact, semantic>>
    BY <2>3
  <2>. QED  BY <2>1, <2>2, <2>3 DEF Next, ExpireCooldown, Crash
<1>. QED  BY <1>1, TypeCorrect, PTL DEF Spec, FirstWriterWins
=============================================================================
