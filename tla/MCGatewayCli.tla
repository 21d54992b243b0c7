---------------------------- MODULE MCGatewayCli ----------------------------
\* Two aliases, and one of two sets of ids an operator types: two providers with
\* names of their own, or two providers with one slug ("a-b", "a_b") and two
\* clients, the key of one of which is also the API key of that slug.
EXTENDS GatewayCli, TLC

CONSTANTS p1, p2, p3, p4, k1, k2

VARIABLE ids    \* the ids this operator types

MCProviders == {p1, p2, p3, p4}
MCClients == {k1, k2}
MCIds == {{p1, p2}, {p3, p4, k1, k2}}

Slug(p) == IF p \in {p1, p2} THEN p ELSE "a_b"
MCApiKeyRef == [p \in Providers |-> <<"API_KEY", Slug(p)>>]
MCBaseUrlRef == [p \in Providers |-> <<"BASE_URL", Slug(p)>>]
MCGatewayKeyRef ==
    [k \in Clients |-> IF k = k1 THEN <<"GATEWAY_KEY", k>>
                                 ELSE <<"API_KEY", "a_b">>]
MCRefs ==
    {"API_KEY", "BASE_URL"} \X {Slug(p) : p \in Providers}
        \cup {<<"GATEWAY_KEY", k1>>}

\* The variables of the ids typed.
RefsOf ==
    [S \in MCIds |-> UNION {{ApiKeyRef[p], BaseUrlRef[p]} : p \in Providers \cap S}
                        \cup {GatewayKeyRef[k] : k \in Clients \cap S}]

\* Its configurations.
ConfigsOf(S) ==
    [providers : UNION {[T -> ProviderRow] : T \in SUBSET (Providers \cap S)},
     models    : UNION {[T -> [provider : Providers \cap S,
                               fallback : Aliases \cup {"none"}]] :
                           T \in SUBSET Aliases},
     clients   : SUBSET (Clients \cap S)]

MCInit == ids \in MCIds /\ yaml \in ConfigsOf(ids) /\ Init

\* A command is about rows and variables of the ids typed.
Typed ==
    /\ DOMAIN job.puts \subseteq RefsOf[ids]
    /\ DOMAIN job.mem.providers \cup job.mem.clients \subseteq ids

MCNext ==
    \/ Command /\ UNCHANGED ids /\ Typed'
    \/ (FileStep \/ Crash \/ Operator) /\ UNCHANGED ids

MCSpec == MCInit /\ [][MCNext]_<<vars, ids>>

MCSymmetry ==
    Permutations({p1, p2}) \cup Permutations(Aliases)
=============================================================================
