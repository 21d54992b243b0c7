---------------------------- MODULE MCConfigInit ----------------------------
\* Two sessions over two adapter types, two ids and two aliases. One answers file
\* validates, one has a provider without a model, and in one a later row takes
\* the id of an earlier one. The operator has a prompt of their own for m1, and
\* the semantic cache on in the shell, or a .env with a key and a number that
\* validateEnvironment refuses.
EXTENDS ConfigInit

CONSTANTS x, y, m1, m2, k1

MCTypes == <<"native", "openai">>
MCOpenAi == {"openai"}
MCIds == {x, y}
MCApiKeyRef == (x :> "X_API_KEY") @@ (y :> "Y_API_KEY")
MCBaseUrlRef == (x :> "X_BASE_URL") @@ (y :> "Y_BASE_URL")
MCAliases == {m1, m2}
MCClients == {k1}
MCOwnPrompts == {{m1}}
MCOptionalKeys == {FALSE}
MCServerChoices == {{}}

Holding(names, good) == [names |-> names, good |-> good]
Keys == {"MASTER_KEY", "X_API_KEY"}
SemanticShell ==
    [shell |-> Holding({"semantic"}, {"semantic"}), own |-> Holding(Keys, Keys)]
BadNumber == [shell |-> NoEnv, own |-> Holding(Keys \cup {"CACHE_TTL"}, Keys)]
MCOperators == {SemanticShell, BadNumber}

Row(type, id) == [type |-> type, id |-> id, enabled |-> TRUE, typed |-> {}]
FileWith(providers) ==
    [masterKey |-> TRUE, providers |-> providers,
     models |-> <<[alias |-> m1, provider |-> x]>>, clients |-> {k1},
     server |-> {"port"}]
MCAgentAnswers ==
    {FileWith(<<Row("openai", x), Row("native", x)>>),
     FileWith(<<Row("native", x), Row("openai", y)>>)}

\* Nothing but the boilerplate, and a configuration in use.
MCInit ==
    /\ Init
    /\ <<disk.yaml, disk.env, operator>> \in
           {<<Boilerplate, Absent, SemanticShell>>, <<Mine, Mine, BadNumber>>}
MCSpec == MCInit /\ [][Next]_vars
=============================================================================
