---------------------------- MODULE MCChatStream ----------------------------
\* One stream over two aliases, two attempts each, texts of at most two chunks.
EXTENDS ChatStream

CONSTANTS a, b

MCAlias == {a, b}
MCErrors == {[kind |-> "coded", status |-> 429], [kind |-> "coded", status |-> 504]}
\* Timeouts are retried; a 429 sends the request to the fallback alias at once.
MCOnStatusChoices == {{504}}
\* The aliases differ in nothing but their role: the primary one is a.
MCInit == StreamInit /\ options.primaryAlias = a
MCSpec == MCInit /\ [][StreamNext]_vars /\ StreamFairness
=============================================================================
