------------------------- MODULE MCResilientExecutor -------------------------
\* Two aliases, at most three attempts each, every kind of error.
EXTENDS ResilientExecutor

CONSTANTS a, b

MCAlias == {a, b}
MCErrors == {[kind |-> "coded", status |-> 429],
             [kind |-> "coded", status |-> 400],
             [kind |-> "coded", status |-> 504],
             [kind |-> "bare", status |-> 429],
             [kind |-> "other", status |-> 0]}
\* The default policy, one that does not retry timeouts, and one without retries.
MCOnStatusChoices == {{429, 500, 502, 503, 504}, {429}, {}}
=============================================================================
