--------------------------- MODULE ProviderVerdict ---------------------------
(***************************************************************************)
(* What ChatService needs from ResilientExecutor, and all it needs: a      *)
(* request with its two aliases gets exactly one verdict, a success on the *)
(* requested alias, a success on the configured fallback alias, or an      *)
(* error; a request that names itself as its fallback gets an error.       *)
(***************************************************************************)
CONSTANTS Alias, NoAlias

VARIABLES
    primary,    \* the requested alias
    fallback,   \* the configured fallback alias, or NoAlias
    verdict     \* "pending", "primary", "fallback" or "error"

vars == <<primary, fallback, verdict>>

Init ==
    /\ primary \in Alias
    /\ fallback \in Alias \cup {NoAlias}
    /\ verdict = "pending"

Served(by) ==
    /\ verdict = "pending"
    /\ fallback # primary
    /\ by = "fallback" => fallback # NoAlias
    /\ verdict' = by
    /\ UNCHANGED <<primary, fallback>>

Failed ==
    /\ verdict = "pending"
    /\ verdict' = "error"
    /\ UNCHANGED <<primary, fallback>>

Next == Served("primary") \/ Served("fallback") \/ Failed

Spec == Init /\ [][Next]_vars
=============================================================================
