--------------------------- MODULE MCFacadeRequest ---------------------------
(* An alias of each provider type with a fallback of another one, and one  *)
(* without fallback that can only think and lets nobody ask for it         *)
EXTENDS FacadeRequest

AllCaps == {"streaming", "tools", "thinking", "overrides"}

MCModels ==
  { [type |-> "anthropic", fallback |-> "google", caps |-> AllCaps],
    [type |-> "google", fallback |-> "openai-compatible", caps |-> AllCaps],
    [type |-> "openai", fallback |-> "anthropic", caps |-> AllCaps],
    [type |-> "openai-compatible", fallback |-> "openai", caps |-> AllCaps \ {"thinking"}],
    [type |-> "openai-compatible", fallback |-> "none", caps |-> {"thinking"}] }

MCCallNames == <<"c1", "c2", "c3">>

MCItemIds == <<"item1", "item2", "item3">>
=============================================================================
