----------------------------- MODULE MCBackends -----------------------------
(***************************************************************************)
(* Two client objects show a stray one.  The circuit opens after two       *)
(* failures, and embed() may take longer than the cooldown, so that a late *)
(* result of one request meets the trial of another.                       *)
(***************************************************************************)
EXTENDS Backends, TLC

Symmetry == Permutations(Clients) \cup Permutations(Requests)
==============================================================================
