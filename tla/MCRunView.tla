----------------------------- MODULE MCRunView -----------------------------
(* A workspace of two requests, the second skipped in runs. *)
EXTENDS RunView

CONSTANTS a, b

MCPlan == <<a, b>>
=============================================================================
