------------------------- MODULE MCKueueEnvironment -------------------------
(* The instance of KueueEnvironment: one mutation of every kind, in       *)
(* Setup's order.                                                          *)
EXTENDS KueueEnvironment

CONSTANTS integrations, multiKueue
MCFwPaths  == {integrations, multiKueue}
MCPlan == <<"kueue", "namespace", "clusterRole", "policy", "scheduler", "run">>
=============================================================================
