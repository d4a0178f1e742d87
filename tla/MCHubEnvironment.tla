-------------------------- MODULE MCHubEnvironment --------------------------
(* Instances of HubEnvironment: spec.networkPolicy absent, empty, disabled *)
(* with a policy of the administrator's, or with the test's name taken.    *)
EXTENDS HubEnvironment

Start(n, flag, kueue, defaulting) ==
  [np |-> n, mag |-> flag, kueue |-> kueue, defaulting |-> defaulting]
NP(flag, entries) == [present |-> TRUE, disabled |-> flag, policies |-> entries]

MCStarts ==
  {Start(NoNP, "unset", FALSE, FALSE),
   Start(NP("unset", {}), "unset", TRUE, TRUE),
   Start(NP("unset", {"own"}), "none", FALSE, FALSE),
   Start(NP("true", {"own"}), "true", FALSE, TRUE),
   Start(NP("unset", {"own", "custom"}), "true", FALSE, FALSE)}
=============================================================================
