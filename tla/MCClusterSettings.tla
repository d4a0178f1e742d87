------------------------- MODULE MCClusterSettings --------------------------
(***************************************************************************)
(* The two containers, for a component that is always there and the        *)
(* pruner, which is not.                                                   *)
(***************************************************************************)
EXTENDS ClusterSettings

MCParts == {<<"pipeline", "service">>, <<"pipeline", "pods">>, <<"pruner", "monitor">>,
            <<"results-api", "monitor">>, <<"webhook", "env">>, <<"console", "nginx">>}
Any == <<"pipeline", "service">>

Op(op, f, v, p, spec) == [op |-> op, f |-> f, v |-> v, p |-> p, spec |-> spec]
GetOp(f, s)      == Op("get", f, "unset", Any, s)
SetOp(f, v, s)   == Op("set", f, v, Any, s)
RestoreOp(f)     == Op("restore", f, "unset", Any, 0)
WaitOp(s)        == Op("wait", "mtls", "unset", Any, s)
NoStuckOp(s)     == Op("nostuck", "mtls", "unset", Any, s)
CheckOp(p, v, s) == Op("check", "mtls", v, p, s)

\* The specs of mtls_test.go; a Describe with a BeforeAll is one spec here, as
\* its first failure ends the container.
MTLSContainer ==
  [ops |-> << GetOp("pruner", 0), SetOp("pruner", "true", 0), WaitOp(0), GetOp("mtls", 0),
              SetOp("mtls", "true", 1), WaitOp(1), CheckOp(<<"pipeline", "service">>, "true", 1),
              CheckOp(<<"pipeline", "pods">>, "true", 1), CheckOp(<<"pruner", "monitor">>, "true", 1),
              Op("handshake", "mtls", "unset", <<"pipeline", "service">>, 1),
              SetOp("mtls", "false", 2), WaitOp(2), CheckOp(<<"pipeline", "service">>, "false", 2),
              CheckOp(<<"pipeline", "pods">>, "false", 2), CheckOp(<<"pruner", "monitor">>, "false", 2),
              Op("plain", "mtls", "unset", <<"pipeline", "service">>, 2),
              SetOp("mtls", "true", 3), WaitOp(3), CheckOp(<<"results-api", "monitor">>, "false", 3),
              SetOp("mtls", "false", 4), WaitOp(4), CheckOp(<<"results-api", "monitor">>, "false", 4),
              SetOp("mtls", "true", 5), WaitOp(5), NoStuckOp(5),
              SetOp("mtls", "false", 5), WaitOp(5), NoStuckOp(5),
              SetOp("mtls", "true", 5), WaitOp(5), NoStuckOp(5),
              CheckOp(<<"pipeline", "service">>, "true", 5) >>,
   after |-> << RestoreOp("mtls"), RestoreOp("pruner"), WaitOp(0) >>,
   goOn |-> FALSE, afterAll |-> TRUE]

\* The specs of tls_profile_test.go.
TLSContainer ==
  [ops |-> << Op("hosted", "tls", "unset", Any, 0), WaitOp(0), GetOp("tls", 0),
              SetOp("tls", "Intermediate", 1), WaitOp(1),
              CheckOp(<<"webhook", "env">>, "Intermediate", 1),
              CheckOp(<<"console", "nginx">>, "Intermediate", 2) >>,
   after |-> << RestoreOp("tls"), WaitOp(0) >>,
   goOn |-> TRUE, afterAll |-> FALSE]

Found(m, p, t) == [mtls |-> m, pruner |-> p, cron |-> IF p = "true" THEN "false" ELSE "true", tls |-> t]
\* Each container with every value of the settings it changes.
MCStarts == {Found(m, p, "unset") : m, p \in Flags} \cup {Found("unset", "unset", t) : t \in Profiles}
MCContainers == {MTLSContainer, TLSContainer}
=============================================================================
