---------------------------- MODULE MCPipelines ----------------------------
(* RunValidation and RunWatch for TLC.  A process runs one spec at a time, *)
(* and no spec both validates a run and watches the namespace: a behaviour *)
(* is of one half of pkg/pipelines.                                        *)
EXTENDS RunValidation, RunWatch

VARIABLE half

halfVars == <<vars, watchVars, half>>

PipelinesInit ==
  /\ Init /\ WatchInit
  /\ \/ half = "validation" /\ last = 0
     \/ half = "watch" /\ expected = "success"

PipelinesNext ==
  \/ half = "validation" /\ Next /\ UNCHANGED <<watchVars, half>>
  \/ half = "watch" /\ WatchNext /\ UNCHANGED <<vars, half>>

PipelinesSpec ==
  /\ PipelinesInit /\ [][PipelinesNext]_halfVars
  /\ WF_halfVars(half = "validation" /\ Validation /\ UNCHANGED <<watchVars, half>>)

\* ValidationEnds, where something is validated.
ValidationsEnd == half = "validation" => ValidationEnds
=============================================================================
