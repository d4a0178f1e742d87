------------------------------- MODULE MCOlm -------------------------------
(* OperatorBootstrap and OperatorUpgrade for TLC.  The suites that bootstrap *)
(* their prerequisites run on other clusters than an upgrade campaign: a     *)
(* behaviour is of one half of pkg/olm.                                      *)
EXTENDS OperatorBootstrap, OperatorUpgrade, TLC

VARIABLE half

halfVars == <<bootstrapVars, vars, half>>

-----------------------------------------------------------------------------
(* Bootstraps: two prerequisites that share the namespace n1.  An            *)
(* administrator may have subscribed the first under another name, elsewhere *)
(* or under the second's name, on another channel, and may have made an      *)
(* OperatorGroup.                                                            *)

CONSTANTS c1, c2, p1, p2, n1, n2, wanted, other

MCCallers  == {c1, c2}
MCPackages == {p1, p2}
MCPlan     == <<p1, p2>>
MCPkgNS    == [p \in MCPackages |-> n1]
MCAdminSubs ==
  {[name |-> "custom", ns |-> n2, pkg |-> p1, channel |-> other],
   [name |-> p1, ns |-> n1, pkg |-> p1, channel |-> other],
   [name |-> p2, ns |-> n1, pkg |-> p1, channel |-> other]}
MCAdminGroups ==
  {[name |-> "custom", ns |-> n1], [name |-> n1, ns |-> n1], [name |-> n2, ns |-> n2]}

-----------------------------------------------------------------------------
(* Campaigns: the channels 1.1, 1.2 and 1.20, whose name also contains       *)
(* "1.2", in catalogs that differ in what a release may do to a skip range.  *)

Range(t, l, u) == [text |-> t, lower |-> l, upper |-> u]
Entry(r) == [head |-> r.upper, range |-> r]

R11a == Range("pattern", <<1, 0, 0>>, <<1, 1, 1>>)
R11b == Range("pattern", <<1, 0, 0>>, <<1, 1, 2>>)
R11none == Range("none", <<1, 0, 0>>, <<1, 1, 1>>)
R120 == Range("pattern", <<1, 1, 0>>, <<1, 20, 1>>)
R12a == Range("pattern", <<1, 1, 0>>, <<1, 2, 0>>)
R12b == Range("pattern", <<1, 1, 0>>, <<1, 2, 1>>)
R12jump == Range("pattern", <<1, 1, 0>>, <<1, 2, 3>>)
R12lower == Range("pattern", <<1, 0, 0>>, <<1, 2, 1>>)
R12line == Range("pattern", <<1, 1, 0>>, <<1, 1, 2>>)
R12odd == Range("odd", <<1, 1, 0>>, <<1, 2, 1>>)
R12none == Range("none", <<1, 1, 0>>, <<1, 2, 1>>)

\* Channel "latest" follows 1.2.
Offer(r11, r12) ==
    (Latest :> Entry(r12)) @@ (<<1, 1>> :> Entry(r11)) @@ (<<1, 2>> :> Entry(r12))

SmallCatalogs ==
    {Offer(R11a, r) : r \in {R12a, R12b, R12lower, R12line, R12odd, R12none}}
        \union {Offer(R11b, R12b), Offer(R11none, R12none)}
        \union {Offer(R11a, R12b) @@ (<<1, 20>> :> Entry(R120))}

\* The specs of tests/olm and those that read the catalog share nothing but the
\* catalog, which neither changes: each group is a campaign.
OLMEnvironment(cats) ==
    [campaign |-> <<"install", "upgrade", "uninstall", "install">>,
     catalogs |-> cats, osp |-> NoVersion]
SkipRangeEnvironment(cats, v) ==
    [campaign |-> <<"save", "diff", "versions">>, catalogs |-> cats, osp |-> v]

SmallEnvironments ==
    {OLMEnvironment({Offer(R11a, R12a), Offer(R11b, R12a)})} \union
    {SkipRangeEnvironment(SmallCatalogs, v) : v \in {NoVersion, <<1, 2, 1>>}}
OneRelease == {OLMEnvironment({Offer(R11a, R12a)})}
\* OSP_VERSION is three patches ahead of what the catalog had.
PatchesSkipped ==
    {SkipRangeEnvironment({Offer(R11a, R12a), Offer(R11a, R12jump)}, <<1, 2, 3>>)}
Install == <<1, 1>>
Upgrade == <<1, 2>>

-----------------------------------------------------------------------------
OlmInit ==
  /\ BootstrapInit /\ Init
  /\ \/ /\ half = "bootstrap"
        /\ env = CHOOSE e \in Environments : TRUE
        /\ catalog = CHOOSE cat \in env.catalogs : TRUE
     \/ half = "campaign" /\ subs = {} /\ groups = {} /\ namespaces = {}

OlmNext ==
  \/ half = "bootstrap" /\ BootstrapNext /\ UNCHANGED <<vars, half>>
  \/ half = "campaign" /\ Next /\ UNCHANGED <<bootstrapVars, half>>

OlmSpec ==
  /\ OlmInit /\ [][OlmNext]_halfVars
  /\ \A c \in Callers :
       WF_halfVars(half = "bootstrap" /\ Caller(c) /\ UNCHANGED <<vars, half>>)

\* CallersEnd, where prerequisites are installed.
BootstrapsEnd ==
  \A c \in Callers : <>(half = "campaign" \/ place[c] \in {"used", "error"})
=============================================================================
