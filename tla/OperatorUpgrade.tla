--------------------------- MODULE OperatorUpgrade ---------------------------
(***************************************************************************)
(* An upgrade campaign of the openshift-pipelines operator                 *)
(* (pkg/olm/subscription.go, pkg/oc/olm_skiprange.go): the install,        *)
(* upgrade and uninstall specs of tests/olm change one Subscription and    *)
(* wait for OLM; the specs of tests/operator save the catalog's skip       *)
(* ranges to a file before and after the upgrade and compare them; the     *)
(* specs of tests/versions check the ranges the catalog has.  The suites   *)
(* are processes of their own, so that only the cluster and the file carry *)
(* anything from one to the next.                                          *)
(*                                                                         *)
(* A version is a triple of numbers, a channel the pair of numbers in its  *)
(* name, and a skip range its two bounds.  The code compares them as text: *)
(* what strings.Contains says of two of them is spelt out by Begins, Ends  *)
(* and the operators built on them.                                        *)
(***************************************************************************)
EXTENDS Integers, Sequences

CONSTANTS Environments,    \* what a campaign may be run with: its specs in the
                           \* order the pipeline runs them, the catalogs that
                           \* may be published (channel |-> [head, range]) and
                           \* OSP_VERSION
          Channel,         \* the channel the operator is installed from
          UpgradeChannel,  \* the channel it is upgraded to
          MaxSpecs,        \* bound: specs run
          MaxReleases,     \* bound: changes of the catalog
          MaxFaults        \* bound: calls that fail

VARIABLES catalog,   \* what the catalog offers now
          env,       \* the environment of this campaign
          sub,       \* the Subscription: [there, channel, installed]
          csv,       \* phase of every ClusterServiceVersion
          plans,     \* heads with an InstallPlan: of the Subscription, or orphaned
          file,      \* testdata/olm/skiprange.json: [whole, pre, post]
          at,        \* position in the campaign of the spec that runs, or ran last
          stage,     \* its next call
          outcome,   \* how it ended
          name,      \* csvName
          ranges,    \* skipRangeMap
          existing,  \* what the decoder has read from the file
          saved,     \* history: the ranges at the last save that succeeded
          offered,   \* history: heads of the wanted channel since it was asked for
          fresh,     \* history: there was no Subscription when it was asked for
          calm,      \* history: OLM has had nothing to do since the uninstall began
          specs, releases, faults

cluster == <<sub, csv, plans>>
history == <<saved, offered, fresh, calm>>
counters == <<specs, releases, faults>>
locals == <<name, ranges, existing>>
vars == <<catalog, env, cluster, file, at, stage, outcome, locals,
          history, counters>>

Catalogs == UNION {e.catalogs : e \in Environments}
osp == env.osp
spec == env.campaign[at]

NoVersion == <<>>
Latest == <<>>
NoCSV == <<>>
Other == <<0>>   \* the CSV of another operator in openshift-operators
NoSub == [there |-> FALSE, channel |-> Latest, installed |-> NoCSV]

\* A file, whole or not, and its two maps.
NoRanges == [c \in {} |-> Latest]
Empty == [pre |-> NoRanges, post |-> NoRanges]
Contents(e) == [whole |-> TRUE, pre |-> e.pre, post |-> e.post]
Truncated == [whole |-> FALSE, pre |-> NoRanges, post |-> NoRanges]

Kinds == {"install", "save", "upgrade", "diff", "versions", "uninstall"}
Heads == UNION {{cat[c].head : c \in DOMAIN cat} : cat \in Catalogs}
CSVs == Heads \union {Other}
Phases == {"absent", "Pending", "Succeeded", "Failed"}
Stages == {"idle", "apply", "update", "subscription", "csv", "fetch", "decode",
           "truncate", "encode", "compare", "found", "bounds", "get",
           "delete csvs", "delete subscription", "over"}

ASSUME ChannelsAssumption ==
    \A cat \in Catalogs : {Channel, UpgradeChannel, Latest} \subseteq DOMAIN cat
ASSUME CampaignAssumption ==
    \A e \in Environments : e.campaign \in Seq(Kinds) /\ e.campaign # <<>>
ASSUME BoundsAssumption == MaxSpecs \in Nat /\ MaxReleases \in Nat /\ MaxFaults \in Nat
\* The numbers in versions have at most two digits.
ASSUME DigitsAssumption ==
    \A cat \in Catalogs : \A c \in DOMAIN cat :
        \A n \in {1, 2, 3} : {cat[c].range.lower[n], cat[c].range.upper[n]} \subseteq 0..99

-----------------------------------------------------------------------------
(* Numbers as text. *)

\* The digits of m begin with those of n, and end with them.
Begins(n, m) == m = n \/ (n > 0 /\ m \div 10 = n)
Ends(n, m)   == m = n \/ (m > 9 /\ n < 10 /\ m % 10 = n)

\* strings.Contains(channel, "major.minor") for the name of channel c.
ChannelContains(c, v) == /\ c # Latest
                         /\ Ends(v[1], c[1])
                         /\ Begins(v[2], c[2])

\* strings.Contains(skipRange, version): the version may start and stop in
\* the middle of a number.
skipRangeContainsVersion(r, v) ==
    \E w \in {r.lower, r.upper} :
        Ends(v[1], w[1]) /\ v[2] = w[2] /\ Begins(v[3], w[3])

extractMajorMinor(v) == <<v[1], v[2]>>

\* The range has the form ">=x.y.z <x.y.z" the code's pattern looks for.
Fits(r) == r.text = "pattern"

-----------------------------------------------------------------------------
(* Skip ranges. *)

\* The ranges of the channels that have one.
Fetched(cat) ==
    [c \in {d \in DOMAIN cat : cat[d].range.text # "none"} |-> cat[c].range]

channelMatchesOSP(c) == osp # NoVersion /\ ChannelContains(c, osp)

isValidOspVersionPatchUpdate(pre, post) ==
    /\ skipRangeContainsVersion(post, osp)
    /\ Fits(pre) /\ Fits(post)
    /\ pre.lower = post.lower
    /\ post.upper[3] > pre.upper[3]

\* A channel that was there before the upgrade is as it should be after it.
Expected(pre, post, c) ==
    /\ c \in DOMAIN post
    /\ IF pre[c] = post[c]
       THEN ~channelMatchesOSP(c)
       ELSE /\ Fits(pre[c]) /\ Fits(post[c])
            /\ channelMatchesOSP(c)
            /\ isValidOspVersionPatchUpdate(pre[c], post[c])

\* A channel that came with the upgrade is.
ExpectedNew(post, c) ==
    channelMatchesOSP(c) =>
        /\ Fits(post[c])
        /\ extractMajorMinor(post[c].upper) = extractMajorMinor(osp)
        /\ skipRangeContainsVersion(post[c], osp)

DiffPasses(pre, post) ==
    /\ \A c \in DOMAIN pre \ {Latest} : Expected(pre, post, c)
    /\ \A c \in DOMAIN post \ ({Latest} \union DOMAIN pre) : ExpectedNew(post, c)

Nightly == <<5, 0, 5>>

\* ValidateOlmSkipRange finds OSP_VERSION in a channel of its own line.
Found(map) ==
    \E c \in DOMAIN map \ {Latest} :
        /\ osp = Nightly \/ ChannelContains(c, osp)
        /\ skipRangeContainsVersion(map[c], osp)

BoundsValid(map) ==
    \A c \in DOMAIN map \ {Latest} :
        /\ Fits(map[c])
        /\ map[c].lower[1] = c[1]
        /\ extractMajorMinor(map[c].upper) = c

-----------------------------------------------------------------------------
Init ==
    /\ env \in Environments
    /\ catalog \in env.catalogs
    /\ sub = NoSub /\ plans = [owned |-> {}, orphaned |-> {}]
    /\ csv = [v \in CSVs |-> IF v = Other THEN "Succeeded" ELSE "absent"]
    /\ file = Contents(Empty)
    /\ at = 1 /\ stage = "idle" /\ outcome = "none"
    /\ name = NoCSV /\ ranges = NoRanges
    /\ existing = Empty
    /\ saved = Empty
    /\ offered = {} /\ fresh = FALSE /\ calm = FALSE
    /\ specs = 0 /\ releases = 0 /\ faults = 0

FirstCall(k) ==
    CASE k = "install"          -> "apply"
      [] k = "upgrade"          -> "update"
      [] k \in {"save", "diff"} -> "fetch"
      [] k = "versions"         -> "found"
      [] k = "uninstall"        -> "get"

\* The suites run in the order of the campaign, any spec filtered out or retried.
StartSpec(i) ==
    /\ stage = "idle" /\ specs < MaxSpecs
    /\ i >= at
    /\ at' = i /\ stage' = FirstCall(env.campaign[i]) /\ outcome' = "none"
    /\ name' = NoCSV /\ ranges' = NoRanges /\ existing' = Empty
    /\ specs' = specs + 1
    /\ UNCHANGED <<catalog, env, cluster, file, history, releases, faults>>

EndCampaign ==
    /\ stage = "idle"
    /\ stage' = "over"
    /\ UNCHANGED <<catalog, env, cluster, file, at, outcome, locals,
                   history, counters>>

End(o) == stage' = "idle" /\ outcome' = o

\* A call fails or a command times out.  The two checks of tests/versions are
\* specs of one container that goes on after a failure.
FailSpec ==
    /\ stage \notin {"idle", "over"} /\ faults < MaxFaults
    /\ stage' = IF stage = "found" THEN "bounds" ELSE "idle"
    /\ outcome' = "fail"
    /\ faults' = faults + 1
    /\ UNCHANGED <<catalog, env, cluster, file, at, locals, history,
                   specs, releases>>

-----------------------------------------------------------------------------
(* Subscribe and upgrade. *)

head(c) == catalog[c].head

\* Mutant: the template leaves the channel out, and OLM takes the default one.
AppliedLatest(c) == [sub EXCEPT !.there = TRUE, !.channel = Latest]

\* oc apply -f of the template: makes the Subscription, or changes its spec.
Applied(c) == [sub EXCEPT !.there = TRUE, !.channel = c]

createSubscription ==
    /\ stage = "apply"
    /\ sub' = Applied(Channel)
    /\ fresh' = ~sub.there /\ offered' = {head(Channel)}
    /\ \/ stage' = "subscription" /\ UNCHANGED <<outcome, faults>>
       \/ faults < MaxFaults /\ End("fail") /\ faults' = faults + 1
    /\ UNCHANGED <<catalog, env, csv, plans, file, at, locals, saved, calm,
                   specs, releases>>

\* Get and Update, which the resourceVersion makes one step.
UpdateSubscription ==
    /\ stage = "update"
    /\ IF sub.there
       THEN /\ sub' = [sub EXCEPT !.channel = UpgradeChannel]
            /\ fresh' = FALSE /\ offered' = {head(UpgradeChannel)}
            /\ \/ stage' = "subscription" /\ UNCHANGED <<outcome, faults>>
               \/ faults < MaxFaults /\ End("fail") /\ faults' = faults + 1
       ELSE End("fail") /\ UNCHANGED <<sub, fresh, offered, faults>>
    /\ UNCHANGED <<catalog, env, csv, plans, file, at, locals, saved, calm,
                   specs, releases>>

IsSubscriptionInstalledCSVPresent == sub.there /\ sub.installed # NoCSV

\* An error of Get ends the poll, as its timeout does.
WaitForSubscriptionState ==
    /\ stage = "subscription"
    /\ \/ /\ IsSubscriptionInstalledCSVPresent
          /\ name' = sub.installed
          /\ stage' = "csv" /\ UNCHANGED outcome
       \/ /\ ~IsSubscriptionInstalledCSVPresent
          /\ End("fail") /\ UNCHANGED name
    /\ UNCHANGED <<catalog, env, cluster, file, at, ranges, existing, history, counters>>

IsCSVSucceeded == csv[name] = "Succeeded"

WaitForClusterServiceVersionState ==
    /\ stage = "csv"
    /\ End(IF IsCSVSucceeded THEN "pass" ELSE "fail")
    /\ UNCHANGED <<catalog, env, cluster, file, at, locals, history, counters>>

-----------------------------------------------------------------------------
(* Uninstall: OperatorCleanup. *)

\* OLM has installed what the Subscription asks for.
Settled == sub.there /\ sub.installed = head(sub.channel)

GetSubscription ==
    /\ stage = "get"
    /\ IF sub.there THEN stage' = "delete csvs" /\ UNCHANGED outcome ELSE End("fail")
    /\ calm' = Settled
    /\ UNCHANGED <<catalog, env, cluster, file, at, locals, saved,
                   offered, fresh, counters>>

\* Mutant: the CSV the Subscription names.
CollectedInstalled == {sub.installed}

\* DeleteCollection without a selector.
Collected == CSVs

DeleteCSVs ==
    /\ stage = "delete csvs"
    /\ csv' = [v \in CSVs |-> IF v \in Collected THEN "absent" ELSE csv[v]]
    /\ \/ stage' = "delete subscription" /\ UNCHANGED <<outcome, faults>>
       \/ faults < MaxFaults /\ End("fail") /\ faults' = faults + 1
    /\ UNCHANGED <<catalog, env, sub, plans, file, at, locals, history,
                   specs, releases>>

\* No call names an InstallPlan: those of the Subscription lose their owner.
DeleteSubscription ==
    /\ stage = "delete subscription"
    /\ sub' = NoSub
    /\ plans' = [owned |-> {}, orphaned |-> plans.orphaned \union plans.owned]
    /\ \/ End("pass") /\ UNCHANGED faults
       \/ faults < MaxFaults /\ End("fail") /\ faults' = faults + 1
    /\ UNCHANGED <<catalog, env, csv, file, at, locals, history,
                   specs, releases>>

-----------------------------------------------------------------------------
(* GetOlmSkipRange, and ValidateOlmSkipRangeDiff after the upgrade. *)

\* The content with the field of this spec set to what was fetched.
Put(e) == IF spec = "save" THEN [e EXCEPT !.pre = ranges] ELSE [e EXCEPT !.post = ranges]

FetchOlmSkipRange ==
    /\ stage = "fetch"
    /\ ranges' = Fetched(catalog)
    /\ IF DOMAIN Fetched(catalog) = {} THEN End("fail")
       ELSE stage' = "decode" /\ UNCHANGED outcome
    /\ UNCHANGED <<catalog, env, cluster, file, at, name, existing, history, counters>>

\* Mutant: an error of the decoder is ignored.
DecodesAnyway == TRUE

\* The decoder accepts the file.
Decodes == file.whole

DecodeFile ==
    /\ stage = "decode"
    /\ existing' = [pre |-> file.pre, post |-> file.post]
    /\ IF Decodes THEN stage' = "truncate" /\ UNCHANGED outcome ELSE End("fail")
    /\ UNCHANGED <<catalog, env, cluster, file, at, name, ranges, history, counters>>

TruncateFile ==
    /\ stage = "truncate"
    /\ file' = Truncated
    /\ stage' = "encode"
    /\ UNCHANGED <<catalog, env, cluster, at, outcome, locals, history, counters>>

\* Encode writes the decoded content back with the one field replaced.
EncodeFile ==
    /\ stage = "encode"
    /\ file' = Contents(Put(existing))
    /\ saved' = Put(saved)
    /\ IF spec = "diff" THEN stage' = "compare" /\ UNCHANGED outcome ELSE End("pass")
    /\ UNCHANGED <<catalog, env, cluster, at, locals, offered, fresh,
                   calm, counters>>

ValidateOlmSkipRangeDiff ==
    /\ stage = "compare"
    /\ End(IF file.whole /\ DiffPasses(file.pre, file.post) THEN "pass" ELSE "fail")
    /\ UNCHANGED <<catalog, env, cluster, file, at, locals, history, counters>>

(* The specs of tests/versions; the second runs whatever became of the first. *)

ValidateOlmSkipRange ==
    /\ stage = "found"
    /\ ranges' = Fetched(catalog)
    /\ outcome' = CASE DOMAIN Fetched(catalog) = {} -> "fail"
                    [] DOMAIN Fetched(catalog) # {} /\ osp = NoVersion -> "skip"
                    [] OTHER -> IF Found(Fetched(catalog)) THEN "pass" ELSE "fail"
    /\ stage' = "bounds"
    /\ UNCHANGED <<catalog, env, cluster, file, at, name, existing, history, counters>>

ValidateChannelSkipRangeBounds ==
    /\ stage = "bounds"
    /\ ranges' = Fetched(catalog)
    /\ End(IF DOMAIN Fetched(catalog) # {} /\ BoundsValid(Fetched(catalog))
           THEN "pass" ELSE "fail")
    /\ UNCHANGED <<catalog, env, cluster, file, at, name, existing, history, counters>>

-----------------------------------------------------------------------------
(* External: the catalog and OLM. *)

\* A new catalog is published.
Release(cat) ==
    /\ stage # "over" /\ releases < MaxReleases
    /\ cat # catalog
    /\ catalog' = cat
    /\ releases' = releases + 1
    /\ offered' = offered \union
                  {cat[IF spec = "upgrade" THEN UpgradeChannel ELSE Channel].head}
    /\ calm' = FALSE
    /\ UNCHANGED <<env, cluster, file, at, stage, outcome, locals,
                   saved, fresh, specs, faults>>

OLMStep ==
    /\ stage # "over"
    /\ UNCHANGED <<catalog, env, file, at, stage, outcome, locals,
                   history, counters>>

\* OLM creates an InstallPlan, and from it the CSV at the head of the channel, ...
OLMInstalls ==
    /\ OLMStep
    /\ sub.there /\ ~Settled /\ csv[head(sub.channel)] = "absent"
    /\ csv' = [csv EXCEPT ![head(sub.channel)] = "Pending"]
    /\ plans' = [plans EXCEPT !.owned = @ \union {head(sub.channel)}]
    /\ UNCHANGED sub

\* ... names it in the status of the Subscription, ...
OLMNames ==
    /\ OLMStep
    /\ sub.there /\ ~Settled /\ csv[head(sub.channel)] # "absent"
    /\ sub' = [sub EXCEPT !.installed = head(sub.channel)]
    /\ UNCHANGED <<csv, plans>>

\* ... reports how it fares, ...
OLMReports(v, p) ==
    /\ OLMStep
    /\ csv[v] \in {"Pending", "Failed"} /\ p \in {"Pending", "Succeeded", "Failed"} \ {csv[v]}
    /\ csv' = [csv EXCEPT ![v] = p]
    /\ UNCHANGED <<sub, plans>>

\* ... and removes the one it has replaced.
OLMReplaces(v) ==
    /\ OLMStep
    /\ v \notin {Other, sub.installed} /\ csv[v] # "absent"
    /\ sub.there /\ Settled /\ csv[sub.installed] = "Succeeded"
    /\ csv' = [csv EXCEPT ![v] = "absent"]
    /\ UNCHANGED <<sub, plans>>

\* Kubernetes removes the InstallPlans whose owner is gone, at some time.
CollectGarbage ==
    /\ OLMStep
    /\ plans.orphaned # {}
    /\ plans' = [plans EXCEPT !.orphaned = {}]
    /\ UNCHANGED <<sub, csv>>

Over == stage = "over" /\ UNCHANGED vars

TestStep ==
    \/ EndCampaign
    \/ createSubscription \/ UpdateSubscription
    \/ WaitForSubscriptionState \/ WaitForClusterServiceVersionState
    \/ GetSubscription \/ DeleteCSVs \/ DeleteSubscription
    \/ FetchOlmSkipRange \/ DecodeFile \/ TruncateFile \/ EncodeFile
    \/ ValidateOlmSkipRangeDiff
    \/ ValidateOlmSkipRange \/ ValidateChannelSkipRangeBounds

Next ==
    \/ \E i \in DOMAIN env.campaign : StartSpec(i)
    \/ TestStep
    \/ FailSpec
    \/ \E cat \in env.catalogs : Release(cat)
    \/ OLMInstalls \/ OLMNames \/ CollectGarbage
    \/ \E v \in CSVs : OLMReplaces(v) \/ \E p \in Phases : OLMReports(v, p)
    \/ Over

Spec == Init /\ [][Next]_vars

-----------------------------------------------------------------------------
(* Properties. *)

\* The values of skipRangeMap: no ranges at all, or those of a catalog.
Maps == {NoRanges} \union {Fetched(cat) : cat \in Catalogs}

EnvironmentOK == env \in Environments /\ catalog \in env.catalogs /\ at \in DOMAIN env.campaign
ClusterOK ==
    /\ sub \in [there : BOOLEAN, channel : {Latest, Channel, UpgradeChannel},
                installed : Heads \union {NoCSV}]
    /\ csv \in [CSVs -> Phases]
    /\ plans \in [owned : SUBSET Heads, orphaned : SUBSET Heads]
FileOK ==
    /\ file \in [whole : BOOLEAN, pre : Maps, post : Maps]
    /\ saved \in [pre : Maps, post : Maps] /\ existing \in [pre : Maps, post : Maps]
    /\ ranges \in Maps
SpecOK ==
    /\ stage \in Stages /\ outcome \in {"none", "pass", "fail", "skip"}
    /\ name \in Heads \union {NoCSV}
    /\ stage = "csv" => name \in Heads
HistoryOK == offered \subseteq Heads /\ fresh \in BOOLEAN /\ calm \in BOOLEAN
CountersOK ==
    /\ specs \in 0..MaxSpecs /\ releases \in 0..MaxReleases
    /\ faults \in 0..MaxFaults

\* Every variable keeps the shape the code gives it; in particular csvName is
\* never read before a Subscription has named one.
TypeOK == EnvironmentOK /\ ClusterOK /\ FileOK /\ SpecOK /\ HistoryOK /\ CountersOK

Passed(k) == spec = k /\ stage = "idle" /\ outcome = "pass"

\* SubscribeAndWaitForOperatorToBeReady on a cluster without the Subscription
\* waits for a version the requested channel offers: whatever an earlier
\* install, an interrupted uninstall or a release left on the cluster.
FreshInstallIsCurrent == Passed("install") /\ fresh => name \in offered

\* "UptadeSubscriptionAndWaitForOperatorToBeReady updates a subscription channel
\* and waits until the operator is ready" (subscription.go:53): when it passes,
\* the operator it has waited for is one of the new channel.
UpgradeIsCurrent == Passed("upgrade") => name \in offered

\* What a passed uninstall leaves once OLM has finished with the Subscription
\* (subscription.go:128-145): no Subscription, no version of the operator, a
\* replaced one OLM had still to remove included, and no InstallPlan but orphans.
UninstallComplete ==
    Passed("uninstall") /\ calm =>
        ~sub.there /\ plans.owned = {} /\ \A v \in Heads : csv[v] = "absent"

\* A diff that passes has compared the catalogs at the last successful saves,
\* however many saves failed half way, were repeated or were overtaken by a
\* release (olm_skiprange.go:265-290): no channel was lost between the two, and
\* one that changed is of OSP_VERSION, as far as names tell, and has kept its
\* lower bound.
SavedRangesCompared ==
    Passed("diff") =>
        \A c \in DOMAIN saved.pre \ {Latest} :
            /\ c \in DOMAIN saved.post
            /\ saved.post[c] # saved.pre[c] =>
                 channelMatchesOSP(c) /\ saved.post[c].lower = saved.pre[c].lower

OSPLine == extractMajorMinor(osp)
OnePatchUp(v) == [v EXCEPT ![3] = @ + 1]

\* "only the channel matching OSP_VERSION had its skipRange upper bound
\* incremented" (olm_skiprange.go:292-293), and a valid increment is "lower bound
\* unchanged, upper bound increased by one patch" (olm_skiprange.go:106-108).
DiffAsDocumented ==
    Passed("diff") =>
        \A c \in (DOMAIN saved.pre \intersect DOMAIN saved.post) \ {Latest} :
            saved.post[c] # saved.pre[c] =>
                /\ c = OSPLine
                /\ saved.post[c].lower = saved.pre[c].lower
                /\ saved.post[c].upper = OnePatchUp(saved.pre[c].upper)

\* The checks agree: a catalog that has passed the diff of the upgrade suite and
\* has a channel for OSP_VERSION passes ValidateOlmSkipRange of the versions suite.
ChecksAgree ==
    Passed("diff") /\ (\E c \in DOMAIN file.post : channelMatchesOSP(c)) => Found(file.post)
=============================================================================
