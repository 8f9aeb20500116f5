----------------------------- MODULE Deployments -----------------------------
(***************************************************************************)
(* Production deployments and releases of one Build (coordinator/service,  *)
(* build/deployments).  Every step under the Build's mutation gate reads   *)
(* the record, changes it and writes it back at once; the calls to the     *)
(* provider happen between such steps, outside the gate, and their effects *)
(* may come late or never.  The coordinator may die anywhere: the record   *)
(* and what was asked of the provider survive, the calls do not.           *)
(*                                                                         *)
(* An operation on a deployment is named by the deployment.  Revisions are *)
(* abstracted to the set of calls whose revision is still the record's.    *)
(***************************************************************************)
EXTENDS Naturals, Sequences

CONSTANTS
  Deploys,     \* deployments, and the operations that make them
  Built,       \* the deployments confirmed before the behaviour starts
  Releases,    \* release operations
  Vars,        \* ordinary configuration variables of the environment
  Calls,       \* concurrent coordinator calls
  Other,       \* a deployment this Build does not know
  None,
  MaxOutside   \* bound on what others change: mapping, environment, source, serving

ASSUME DeploymentsAssumption ==
  /\ Built \subseteq Deploys /\ Deploys \cap Releases = {}
  /\ None \notin Deploys \cup Releases \cup Vars /\ Other \notin Deploys /\ Other # None
  /\ Vars \cap {"deploy", "switch"} = {}
  /\ None \notin Vars \X {"in_flight", "uncertain"}
  /\ MaxOutside \in Nat

Ops == Deploys \cup Releases
Effects == (Deploys \X (Vars \cup {"deploy"})) \cup (Releases \X {"switch"})

VARIABLES
  pending,    \* the record's pendingOperation
  state,      \* operation -> its state in the record
  attempt,    \* the configProjectionAttempt of the pending deployment
  receipts,   \* deployment -> variables with a receipt
  recorded,   \* deployment -> providerState in the record
  kind,       \* release operation -> publish, rollback or reestablish
  target,     \* release operation -> the deployment it is to make current
  expected,   \* release operation -> expectedCurrentReleaseId
  releases,   \* the deployments released so far; the last is the current one
  serving,    \* the record's serving observation
  stale,      \* deployments whose source or environment has changed since
  remapped,   \* deployments made under a mapping that was replaced
  pc, arg, seen,  \* call -> where it awaits, its operation, what it was told
  fresh,      \* calls that hold the record's present revision
  inflight,   \* effects asked of the provider that have not happened (yet)
  landed,     \* effects that have happened
  built,      \* deployment -> its state at the provider
  live,       \* the deployment production serves
  outside,
  issued,     \* history: effect -> how often it was asked for
  witnessed,  \* history: releases whose target was live while they were pending
  late        \* history: releases whose switch happened when they were not pending

record == <<pending, state, attempt, receipts, recorded, kind, target, expected,
            releases, serving, stale, remapped>>
calls == <<pc, arg, seen, fresh>>
provider == <<inflight, landed, built, live, outside, issued, witnessed, late>>
vars == <<record, calls, provider>>

DeployStates == {"unused", "prepared", "projecting", "submitting", "uncertain", "submitted",
                 "confirmed", "failed"}
ReleaseStates == {"unused", "prepared", "switching", "verifying", "uncertain", "safe_stop",
                  "completed", "failed"}
Kinds == {"publish", "rollback", "reestablish"}
Awaits == {"idle", "project", "configuring", "deploying", "matching", "inspecting", "settling",
           "preflight", "switching", "recorded", "reading", "read", "stored", "finalizing"}

TypeOK ==
  /\ pending \in Ops \cup {None}
  /\ state \in [Ops -> DeployStates \cup ReleaseStates]
  /\ attempt \in {None} \cup (Vars \X {"in_flight", "uncertain"})
  /\ receipts \in [Deploys -> SUBSET Vars]
  /\ recorded \in [Deploys -> {"none", "building", "READY", "ERROR"}]
  /\ kind \in [Releases -> Kinds] /\ target \in [Releases -> Deploys \cup {None}]
  /\ expected \in [Releases -> Nat]
  /\ releases \in Seq(Deploys)
  /\ serving \in {"unknown", "verified", "drifted"}
  /\ stale \subseteq Deploys /\ remapped \subseteq Deploys
  /\ pc \in [Calls -> Awaits] /\ arg \in [Calls -> Ops \cup {None}]
  /\ seen \in [Calls -> Vars \cup Deploys \cup {"submitting", "uncertain", Other, None}]
  /\ fresh \subseteq Calls
  /\ inflight \subseteq Effects /\ landed \subseteq Effects
  /\ built \in [Deploys -> {"none", "building", "READY", "ERROR"}]
  /\ live \in Deploys \cup {Other}
  /\ outside \in 0 .. MaxOutside
  /\ issued \in [Effects -> Nat]
  /\ witnessed \subseteq Releases /\ late \subseteq Releases

\* Earlier operations have confirmed some deployments, of which one may
\* already be the verified release.
Init ==
  /\ pending = None /\ attempt = None
  /\ state = [o \in Ops |-> IF o \in Built THEN "confirmed" ELSE "unused"]
  /\ receipts = [d \in Deploys |-> IF d \in Built THEN Vars ELSE {}]
  /\ built = [d \in Deploys |-> IF d \in Built THEN "READY" ELSE "none"]
  /\ recorded = built
  /\ kind = [r \in Releases |-> "publish"] /\ target = [r \in Releases |-> None]
  /\ expected = [r \in Releases |-> 0]
  /\ \/ releases = <<>> /\ serving = "unknown" /\ live = Other
     \/ \E d \in Built : releases = <<d>> /\ serving = "verified" /\ live = d
  /\ stale = {} /\ remapped = {}
  /\ pc = [c \in Calls |-> "idle"] /\ arg = [c \in Calls |-> None]
  /\ seen = [c \in Calls |-> None] /\ fresh = {}
  /\ inflight = {} /\ landed = Built \X (Vars \cup {"deploy"})
  /\ outside = 0
  /\ issued = [e \in Effects |-> IF e \in landed THEN 1 ELSE 0]
  /\ witnessed = {} /\ late = {}

----------------------------------------------------------------------------
\* Calls, effects and the record.

Await(c, l, o, s) ==
  /\ pc' = [pc EXCEPT ![c] = l]
  /\ arg' = [arg EXCEPT ![c] = o]
  /\ seen' = [seen EXCEPT ![c] = s]

Return(c) == Await(c, "idle", None, None)

\* A call that ends without changing the record.
Refused(c) == Return(c) /\ UNCHANGED <<record, fresh, provider>>

\* The revision moves on: only the given calls hold the present one.
Revised(holders) == fresh' = holders

HoldsAnyRevision(c) == TRUE

HoldsRevision(c) == c \in fresh

Ask(e) ==
  /\ inflight' = inflight \cup {e}
  /\ issued' = [issued EXCEPT ![e] = @ + 1]
  /\ UNCHANGED <<landed, built, live, outside, witnessed, late>>

SetState(o, s) == state' = [state EXCEPT ![o] = s]

Current == IF releases = <<>> THEN None ELSE releases[Len(releases)]

Released == {releases[i] : i \in DOMAIN releases}

\* validateOperationSnapshot, of the pending deployment.
SnapshotValid(d) == pending = d /\ d \notin stale

----------------------------------------------------------------------------
\* Deploying to production.

\* prepareProductionDeploymentOperation: durable intent, under the mapping and
\* the revisions of now.
PrepareDeploy(d) ==
  /\ pending = None /\ state[d] = "unused"
  /\ pending' = d
  /\ SetState(d, "prepared")
  /\ attempt' = None
  /\ Revised({})
  /\ UNCHANGED <<receipts, recorded, kind, target, expected, releases, serving, stale, remapped,
                 pc, arg, seen, provider>>

MaySubmit(d) == SnapshotValid(d) /\ state[d] \in {"prepared", "projecting"}

\* submitProductionDeployment, up to the provider's metadata.
SubmitBegin(c, d) ==
  /\ pc[c] = "idle" /\ MaySubmit(d) /\ attempt = None
  /\ Await(c, "project", d, None)
  /\ UNCHANGED <<record, fresh, provider>>

\* The intent to write one variable is durable before the write is asked for.
ConfigAttempt(c, v) ==
  LET d == arg[c] IN
  /\ pc[c] = "project" /\ MaySubmit(d) /\ attempt = None /\ v \notin receipts[d]
  /\ attempt' = <<v, "in_flight">>
  /\ SetState(d, "projecting")
  /\ Ask(<<d, v>>)
  /\ Await(c, "configuring", d, v)
  /\ Revised({})
  /\ UNCHANGED <<pending, receipts, recorded, kind, target, expected, releases, serving, stale,
                 remapped>>

AttemptMine(c) ==
  pending = arg[c] /\ state[arg[c]] = "projecting" /\ attempt = <<seen[c], "in_flight">>

\* The provider acknowledged the write: a receipt, and on to the next variable.
ConfigReceipt(c) ==
  LET d == arg[c] IN
  /\ pc[c] = "configuring" /\ <<d, seen[c]>> \in landed
  /\ SnapshotValid(d) /\ AttemptMine(c)
  /\ receipts' = [receipts EXCEPT ![d] = @ \cup {seen[c]}]
  /\ attempt' = None
  /\ Await(c, "project", d, None)
  /\ Revised({})
  /\ UNCHANGED <<pending, state, recorded, kind, target, expected, releases, serving, stale,
                 remapped, provider>>

\* A refused receipt leaves the attempt in flight.
ConfigReceiptRefused(c) ==
  /\ pc[c] = "configuring" /\ <<arg[c], seen[c]>> \in landed
  /\ ~(SnapshotValid(arg[c]) /\ AttemptMine(c))
  /\ Refused(c)

\* The write failed, timed out or its answer was lost: whether it happened is
\* not known, and it is not asked for again.
ConfigUncertain(c) ==
  /\ pc[c] = "configuring"
  /\ IF AttemptMine(c)
     THEN /\ attempt' = <<seen[c], "uncertain">>
          /\ Return(c)
          /\ Revised({})
          /\ UNCHANGED <<pending, state, receipts, recorded, kind, target, expected, releases,
                         serving, stale, remapped, provider>>
     ELSE Refused(c)

MayCrossBoundaryAgain(d) == SnapshotValid(d) /\ receipts[d] = Vars

MayCrossBoundaryHalfConfigured(d) == MaySubmit(d) /\ receipts[d] # {}

MayCrossBoundary(d) == MaySubmit(d) /\ receipts[d] = Vars

\* Every variable has its receipt and the source was checked again: the
\* submission is durable before it is asked for.
SubmissionBoundary(c) ==
  LET d == arg[c] IN
  /\ pc[c] = "project" /\ MayCrossBoundary(d)
  /\ SetState(d, "submitting")
  /\ Ask(<<d, "deploy">>)
  /\ Await(c, "deploying", d, None)
  /\ Revised({})
  /\ UNCHANGED <<pending, attempt, receipts, recorded, kind, target, expected, releases, serving,
                 stale, remapped>>

\* A failed read of the provider, a check that does not hold, a source that
\* cannot be prepared.
SubmitAbandoned(c) == pc[c] = "project" /\ Refused(c)

Submitted(d) ==
  /\ SetState(d, "submitted")
  /\ recorded' = [recorded EXCEPT ![d] = built[d]]

\* The receipt of the submission, or its loss.
SubmissionAnswered(c) ==
  LET d == arg[c] IN
  /\ pc[c] = "deploying"
  /\ IF SnapshotValid(d) /\ state[d] = "submitting"
     THEN /\ \/ <<d, "deploy">> \in landed /\ Submitted(d)
             \/ SetState(d, "uncertain") /\ UNCHANGED recorded
          /\ Return(c)
          /\ Revised({})
          /\ UNCHANGED <<pending, attempt, receipts, kind, target, expected, releases, serving,
                         stale, remapped, provider>>
     ELSE Refused(c)

\* reconcileProduction: look for the submission at the provider, while it is
\* uncertain or still being answered.
ReconcileBegin(c, d) ==
  /\ pc[c] = "idle" /\ SnapshotValid(d) /\ state[d] \in {"submitting", "uncertain"}
  /\ Await(c, "matching", d, state[d])
  /\ UNCHANGED <<record, fresh, provider>>

MatchAssumed(d) == TRUE

MatchFound(d) == <<d, "deploy">> \in landed

Reconcile(c) ==
  LET d == arg[c] IN
  /\ pc[c] = "matching"
  /\ \/ /\ MatchFound(d) /\ SnapshotValid(d) /\ state[d] = seen[c]
        /\ Submitted(d)
        /\ Return(c)
        /\ Revised({})
        /\ UNCHANGED <<pending, attempt, receipts, kind, target, expected, releases, serving,
                       stale, remapped, provider>>
     \/ Refused(c)  \* incomplete, no unique match, or the operation moved on

\* observeProduction: ask for the status of the submitted deployment.
ObserveBegin(c, d) ==
  /\ pc[c] = "idle" /\ SnapshotValid(d) /\ state[d] = "submitted"
  /\ Await(c, "inspecting", d, None)
  /\ Revised(fresh \cup {c})
  /\ UNCHANGED <<record, provider>>

\* The observation is recorded only into the revision it was asked under.
Observe(c) ==
  LET d == arg[c] IN
  /\ pc[c] = "inspecting"
  /\ \/ /\ HoldsRevision(c) /\ SnapshotValid(d) /\ state[d] = "submitted"
        /\ recorded' = [recorded EXCEPT ![d] = built[d]]
        /\ IF built[d] = "building" THEN Return(c) ELSE Await(c, "settling", d, None)
        /\ Revised({})
        /\ UNCHANGED <<pending, state, attempt, receipts, kind, target, expected, releases,
                       serving, stale, remapped, provider>>
     \/ /\ Return(c)
        /\ Revised(fresh \ {c})
        /\ UNCHANGED <<record, provider>>

Outcome(d) == IF recorded[d] = "READY" THEN "confirmed" ELSE "failed"

\* A second write settles what was observed.
SettleDeploy(c) ==
  LET d == arg[c] IN
  /\ pc[c] = "settling"
  /\ IF SnapshotValid(d) /\ state[d] = "submitted"
     THEN /\ SetState(d, Outcome(d))
          /\ pending' = None
          /\ Return(c)
          /\ Revised({})
          /\ UNCHANGED <<attempt, receipts, recorded, kind, target, expected, releases, serving,
                         stale, remapped, provider>>
     ELSE Refused(c)

----------------------------------------------------------------------------
\* Releasing: which deployment production serves.

\* A release may replace a pending one only after that one stopped safe.
MayPrepareRelease ==
  pending = None \/ (pending \in Releases /\ state[pending] = "safe_stop")

\* productionActionEligibility, and the mapping of the target and of the
\* current release.
Eligible(k, d) ==
  /\ state[d] = "confirmed" /\ d \notin remapped
  /\ Current # None => Current \notin remapped
  /\ CASE k = "publish" -> Current # None => serving = "verified"
       [] k = "rollback" -> serving = "verified" /\ d \in Released /\ d # Current
       [] k = "reestablish" -> serving # "verified" /\ d = Current

\* prepareReleaseOperation.
PrepareRelease(r, k, d) ==
  /\ state[r] = "unused" /\ MayPrepareRelease /\ Eligible(k, d)
  /\ pending' = r
  /\ SetState(r, "prepared")
  /\ kind' = [kind EXCEPT ![r] = k]
  /\ target' = [target EXCEPT ![r] = d]
  /\ expected' = [expected EXCEPT ![r] = Len(releases)]
  /\ witnessed' = IF live = d THEN witnessed \cup {r} ELSE witnessed
  /\ Revised({})
  /\ UNCHANGED <<attempt, receipts, recorded, releases, serving, stale, remapped, pc, arg, seen,
                 inflight, landed, built, live, outside, issued, late>>

\* executeRelease: the switch is durable first.
ExecuteBegin(c, r) ==
  /\ pc[c] = "idle" /\ pending = r /\ state[r] = "prepared"
  /\ SetState(r, "switching")
  /\ Await(c, "preflight", r, None)
  /\ Revised({c})
  /\ UNCHANGED <<pending, attempt, receipts, recorded, kind, target, expected, releases, serving,
                 stale, remapped, provider>>

\* The target is not, or cannot be shown to be, ready at the provider.
PreflightFails(c) ==
  LET r == arg[c] IN
  /\ pc[c] = "preflight"
  /\ IF pending = r /\ state[r] \in {"prepared", "switching"}
     THEN /\ SetState(r, "failed")
          /\ pending' = None
          /\ Return(c)
          /\ Revised({})
          /\ UNCHANGED <<attempt, receipts, recorded, kind, target, expected, releases, serving,
                         stale, remapped, provider>>
     ELSE /\ Return(c)
          /\ Revised(fresh \ {c})
          /\ UNCHANGED <<record, provider>>

MaySwitchWhilePending(c) == pending = arg[c] /\ Len(releases) = expected[arg[c]]

MaySwitch(c) ==
  /\ HoldsRevision(c) /\ pending = arg[c] /\ state[arg[c]] = "switching"
  /\ Len(releases) = expected[arg[c]]

\* The last check under the gate; then the one switch is asked for outside it.
Switch(c) ==
  /\ pc[c] = "preflight"
  /\ IF MaySwitch(c)
     THEN Ask(<<arg[c], "switch">>) /\ Await(c, "switching", arg[c], None)
     ELSE Return(c) /\ UNCHANGED provider
  /\ Revised(fresh \ {c})
  /\ UNCHANGED record

\* The provider accepted the switch, which is not to say it happened, or its
\* answer is lost.
SwitchAnswered(c) ==
  LET r == arg[c] IN
  /\ pc[c] = "switching"
  /\ IF pending = r /\ state[r] = "switching"
     THEN /\ \E s \in {"verifying", "uncertain"} : SetState(r, s)
          /\ Await(c, "recorded", r, None)
          /\ Revised({})
          /\ UNCHANGED <<pending, attempt, receipts, recorded, kind, target, expected, releases,
                         serving, stale, remapped, provider>>
     ELSE Refused(c)

\* observeRelease: of the pending release, or of none when nothing is pending.
\* executeRelease ends with it.
ObserveReleaseBegin(c, o) ==
  /\ pc[c] = "idle" \/ (pc[c] = "recorded" /\ arg[c] = o)
  /\ pending = o /\ o \in Releases \cup {None}
  /\ Await(c, "reading", o, None)
  /\ Revised(fresh \cup {c})
  /\ UNCHANGED <<record, provider>>

ObserveReleaseRefused(c) == pc[c] = "recorded" /\ pending # arg[c] /\ Refused(c)

\* What production serves, None when that cannot be established.
ReadServing(c) ==
  /\ pc[c] = "reading"
  /\ \E s \in {live, None} : Await(c, "read", arg[c], s)
  /\ UNCHANGED <<record, fresh, provider>>

Reduced(s) ==
  IF s = None \/ Current = None THEN "unknown"
  ELSE IF s = Current THEN "verified" ELSE "drifted"

\* reconcileServing, into the revision the observation began under.
StoreServing(c) ==
  /\ pc[c] = "read"
  /\ IF HoldsRevision(c)
     THEN /\ serving' = Reduced(seen[c])
          /\ IF arg[c] = None THEN Return(c) ELSE Await(c, "stored", arg[c], seen[c])
          /\ Revised({})
          /\ UNCHANGED <<pending, state, attempt, receipts, recorded, kind, target, expected,
                         releases, stale, remapped, provider>>
     ELSE Refused(c)

SawAnything(c) == pending = arg[c] /\ seen[c] # None

SawTarget(c) == pending = arg[c] /\ seen[c] = target[arg[c]]

\* The target was seen serving: the operation may be finished, whatever was
\* known of its effect.
TargetSeen(c) ==
  LET r == arg[c] IN
  /\ pc[c] = "stored" /\ SawTarget(c)
  /\ \/ /\ state[r] = "verifying"
        /\ Await(c, "finalizing", r, None)
        /\ UNCHANGED <<record, fresh, provider>>
     \/ /\ state[r] \in {"switching", "uncertain", "safe_stop"}
        /\ SetState(r, "verifying")
        /\ Await(c, "finalizing", r, None)
        /\ Revised({})
        /\ UNCHANGED <<pending, attempt, receipts, recorded, kind, target, expected, releases,
                       serving, stale, remapped, provider>>
     \/ Refused(c)  \* still prepared, or the record moved on after it was read

\* Anything else was seen: a stop in which nothing is repeated.
TargetNotSeen(c) ==
  LET r == arg[c] IN
  /\ pc[c] = "stored" /\ ~SawTarget(c)
  /\ IF pending = r /\ state[r] \in {"switching", "verifying", "uncertain"}
     THEN /\ SetState(r, "safe_stop")
          /\ Return(c)
          /\ Revised({})
          /\ UNCHANGED <<pending, attempt, receipts, recorded, kind, target, expected, releases,
                         serving, stale, remapped, provider>>
     ELSE Refused(c)

MayFinalize(r) ==
  /\ pending = r /\ state[r] = "verifying" /\ expected[r] = Len(releases)
  /\ kind[r] = "rollback" => target[r] # Current
  /\ kind[r] = "reestablish" => target[r] = Current

\* finalizeReleaseOperation: from here on production is what the record says.
Finalize(c) ==
  LET r == arg[c] IN
  /\ pc[c] = "finalizing"
  /\ IF MayFinalize(r)
     THEN /\ SetState(r, "completed")
          /\ pending' = None
          /\ releases' = IF kind[r] = "reestablish" THEN releases ELSE Append(releases, target[r])
          /\ serving' = "verified"
          /\ Return(c)
          /\ Revised({})
          /\ UNCHANGED <<attempt, receipts, recorded, kind, target, expected, stale, remapped,
                         provider>>
     ELSE Refused(c)

----------------------------------------------------------------------------
\* The rest of the Build, the provider and the process.

ByOthers == outside < MaxOutside /\ outside' = outside + 1

\* prepareDeploymentMappingMutation.
Remap ==
  /\ pending = None /\ ByOthers
  /\ remapped' = {d \in Deploys : state[d] # "unused"}
  /\ serving' = "unknown"
  /\ Revised({})
  /\ UNCHANGED <<pending, state, attempt, receipts, recorded, kind, target, expected, releases,
                 stale, pc, arg, seen, inflight, landed, built, live, issued, witnessed, late>>

\* An environment mutation or an adopted candidate: neither waits for the
\* pending deployment.
ChangeSnapshotted ==
  /\ pending \in Deploys \ stale /\ ByOthers
  /\ stale' = stale \cup {pending}
  /\ UNCHANGED <<pending, state, attempt, receipts, recorded, kind, target, expected, releases,
                 serving, remapped, calls, inflight, landed, built, live, issued, witnessed, late>>

\* Production serves d from now on.
Live(d) ==
  /\ live' = d
  /\ witnessed' = witnessed \cup {r \in Releases : r = pending /\ target[r] = d}

\* What was asked for happens, however late.
Land(e) ==
  /\ e \in inflight
  /\ inflight' = inflight \ {e}
  /\ landed' = landed \cup {e}
  /\ built' = IF e[2] = "deploy" THEN [built EXCEPT ![e[1]] = "building"] ELSE built
  /\ IF e[2] = "switch"
     THEN /\ Live(target[e[1]])
          /\ late' = IF pending = e[1] THEN late ELSE late \cup {e[1]}
     ELSE UNCHANGED <<live, witnessed, late>>
  /\ UNCHANGED <<outside, issued, record, calls>>

BuildEnds(d) ==
  /\ built[d] = "building"
  /\ \E s \in {"READY", "ERROR"} : built' = [built EXCEPT ![d] = s]
  /\ UNCHANGED <<inflight, landed, live, outside, issued, witnessed, late, record, calls>>

\* Somebody switches production at the provider.
SwitchedOutside(d) ==
  /\ d # live /\ ByOthers
  /\ Live(d)
  /\ UNCHANGED <<inflight, landed, built, issued, late, record, calls>>

\* The coordinator dies; its successor reads the record and repeats nothing
\* (recoverDeploymentFoundation).
Crash ==
  /\ \E c \in Calls : pc[c] # "idle"
  /\ pc' = [c \in Calls |-> "idle"] /\ arg' = [c \in Calls |-> None]
  /\ seen' = [c \in Calls |-> None] /\ fresh' = {}
  /\ UNCHANGED <<record, provider>>

Call(c) ==
  \/ \E v \in Vars : ConfigAttempt(c, v)
  \/ ConfigReceipt(c) \/ ConfigReceiptRefused(c) \/ ConfigUncertain(c)
  \/ SubmissionBoundary(c) \/ SubmitAbandoned(c) \/ SubmissionAnswered(c)
  \/ Reconcile(c) \/ Observe(c) \/ SettleDeploy(c)
  \/ PreflightFails(c) \/ Switch(c) \/ SwitchAnswered(c)
  \/ pc[c] = "recorded" /\ ObserveReleaseBegin(c, arg[c])
  \/ ObserveReleaseRefused(c)
  \/ ReadServing(c) \/ StoreServing(c) \/ TargetSeen(c) \/ TargetNotSeen(c) \/ Finalize(c)

Begin(c) ==
  \/ \E d \in Deploys : SubmitBegin(c, d) \/ ReconcileBegin(c, d) \/ ObserveBegin(c, d)
  \/ \E r \in Releases : ExecuteBegin(c, r)
  \/ pc[c] = "idle" /\ ObserveReleaseBegin(c, pending)

Next ==
  \/ \E c \in Calls : Call(c) \/ Begin(c)
  \/ \E d \in Deploys : PrepareDeploy(d) \/ BuildEnds(d)
  \/ \E r \in Releases, k \in Kinds, d \in Deploys : PrepareRelease(r, k, d)
  \/ Remap \/ ChangeSnapshotted
  \/ \E e \in Effects : Land(e)
  \/ \E d \in Deploys \cup {Other} : SwitchedOutside(d)
  \/ Crash

Spec == Init /\ [][Next]_vars

----------------------------------------------------------------------------
\* Properties.

\* No configuration write, submission or switch is asked of the provider
\* twice, whoever submits, reconciles, gives up or starts again after a crash.
EffectsAskedOnce == \A e \in Effects : issued[e] <= 1

\* A deployment is submitted only after the provider has every variable of its
\* snapshot.
SubmittedConfigured ==
  \A d \in Deploys : issued[<<d, "deploy">>] > 0 => {d} \X Vars \subseteq landed

\* A deployment has the provider's identity only if the provider made it, and
\* is confirmed or failed only as the provider ended it.
DeploymentTruthful ==
  \A d \in Deploys :
    /\ state[d] = "submitted" => <<d, "deploy">> \in landed
    /\ state[d] = "confirmed" => built[d] = "READY"
    /\ state[d] = "failed" => built[d] = "ERROR"

\* A release is completed only if production really served its target while it
\* was the pending operation.
CompletedWasServed == \A r \in Releases : state[r] = "completed" => r \in witnessed

\* What the record says of production is right once nothing is pending, as long
\* as nobody else changes anything, no release was stopped and no switch came
\* after its operation.
ServingTruthful ==
  pending = None /\ outside = 0 /\ late = {} /\ (\A r \in Releases : state[r] # "safe_stop")
  => CASE serving = "verified" -> live = Current
       [] serving = "drifted" -> live # Current
       [] serving = "unknown" -> TRUE

\* The operations are those of a ledger of durable intents.
LedgerPhase(o) ==
  CASE state[o] = "unused" -> "idle"
    [] state[o] \in {"prepared", "projecting"} -> "intended"
    [] state[o] = "switching" -> "attempted"
    [] state[o] \in {"submitting", "submitted", "uncertain", "verifying", "safe_stop"} -> "awaiting"
    [] state[o] \in {"confirmed", "completed"} -> "done"
    [] state[o] = "failed" -> IF o \in Deploys THEN "done" ELSE "refused"

EffectOf(o) == <<o, IF o \in Deploys THEN "deploy" ELSE "switch">>

LedgerEffect(o) ==
  IF EffectOf(o) \in landed THEN "happened"
  ELSE IF issued[EffectOf(o)] > 0 THEN "requested" ELSE "none"

Ledger == INSTANCE EffectLedger WITH
  MustHappen <- Deploys,
  phase <- [o \in Ops |-> LedgerPhase(o)],
  effect <- [o \in Ops |-> LedgerEffect(o)]

\* Intent is durable before its effect is asked for; an operation whose effect
\* is awaited never asks again; what was refused never had an effect.
ImplementsLedger == Ledger!Spec
=============================================================================
