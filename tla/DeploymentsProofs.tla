-------------------------- MODULE DeploymentsProofs --------------------------
(***************************************************************************)
(* Theorems about Deployments for every set of deployments, releases,      *)
(* variables and calls.                                                    *)
(***************************************************************************)
EXTENDS Deployments, SequenceTheorems, TLAPS

Deploying == {"project", "configuring", "deploying", "matching", "inspecting", "settling"}
Releasing == {"preflight", "switching", "recorded", "stored", "finalizing"}
Told == Vars \cup Deploys \cup {"submitting", "uncertain", Other, None}

\* The type of the record, of the calls with what each of them awaits on, and
\* of the provider.
RecordTyped ==
  /\ pending \in Ops \cup {None}
  /\ state \in [Ops -> DeployStates \cup ReleaseStates]
  /\ attempt \in {None} \cup (Vars \X {"in_flight", "uncertain"})
  /\ receipts \in [Deploys -> SUBSET Vars]
  /\ recorded \in [Deploys -> {"none", "building", "READY", "ERROR"}]
  /\ kind \in [Releases -> Kinds] /\ target \in [Releases -> Deploys \cup {None}]
  /\ expected \in [Releases -> Nat]
  /\ releases \in Seq(Deploys)
  /\ serving \in {"unknown", "verified", "drifted"}
  /\ stale \subseteq Deploys /\ remapped \subseteq Deploys

CallsTyped ==
  /\ pc \in [Calls -> Awaits] /\ arg \in [Calls -> Ops \cup {None}] /\ seen \in [Calls -> Told]
  /\ fresh \subseteq Calls
  /\ \A c \in Calls :
       /\ pc[c] \in Deploying => arg[c] \in Deploys
       /\ pc[c] \in Releasing => arg[c] \in Releases
       /\ pc[c] \in {"reading", "read"} => arg[c] \in Releases \cup {None}
       /\ pc[c] = "configuring" => seen[c] \in Vars
       /\ pc[c] = "matching" => seen[c] \in {"submitting", "uncertain"}
       /\ pc[c] \in {"read", "stored"} => seen[c] \in Deploys \cup {Other, None}

ProviderTyped ==
  /\ inflight \subseteq Effects /\ landed \subseteq Effects
  /\ built \in [Deploys -> {"none", "building", "READY", "ERROR"}]
  /\ live \in Deploys \cup {Other}
  /\ outside \in 0 .. MaxOutside
  /\ issued \in [Effects -> Nat]
  /\ witnessed \subseteq Releases /\ late \subseteq Releases

\* Only operations that were prepared are pending, called on or asked for, and
\* a prepared release has a target.
Prepared ==
  /\ pending # None => state[pending] # "unused"
  /\ \A c \in Calls : arg[c] # None => state[arg[c]] # "unused"
  /\ \A e \in Effects : e \in inflight => state[e[1]] # "unused"
  /\ \A r \in Releases : state[r] # "unused" => target[r] \in Deploys

Typed == RecordTyped /\ CallsTyped /\ ProviderTyped /\ Prepared

USE DeploymentsAssumption DEF Ops, Effects, Deploying, Releasing, Told

\* The initial record has its type, and no call awaits.
LEMMA InitTyped == Init => Typed
<1> SUFFICES ASSUME Init PROVE Typed
  OBVIOUS
<1>1. RecordTyped
  <2>1. releases \in Seq(Deploys)
    <3>1. CASE releases = <<>>
      BY <3>1
    <3>2. CASE \E d \in Built : releases = <<d>>
      BY <3>2
    <3> QED
      BY <3>1, <3>2 DEF Init
  <2> QED
    BY <2>1 DEF Init, RecordTyped, DeployStates, ReleaseStates, Kinds
<1>2. CallsTyped
  BY DEF Init, CallsTyped, Awaits
<1>3. ProviderTyped /\ Prepared
  BY DEF Init, ProviderTyped, Prepared
<1> QED
  BY <1>1, <1>2, <1>3 DEF Typed

\* Moving a call keeps the type of the calls' state.
LEMMA AwaitTyped ==
  ASSUME CallsTyped, NEW c \in Calls, NEW l \in Awaits, NEW o \in Ops \cup {None}, NEW s \in Told,
         Await(c, l, o, s), fresh' \subseteq Calls,
         l \in Deploying => o \in Deploys,
         l \in Releasing => o \in Releases,
         l \in {"reading", "read"} => o \in Releases \cup {None},
         l = "configuring" => s \in Vars,
         l = "matching" => s \in {"submitting", "uncertain"},
         l \in {"read", "stored"} => s \in Deploys \cup {Other, None}
  PROVE  CallsTyped'
  BY DEF CallsTyped, Await

\* A call that returns awaits nothing any more.
LEMMA ReturnTyped ==
  ASSUME CallsTyped, NEW c \in Calls, Return(c), fresh' \subseteq Calls
  PROVE  CallsTyped'
  BY DEF CallsTyped, Return, Await, Awaits

\* So does a refused one, whose caller may start afresh.
LEMMA RefusedTyped ==
  ASSUME CallsTyped, NEW c \in Calls, Refused(c)
  PROVE  CallsTyped'
<1>1. fresh' \subseteq Calls
  BY DEF CallsTyped, Refused
<1> QED
  BY <1>1, ReturnTyped DEF Refused

\* A step that moves an operation on, and at most ends it, keeps the type of the record.
LEMMA StateTyped ==
  ASSUME RecordTyped, NEW o \in Ops, NEW s \in DeployStates \cup ReleaseStates, SetState(o, s),
         pending' \in {pending, None},
         recorded' \in [Deploys -> {"none", "building", "READY", "ERROR"}],
         UNCHANGED <<attempt, receipts, kind, target, expected, releases, serving, stale, remapped>>
  PROVE  RecordTyped'
  BY DEF RecordTyped, SetState

\* Recording a submission keeps the type of the record.
LEMMA SubmittedTyped ==
  ASSUME Typed, NEW d \in Deploys, Submitted(d),
         UNCHANGED <<pending, attempt, receipts, kind, target, expected, releases, serving, stale,
                     remapped>>
  PROVE  RecordTyped'
<1>1. recorded' \in [Deploys -> {"none", "building", "READY", "ERROR"}]
  BY DEF Submitted, Typed, RecordTyped, ProviderTyped
<1> QED
  BY <1>1, StateTyped DEF Submitted, Typed, DeployStates

\* So does a step that leaves the record alone.
LEMMA UnchangedTyped ==
  ASSUME RecordTyped, UNCHANGED record
  PROVE  RecordTyped'
  BY DEF RecordTyped, record

\* Every step keeps the type of the record.
LEMMA RecordStep ==
  ASSUME Typed, Next
  PROVE  RecordTyped'
<1>1. ASSUME UNCHANGED record PROVE RecordTyped'
  BY <1>1 DEF Typed, RecordTyped, record
<1>2. ASSUME NEW d \in Deploys, PrepareDeploy(d) PROVE RecordTyped'
  BY <1>2 DEF PrepareDeploy, SetState, Refused, record, Typed, CallsTyped, RecordTyped, DeployStates, ReleaseStates
<1>3. ASSUME NEW c \in Calls, NEW v \in Vars, ConfigAttempt(c, v) PROVE RecordTyped'
  BY <1>3 DEF ConfigAttempt, SetState, Refused, record, Typed, CallsTyped, RecordTyped, DeployStates, ReleaseStates
<1>4. ASSUME NEW c \in Calls, ConfigReceipt(c) PROVE RecordTyped'
  BY <1>4 DEF ConfigReceipt, AttemptMine, SetState, Refused, record, Typed, CallsTyped, RecordTyped, DeployStates, ReleaseStates
<1>5. ASSUME NEW c \in Calls, ConfigUncertain(c) PROVE RecordTyped'
  BY <1>5 DEF ConfigUncertain, SetState, Refused, record, Typed, CallsTyped, RecordTyped, DeployStates, ReleaseStates
<1>6. ASSUME NEW c \in Calls, SubmissionBoundary(c) PROVE RecordTyped'
  BY <1>6 DEF SubmissionBoundary, SetState, Refused, record, Typed, CallsTyped, RecordTyped, DeployStates, ReleaseStates
<1>7. ASSUME NEW c \in Calls, SubmissionAnswered(c) PROVE RecordTyped'
  <2>1. CASE Refused(c)
    BY <2>1, UnchangedTyped DEF Refused, Typed
  <2>2. CASE Submitted(arg[c]) /\ ~Refused(c)
    BY <1>7, <2>2, SubmittedTyped DEF SubmissionAnswered, Typed, CallsTyped
  <2>3. CASE SetState(arg[c], "uncertain") /\ UNCHANGED recorded /\ ~Refused(c)
    <3>1. arg[c] \in Ops /\ "uncertain" \in DeployStates
      BY <1>7 DEF SubmissionAnswered, Typed, CallsTyped, DeployStates
    <3> QED
      BY <1>7, <2>3, <3>1, StateTyped DEF SubmissionAnswered, Typed, RecordTyped
  <2> QED
    BY <1>7, <2>1, <2>2, <2>3 DEF SubmissionAnswered
<1>8. ASSUME NEW c \in Calls, Reconcile(c) PROVE RecordTyped'
  BY <1>8, StateTyped, SubmittedTyped, UnchangedTyped
     DEF Reconcile, Refused, Typed, CallsTyped, DeployStates
<1>9. ASSUME NEW c \in Calls, Observe(c) PROVE RecordTyped'
  <2>1. arg[c] \in Deploys
    BY <1>9 DEF Observe, Typed, CallsTyped
  <2> QED
    BY <1>9, <2>1 DEF Observe, record, Typed, RecordTyped, ProviderTyped
<1>10. ASSUME NEW c \in Calls, SettleDeploy(c) PROVE RecordTyped'
  <2>1. arg[c] \in Ops /\ Outcome(arg[c]) \in DeployStates
    BY <1>10 DEF SettleDeploy, Outcome, Typed, CallsTyped, DeployStates
  <2> QED
    BY <1>10, <2>1, StateTyped, UnchangedTyped DEF SettleDeploy, Refused, Typed, RecordTyped
<1>11. ASSUME NEW r \in Releases, NEW k \in Kinds, NEW d \in Deploys, PrepareRelease(r, k, d) PROVE RecordTyped'
  BY <1>11 DEF PrepareRelease, SetState, Refused, record, Typed, CallsTyped, RecordTyped, DeployStates, ReleaseStates, Prepared, Kinds
<1>12. ASSUME NEW c \in Calls, NEW r \in Releases, ExecuteBegin(c, r) PROVE RecordTyped'
  BY <1>12 DEF ExecuteBegin, SetState, Refused, record, Typed, CallsTyped, RecordTyped, DeployStates, ReleaseStates
<1>13. ASSUME NEW c \in Calls, PreflightFails(c) PROVE RecordTyped'
  <2>1. /\ arg[c] \in Ops
        /\ {"failed", "verifying", "uncertain", "safe_stop"} \subseteq ReleaseStates
    BY <1>13 DEF PreflightFails, Typed, CallsTyped, ReleaseStates
  <2> QED
    BY <1>13, <2>1, StateTyped, UnchangedTyped DEF PreflightFails, Refused, Typed, RecordTyped
<1>14. ASSUME NEW c \in Calls, SwitchAnswered(c) PROVE RecordTyped'
  <2>1. /\ arg[c] \in Ops
        /\ {"failed", "verifying", "uncertain", "safe_stop"} \subseteq ReleaseStates
    BY <1>14 DEF SwitchAnswered, Typed, CallsTyped, ReleaseStates
  <2> QED
    BY <1>14, <2>1, StateTyped, UnchangedTyped DEF SwitchAnswered, Refused, Typed, RecordTyped
<1>15. ASSUME NEW c \in Calls, StoreServing(c) PROVE RecordTyped'
  BY <1>15 DEF StoreServing, Reduced, SetState, Refused, record, Typed, CallsTyped, RecordTyped, DeployStates, ReleaseStates
<1>16. ASSUME NEW c \in Calls, TargetSeen(c) PROVE RecordTyped'
  <2>1. /\ arg[c] \in Ops
        /\ {"failed", "verifying", "uncertain", "safe_stop"} \subseteq ReleaseStates
    BY <1>16 DEF TargetSeen, Typed, CallsTyped, ReleaseStates
  <2> QED
    BY <1>16, <2>1, StateTyped, UnchangedTyped DEF TargetSeen, Refused, Typed, RecordTyped
<1>17. ASSUME NEW c \in Calls, TargetNotSeen(c) PROVE RecordTyped'
  <2>1. /\ arg[c] \in Ops
        /\ {"failed", "verifying", "uncertain", "safe_stop"} \subseteq ReleaseStates
    BY <1>17 DEF TargetNotSeen, Typed, CallsTyped, ReleaseStates
  <2> QED
    BY <1>17, <2>1, StateTyped, UnchangedTyped DEF TargetNotSeen, Refused, Typed, RecordTyped
<1>18. ASSUME NEW c \in Calls, Finalize(c) PROVE RecordTyped'
  <2> DEFINE r == arg[c]
  <2>1. r \in Releases
    BY <1>18 DEF Finalize, Typed, CallsTyped
  <2>2. CASE MayFinalize(r)
    <3>1. SetState(r, "completed") /\ "completed" \in ReleaseStates
      BY <1>18, <2>2 DEF Finalize, ReleaseStates
    <3>2. target[r] \in Deploys
      BY <2>1, <2>2 DEF MayFinalize, Typed, Prepared
    <3>3. Append(releases, target[r]) \in Seq(Deploys) /\ releases \in Seq(Deploys)
      BY <3>2, AppendProperties DEF Typed, RecordTyped
    <3> QED
      BY <1>18, <2>1, <2>2, <3>1, <3>3 DEF Finalize, SetState, Typed, RecordTyped
  <2>3. CASE ~MayFinalize(r)
    BY <1>18, <2>3, UnchangedTyped DEF Finalize, Refused, Typed
  <2> QED
    BY <2>2, <2>3
<1>19. ASSUME Remap PROVE RecordTyped'
  BY <1>19 DEF Remap, ByOthers, SetState, Refused, record, Typed, CallsTyped, RecordTyped, DeployStates, ReleaseStates
<1>20. ASSUME ChangeSnapshotted PROVE RecordTyped'
  BY <1>20 DEF ChangeSnapshotted, ByOthers, SetState, Refused, record, Typed, CallsTyped, RecordTyped, DeployStates, ReleaseStates
<1> QED
  BY <1>1, <1>2, <1>3, <1>4, <1>5, <1>6, <1>7, <1>8, <1>9, <1>10, <1>11, <1>12, <1>13, <1>14, <1>15, <1>16, <1>17, <1>18, <1>19, <1>20 DEF Next, Call, Begin,
     SubmitBegin, ConfigReceiptRefused, SubmitAbandoned, ReconcileBegin, ObserveBegin, Switch, ObserveReleaseBegin, ObserveReleaseRefused, ReadServing, Land, BuildEnds, SwitchedOutside, Crash, Refused

\* Every step keeps the type of the calls.
LEMMA CallsStep ==
  ASSUME Typed, Next
  PROVE  CallsTyped'
<1>1. ASSUME UNCHANGED <<pc, arg, seen>>, fresh' = {} \/ fresh' = fresh PROVE CallsTyped'
  BY <1>1 DEF Typed, CallsTyped
<1>2. ASSUME NEW c \in Calls, NEW d \in Deploys, SubmitBegin(c, d) PROVE CallsTyped'
  BY <1>2, AwaitTyped
     DEF SubmitBegin, Revised, Typed, RecordTyped, CallsTyped, ProviderTyped, Awaits
<1>3. ASSUME NEW c \in Calls, NEW v \in Vars, ConfigAttempt(c, v) PROVE CallsTyped'
  BY <1>3, AwaitTyped
     DEF ConfigAttempt, Revised, Typed, RecordTyped, CallsTyped, ProviderTyped, Awaits
<1>4. ASSUME NEW c \in Calls, ConfigReceipt(c) PROVE CallsTyped'
  BY <1>4, AwaitTyped
     DEF ConfigReceipt, AttemptMine, Revised, Typed, RecordTyped, CallsTyped, ProviderTyped, Awaits
<1>5. ASSUME NEW c \in Calls, ConfigReceiptRefused(c) PROVE CallsTyped'
  BY <1>5, RefusedTyped
     DEF ConfigReceiptRefused, Revised, Typed, RecordTyped, CallsTyped, ProviderTyped, Awaits
<1>6. ASSUME NEW c \in Calls, ConfigUncertain(c) PROVE CallsTyped'
  BY <1>6, ReturnTyped, RefusedTyped
     DEF ConfigUncertain, Revised, Typed, RecordTyped, CallsTyped, ProviderTyped, Awaits
<1>7. ASSUME NEW c \in Calls, SubmissionBoundary(c) PROVE CallsTyped'
  BY <1>7, AwaitTyped
     DEF SubmissionBoundary, Revised, Typed, RecordTyped, CallsTyped, ProviderTyped, Awaits
<1>8. ASSUME NEW c \in Calls, SubmitAbandoned(c) PROVE CallsTyped'
  BY <1>8, RefusedTyped
     DEF SubmitAbandoned, Revised, Typed, RecordTyped, CallsTyped, ProviderTyped, Awaits
<1>9. ASSUME NEW c \in Calls, SubmissionAnswered(c) PROVE CallsTyped'
  BY <1>9, ReturnTyped, RefusedTyped
     DEF SubmissionAnswered, Submitted, Revised, Typed, RecordTyped, CallsTyped, ProviderTyped, Awaits
<1>10. ASSUME NEW c \in Calls, NEW d \in Deploys, ReconcileBegin(c, d) PROVE CallsTyped'
  BY <1>10, AwaitTyped
     DEF ReconcileBegin, Revised, Typed, RecordTyped, CallsTyped, ProviderTyped, Awaits
<1>11. ASSUME NEW c \in Calls, Reconcile(c) PROVE CallsTyped'
  BY <1>11, ReturnTyped, RefusedTyped
     DEF Reconcile, Submitted, Revised, Typed, RecordTyped, CallsTyped, ProviderTyped, Awaits
<1>12. ASSUME NEW c \in Calls, NEW d \in Deploys, ObserveBegin(c, d) PROVE CallsTyped'
  BY <1>12, AwaitTyped
     DEF ObserveBegin, Revised, Typed, RecordTyped, CallsTyped, ProviderTyped, Awaits
<1>13. ASSUME NEW c \in Calls, Observe(c) PROVE CallsTyped'
  BY <1>13, AwaitTyped, ReturnTyped
     DEF Observe, Revised, Typed, RecordTyped, CallsTyped, ProviderTyped, Awaits
<1>14. ASSUME NEW c \in Calls, SettleDeploy(c) PROVE CallsTyped'
  BY <1>14, ReturnTyped, RefusedTyped
     DEF SettleDeploy, Outcome, Revised, Typed, RecordTyped, CallsTyped, ProviderTyped, Awaits
<1>15. ASSUME NEW c \in Calls, NEW r \in Releases, ExecuteBegin(c, r) PROVE CallsTyped'
  BY <1>15, AwaitTyped
     DEF ExecuteBegin, Revised, Typed, RecordTyped, CallsTyped, ProviderTyped, Awaits
<1>16. ASSUME NEW c \in Calls, PreflightFails(c) PROVE CallsTyped'
  BY <1>16, ReturnTyped
     DEF PreflightFails, Revised, Typed, RecordTyped, CallsTyped, ProviderTyped, Awaits
<1>17. ASSUME NEW c \in Calls, Switch(c) PROVE CallsTyped'
  BY <1>17, AwaitTyped, ReturnTyped
     DEF Switch, Revised, Typed, RecordTyped, CallsTyped, ProviderTyped, Awaits
<1>18. ASSUME NEW c \in Calls, SwitchAnswered(c) PROVE CallsTyped'
  BY <1>18, AwaitTyped, RefusedTyped
     DEF SwitchAnswered, Revised, Typed, RecordTyped, CallsTyped, ProviderTyped, Awaits
<1>19. ASSUME NEW c \in Calls, NEW o \in Ops \cup {None}, ObserveReleaseBegin(c, o) PROVE CallsTyped'
  BY <1>19, AwaitTyped
     DEF ObserveReleaseBegin, Revised, Typed, RecordTyped, CallsTyped, ProviderTyped, Awaits
<1>20. ASSUME NEW c \in Calls, ObserveReleaseRefused(c) PROVE CallsTyped'
  BY <1>20, RefusedTyped
     DEF ObserveReleaseRefused, Revised, Typed, RecordTyped, CallsTyped, ProviderTyped, Awaits
<1>21. ASSUME NEW c \in Calls, ReadServing(c) PROVE CallsTyped'
  <2>1. PICK s \in {live, None} : Await(c, "read", arg[c], s)
    BY <1>21 DEF ReadServing
  <2>2. /\ s \in Deploys \cup {Other, None} /\ arg[c] \in Releases \cup {None} /\ "read" \in Awaits
        /\ fresh' \subseteq Calls
    BY <1>21 DEF ReadServing, Typed, CallsTyped, ProviderTyped, Awaits
  <2> QED
    BY <2>1, <2>2, AwaitTyped DEF Typed
<1>22. ASSUME NEW c \in Calls, StoreServing(c) PROVE CallsTyped'
  BY <1>22, AwaitTyped, ReturnTyped, RefusedTyped
     DEF StoreServing, Reduced, Revised, Typed, RecordTyped, CallsTyped, ProviderTyped, Awaits
<1>23. ASSUME NEW c \in Calls, TargetSeen(c) PROVE CallsTyped'
  BY <1>23, AwaitTyped, RefusedTyped
     DEF TargetSeen, SawTarget, Revised, Typed, RecordTyped, CallsTyped, ProviderTyped, Awaits
<1>24. ASSUME NEW c \in Calls, TargetNotSeen(c) PROVE CallsTyped'
  BY <1>24, ReturnTyped, RefusedTyped
     DEF TargetNotSeen, Revised, Typed, RecordTyped, CallsTyped, ProviderTyped, Awaits
<1>25. ASSUME NEW c \in Calls, Finalize(c) PROVE CallsTyped'
  BY <1>25, ReturnTyped, RefusedTyped
     DEF Finalize, MayFinalize, Revised, Typed, RecordTyped, CallsTyped, ProviderTyped, Awaits
<1>26. ASSUME Crash PROVE CallsTyped'
  BY <1>26
     DEF Crash, Revised, Typed, RecordTyped, CallsTyped, ProviderTyped, Awaits
<1>27. pending \in Ops \cup {None} /\ \A c \in Calls : arg[c] \in Ops \cup {None}
  BY DEF Typed, RecordTyped, CallsTyped
<1> QED
  BY <1>1, <1>2, <1>3, <1>4, <1>5, <1>6, <1>7, <1>8, <1>9, <1>10, <1>11, <1>12, <1>13, <1>14, <1>15, <1>16, <1>17, <1>18, <1>19, <1>20, <1>21, <1>22, <1>23, <1>24, <1>25, <1>26, <1>27 DEF Next, Call, Begin,
     PrepareDeploy, PrepareRelease, Remap, ChangeSnapshotted, Land, BuildEnds, SwitchedOutside, Revised, calls

\* Every step keeps the type of the provider.
LEMMA ProviderStep ==
  ASSUME Typed, Next
  PROVE  ProviderTyped'
<1>1. ASSUME UNCHANGED provider PROVE ProviderTyped'
  BY <1>1 DEF Typed, ProviderTyped, provider
<1>2. ASSUME NEW c \in Calls, NEW v \in Vars, ConfigAttempt(c, v) PROVE ProviderTyped'
  BY <1>2
     DEF ConfigAttempt, Ask, provider, Typed, RecordTyped, CallsTyped, ProviderTyped, Prepared
<1>3. ASSUME NEW c \in Calls, SubmissionBoundary(c) PROVE ProviderTyped'
  BY <1>3
     DEF SubmissionBoundary, Ask, provider, Typed, RecordTyped, CallsTyped, ProviderTyped, Prepared
<1>4. ASSUME NEW r \in Releases, NEW k \in Kinds, NEW d \in Deploys, PrepareRelease(r, k, d) PROVE ProviderTyped'
  BY <1>4
     DEF PrepareRelease, Ask, provider, Typed, RecordTyped, CallsTyped, ProviderTyped, Prepared
<1>5. ASSUME NEW c \in Calls, Switch(c) PROVE ProviderTyped'
  <2>1. <<arg[c], "switch">> \in Effects
    BY <1>5 DEF Switch, Typed, CallsTyped
  <2> QED
    BY <1>5, <2>1 DEF Switch, Ask, provider, Typed, ProviderTyped
<1>6. ASSUME Remap PROVE ProviderTyped'
  BY <1>6
     DEF Remap, ByOthers, Ask, provider, Typed, RecordTyped, CallsTyped, ProviderTyped, Prepared
<1>7. ASSUME ChangeSnapshotted PROVE ProviderTyped'
  BY <1>7
     DEF ChangeSnapshotted, ByOthers, Ask, provider, Typed, RecordTyped, CallsTyped, ProviderTyped, Prepared
<1>8. ASSUME NEW e \in Effects, Land(e) PROVE ProviderTyped'
  BY <1>8
     DEF Land, Live, Ask, provider, Typed, RecordTyped, CallsTyped, ProviderTyped, Prepared
<1>9. ASSUME NEW d \in Deploys, BuildEnds(d) PROVE ProviderTyped'
  BY <1>9
     DEF BuildEnds, Ask, provider, Typed, RecordTyped, CallsTyped, ProviderTyped, Prepared
<1>10. ASSUME NEW d \in Deploys \cup {Other}, SwitchedOutside(d) PROVE ProviderTyped'
  BY <1>10
     DEF SwitchedOutside, ByOthers, Live, Ask, provider, Typed, RecordTyped, CallsTyped, ProviderTyped, Prepared
<1> QED
  BY <1>1, <1>2, <1>3, <1>4, <1>5, <1>6, <1>7, <1>8, <1>9, <1>10 DEF Next, Call, Begin,
     PrepareDeploy, SubmitBegin, ConfigReceipt, ConfigReceiptRefused, ConfigUncertain, SubmitAbandoned, SubmissionAnswered, ReconcileBegin, Reconcile, ObserveBegin, Observe, SettleDeploy, ExecuteBegin, PreflightFails, SwitchAnswered, ObserveReleaseBegin, ObserveReleaseRefused, ReadServing, StoreServing, TargetSeen, TargetNotSeen, Finalize, Crash, Refused

----------------------------------------------------------------------------
\* How operations move.

\* The moves of a pending deployment and of a pending release.
DeployMoves ==
  ({"prepared", "projecting"} \X {"projecting", "submitting"})
    \cup {<<"submitting", "submitted">>, <<"submitting", "uncertain">>, <<"uncertain", "submitted">>}
    \cup {<<"submitted", "confirmed">>, <<"submitted", "failed">>}

ReleaseMoves ==
  {<<"prepared", "switching">>, <<"prepared", "failed">>, <<"switching", "failed">>,
   <<"switching", "verifying">>, <<"switching", "uncertain">>, <<"verifying", "completed">>}
    \cup ({"switching", "uncertain", "safe_stop"} \X {"verifying"})
    \cup ({"switching", "verifying", "uncertain"} \X {"safe_stop"})

Closed == {"confirmed", "completed", "failed"}

Prepares(o) ==
  /\ state[o] = "unused" /\ SetState(o, "prepared") /\ pending' = o
  /\ pending = None \/ (pending \in Releases /\ state[pending] = "safe_stop")
  /\ IF o \in Releases THEN \E d \in Deploys : target' = [target EXCEPT ![o] = d] ELSE UNCHANGED target

Moves(o, s) ==
  /\ pending = o /\ SetState(o, s)
  /\ <<state[o], s>> \in IF o \in Deploys THEN DeployMoves ELSE ReleaseMoves
  /\ pending' = IF s \in Closed THEN None ELSE o
  /\ UNCHANGED target

\* Every step prepares an operation, moves the pending one, or neither.
LEMMA Shapes ==
  ASSUME Typed, Next
  PROVE  \/ UNCHANGED <<state, pending, target>>
         \/ \E o \in Ops : Prepares(o)
         \/ \E o \in Ops, s \in DeployStates \cup ReleaseStates : Moves(o, s)
<1> DEFINE Goal == \/ UNCHANGED <<state, pending, target>>
                   \/ \E o \in Ops : Prepares(o)
                   \/ \E o \in Ops, s \in DeployStates \cup ReleaseStates : Moves(o, s)
<1> USE DEF DeployMoves, ReleaseMoves, Closed, DeployStates, ReleaseStates
<1>1. ASSUME NEW d \in Deploys, PrepareDeploy(d) PROVE Goal
  BY <1>1 DEF PrepareDeploy, Prepares
<1>2. ASSUME NEW r \in Releases, NEW k \in Kinds, NEW d \in Deploys, PrepareRelease(r, k, d) PROVE Goal
  BY <1>2 DEF PrepareRelease, MayPrepareRelease, Prepares
<1>3. ASSUME NEW c \in Calls, arg[c] \in Deploys,
             \/ \E v \in Vars : ConfigAttempt(c, v)
             \/ SubmissionBoundary(c) \/ SubmissionAnswered(c) \/ Reconcile(c) \/ SettleDeploy(c)
      PROVE Goal
  <2>1. CASE \E v \in Vars : ConfigAttempt(c, v)
    BY <1>3, <2>1 DEF ConfigAttempt, MaySubmit, SnapshotValid, Moves
  <2>2. CASE SubmissionBoundary(c)
    BY <1>3, <2>2 DEF SubmissionBoundary, MayCrossBoundary, MaySubmit, SnapshotValid, Moves
  <2>3. CASE SubmissionAnswered(c)
    BY <1>3, <2>3 DEF SubmissionAnswered, SnapshotValid, Submitted, Refused, record, Moves
  <2>4. CASE Reconcile(c)
    <3>1. CASE Refused(c)
      BY <3>1 DEF Refused, record
    <3>2. CASE Submitted(arg[c]) /\ state[arg[c]] \in {"submitting", "uncertain"} /\ SnapshotValid(arg[c])
               /\ UNCHANGED <<pending, target>>
      BY <1>3, <3>2 DEF SnapshotValid, Submitted, Moves
    <3>3. seen[c] \in {"submitting", "uncertain"}
      BY <2>4 DEF Reconcile, Typed, CallsTyped
    <3> QED
      BY <2>4, <3>1, <3>2, <3>3 DEF Reconcile
  <2>5. CASE SettleDeploy(c)
    BY <1>3, <2>5 DEF SettleDeploy, SnapshotValid, Outcome, Refused, record, Moves
  <2> QED
    BY <1>3, <2>1, <2>2, <2>3, <2>4, <2>5
<1>4. ASSUME NEW c \in Calls, NEW r \in Releases, ExecuteBegin(c, r) PROVE Goal
  BY <1>4 DEF ExecuteBegin, Moves
<1>5. ASSUME NEW c \in Calls, arg[c] \in Releases,
             \/ PreflightFails(c) \/ SwitchAnswered(c) \/ TargetSeen(c) \/ TargetNotSeen(c) \/ Finalize(c)
      PROVE Goal
  <2>1. CASE PreflightFails(c)
    BY <1>5, <2>1 DEF PreflightFails, record, Moves
  <2>2. CASE SwitchAnswered(c)
    BY <1>5, <2>2 DEF SwitchAnswered, Refused, record, Moves
  <2>3. CASE TargetSeen(c)
    BY <1>5, <2>3 DEF TargetSeen, SawTarget, Refused, record, Moves
  <2>4. CASE TargetNotSeen(c)
    BY <1>5, <2>4 DEF TargetNotSeen, Refused, record, Moves
  <2>5. CASE Finalize(c)
    BY <1>5, <2>5 DEF Finalize, MayFinalize, Refused, record, Moves
  <2> QED
    BY <1>5, <2>1, <2>2, <2>3, <2>4, <2>5
<1>6. ASSUME NEW c \in Calls, Call(c) \/ Begin(c) PROVE Goal
  <2>1. CASE UNCHANGED <<state, pending, target>>
    BY <2>1
  <2>2. CASE Begin(c)
    BY <1>4, <2>2 DEF Begin, SubmitBegin, ReconcileBegin, ObserveBegin, ObserveReleaseBegin, record
  <2>3. CASE \/ ConfigReceipt(c) \/ ConfigReceiptRefused(c) \/ ConfigUncertain(c) \/ SubmitAbandoned(c)
             \/ Observe(c) \/ Switch(c) \/ ObserveReleaseBegin(c, arg[c]) \/ ObserveReleaseRefused(c)
             \/ ReadServing(c) \/ StoreServing(c)
    BY <2>1, <2>3 DEF ConfigReceipt, ConfigReceiptRefused, ConfigUncertain, SubmitAbandoned, Observe,
       Switch, ObserveReleaseBegin, ObserveReleaseRefused, ReadServing, StoreServing, Refused, record
  <2>4. /\ (\E v \in Vars : ConfigAttempt(c, v)) \/ SubmissionBoundary(c) \/ SubmissionAnswered(c)
             \/ Reconcile(c) \/ SettleDeploy(c) => arg[c] \in Deploys
        /\ PreflightFails(c) \/ SwitchAnswered(c) \/ TargetSeen(c) \/ TargetNotSeen(c) \/ Finalize(c)
             => arg[c] \in Releases
    BY DEF ConfigAttempt, SubmissionBoundary, SubmissionAnswered, Reconcile, SettleDeploy,
       PreflightFails, SwitchAnswered, TargetSeen, TargetNotSeen, Finalize, Typed, CallsTyped
  <2> QED
    BY <1>3, <1>5, <1>6, <2>2, <2>3, <2>4 DEF Call
<1>7. ASSUME \/ Remap \/ ChangeSnapshotted \/ Crash
             \/ \E e \in Effects : Land(e)
             \/ \E d \in Deploys : BuildEnds(d)
             \/ \E d \in Deploys \cup {Other} : SwitchedOutside(d)
      PROVE UNCHANGED <<state, pending, target>>
  BY <1>7 DEF Remap, ChangeSnapshotted, Crash, Land, BuildEnds, SwitchedOutside, record
<1> QED
  BY <1>1, <1>2, <1>6, <1>7 DEF Next

\* What is under way is pending; only a release that stopped safe may have been
\* replaced.
Open ==
  /\ \A d \in Deploys : state[d] \in DeployStates
  /\ \A r \in Releases : state[r] \in ReleaseStates
  /\ \A o \in Ops : state[o] \notin {"unused", "safe_stop"} \cup Closed => pending = o

\* At most the pending operation is open.
LEMMA OpenStep ==
  ASSUME Typed, Open, Next
  PROVE  Open'
<1> USE DEF DeployStates, ReleaseStates, Closed
<1>1. CASE UNCHANGED <<state, pending, target>>
  BY <1>1 DEF Open
<1>2. ASSUME NEW o \in Ops, Prepares(o) PROVE Open'
  BY <1>2 DEF Prepares, SetState, Open, Typed, RecordTyped
<1>3. ASSUME NEW o \in Ops, NEW s \in DeployStates \cup ReleaseStates, Moves(o, s) PROVE Open'
  <2>1. IF o \in Deploys THEN s \in DeployStates ELSE s \in ReleaseStates
    BY <1>3 DEF Moves, DeployMoves, ReleaseMoves
  <2>2. state' = [state EXCEPT ![o] = s] /\ state \in [Ops -> DeployStates \cup ReleaseStates]
    BY <1>3 DEF Moves, SetState, Typed, RecordTyped
  <2>3. /\ \A d \in Deploys : state'[d] \in DeployStates
        /\ \A r \in Releases : state'[r] \in ReleaseStates
    BY <2>1, <2>2 DEF Open
  <2> QED
    BY <1>3, <2>2, <2>3 DEF Moves, Open
<1> QED
  BY <1>1, <1>2, <1>3, Shapes

\* Nothing becomes unused again.
LEMMA StaysUsed ==
  ASSUME Typed, Next, NEW o \in Ops, state[o] # "unused"
  PROVE  state'[o] # "unused"
<1>1. ASSUME NEW q \in Ops, NEW s, SetState(q, s), s # "unused" PROVE state'[o] # "unused"
  BY <1>1 DEF SetState, Typed, RecordTyped
<1>2. ASSUME NEW q \in Ops, NEW s, Moves(q, s) PROVE s # "unused"
  BY <1>2 DEF Moves, DeployMoves, ReleaseMoves
<1> QED
  BY <1>1, <1>2, Shapes DEF Moves, Prepares

\* A call comes to await only on an operation that was prepared.
LEMMA ArgStep ==
  ASSUME Typed, Next, NEW c \in Calls
  PROVE  arg'[c] \in {arg[c], None} \/ (arg'[c] \in Ops /\ state[arg'[c]] # "unused")
<1> DEFINE Goal == arg'[c] \in {arg[c], None} \/ (arg'[c] \in Ops /\ state[arg'[c]] # "unused")
<1>1. ASSUME NEW b \in Calls, NEW l, NEW o \in Ops \cup {None}, NEW s, Await(b, l, o, s),
             o \in {arg[b], None} \/ state[o] # "unused"
      PROVE  Goal
  BY <1>1 DEF Await, Typed, CallsTyped
<1>2. ASSUME NEW b \in Calls, Return(b) PROVE Goal
  BY <1>1, <1>2 DEF Return
<1>3. ASSUME UNCHANGED arg PROVE Goal
  BY <1>3
<1>4. ASSUME NEW b \in Calls, Begin(b) PROVE Goal
  <2>1. CASE \E d \in Deploys : SubmitBegin(b, d) \/ ReconcileBegin(b, d) \/ ObserveBegin(b, d)
    BY <1>1, <2>1 DEF SubmitBegin, MaySubmit, ReconcileBegin, ObserveBegin
  <2>2. CASE \E r \in Releases : ExecuteBegin(b, r)
    BY <1>1, <2>2 DEF ExecuteBegin
  <2>3. CASE ObserveReleaseBegin(b, pending)
    BY <1>1, <2>3 DEF ObserveReleaseBegin, Typed, Prepared
  <2> QED
    BY <1>4, <2>1, <2>2, <2>3 DEF Begin
<1>5. ASSUME NEW b \in Calls, Call(b) PROVE Goal
  <2>1. arg[b] \in Ops \cup {None}
    BY DEF Typed, CallsTyped
  <2>2. ASSUME NEW l, NEW s, Await(b, l, arg[b], s) PROVE Goal
    BY <1>1, <2>1, <2>2
  <2>3. ASSUME Refused(b) PROVE Goal
    BY <1>2, <2>3 DEF Refused
  <2> QED
    BY <1>2, <1>5, <2>2, <2>3 DEF Call, ConfigAttempt, ConfigReceipt, ConfigReceiptRefused,
       ConfigUncertain, SubmissionBoundary, SubmitAbandoned, SubmissionAnswered, Reconcile, Observe,
       SettleDeploy, PreflightFails, Switch, SwitchAnswered, ObserveReleaseBegin,
       ObserveReleaseRefused, ReadServing, StoreServing, TargetSeen, TargetNotSeen, Finalize
<1> QED
  <2>1. CASE Crash
    BY <2>1 DEF Crash
  <2> QED
    BY <1>3, <1>4, <1>5, <2>1 DEF Next, PrepareDeploy, BuildEnds, PrepareRelease, Remap,
       ChangeSnapshotted, Land, SwitchedOutside, calls

\* What is asked of the provider.
Asks(e) == Ask(e) /\ e \in Effects /\ state[e[1]] # "unused"

\* An effect only comes under way by being asked for.
LEMMA InflightStep ==
  ASSUME Typed, Next
  PROVE  inflight' \subseteq inflight \/ \E e \in Effects : Asks(e)
<1>1. ASSUME NEW c \in Calls, NEW v \in Vars, ConfigAttempt(c, v) PROVE Asks(<<arg[c], v>>)
  BY <1>1 DEF ConfigAttempt, MaySubmit, Asks, Typed, CallsTyped
<1>2. ASSUME NEW c \in Calls, SubmissionBoundary(c) PROVE Asks(<<arg[c], "deploy">>)
  BY <1>2 DEF SubmissionBoundary, MayCrossBoundary, MaySubmit, Asks, Typed, CallsTyped
<1>3. ASSUME NEW c \in Calls, Switch(c) PROVE UNCHANGED inflight \/ Asks(<<arg[c], "switch">>)
  BY <1>3 DEF Switch, MaySwitch, Asks, Typed, CallsTyped, provider
<1>4. ASSUME NEW c \in Calls, Call(c) \/ Begin(c)
      PROVE inflight' \subseteq inflight \/ \E e \in Effects : Asks(e)
  BY <1>1, <1>2, <1>3, <1>4 DEF Call, Begin, SubmitBegin, ReconcileBegin, ObserveBegin, ExecuteBegin,
     ConfigReceipt, ConfigReceiptRefused, ConfigUncertain, SubmitAbandoned, SubmissionAnswered,
     Reconcile, Observe, SettleDeploy, PreflightFails, SwitchAnswered, ObserveReleaseBegin,
     ObserveReleaseRefused, ReadServing, StoreServing, TargetSeen, TargetNotSeen, Finalize,
     Refused, provider, Asks
<1>5. ASSUME NEW e \in Effects, Land(e) PROVE inflight' \subseteq inflight
  BY <1>5 DEF Land
<1> QED
  BY <1>4, <1>5 DEF Next, PrepareDeploy, BuildEnds, PrepareRelease, Remap, ChangeSnapshotted,
     SwitchedOutside, Crash, provider

\* Whatever is pending, worked on or under way was prepared before.
LEMMA PreparedStep ==
  ASSUME Typed, Next
  PROVE  Prepared'
<1>1. ASSUME pending' # None PROVE state'[pending'] # "unused"
  <2>1. CASE UNCHANGED <<state, pending, target>>
    BY <1>1, <2>1 DEF Typed, Prepared
  <2>2. ASSUME NEW o \in Ops, Prepares(o) PROVE state'[pending'] # "unused"
    BY <2>2 DEF Prepares, SetState, Typed, RecordTyped
  <2>3. ASSUME NEW o \in Ops, NEW s, Moves(o, s) PROVE state'[pending'] # "unused"
    BY <1>1, <2>3 DEF Moves, SetState, DeployMoves, ReleaseMoves, Typed, RecordTyped
  <2> QED
    BY <2>1, <2>2, <2>3, Shapes
<1>2. ASSUME NEW c \in Calls, arg'[c] # None PROVE state'[arg'[c]] # "unused"
  <2>1. arg[c] \in Ops \cup {None}
    BY DEF Typed, CallsTyped
  <2> QED
    BY <1>2, <2>1, ArgStep, StaysUsed DEF Typed, Prepared
<1>3. ASSUME NEW e \in Effects, e \in inflight' PROVE state'[e[1]] # "unused"
  <2>1. e[1] \in Ops /\ state[e[1]] # "unused"
    BY <1>3, InflightStep DEF Asks, Ask, Typed, Prepared
  <2> QED
    BY <2>1, StaysUsed
<1>4. ASSUME NEW r \in Releases, state'[r] # "unused" PROVE target'[r] \in Deploys
  <2>1. CASE UNCHANGED <<state, pending, target>>
    BY <1>4, <2>1 DEF Typed, Prepared
  <2>2. ASSUME NEW o \in Ops, Prepares(o) PROVE target'[r] \in Deploys
    BY <1>4, <2>2 DEF Prepares, SetState, Typed, RecordTyped, Prepared
  <2>3. ASSUME NEW o \in Ops, NEW s, Moves(o, s) PROVE target'[r] \in Deploys
    BY <1>4, <2>3 DEF Moves, SetState, DeployMoves, ReleaseMoves, Typed, RecordTyped, Prepared
  <2> QED
    BY <2>1, <2>2, <2>3, Shapes
<1> QED
  BY <1>1, <1>2, <1>3, <1>4 DEF Prepared

\* All parts of the type invariant together.
LEMMA TypedStep ==
  ASSUME Typed, [Next]_vars
  PROVE  Typed'
<1>1. CASE Next
  BY <1>1, RecordStep, CallsStep, ProviderStep, PreparedStep DEF Typed
<1>2. CASE UNCHANGED vars
  BY <1>2 DEF vars, record, calls, provider, Typed, RecordTyped, CallsTyped, ProviderTyped, Prepared
<1> QED
  BY <1>1, <1>2

\* The type invariant holds for ever.
LEMMA TypedAlways == Spec => []Typed
  BY InitTyped, TypedStep, PTL DEF Spec

\* Every variable keeps to its type: in particular no call answers for an
\* operation of another kind, and every release that completes has a target.
THEOREM TypeCorrect == Spec => []TypeOK
<1>1. Typed => TypeOK
  BY DEF Typed, RecordTyped, CallsTyped, ProviderTyped, TypeOK
<1> QED
  BY <1>1, TypedAlways, PTL

----------------------------------------------------------------------------
\* Every effect is asked for once.

Early == {"unused", "prepared", "projecting"}

\* A write that was asked for has its receipt or is the attempt on record; a
\* submission was asked for only past its boundary; a switch only past the
\* preflight, which one call makes once.
Asked ==
  /\ \A e \in Effects : issued[e] <= 1
  /\ \A d \in Deploys : state[d] \in Early =>
       /\ issued[<<d, "deploy">>] = 0
       /\ \A v \in Vars : \/ issued[<<d, v>>] = 0 \/ v \in receipts[d]
                          \/ pending = d /\ attempt # None /\ attempt[1] = v
  /\ \A d \in Deploys : state[d] = "unused" => \A v \in Vars : issued[<<d, v>>] = 0
  /\ \A r \in Releases : state[r] \in {"unused", "prepared"} => issued[<<r, "switch">>] = 0
  /\ \A c \in Calls : pc[c] = "preflight" =>
       /\ state[arg[c]] # "prepared" /\ issued[<<arg[c], "switch">>] = 0
       /\ \A b \in Calls : pc[b] = "preflight" /\ arg[b] = arg[c] => b = c

\* Which steps ask for something.
LEMMA IssuedStep ==
  ASSUME Typed, Next
  PROVE  \/ UNCHANGED issued
         \/ \E c \in Calls, v \in Vars : ConfigAttempt(c, v)
         \/ \E c \in Calls : SubmissionBoundary(c)
         \/ \E c \in Calls : Switch(c) /\ MaySwitch(c)
<1> DEFINE Goal == \/ UNCHANGED issued
                   \/ \E c \in Calls, v \in Vars : ConfigAttempt(c, v)
                   \/ \E c \in Calls : SubmissionBoundary(c)
                   \/ \E c \in Calls : Switch(c) /\ MaySwitch(c)
<1>1. ASSUME UNCHANGED provider PROVE Goal
  BY <1>1 DEF provider
<1>2. ASSUME NEW c \in Calls, Refused(c) PROVE Goal
  BY <1>1, <1>2 DEF Refused
<1>3. ASSUME NEW c \in Calls, Begin(c) PROVE Goal
  BY <1>1, <1>3 DEF Begin, SubmitBegin, ReconcileBegin, ObserveBegin, ExecuteBegin, ObserveReleaseBegin
<1>4. ASSUME NEW c \in Calls, Call(c) PROVE Goal
  BY <1>1, <1>2, <1>4 DEF Call, ConfigReceipt, ConfigReceiptRefused, ConfigUncertain,
     SubmitAbandoned, SubmissionAnswered, Reconcile, Observe, SettleDeploy, PreflightFails, Switch,
     SwitchAnswered, ObserveReleaseBegin, ObserveReleaseRefused, ReadServing, StoreServing,
     TargetSeen, TargetNotSeen, Finalize
<1>5. ASSUME \/ \E d \in Deploys : PrepareDeploy(d) \/ BuildEnds(d)
             \/ \E r \in Releases, k \in Kinds, d \in Deploys : PrepareRelease(r, k, d)
             \/ Remap \/ ChangeSnapshotted \/ Crash
             \/ \E e \in Effects : Land(e)
             \/ \E d \in Deploys \cup {Other} : SwitchedOutside(d)
      PROVE  UNCHANGED issued
  BY <1>5 DEF PrepareDeploy, BuildEnds, PrepareRelease, Remap, ChangeSnapshotted, Crash, Land,
     SwitchedOutside, provider
<1> QED
  BY <1>3, <1>4, <1>5 DEF Next

\* Which steps write attempts and receipts.
LEMMA AttemptStep ==
  ASSUME Typed, Next
  PROVE  \/ UNCHANGED <<attempt, receipts>>
         \/ \E d \in Deploys : PrepareDeploy(d)
         \/ \E c \in Calls, v \in Vars : ConfigAttempt(c, v)
         \/ \E c \in Calls : ConfigReceipt(c)
         \/ \E c \in Calls : ConfigUncertain(c) /\ AttemptMine(c)
<1> DEFINE Goal == \/ UNCHANGED <<attempt, receipts>>
                   \/ \E d \in Deploys : PrepareDeploy(d)
                   \/ \E c \in Calls, v \in Vars : ConfigAttempt(c, v)
                   \/ \E c \in Calls : ConfigReceipt(c)
                   \/ \E c \in Calls : ConfigUncertain(c) /\ AttemptMine(c)
<1>1. ASSUME UNCHANGED record PROVE Goal
  BY <1>1 DEF record
<1>2. ASSUME NEW c \in Calls, Refused(c) PROVE Goal
  BY <1>1, <1>2 DEF Refused
<1>3. ASSUME NEW c \in Calls, Begin(c) PROVE Goal
  BY <1>1, <1>3 DEF Begin, SubmitBegin, ReconcileBegin, ObserveBegin, ExecuteBegin, ObserveReleaseBegin
<1>4. ASSUME NEW c \in Calls, Call(c) PROVE Goal
  BY <1>1, <1>2, <1>4 DEF Call, ConfigReceiptRefused, ConfigUncertain, SubmitAbandoned,
     SubmissionBoundary, SubmissionAnswered, Reconcile, Observe, SettleDeploy, PreflightFails, Switch,
     SwitchAnswered, ObserveReleaseBegin, ObserveReleaseRefused, ReadServing, StoreServing,
     TargetSeen, TargetNotSeen, Finalize
<1>5. ASSUME \/ \E d \in Deploys : BuildEnds(d)
             \/ \E r \in Releases, k \in Kinds, d \in Deploys : PrepareRelease(r, k, d)
             \/ Remap \/ ChangeSnapshotted \/ Crash
             \/ \E e \in Effects : Land(e)
             \/ \E d \in Deploys \cup {Other} : SwitchedOutside(d)
      PROVE  UNCHANGED <<attempt, receipts>>
  BY <1>5 DEF BuildEnds, PrepareRelease, Remap, ChangeSnapshotted, Crash, Land, SwitchedOutside, record
<1> QED
  BY <1>3, <1>4, <1>5 DEF Next

\* A call is in its preflight because it just began to execute, or still.
LEMMA PreflightStep ==
  ASSUME Typed, Next, NEW c \in Calls, pc'[c] = "preflight"
  PROVE  \/ pc[c] = "preflight" /\ arg'[c] = arg[c] /\ ~Switch(c)
         \/ \E r \in Releases : ExecuteBegin(c, r) /\ arg'[c] = r
<1>1. ASSUME NEW b \in Calls, NEW l, NEW o, NEW s, Await(b, l, o, s), l # "preflight"
      PROVE  b # c /\ pc[c] = "preflight" /\ arg'[c] = arg[c]
  BY <1>1 DEF Await, Typed, CallsTyped
<1>2. ASSUME NEW b \in Calls, Return(b)
      PROVE  b # c /\ pc[c] = "preflight" /\ arg'[c] = arg[c]
  BY <1>1, <1>2 DEF Return
<1>3. ASSUME NEW b \in Calls, Refused(b)
      PROVE  b # c /\ pc[c] = "preflight" /\ arg'[c] = arg[c]
  BY <1>2, <1>3 DEF Refused
<1>4. ~Switch(c)
  BY <1>1, <1>2 DEF Switch
<1> DEFINE Stays == pc[c] = "preflight" /\ arg'[c] = arg[c]
           Begins == \E r \in Releases : ExecuteBegin(c, r) /\ arg'[c] = r
<1>5. ASSUME NEW b \in Calls, NEW r \in Releases, ExecuteBegin(b, r) PROVE Stays \/ Begins
  <2>1. CASE b = c
    BY <1>5, <2>1 DEF ExecuteBegin, Await, Typed, CallsTyped
  <2>2. CASE b # c
    BY <1>5, <2>2 DEF ExecuteBegin, Await, Typed, CallsTyped
  <2> QED
    BY <2>1, <2>2
<1>6. ASSUME NEW b \in Calls, Begin(b) PROVE Stays \/ Begins
  BY <1>1, <1>5, <1>6 DEF Begin, SubmitBegin, ReconcileBegin, ObserveBegin, ObserveReleaseBegin
<1>7. ASSUME NEW b \in Calls, Call(b) PROVE Stays
  BY <1>1, <1>2, <1>3, <1>7 DEF Call, ConfigAttempt, ConfigReceipt, ConfigReceiptRefused,
     ConfigUncertain, SubmissionBoundary, SubmitAbandoned, SubmissionAnswered, Reconcile, Observe,
     SettleDeploy, PreflightFails, Switch, SwitchAnswered, ObserveReleaseBegin,
     ObserveReleaseRefused, ReadServing, StoreServing, TargetSeen, TargetNotSeen, Finalize
<1>8. ~Crash
  BY DEF Crash
<1> QED
  BY <1>4, <1>6, <1>7, <1>8 DEF Next, PrepareDeploy, BuildEnds, PrepareRelease, Remap,
     ChangeSnapshotted, Land, SwitchedOutside, calls

\* An early operation was early before, or unused.
LEMMA EarlyStep ==
  ASSUME Typed, Open, Next, NEW o \in Ops
  PROVE  /\ state'[o] \in Early => state[o] \in Early
         /\ state'[o] \in {"unused", "prepared"} => state[o] \in {"unused", "prepared"}
         /\ state'[o] = "unused" => state[o] = "unused"
<1>1. ASSUME NEW q \in Ops, Prepares(q) PROVE state[q] = "unused" /\ state' = [state EXCEPT ![q] = "prepared"]
  BY <1>1 DEF Prepares, SetState
<1>2. ASSUME NEW q \in Ops, NEW s \in DeployStates \cup ReleaseStates, Moves(q, s)
      PROVE /\ state' = [state EXCEPT ![q] = s] /\ s \notin {"unused", "prepared"}
            /\ s \in Early => state[q] \in Early
  BY <1>2 DEF Moves, SetState, DeployMoves, ReleaseMoves, Early
<1>3. state \in [Ops -> DeployStates \cup ReleaseStates]
  BY DEF Typed, RecordTyped
<1> QED
  BY <1>1, <1>2, <1>3, Shapes DEF Early

\* What is asked for was never asked for before; and what the step that asks
\* leaves behind.
LEMMA FirstAsked ==
  ASSUME Typed, Asked, Next, NEW e \in Effects, issued'[e] # issued[e]
  PROVE  /\ issued[e] = 0 /\ issued'[e] = 1
         /\ \/ \E d \in Deploys, v \in Vars :
                 /\ e = <<d, v>> /\ state'[d] # "unused"
                 /\ pending' = d /\ attempt' = <<v, "in_flight">>
            \/ \E d \in Deploys :
                 e = <<d, "deploy">> /\ state'[d] = "submitting" /\ receipts[d] = Vars
            \/ \E c \in Calls :
                 /\ arg[c] \in Releases /\ e = <<arg[c], "switch">> /\ state'[arg[c]] = "switching"
                 /\ pc[c] = "preflight" /\ pc'[c] = "switching"
<1>0. issued \in [Effects -> Nat] /\ state \in [Ops -> DeployStates \cup ReleaseStates]
  BY DEF Typed, ProviderTyped, RecordTyped
<1>1. ASSUME NEW c \in Calls, NEW v \in Vars, ConfigAttempt(c, v)
      PROVE  /\ arg[c] \in Deploys /\ issued[<<arg[c], v>>] = 0 /\ state'[arg[c]] # "unused"
             /\ issued' = [issued EXCEPT ![<<arg[c], v>>] = @ + 1]
             /\ pending' = arg[c] /\ attempt' = <<v, "in_flight">>
  <2>1. /\ arg[c] \in Deploys /\ pending = arg[c] /\ attempt = None /\ v \notin receipts[arg[c]]
        /\ state[arg[c]] \in {"prepared", "projecting"}
    BY <1>1 DEF ConfigAttempt, MaySubmit, SnapshotValid, Typed, CallsTyped
  <2>2. issued[<<arg[c], v>>] = 0
    BY <2>1 DEF Asked, Early
  <2> QED
    BY <1>0, <1>1, <2>1, <2>2 DEF ConfigAttempt, SetState, Ask, Ops
<1>2. ASSUME NEW c \in Calls, SubmissionBoundary(c)
      PROVE  /\ arg[c] \in Deploys /\ issued[<<arg[c], "deploy">>] = 0
             /\ state'[arg[c]] = "submitting" /\ receipts[arg[c]] = Vars
             /\ issued' = [issued EXCEPT ![<<arg[c], "deploy">>] = @ + 1]
  <2>1. arg[c] \in Deploys /\ state[arg[c]] \in {"prepared", "projecting"}
    BY <1>2 DEF SubmissionBoundary, MayCrossBoundary, MaySubmit, Typed, CallsTyped
  <2>2. issued[<<arg[c], "deploy">>] = 0
    BY <2>1 DEF Asked, Early
  <2> QED
    BY <1>0, <1>2, <2>1, <2>2 DEF SubmissionBoundary, MayCrossBoundary, SetState, Ask, Ops
<1>3. ASSUME NEW c \in Calls, Switch(c), MaySwitch(c)
      PROVE  /\ arg[c] \in Releases /\ issued[<<arg[c], "switch">>] = 0
             /\ state'[arg[c]] = "switching" /\ pc[c] = "preflight" /\ pc'[c] = "switching"
             /\ issued' = [issued EXCEPT ![<<arg[c], "switch">>] = @ + 1]
  BY <1>3 DEF Switch, MaySwitch, Ask, Await, Typed, CallsTyped, Asked, record
<1>4. ASSUME NEW x, issued[x] = 0, issued' = [issued EXCEPT ![x] = @ + 1]
       PROVE  e = x /\ issued'[e] = 1
  BY <1>0, <1>4
<1>5. CASE UNCHANGED issued
  BY <1>5
<1>6. ASSUME NEW c \in Calls, NEW v \in Vars, ConfigAttempt(c, v)
      PROVE  e = <<arg[c], v>> /\ issued'[e] = 1
  BY <1>0, <1>1, <1>6, <1>4
<1>7. ASSUME NEW c \in Calls, SubmissionBoundary(c)
      PROVE  e = <<arg[c], "deploy">> /\ issued'[e] = 1
  BY <1>0, <1>2, <1>7, <1>4
<1>8. ASSUME NEW c \in Calls, Switch(c), MaySwitch(c)
      PROVE  e = <<arg[c], "switch">> /\ issued'[e] = 1
  BY <1>0, <1>3, <1>8, <1>4
<1>9. CASE \E c \in Calls, v \in Vars : ConfigAttempt(c, v)
  BY <1>1, <1>6, <1>9
<1>10. CASE \E c \in Calls : SubmissionBoundary(c)
  BY <1>2, <1>7, <1>10
<1>11. CASE \E c \in Calls : Switch(c) /\ MaySwitch(c)
  BY <1>3, <1>8, <1>11
<1> QED
  BY <1>5, <1>9, <1>10, <1>11, IssuedStep

\* Once a write was asked for and has no receipt, its attempt stays pending.
LEMMA AttemptKept ==
  ASSUME Typed, Open, Asked, Next, NEW d \in Deploys, NEW v \in Vars,
         state'[d] \in Early, state'[d] # "unused", issued'[<<d, v>>] # 0, v \notin receipts'[d]
  PROVE  pending' = d /\ attempt' # None /\ attempt'[1] = v
<1>1. <<d, v>> \in Effects /\ v # "deploy" /\ v # "switch" /\ d \in Ops /\ d \notin Releases
  BY DeploymentsAssumption DEF Effects, Ops
<1>2. CASE issued'[<<d, v>>] # issued[<<d, v>>]
  <2>1. ASSUME NEW a \in Deploys, <<d, v>> = <<a, "deploy">> PROVE FALSE
    BY <1>1, <2>1
  <2>2. ASSUME NEW c \in Calls, <<d, v>> = <<arg[c], "switch">> PROVE FALSE
    BY <1>1, <2>2
  <2>3. PICK a \in Deploys, w \in Vars :
           /\ <<d, v>> = <<a, w>> /\ pending' = a /\ attempt' = <<w, "in_flight">>
    BY <1>1, <1>2, <2>1, <2>2, FirstAsked
  <2>4. a = d /\ w = v
    BY <2>3
  <2>5. <<v, "in_flight">> # None
    BY DeploymentsAssumption
  <2> QED
    BY <2>3, <2>4, <2>5
<1>3. CASE issued'[<<d, v>>] = issued[<<d, v>>]
  <2>1. state[d] \in Early /\ state[d] # "unused"
    BY <1>1, <1>3, EarlyStep DEF Asked
  <2>2. v \in receipts[d] \/ (pending = d /\ attempt # None /\ attempt[1] = v)
    BY <1>3, <2>1 DEF Asked
  <2>3. pending = d /\ pending' = d
    BY <1>1, <2>1, OpenStep DEF Open, Early, Closed
  <2>4. receipts \in [Deploys -> SUBSET Vars]
    BY DEF Typed, RecordTyped
  <2>5. CASE UNCHANGED <<attempt, receipts>>
    BY <2>2, <2>3, <2>5
  <2>6. ASSUME NEW a \in Deploys, PrepareDeploy(a) PROVE FALSE
    BY <2>3, <2>6, DeploymentsAssumption DEF PrepareDeploy
  <2>7. ASSUME NEW c \in Calls, NEW w \in Vars, ConfigAttempt(c, w) PROVE FALSE
    <3>1. attempt = None /\ receipts' = receipts
      BY <2>7 DEF ConfigAttempt
    <3> QED
      BY <2>2, <3>1
  <2>8. ASSUME NEW c \in Calls, ConfigReceipt(c) PROVE FALSE
    <3>1. /\ arg[c] = d /\ attempt = <<seen[c], "in_flight">>
          /\ receipts' = [receipts EXCEPT ![d] = @ \cup {seen[c]}]
      BY <2>3, <2>8 DEF ConfigReceipt, SnapshotValid, AttemptMine
    <3>2. v # seen[c] /\ v \notin receipts[d]
      BY <2>4, <3>1
    <3> QED
      BY <2>2, <3>1, <3>2
  <2>9. ASSUME NEW c \in Calls, ConfigUncertain(c), AttemptMine(c) PROVE attempt' # None /\ attempt'[1] = v
    <3>1. /\ attempt = <<seen[c], "in_flight">> /\ attempt' = <<seen[c], "uncertain">>
          /\ receipts' = receipts
      BY <2>9 DEF ConfigUncertain, AttemptMine
    <3>2. attempt' # None
      <4>1. attempt # None
        BY <2>2, <3>1
      <4>2. attempt[1] \in Vars
        BY <4>1 DEF Typed, RecordTyped
      <4> QED
        BY <3>1, <4>2, DeploymentsAssumption
    <3> QED
      BY <2>2, <3>1, <3>2
  <2> QED
    BY <2>3, <2>5, <2>6, <2>7, <2>8, <2>9, AttemptStep
<1> QED
  BY <1>2, <1>3

\* No step asks for an effect a second time.
LEMMA AskedStep ==
  ASSUME Typed, Open, Asked, Next
  PROVE  Asked'
<1>1. ASSUME NEW e \in Effects PROVE issued'[e] <= 1
  <2>1. issued[e] <= 1
    BY DEF Asked
  <2> QED
    BY <2>1, FirstAsked
<1>2. ASSUME NEW d \in Deploys, state'[d] \in Early PROVE issued'[<<d, "deploy">>] = 0
  <2>1. issued[<<d, "deploy">>] = 0
    BY <1>2, EarlyStep DEF Asked, Ops
  <2>2. <<d, "deploy">> \in Effects /\ d \notin Releases
    BY DeploymentsAssumption DEF Effects
  <2>3. \A v \in Vars : v # "deploy"
    BY DeploymentsAssumption
  <2>4. state'[d] # "submitting"
    BY <1>2 DEF Early
  <2> QED
    BY <2>1, <2>2, <2>3, <2>4, FirstAsked
<1>3. ASSUME NEW r \in Releases, state'[r] \in {"unused", "prepared"}
      PROVE  issued'[<<r, "switch">>] = 0
  <2>1. issued[<<r, "switch">>] = 0
    BY <1>3, EarlyStep DEF Asked, Ops
  <2>2. <<r, "switch">> \in Effects /\ r \notin Deploys
    BY DeploymentsAssumption DEF Effects
  <2>3. state'[r] # "switching"
    BY <1>3
  <2> QED
    BY <2>1, <2>2, <2>3, FirstAsked
<1>4. ASSUME NEW d \in Deploys, NEW v \in Vars, state'[d] = "unused" PROVE issued'[<<d, v>>] = 0
  <2>1. issued[<<d, v>>] = 0
    BY <1>4, EarlyStep DEF Asked, Ops
  <2>2. <<d, v>> \in Effects /\ d \notin Releases /\ v # "deploy"
    BY DeploymentsAssumption DEF Effects
  <2> QED
    BY <1>4, <2>1, <2>2, FirstAsked
<1>5. ASSUME NEW d \in Deploys, NEW v \in Vars, state'[d] \in Early, state'[d] # "unused"
      PROVE  \/ issued'[<<d, v>>] = 0 \/ v \in receipts'[d]
             \/ pending' = d /\ attempt' # None /\ attempt'[1] = v
  BY <1>5, AttemptKept
<1>6. ASSUME NEW c \in Calls, pc'[c] = "preflight", pc[c] = "preflight", arg'[c] = arg[c]
      PROVE  /\ state'[arg[c]] # "prepared" /\ issued'[<<arg[c], "switch">>] = 0
             /\ \A b \in Calls : pc'[b] = "preflight" /\ arg'[b] = arg[c] => b = c
  <2> DEFINE r == arg[c]
  <2>1. r \in Releases /\ r \notin Deploys
    BY <1>6, DeploymentsAssumption DEF Typed, CallsTyped
  <2>2. /\ state[r] # "prepared" /\ issued[<<r, "switch">>] = 0 /\ state[r] # "unused"
        /\ \A b \in Calls : pc[b] = "preflight" /\ arg[b] = r => b = c
    BY <1>6, <2>1, DeploymentsAssumption DEF Asked, Typed, Prepared, Ops
  <2>3. state'[r] # "prepared"
    BY <2>1, <2>2, EarlyStep DEF Ops
  <2>4. issued'[<<r, "switch">>] = 0
    <3>1. <<r, "switch">> \in Effects
      BY <2>1 DEF Effects
    <3>2. ASSUME NEW b \in Calls, <<r, "switch">> = <<arg[b], "switch">>, pc[b] = "preflight",
                 pc'[b] = "switching"
          PROVE  FALSE
      BY <1>6, <2>2, <3>2
    <3> QED
      BY <2>1, <2>2, <3>1, <3>2, FirstAsked
  <2>5. ASSUME NEW b \in Calls, pc'[b] = "preflight", arg'[b] = r PROVE b = c
    <3>1. ASSUME NEW q \in Releases, ExecuteBegin(b, q), arg'[b] = q PROVE FALSE
      BY <2>2, <2>5, <3>1 DEF ExecuteBegin
    <3> QED
      BY <2>2, <2>5, <3>1, PreflightStep
  <2> QED
    BY <2>3, <2>4, <2>5
<1>7. ASSUME NEW c \in Calls, pc'[c] = "preflight", NEW r \in Releases, ExecuteBegin(c, r), arg'[c] = r
      PROVE  /\ state'[r] # "prepared" /\ issued'[<<r, "switch">>] = 0
             /\ \A b \in Calls : pc'[b] = "preflight" /\ arg'[b] = r => b = c
  <2>1. state[r] = "prepared" /\ state'[r] = "switching" /\ issued' = issued
    BY <1>7 DEF ExecuteBegin, SetState, provider, Typed, RecordTyped, Ops
  <2>2. issued'[<<r, "switch">>] = 0
    BY <2>1 DEF Asked
  <2>3. ASSUME NEW b \in Calls, pc'[b] = "preflight", arg'[b] = r, b # c PROVE FALSE
    <3>1. pc[b] = "preflight" /\ arg[b] = r
      BY <1>7, <2>3 DEF ExecuteBegin, Await, Typed, CallsTyped
    <3> QED
      BY <2>1, <3>1 DEF Asked
  <2> QED
    BY <2>1, <2>2, <2>3
<1>8. ASSUME NEW c \in Calls, pc'[c] = "preflight"
      PROVE  /\ state'[arg'[c]] # "prepared" /\ issued'[<<arg'[c], "switch">>] = 0
             /\ \A b \in Calls : pc'[b] = "preflight" /\ arg'[b] = arg'[c] => b = c
  BY <1>6, <1>7, <1>8, PreflightStep
<1> QED
  BY <1>1, <1>2, <1>3, <1>4, <1>5, <1>8 DEF Asked, Early

\* The invariant of the effects: it needs that only the pending operation is
\* open.
EffectsInv == Typed /\ Open /\ Asked

\* At the start nothing has been asked for.
LEMMA EffectsInit ==
  ASSUME Init
  PROVE  EffectsInv
<1>1. Typed
  BY InitTyped
<1>2. Open
  BY DeploymentsAssumption DEF Init, Open, DeployStates, ReleaseStates, Closed, Ops
<1>3. Asked
  <2>1. issued = [e \in Effects |-> IF e \in landed THEN 1 ELSE 0]
    BY DEF Init
  <2>2. landed = Built \X (Vars \cup {"deploy"})
    BY DEF Init
  <2>3. \A o \in Ops : state[o] = IF o \in Built THEN "confirmed" ELSE "unused"
    BY DEF Init
  <2>4. ASSUME NEW o \in Ops, o \notin Built, NEW x, <<o, x>> \in Effects PROVE issued[<<o, x>>] = 0
    BY <2>1, <2>2, <2>4
  <2>5. Releases \cap Built = {} /\ Deploys \subseteq Ops /\ Releases \subseteq Ops
    BY DeploymentsAssumption DEF Ops
  <2>6. /\ \A d \in Deploys, v \in Vars : <<d, v>> \in Effects
        /\ \A d \in Deploys : <<d, "deploy">> \in Effects
        /\ \A r \in Releases : <<r, "switch">> \in Effects
    BY DEF Effects
  <2>7. \A e \in Effects : issued[e] <= 1
    BY <2>1
  <2>8. \A d \in Deploys : state[d] \in Early =>
          issued[<<d, "deploy">>] = 0 /\ \A v \in Vars : issued[<<d, v>>] = 0
    BY <2>3, <2>4, <2>5, <2>6 DEF Early
  <2>9. \A r \in Releases : issued[<<r, "switch">>] = 0
    BY <2>4, <2>5, <2>6
  <2>10. \A c \in Calls : pc[c] = "idle"
    BY DEF Init
  <2> QED
    BY <2>7, <2>8, <2>9, <2>10 DEF Asked, Early
<1> QED
  BY <1>1, <1>2, <1>3 DEF EffectsInv

\* The three parts of the invariant, carried over a step.
LEMMA EffectsStep ==
  ASSUME EffectsInv, [Next]_vars
  PROVE  EffectsInv'
<1>1. CASE Next
  BY <1>1, TypedStep, OpenStep, AskedStep DEF EffectsInv
<1>2. CASE UNCHANGED vars
  BY <1>2, TypedStep DEF EffectsInv, Open, Asked, vars, record, calls, provider
<1> QED
  BY <1>1, <1>2

\* Whoever submits, reconciles, gives up or comes back after a crash: no write,
\* submission or switch is asked of the provider a second time.
THEOREM EffectsAskedOnceAlways == Spec => []EffectsAskedOnce
<1>1. EffectsInv => EffectsAskedOnce
  BY DEF EffectsInv, Asked, EffectsAskedOnce
<1> QED
  BY <1>1, EffectsInit, EffectsStep, PTL DEF Spec

----------------------------------------------------------------------------
\* A deployment is submitted with its configuration in place.

\* A receipt means the write happened; a submission, that no receipt misses.
Configured ==
  \A d \in Deploys :
    /\ \A v \in receipts[d] : <<d, v>> \in landed
    /\ issued[<<d, "deploy">>] > 0 => receipts[d] = Vars

\* What happened stays so, and the provider's part of a step by the record.
LEMMA LandedStep ==
  ASSUME Next
  PROVE  landed \subseteq landed'
<1>1. ASSUME NEW c \in Calls, Refused(c) PROVE landed' = landed
  BY <1>1 DEF Refused, provider
<1>2. ASSUME NEW c \in Calls, Begin(c) PROVE landed' = landed
  BY <1>2 DEF Begin, SubmitBegin, ReconcileBegin, ObserveBegin, ExecuteBegin, ObserveReleaseBegin,
     provider
<1>3. ASSUME NEW c \in Calls, Call(c) PROVE landed' = landed
  BY <1>1, <1>3 DEF Call, ConfigAttempt, ConfigReceipt, ConfigReceiptRefused, ConfigUncertain,
     SubmissionBoundary, SubmitAbandoned, SubmissionAnswered, Reconcile, Observe, SettleDeploy,
     PreflightFails, Switch, SwitchAnswered, ObserveReleaseBegin, ObserveReleaseRefused,
     ReadServing, StoreServing, TargetSeen, TargetNotSeen, Finalize, Ask, provider
<1> QED
  BY <1>2, <1>3 DEF Next, PrepareDeploy, BuildEnds, PrepareRelease, Remap, ChangeSnapshotted,
     Land, SwitchedOutside, Crash, provider

\* Receipts are only added, and only for writes that happened.
LEMMA ReceiptsStep ==
  ASSUME Typed, Next, NEW d \in Deploys
  PROVE  /\ receipts[d] \subseteq receipts'[d]
         /\ \A v \in receipts'[d] \ receipts[d] : <<d, v>> \in landed
<1>1. receipts \in [Deploys -> SUBSET Vars]
  BY DEF Typed, RecordTyped
<1>2. ASSUME NEW c \in Calls, ConfigReceipt(c)
      PROVE  /\ receipts' = [receipts EXCEPT ![arg[c]] = @ \cup {seen[c]}]
             /\ <<arg[c], seen[c]>> \in landed
  BY <1>2 DEF ConfigReceipt
<1>3. CASE \E c \in Calls : ConfigReceipt(c)
  <2>1. PICK c \in Calls : ConfigReceipt(c)
    BY <1>3
  <2>2. CASE arg[c] = d
    <3>1. receipts'[d] = receipts[d] \cup {seen[c]} /\ <<d, seen[c]>> \in landed
      BY <1>1, <1>2, <2>1, <2>2
    <3> QED
      BY <3>1
  <2>3. CASE arg[c] # d
    BY <1>1, <1>2, <2>1, <2>3
  <2> QED
    BY <2>2, <2>3
<1>4. CASE UNCHANGED receipts
  BY <1>4
<1> QED
  BY <1>3, <1>4, AttemptStep DEF PrepareDeploy, ConfigAttempt, ConfigUncertain

\* Configured is kept.
LEMMA ConfiguredStep ==
  ASSUME EffectsInv, Configured, Next
  PROVE  Configured'
<1>1. Typed /\ Asked
  BY DEF EffectsInv
<1>2. ASSUME NEW d \in Deploys, NEW v \in receipts'[d] PROVE <<d, v>> \in landed'
  BY <1>1, ReceiptsStep, LandedStep DEF Configured
<1>3. ASSUME NEW d \in Deploys, issued'[<<d, "deploy">>] > 0 PROVE receipts'[d] = Vars
  <2>1. receipts[d] = Vars
    <3>1. <<d, "deploy">> \in Effects /\ d \notin Releases /\ "deploy" \notin Vars
      BY DeploymentsAssumption DEF Effects
    <3>2. CASE issued'[<<d, "deploy">>] = issued[<<d, "deploy">>]
      BY <1>3, <3>2 DEF Configured
    <3>3. CASE issued'[<<d, "deploy">>] # issued[<<d, "deploy">>]
      BY <1>1, <3>1, <3>3, FirstAsked
    <3> QED
      BY <3>2, <3>3
  <2>2. receipts'[d] \subseteq Vars
    BY <1>1, TypedStep DEF Typed, RecordTyped
  <2> QED
    BY <1>1, <2>1, <2>2, ReceiptsStep
<1> QED
  BY <1>2, <1>3 DEF Configured

\* Nothing is submitted before the provider holds every variable of the
\* snapshot, although writes may be answered late, twice or never.
THEOREM SubmittedConfiguredAlways == Spec => []SubmittedConfigured
<1>1. Init => Configured
  <2> SUFFICES ASSUME Init PROVE Configured
    OBVIOUS
  <2>1. ASSUME NEW d \in Deploys PROVE d \in Ops /\ <<d, "deploy">> \in Effects
    BY DEF Ops, Effects
  <2>2. ASSUME NEW d \in Deploys, d \notin Built PROVE issued[<<d, "deploy">>] = 0 /\ receipts[d] = {}
    BY <2>1, <2>2 DEF Init
  <2>3. ASSUME NEW d \in Deploys, d \in Built
        PROVE  receipts[d] = Vars /\ \A v \in Vars : <<d, v>> \in landed
    BY <2>3 DEF Init
  <2>4. ASSUME NEW d \in Deploys
        PROVE  /\ \A v \in receipts[d] : <<d, v>> \in landed
               /\ issued[<<d, "deploy">>] > 0 => receipts[d] = Vars
    <3>1. CASE d \in Built
      BY <2>3, <3>1
    <3>2. CASE d \notin Built
      BY <2>2, <3>2
    <3> QED
      BY <3>1, <3>2
  <2> QED
    BY <2>4 DEF Configured
<1>2. EffectsInv /\ Configured /\ [Next]_vars => Configured'
  <2> SUFFICES ASSUME EffectsInv, Configured, [Next]_vars PROVE Configured'
    OBVIOUS
  <2>1. CASE UNCHANGED vars
    BY <2>1 DEF Configured, vars, record, provider
  <2> QED
    BY <2>1, ConfiguredStep
<1>3. EffectsInv /\ Configured => SubmittedConfigured
  BY DEF Configured, SubmittedConfigured
<1> QED
  BY <1>1, <1>2, <1>3, EffectsInit, EffectsStep, PTL DEF Spec

----------------------------------------------------------------------------
\* What the record says of a deployment is what the provider did.

\* Where the states that say something of the provider come from.
LEMMA BecomesStep ==
  ASSUME Typed, Next, NEW o \in Ops, state'[o] # state[o]
  PROVE  /\ state'[o] = "submitting" => \E c \in Calls : SubmissionBoundary(c) /\ arg[c] = o
         /\ state'[o] = "submitted" =>
              /\ o \in Deploys /\ <<o, "deploy">> \in landed
              /\ state[o] \in {"submitting", "uncertain"}
         /\ state'[o] = "failed" =>
              \E c \in Calls : /\ arg[c] = o
                               /\ (PreflightFails(c) /\ o \in Releases) \/ (SettleDeploy(c) /\ o \in Deploys)
         /\ state'[o] = "confirmed" => \E c \in Calls : SettleDeploy(c) /\ arg[c] = o /\ o \in Deploys
         /\ state'[o] = "completed" => \E c \in Calls : Finalize(c) /\ arg[c] = o
<1> DEFINE Goal ==
      /\ state'[o] = "submitting" => \E c \in Calls : SubmissionBoundary(c) /\ arg[c] = o
      /\ state'[o] = "submitted" =>
           /\ o \in Deploys /\ <<o, "deploy">> \in landed
           /\ state[o] \in {"submitting", "uncertain"}
      /\ state'[o] = "failed" =>
           \E c \in Calls : /\ arg[c] = o
                            /\ (PreflightFails(c) /\ o \in Releases) \/ (SettleDeploy(c) /\ o \in Deploys)
      /\ state'[o] = "confirmed" => \E c \in Calls : SettleDeploy(c) /\ arg[c] = o /\ o \in Deploys
      /\ state'[o] = "completed" => \E c \in Calls : Finalize(c) /\ arg[c] = o
<1>1. ASSUME NEW q, NEW s, SetState(q, s) PROVE q = o /\ state'[o] = s
  BY <1>1 DEF SetState, Typed, RecordTyped
<1>2. ASSUME NEW q, NEW s, SetState(q, s),
             s \notin {"submitting", "submitted", "failed", "confirmed", "completed"}
      PROVE  Goal
  BY <1>1, <1>2
<1>3. ASSUME UNCHANGED state PROVE FALSE
  BY <1>3
<1>4. ASSUME UNCHANGED record PROVE FALSE
  BY <1>3, <1>4 DEF record
<1>5. ASSUME NEW c \in Calls, Refused(c) PROVE FALSE
  BY <1>4, <1>5 DEF Refused
<1>6. ASSUME NEW c \in Calls, SubmissionBoundary(c) PROVE Goal
  <2>1. arg[c] = o /\ state'[o] = "submitting"
    BY <1>1, <1>6 DEF SubmissionBoundary
  <2> QED
    BY <1>6, <2>1
<1>7. ASSUME NEW c \in Calls, SubmissionAnswered(c) PROVE Goal
  <2>1. arg[c] \in Deploys
    BY <1>7 DEF SubmissionAnswered, Typed, CallsTyped
  <2>2. CASE Submitted(arg[c]) /\ <<arg[c], "deploy">> \in landed /\ state[arg[c]] = "submitting"
    BY <1>1, <2>1, <2>2 DEF Submitted
  <2> QED
    BY <1>2, <1>5, <1>7, <2>2 DEF SubmissionAnswered
<1>8. ASSUME NEW c \in Calls, Reconcile(c) PROVE Goal
  <2>1. arg[c] \in Deploys /\ seen[c] \in {"submitting", "uncertain"}
    BY <1>8 DEF Reconcile, Typed, CallsTyped
  <2>2. CASE Submitted(arg[c]) /\ MatchFound(arg[c]) /\ state[arg[c]] = seen[c]
    BY <1>1, <2>1, <2>2 DEF Submitted, MatchFound
  <2> QED
    BY <1>5, <1>8, <2>2 DEF Reconcile
<1>9. ASSUME NEW c \in Calls, SettleDeploy(c) PROVE Goal
  <2>1. arg[c] \in Deploys
    BY <1>9 DEF SettleDeploy, Typed, CallsTyped
  <2>2. arg[c] = o /\ state'[o] = Outcome(arg[c])
    BY <1>1, <1>5, <1>9 DEF SettleDeploy
  <2> QED
    BY <1>9, <2>1, <2>2 DEF Outcome
<1>10. ASSUME NEW c \in Calls, PreflightFails(c) PROVE Goal
  <2>1. arg[c] \in Releases
    BY <1>10 DEF PreflightFails, Typed, CallsTyped
  <2>2. arg[c] = o /\ state'[o] = "failed"
    BY <1>1, <1>4, <1>10 DEF PreflightFails
  <2> QED
    BY <1>10, <2>1, <2>2
<1>11. ASSUME NEW c \in Calls, SwitchAnswered(c) \/ TargetSeen(c) \/ TargetNotSeen(c) PROVE Goal
  BY <1>2, <1>4, <1>5, <1>11 DEF SwitchAnswered, TargetSeen, TargetNotSeen
<1>12. ASSUME NEW c \in Calls, Finalize(c) PROVE Goal
  <2>1. arg[c] = o /\ state'[o] = "completed"
    BY <1>1, <1>4, <1>5, <1>12 DEF Finalize
  <2> QED
    BY <1>12, <2>1
<1>13. ASSUME NEW c \in Calls, NEW v \in Vars, ConfigAttempt(c, v) PROVE Goal
  BY <1>2, <1>13 DEF ConfigAttempt
<1>14. ASSUME NEW c \in Calls, Call(c) PROVE Goal
  BY <1>3, <1>4, <1>5, <1>6, <1>7, <1>8, <1>9, <1>10, <1>11, <1>12, <1>13, <1>14 DEF Call, ConfigReceipt,
     ConfigReceiptRefused, ConfigUncertain, SubmitAbandoned, Observe, Switch, ObserveReleaseBegin,
     ObserveReleaseRefused, ReadServing, StoreServing
<1>15. ASSUME NEW c \in Calls, Begin(c) PROVE Goal
  BY <1>2, <1>4, <1>15 DEF Begin, SubmitBegin, ReconcileBegin, ObserveBegin, ExecuteBegin,
     ObserveReleaseBegin
<1>16. ASSUME \/ \E d \in Deploys : PrepareDeploy(d)
              \/ \E r \in Releases, k \in Kinds, d \in Deploys : PrepareRelease(r, k, d)
       PROVE  Goal
  BY <1>2, <1>16 DEF PrepareDeploy, PrepareRelease
<1> QED
  BY <1>3, <1>4, <1>14, <1>15, <1>16 DEF Next, BuildEnds, Remap, ChangeSnapshotted, Land,
     SwitchedOutside, Crash

\* What was asked for and has not happened, and what has happened.
Flow ==
  /\ \A e \in inflight : issued[e] > 0 /\ e \notin landed
  /\ \A e \in landed : issued[e] > 0

\* Something happens only because it was asked for.
LEMMA HappensStep ==
  ASSUME Typed, Next
  PROVE  \/ UNCHANGED <<landed, built>>
         \/ \E e \in Effects : Land(e)
         \/ UNCHANGED landed /\ \E d \in Deploys : BuildEnds(d)
<1> DEFINE Goal == \/ UNCHANGED <<landed, built>>
                   \/ \E e \in Effects : Land(e)
                   \/ UNCHANGED landed /\ \E d \in Deploys : BuildEnds(d)
<1>1. ASSUME NEW c \in Calls, Refused(c) PROVE Goal
  BY <1>1 DEF Refused, provider
<1>2. ASSUME NEW c \in Calls, Begin(c) PROVE Goal
  BY <1>2 DEF Begin, SubmitBegin, ReconcileBegin, ObserveBegin, ExecuteBegin, ObserveReleaseBegin,
     provider
<1>3. ASSUME NEW c \in Calls, Call(c) PROVE Goal
  BY <1>1, <1>3 DEF Call, ConfigAttempt, ConfigReceipt, ConfigReceiptRefused, ConfigUncertain,
     SubmissionBoundary, SubmitAbandoned, SubmissionAnswered, Reconcile, Observe, SettleDeploy,
     PreflightFails, Switch, SwitchAnswered, ObserveReleaseBegin, ObserveReleaseRefused,
     ReadServing, StoreServing, TargetSeen, TargetNotSeen, Finalize, Ask, provider
<1>4. ASSUME NEW d \in Deploys, BuildEnds(d) PROVE Goal
  BY <1>4 DEF BuildEnds
<1> QED
  BY <1>2, <1>3, <1>4 DEF Next, PrepareDeploy, PrepareRelease, Remap, ChangeSnapshotted,
     SwitchedOutside, Crash, provider

\* Asking comes before happening.
LEMMA FlowStep ==
  ASSUME EffectsInv, Flow, Next
  PROVE  Flow'
<1> USE DEF EffectsInv
<1>1. issued \in [Effects -> Nat] /\ issued' \in [Effects -> Nat] /\ inflight \subseteq Effects
      /\ landed \subseteq Effects
  BY TypedStep DEF Typed, ProviderTyped
<1>2. ASSUME NEW e \in Effects, issued[e] > 0 PROVE issued'[e] > 0
  BY <1>1, <1>2, FirstAsked
<1>3. CASE UNCHANGED <<landed, built>>
  <2>1. ASSUME NEW e \in inflight' PROVE issued'[e] > 0 /\ e \notin landed'
    <3>1. CASE e \in inflight
      BY <1>1, <1>2, <1>3, <3>1 DEF Flow
    <3>2. CASE e \notin inflight
      <4>1. PICK f \in Effects : Asks(f)
        BY <3>2, InflightStep
      <4>2. e = f /\ issued' = [issued EXCEPT ![f] = @ + 1]
        BY <3>2, <4>1 DEF Asks, Ask
      <4>3. issued[e] = 0 /\ issued'[e] = 1
        BY <1>1, <4>2, FirstAsked
      <4> QED
        BY <1>3, <4>3 DEF Flow
    <3> QED
      BY <3>1, <3>2
  <2> QED
    BY <1>1, <1>2, <1>3, <2>1 DEF Flow
<1>4. ASSUME NEW e \in Effects, Land(e) PROVE Flow'
  BY <1>4 DEF Land, Flow
<1>5. ASSUME NEW d \in Deploys, BuildEnds(d) PROVE Flow'
  BY <1>5 DEF BuildEnds, Flow
<1> QED
  BY <1>3, <1>4, <1>5, HappensStep

Ends == {"READY", "ERROR"}

\* How the record comes to say something of a deployment at the provider.
LEMMA RecordedStep ==
  ASSUME Typed, Next
  PROVE  \/ UNCHANGED recorded
         \/ \E d \in Deploys : state[d] \in {"submitting", "uncertain"} /\ Submitted(d)
         \/ \E d \in Deploys : recorded' = [recorded EXCEPT ![d] = built[d]]
                               /\ UNCHANGED <<built, landed, state>>
<1> DEFINE Goal == \/ UNCHANGED recorded
                   \/ \E d \in Deploys : state[d] \in {"submitting", "uncertain"} /\ Submitted(d)
                   \/ \E d \in Deploys : recorded' = [recorded EXCEPT ![d] = built[d]]
                                         /\ UNCHANGED <<built, landed, state>>
<1>1. ASSUME UNCHANGED record PROVE Goal
  BY <1>1 DEF record
<1>2. ASSUME NEW c \in Calls, Refused(c) PROVE Goal
  BY <1>1, <1>2 DEF Refused
<1>3. ASSUME NEW c \in Calls, SubmissionAnswered(c) PROVE Goal
  <2>1. arg[c] \in Deploys
    BY <1>3 DEF SubmissionAnswered, Typed, CallsTyped
  <2> QED
    BY <1>2, <1>3, <2>1 DEF SubmissionAnswered
<1>4. ASSUME NEW c \in Calls, Reconcile(c) PROVE Goal
  <2>1. arg[c] \in Deploys /\ seen[c] \in {"submitting", "uncertain"}
    BY <1>4 DEF Reconcile, Typed, CallsTyped
  <2> QED
    BY <1>2, <1>4, <2>1 DEF Reconcile
<1>5. ASSUME NEW c \in Calls, Observe(c) PROVE Goal
  <2>1. arg[c] \in Deploys
    BY <1>5 DEF Observe, Typed, CallsTyped
  <2> QED
    BY <1>1, <1>5, <2>1 DEF Observe, provider
<1>6. ASSUME NEW c \in Calls, Begin(c) PROVE Goal
  BY <1>1, <1>6 DEF Begin, SubmitBegin, ReconcileBegin, ObserveBegin, ExecuteBegin, ObserveReleaseBegin
<1>7. ASSUME NEW c \in Calls, Call(c) PROVE Goal
  BY <1>1, <1>2, <1>3, <1>4, <1>5, <1>7 DEF Call, ConfigAttempt, ConfigReceipt, ConfigReceiptRefused,
     ConfigUncertain, SubmissionBoundary, SubmitAbandoned, SettleDeploy, PreflightFails, Switch,
     SwitchAnswered, ObserveReleaseBegin, ObserveReleaseRefused, ReadServing, StoreServing,
     TargetSeen, TargetNotSeen, Finalize
<1> QED
  BY <1>1, <1>6, <1>7 DEF Next, PrepareDeploy, BuildEnds, PrepareRelease, Remap, ChangeSnapshotted,
     Land, SwitchedOutside, Crash

\* A call comes to settle what it has just recorded.
LEMMA SettlingStep ==
  ASSUME Typed, Next, NEW c \in Calls, pc'[c] = "settling"
  PROVE  \/ pc[c] = "settling" /\ arg'[c] = arg[c]
         \/ /\ arg'[c] = arg[c] /\ arg[c] \in Deploys /\ state[arg[c]] = "submitted"
            /\ built[arg[c]] # "building" /\ recorded' = [recorded EXCEPT ![arg[c]] = built[arg[c]]]
            /\ UNCHANGED <<built, state>>
<1> DEFINE Stays == pc[c] = "settling" /\ arg'[c] = arg[c]
           Comes == /\ arg'[c] = arg[c] /\ arg[c] \in Deploys /\ state[arg[c]] = "submitted"
                    /\ built[arg[c]] # "building"
                    /\ recorded' = [recorded EXCEPT ![arg[c]] = built[arg[c]]]
                    /\ UNCHANGED <<built, state>>
<1>1. ASSUME NEW b \in Calls, NEW l, NEW o, NEW s, Await(b, l, o, s), l # "settling"
      PROVE  Stays
  BY <1>1 DEF Await, Typed, CallsTyped
<1>2. ASSUME NEW b \in Calls, Return(b) PROVE Stays
  BY <1>1, <1>2 DEF Return
<1>3. ASSUME NEW b \in Calls, Refused(b) PROVE Stays
  BY <1>2, <1>3 DEF Refused
<1>4. ASSUME NEW b \in Calls, Observe(b) PROVE Stays \/ Comes
  <2>1. CASE Return(b)
    BY <1>2, <2>1
  <2>2. CASE ~Return(b)
    <3>1. /\ Await(b, "settling", arg[b], None) /\ arg[b] \in Deploys /\ state[arg[b]] = "submitted"
          /\ built[arg[b]] # "building" /\ recorded' = [recorded EXCEPT ![arg[b]] = built[arg[b]]]
          /\ UNCHANGED <<built, state>>
      BY <1>4, <2>2 DEF Observe, provider, Typed, CallsTyped
    <3>2. CASE b = c
      BY <3>1, <3>2 DEF Await, Typed, CallsTyped
    <3>3. CASE b # c
      BY <3>1, <3>3 DEF Await, Typed, CallsTyped
    <3> QED
      BY <3>2, <3>3
  <2> QED
    BY <2>1, <2>2
<1>5. ASSUME NEW b \in Calls, Begin(b) PROVE Stays
  BY <1>1, <1>5 DEF Begin, SubmitBegin, ReconcileBegin, ObserveBegin, ExecuteBegin, ObserveReleaseBegin
<1>6. ASSUME NEW b \in Calls, Call(b) PROVE Stays \/ Comes
  BY <1>1, <1>2, <1>3, <1>4, <1>6 DEF Call, ConfigAttempt, ConfigReceipt, ConfigReceiptRefused,
     ConfigUncertain, SubmissionBoundary, SubmitAbandoned, SubmissionAnswered, Reconcile,
     SettleDeploy, PreflightFails, Switch, SwitchAnswered, ObserveReleaseBegin,
     ObserveReleaseRefused, ReadServing, StoreServing, TargetSeen, TargetNotSeen, Finalize
<1>7. ~Crash
  BY DEF Crash
<1> QED
  BY <1>5, <1>6, <1>7 DEF Next, PrepareDeploy, BuildEnds, PrepareRelease, Remap,
     ChangeSnapshotted, Land, SwitchedOutside, calls

\* A deployment exists at the provider once its submission has happened; a
\* build that ended stays as it ended, and the record of its end is right.
Provided ==
  \A d \in Deploys : /\ built[d] = "none" <=> <<d, "deploy">> \notin landed
                     /\ recorded[d] \in Ends => built[d] = recorded[d]
                     /\ state[d] \in {"submitted", "confirmed", "failed"} => <<d, "deploy">> \in landed

\* A call settles only what was submitted and seen to have ended.
Settling ==
  \A c \in Calls : pc[c] = "settling" => /\ recorded[arg[c]] \in Ends
                                         /\ state[arg[c]] \in {"submitted", "confirmed", "failed"}

TruthInv == EffectsInv /\ Flow /\ Provided /\ Settling /\ DeploymentTruthful

\* Confirmed deployments were built before, the others do not exist.
LEMMA TruthInit == Init => TruthInv
<1> SUFFICES ASSUME Init PROVE TruthInv
  OBVIOUS
<1>1. EffectsInv
  BY EffectsInit
<1>2. Flow
  <2>1. inflight = {} /\ landed = Built \X (Vars \cup {"deploy"})
    BY DEF Init
  <2>2. issued = [e \in Effects |-> IF e \in landed THEN 1 ELSE 0]
    BY DEF Init
  <2>3. ASSUME NEW e \in landed PROVE issued[e] > 0
    <3>1. e \in Effects
      BY <2>1, <2>3
    <3> QED
      BY <2>2, <2>3, <3>1
  <2> QED
    BY <2>1, <2>3 DEF Flow
<1>3. ASSUME NEW d \in Deploys
      PROVE  /\ state[d] = (IF d \in Built THEN "confirmed" ELSE "unused")
             /\ built[d] = (IF d \in Built THEN "READY" ELSE "none") /\ recorded[d] = built[d]
             /\ <<d, "deploy">> \in landed <=> d \in Built
  <2>1. state[d] = (IF d \in Built THEN "confirmed" ELSE "unused")
    BY <1>3 DEF Init
  <2>2. built[d] = (IF d \in Built THEN "READY" ELSE "none") /\ recorded[d] = built[d]
    BY <1>3 DEF Init
  <2>3. landed = Built \X (Vars \cup {"deploy"})
    BY DEF Init
  <2> QED
    BY <2>1, <2>2, <2>3
<1>4. Provided /\ DeploymentTruthful
  BY <1>3 DEF Provided, DeploymentTruthful, Ends
<1>5. Settling
  BY DEF Init, Settling
<1> QED
  BY <1>1, <1>2, <1>4, <1>5 DEF TruthInv

\* How one deployment fares at the provider in a step.
LEMMA BuiltStep ==
  ASSUME TruthInv, Next, NEW d \in Deploys
  PROVE  /\ \/ built'[d] = built[d] /\ (<<d, "deploy">> \in landed' <=> <<d, "deploy">> \in landed)
            \/ built[d] = "none" /\ built'[d] = "building" /\ <<d, "deploy">> \in landed'
            \/ built[d] = "building" /\ built'[d] \in Ends /\ UNCHANGED landed
<1> USE DEF TruthInv, EffectsInv
<1>1. built \in [Deploys -> {"none", "building", "READY", "ERROR"}]
  BY DEF Typed, ProviderTyped
<1>2. ASSUME NEW e \in Effects, Land(e), e = <<d, "deploy">>
      PROVE  built[d] = "none" /\ built'[d] = "building" /\ e \in landed'
  BY <1>1, <1>2 DEF Land, Flow, Provided
<1>3. ASSUME NEW e \in Effects, Land(e), e # <<d, "deploy">>
      PROVE  built'[d] = built[d] /\ (<<d, "deploy">> \in landed' <=> <<d, "deploy">> \in landed)
  <2>1. landed' = landed \cup {e}
    BY <1>3 DEF Land
  <2>2. CASE e[2] = "deploy"
    <3>1. e[1] \in Deploys /\ e[1] # d
      BY <1>3, <2>2
    <3> QED
      BY <1>1, <1>3, <2>1, <2>2, <3>1 DEF Land
  <2>3. CASE e[2] # "deploy"
    BY <1>3, <2>1, <2>3 DEF Land
  <2> QED
    BY <2>2, <2>3
<1>4. ASSUME NEW b \in Deploys, BuildEnds(b)
      PROVE  built'[d] = built[d] \/ (built[d] = "building" /\ built'[d] \in Ends)
  BY <1>1, <1>4 DEF BuildEnds, Ends
<1> QED
  BY <1>2, <1>3, <1>4, HappensStep

\* The states a deployment is in once it was submitted are not left.
LEMMA StaysSubmitted ==
  ASSUME Typed, Next, NEW d \in Deploys, state[d] \in {"submitted", "confirmed", "failed"}
  PROVE  /\ state'[d] \in {"submitted", "confirmed", "failed"}
         /\ state[d] # "submitted" => state'[d] = state[d]
<1>1. state \in [Ops -> DeployStates \cup ReleaseStates]
  BY DEF Typed, RecordTyped
<1>2. ASSUME NEW o \in Ops, Prepares(o) PROVE state'[d] = state[d]
  BY <1>1, <1>2 DEF Prepares, SetState
<1>3. ASSUME NEW o \in Ops, NEW s \in DeployStates \cup ReleaseStates, Moves(o, s)
      PROVE  state'[d] = state[d] \/ (state[d] = "submitted" /\ state'[d] \in {"confirmed", "failed"})
  BY <1>1, <1>3 DEF Moves, SetState, DeployMoves
<1> QED
  BY <1>2, <1>3, Shapes

\* The record of a deployment stays true of the provider.
LEMMA TruthStep ==
  ASSUME TruthInv, Next
  PROVE  TruthInv'
<1> USE DEF TruthInv
<1>1. EffectsInv' /\ Flow'
  BY EffectsStep, FlowStep
<1>2. Typed
  BY DEF EffectsInv
<1>3. built \in [Deploys -> {"none", "building", "READY", "ERROR"}]
      /\ recorded \in [Deploys -> {"none", "building", "READY", "ERROR"}]
  BY <1>2 DEF Typed, ProviderTyped, RecordTyped
<1>4. ASSUME NEW d \in Deploys, recorded[d] \in Ends PROVE built'[d] = built[d]
  BY <1>4, BuiltStep DEF Provided, Ends
<1>5. ASSUME NEW d \in Deploys, Submitted(d), NEW q \in Deploys
      PROVE  recorded'[q] = IF q = d THEN built[q] ELSE recorded[q]
  BY <1>3, <1>5 DEF Submitted
<1>6. ASSUME NEW d \in Deploys, recorded'[d] \in Ends PROVE built'[d] = recorded'[d]
  <2>1. recorded'[d] \in {recorded[d], built[d]}
    BY <1>2, <1>3, <1>5, RecordedStep
  <2>2. built[d] = recorded'[d]
    BY <1>6, <2>1 DEF Provided
  <2> QED
    BY <1>6, <2>2, BuiltStep DEF Ends
<1>7. ASSUME NEW d \in Deploys, state'[d] \in {"submitted", "confirmed", "failed"}
      PROVE  <<d, "deploy">> \in landed'
  <2>1. <<d, "deploy">> \in landed
    <3>1. CASE state'[d] = state[d]
      BY <1>7, <3>1 DEF Provided
    <3>2. CASE state'[d] # state[d]
      <4>1. CASE state'[d] = "submitted"
        BY <1>2, <3>2, <4>1, BecomesStep
      <4>2. CASE state'[d] # "submitted"
        <5>1. PICK c \in Calls : SettleDeploy(c) /\ arg[c] = d
          BY <1>2, <1>7, <3>2, <4>2, BecomesStep
        <5> QED
          BY <5>1 DEF SettleDeploy, Settling, Provided
      <4> QED
        BY <4>1, <4>2
    <3> QED
      BY <3>1, <3>2
  <2> QED
    BY <2>1, LandedStep
<1>8. Provided'
  <2>1. ASSUME NEW d \in Deploys PROVE (built[d] = "none" <=> <<d, "deploy">> \notin landed)'
    BY <1>3, BuiltStep DEF Provided, Ends
  <2> QED
    BY <1>6, <1>7, <2>1 DEF Provided
<1>9. Settling'
  <2> SUFFICES ASSUME NEW c \in Calls, pc'[c] = "settling"
               PROVE  /\ recorded'[arg'[c]] \in Ends
                      /\ state'[arg'[c]] \in {"submitted", "confirmed", "failed"}
    BY DEF Settling
  <2>1. CASE pc[c] = "settling" /\ arg'[c] = arg[c]
    <3>1. /\ arg[c] \in Deploys /\ recorded[arg[c]] \in Ends
          /\ state[arg[c]] \in {"submitted", "confirmed", "failed"}
      BY <1>2, <2>1 DEF Settling, Typed, CallsTyped
    <3>2. recorded'[arg[c]] \in {recorded[arg[c]], built[arg[c]]}
      BY <1>2, <1>3, <1>5, <3>1, RecordedStep
    <3>3. recorded'[arg[c]] \in Ends
      BY <3>1, <3>2 DEF Provided
    <3> QED
      BY <1>2, <2>1, <3>1, <3>3, StaysSubmitted
  <2>2. CASE /\ arg'[c] = arg[c] /\ arg[c] \in Deploys /\ state[arg[c]] = "submitted"
             /\ built[arg[c]] # "building" /\ recorded' = [recorded EXCEPT ![arg[c]] = built[arg[c]]]
             /\ UNCHANGED <<built, state>>
    BY <1>3, <2>2 DEF Provided, Ends
  <2> QED
    BY <1>2, <2>1, <2>2, SettlingStep
<1>10. DeploymentTruthful'
  <2> SUFFICES ASSUME NEW d \in Deploys
               PROVE  /\ state'[d] = "submitted" => <<d, "deploy">> \in landed'
                      /\ state'[d] = "confirmed" => built'[d] = "READY"
                      /\ state'[d] = "failed" => built'[d] = "ERROR"
    BY DEF DeploymentTruthful
  <2>1. CASE state'[d] = state[d]
    BY <1>7, <2>1, BuiltStep DEF DeploymentTruthful, Ends
  <2>2. ASSUME state'[d] # state[d], state'[d] \in {"confirmed", "failed"}
        PROVE  state'[d] = (IF built'[d] = "READY" THEN "confirmed" ELSE "failed") /\ built'[d] \in Ends
    <3>1. PICK c \in Calls : SettleDeploy(c) /\ arg[c] = d
      BY <1>2, <2>2, BecomesStep
    <3>2. recorded[d] \in Ends /\ built[d] = recorded[d] /\ built'[d] = built[d]
      BY <1>4, <3>1 DEF SettleDeploy, Settling, Provided
    <3>3. state'[d] = Outcome(d)
      BY <1>2, <2>2, <3>1 DEF SettleDeploy, SetState, Refused, record, Typed, RecordTyped
    <3> QED
      BY <3>2, <3>3 DEF Outcome
  <2> QED
    BY <1>7, <2>1, <2>2 DEF Ends
<1> QED
  BY <1>1, <1>8, <1>9, <1>10

\* So it does when nothing of it changes.
LEMMA TruthKept ==
  ASSUME TruthInv, [Next]_vars
  PROVE  TruthInv'
<1>1. ASSUME UNCHANGED vars PROVE TruthInv'
  BY <1>1, EffectsStep DEF TruthInv, Flow, Provided, Settling, DeploymentTruthful, vars, record,
     calls, provider
<1> QED
  BY <1>1, TruthStep

\* The record calls a deployment submitted, confirmed or failed only as the
\* provider made it and ended it, however late effects and observations come.
THEOREM DeploymentTruthfulAlways == Spec => []DeploymentTruthful
<1>1. TruthInv => DeploymentTruthful
  BY DEF TruthInv
<1> QED
  BY <1>1, TruthInit, TruthKept, PTL DEF Spec

----------------------------------------------------------------------------
\* Operations are durable intents of one effect each.

Phases == [o \in Ops |-> LedgerPhase(o)]
Shown == [o \in Ops |-> LedgerEffect(o)]

\* The phase of an operation in a given state.
PhaseIn(o, s) ==
  CASE s = "unused" -> "idle"
    [] s \in {"prepared", "projecting"} -> "intended"
    [] s = "switching" -> "attempted"
    [] s \in {"submitting", "submitted", "uncertain", "verifying", "safe_stop"} -> "awaiting"
    [] s \in {"confirmed", "completed"} -> "done"
    [] s = "failed" -> IF o \in Deploys THEN "done" ELSE "refused"

\* What an effect shows, from whether it happened and was asked for.
EffectShown(happened, asked) ==
  IF happened THEN "happened" ELSE IF asked THEN "requested" ELSE "none"

\* An operation's view before and after a step.
LEMMA Views ==
  ASSUME NEW o \in Ops
  PROVE  /\ LedgerPhase(o) = PhaseIn(o, state[o])
         /\ LedgerPhase(o)' = PhaseIn(o, state'[o])
         /\ LedgerEffect(o) = EffectShown(EffectOf(o) \in landed, issued[EffectOf(o)] > 0)
         /\ LedgerEffect(o)' = EffectShown(EffectOf(o) \in landed', issued'[EffectOf(o)] > 0)
  BY DEF LedgerPhase, PhaseIn, LedgerEffect, EffectShown, EffectOf

\* What the ledger allows one operation to do in a step.
Advances(o) ==
  LET from(p, q) == LedgerPhase(o) = p /\ LedgerPhase(o)' = q
      effect(e, f) == LedgerEffect(o) = e /\ LedgerEffect(o)' = f
      same == LedgerEffect(o)' = LedgerEffect(o)
  IN
  \/ from("idle", "intended") /\ same
  \/ from("intended", "attempted") /\ same
  \/ from("attempted", "awaiting") /\ same
  \/ from("awaiting", "done") /\ same /\ (o \in Deploys => LedgerEffect(o) = "happened")
  \/ from("attempted", "refused") /\ effect("none", "none")
  \/ from("attempted", "attempted") /\ effect("none", "requested")
  \/ from("intended", "awaiting") /\ effect("none", "requested")
  \/ LedgerPhase(o)' = LedgerPhase(o) /\ effect("requested", "happened")

Rests(o) == LedgerPhase(o)' = LedgerPhase(o) /\ LedgerEffect(o)' = LedgerEffect(o)

\* A step in which one operation advances is a step of the ledger.
LEMMA Advancing ==
  ASSUME NEW o \in Ops, Advances(o), \A q \in Ops \ {o} : Rests(q)
  PROVE  Ledger!Next
<1>1. /\ Phases' = [Phases EXCEPT ![o] = LedgerPhase(o)']
      /\ Shown' = [Shown EXCEPT ![o] = LedgerEffect(o)']
  BY DEF Phases, Shown, Rests
<1>2. /\ Phases[o] = LedgerPhase(o) /\ Phases'[o] = LedgerPhase(o)'
      /\ Shown[o] = LedgerEffect(o) /\ Shown'[o] = LedgerEffect(o)'
  BY DEF Phases, Shown
<1>3. LedgerPhase(o)' = LedgerPhase(o) => Phases' = Phases
  BY <1>1, <1>2 DEF Phases
<1>4. LedgerEffect(o)' = LedgerEffect(o) => Shown' = Shown
  BY <1>1, <1>2 DEF Shown
<1>5. /\ Phases'[o] # Phases[o] \/ Shown'[o] # Shown[o]
      /\ \/ Ledger!Intend(o) \/ Ledger!Attempt(o) \/ Ledger!RequestAttempted(o)
         \/ Ledger!RequestAndWait(o) \/ Ledger!Wait(o) \/ Ledger!Finish(o) \/ Ledger!Refuse(o)
         \/ Ledger!Happen(o)
  BY <1>1, <1>2, <1>3, <1>4 DEF Advances, Ledger!Intend, Ledger!Attempt, Ledger!RequestAttempted,
     Ledger!RequestAndWait, Ledger!Wait, Ledger!Finish, Ledger!Refuse, Ledger!Happen, Ledger!Move,
     Ledger!Request, Phases, Shown
<1> QED
  BY <1>5 DEF Ledger!Next, Phases, Shown

\* A step in which none advances is not seen.
LEMMA Resting ==
  ASSUME \A q \in Ops : Rests(q)
  PROVE  UNCHANGED Ledger!vars
  BY DEF Ledger!vars, Rests

\* An operation nothing is done to rests.
LEMMA Untouched ==
  ASSUME NEW q \in Ops, state'[q] = state[q],
         issued'[EffectOf(q)] = issued[EffectOf(q)],
         EffectOf(q) \in landed' <=> EffectOf(q) \in landed
  PROVE  Rests(q)
  BY Views DEF Rests

\* Effects of different operations are different, and no write of a variable is
\* the effect of an operation.
LEMMA OwnEffect ==
  ASSUME NEW o \in Ops
  PROVE  /\ EffectOf(o) \in Effects
         /\ \A q \in Ops : EffectOf(q) = EffectOf(o) => q = o
         /\ \A d \in Deploys, v \in Vars : EffectOf(o) # <<d, v>>
         /\ o \in Deploys => EffectOf(o) = <<o, "deploy">>
         /\ o \in Releases => EffectOf(o) = <<o, "switch">>
  BY DEF EffectOf

\* An operation moves on while nothing is asked for and nothing happens.
LEMMA MoveAdvances ==
  ASSUME TruthInv, Next, UNCHANGED <<issued, landed>>,
         NEW o \in Ops, NEW s \in DeployStates \cup ReleaseStates, Moves(o, s)
  PROVE  Advances(o) \/ Rests(o)
<1> USE DEF TruthInv, EffectsInv
<1>1. state'[o] = s /\ <<state[o], s>> \in IF o \in Deploys THEN DeployMoves ELSE ReleaseMoves
  BY DEF Moves, SetState, Typed, RecordTyped
<1>2. LedgerEffect(o)' = LedgerEffect(o)
  BY Views
<1>3. s # "projecting" => state[o] # s
  BY <1>1 DEF DeployMoves, ReleaseMoves
<1>4. s # "submitting"
  <2>1. ASSUME NEW c \in Calls, SubmissionBoundary(c) PROVE FALSE
    <3>1. <<arg[c], "deploy">> \in Effects
      BY <2>1 DEF SubmissionBoundary, Typed, CallsTyped
    <3> QED
      BY <2>1, <3>1 DEF SubmissionBoundary, Ask, Typed, ProviderTyped
  <2> QED
    BY <1>1, <1>3, <2>1, BecomesStep
<1>5. CASE o \in Deploys
  <2>1. state[o] = "submitted" => LedgerEffect(o) = "happened"
    BY <1>5, Views, OwnEffect DEF Provided, EffectShown
  <2>2. \/ state[o] \in {"prepared", "projecting"} /\ s = "projecting"
        \/ state[o] \in {"submitting", "uncertain"} /\ s \in {"submitted", "uncertain"}
        \/ state[o] = "submitted" /\ s \in {"confirmed", "failed"}
    BY <1>1, <1>4, <1>5 DEF DeployMoves
  <2> QED
    BY <1>1, <1>2, <1>5, <2>1, <2>2, Views DEF PhaseIn, Advances, Rests
<1>6. CASE o \in Releases
  <2>1. s = "failed" => state[o] = "switching" /\ LedgerEffect(o) = "none"
    <3> SUFFICES ASSUME s = "failed" PROVE state[o] = "switching" /\ LedgerEffect(o) = "none"
      OBVIOUS
    <3>1. PICK c \in Calls : arg[c] = o /\ PreflightFails(c)
      BY <1>1, <1>3, <1>6, BecomesStep
    <3>2. state[o] # "prepared" /\ issued[<<o, "switch">>] = 0
      BY <3>1 DEF PreflightFails, Asked
    <3>3. <<o, "switch">> \notin landed
      BY <3>2 DEF Flow
    <3> QED
      BY <1>1, <1>6, <3>2, <3>3, Views, OwnEffect DEF ReleaseMoves, EffectShown
  <2>2. \/ state[o] = "prepared" /\ s = "switching"
        \/ state[o] = "switching" /\ s \in {"failed", "verifying", "uncertain", "safe_stop"}
        \/ state[o] \in {"uncertain", "verifying", "safe_stop"} /\ s \in {"verifying", "safe_stop"}
        \/ state[o] = "verifying" /\ s = "completed"
    BY <1>1, <1>6, <2>1 DEF ReleaseMoves
  <2> QED
    BY <1>1, <1>2, <1>6, <2>1, <2>2, Views DEF PhaseIn, Advances, Rests
<1> QED
  BY <1>5, <1>6

\* A step that only moves the record advances at most one operation.
LEMMA RecordLedger ==
  ASSUME TruthInv, Next, UNCHANGED <<issued, landed>>
  PROVE  Ledger!Next \/ UNCHANGED Ledger!vars
<1>1. state \in [Ops -> DeployStates \cup ReleaseStates]
  BY DEF TruthInv, EffectsInv, Typed, RecordTyped
<1>2. ASSUME UNCHANGED state PROVE UNCHANGED Ledger!vars
  BY <1>2, Untouched, Resting
<1>3. ASSUME NEW o \in Ops, Advances(o) \/ Rests(o), \A q \in Ops \ {o} : state'[q] = state[q]
      PROVE  Ledger!Next \/ UNCHANGED Ledger!vars
  <2>1. \A q \in Ops \ {o} : Rests(q)
    BY <1>3, Untouched
  <2> QED
    BY <1>3, <2>1, Advancing, Resting
<1>4. ASSUME NEW o \in Ops, Prepares(o) PROVE Advances(o) /\ \A q \in Ops \ {o} : state'[q] = state[q]
  <2>1. state[o] = "unused" /\ state'[o] = "prepared" /\ \A q \in Ops \ {o} : state'[q] = state[q]
    BY <1>1, <1>4 DEF Prepares, SetState
  <2>2. LedgerEffect(o)' = LedgerEffect(o)
    BY Views
  <2> QED
    BY <2>1, <2>2, Views DEF PhaseIn, Advances
<1>5. ASSUME NEW o \in Ops, NEW s \in DeployStates \cup ReleaseStates, Moves(o, s)
      PROVE  (Advances(o) \/ Rests(o)) /\ \A q \in Ops \ {o} : state'[q] = state[q]
  <2>1. \A q \in Ops \ {o} : state'[q] = state[q]
    BY <1>1, <1>5 DEF Moves, SetState
  <2> QED
    BY <1>5, <2>1, MoveAdvances
<1> QED
  BY <1>2, <1>3, <1>4, <1>5, Shapes DEF TruthInv, EffectsInv

\* Asking is a step of the operation whose effect is asked for; writing a
\* variable is none.
LEMMA AskLedger ==
  ASSUME TruthInv, Next, issued' # issued
  PROVE  Ledger!Next \/ UNCHANGED Ledger!vars
<1> USE DEF TruthInv, EffectsInv
<1>1. /\ issued \in [Effects -> Nat] /\ state \in [Ops -> DeployStates \cup ReleaseStates]
      /\ landed \subseteq Effects
  BY DEF Typed, ProviderTyped, RecordTyped
<1>2. ASSUME NEW o \in Ops, Ask(EffectOf(o)), issued[EffectOf(o)] = 0,
             \A q \in Ops \ {o} : state'[q] = state[q]
      PROVE  /\ LedgerEffect(o) = "none" /\ LedgerEffect(o)' = "requested"
             /\ \A q \in Ops \ {o} : Rests(q)
  <2>1. EffectOf(o) \in Effects /\ landed' = landed /\ EffectOf(o) \notin landed
    BY <1>2, OwnEffect DEF Ask, Flow
  <2>2. issued'[EffectOf(o)] = 1
    BY <1>1, <1>2, <2>1 DEF Ask
  <2>3. ASSUME NEW q \in Ops \ {o} PROVE Rests(q)
    <3>1. EffectOf(q) \in Effects /\ EffectOf(q) # EffectOf(o)
      BY OwnEffect
    <3>2. issued'[EffectOf(q)] = issued[EffectOf(q)]
      BY <1>1, <1>2, <3>1 DEF Ask
    <3> QED
      BY <1>2, <2>1, <3>2, Untouched
  <2> QED
    BY <1>2, <2>1, <2>2, <2>3, Views DEF EffectShown
<1>3. ASSUME NEW c \in Calls, NEW v \in Vars, ConfigAttempt(c, v) PROVE UNCHANGED Ledger!vars
  <2>1. /\ arg[c] \in Deploys /\ state[arg[c]] \in {"prepared", "projecting"}
        /\ state' = [state EXCEPT ![arg[c]] = "projecting"]
        /\ issued' = [issued EXCEPT ![<<arg[c], v>>] = @ + 1] /\ landed' = landed
    BY <1>3 DEF ConfigAttempt, MaySubmit, SetState, Ask, Typed, CallsTyped
  <2>2. ASSUME NEW q \in Ops PROVE LedgerEffect(q)' = LedgerEffect(q)
    <3>1. EffectOf(q) \in Effects /\ EffectOf(q) # <<arg[c], v>>
      BY <2>1, OwnEffect
    <3>2. issued'[EffectOf(q)] = issued[EffectOf(q)]
      BY <1>1, <2>1, <3>1
    <3> QED
      BY <2>1, <3>2, Views
  <2>3. ASSUME NEW q \in Ops PROVE LedgerPhase(q)' = LedgerPhase(q)
    <3>1. state'[q] = state[q] \/ (state[q] \in {"prepared", "projecting"} /\ state'[q] = "projecting")
      BY <1>1, <2>1
    <3> QED
      BY <3>1, Views DEF PhaseIn
  <2> QED
    BY <2>2, <2>3, Resting DEF Rests
<1>4. ASSUME NEW c \in Calls, NEW d \in Deploys, arg[c] = d, SubmissionBoundary(c) PROVE Ledger!Next
  <2>1. /\ state[d] \in {"prepared", "projecting"} /\ state'[d] = "submitting"
        /\ \A q \in Ops \ {d} : state'[q] = state[q]
        /\ Ask(EffectOf(d))
    BY <1>1, <1>4 DEF SubmissionBoundary, MayCrossBoundary, MaySubmit, SetState, EffectOf
  <2>2. issued[EffectOf(d)] = 0
    BY <2>1, OwnEffect DEF Asked, Early
  <2>3. LedgerEffect(d) = "none" /\ LedgerEffect(d)' = "requested" /\ \A q \in Ops \ {d} : Rests(q)
    BY <1>2, <2>1, <2>2
  <2>4. LedgerPhase(d) = "intended" /\ LedgerPhase(d)' = "awaiting"
    BY <2>1, Views DEF PhaseIn
  <2> QED
    BY <2>3, <2>4, Advancing DEF Advances
<1>5. ASSUME NEW c \in Calls, NEW r \in Releases, arg[c] = r, Switch(c), MaySwitch(c) PROVE Ledger!Next
  <2>1. state[r] = "switching" /\ pc[c] = "preflight" /\ UNCHANGED state /\ Ask(EffectOf(r))
    BY <1>5 DEF Switch, MaySwitch, EffectOf, record
  <2>2. issued[EffectOf(r)] = 0
    BY <1>5, <2>1, OwnEffect DEF Asked
  <2>3. LedgerEffect(r) = "none" /\ LedgerEffect(r)' = "requested" /\ \A q \in Ops \ {r} : Rests(q)
    BY <1>2, <2>1, <2>2
  <2>4. LedgerPhase(r) = "attempted" /\ LedgerPhase(r)' = "attempted"
    BY <2>1, Views DEF PhaseIn
  <2> QED
    BY <2>3, <2>4, Advancing DEF Advances
<1>6. ASSUME NEW c \in Calls
      PROVE  /\ SubmissionBoundary(c) => arg[c] \in Deploys
             /\ Switch(c) => arg[c] \in Releases
  BY DEF SubmissionBoundary, Switch, Typed, CallsTyped
<1> QED
  BY <1>3, <1>4, <1>5, <1>6, IssuedStep

\* What happens at the provider is a step of the operation whose effect it is.
LEMMA LandLedger ==
  ASSUME TruthInv, NEW e \in Effects, Land(e)
  PROVE  Ledger!Next \/ UNCHANGED Ledger!vars
<1> USE DEF TruthInv, EffectsInv
<1>1. /\ landed' = landed \cup {e} /\ UNCHANGED <<state, issued>> /\ issued[e] > 0 /\ e \notin landed
  BY DEF Land, record, Flow
<1>2. ASSUME NEW q \in Ops, EffectOf(q) # e PROVE Rests(q)
  BY <1>1, <1>2, Untouched
<1>3. CASE \E o \in Ops : EffectOf(o) = e
  <2>1. PICK o \in Ops : EffectOf(o) = e
    BY <1>3
  <2>2. LedgerEffect(o) = "requested" /\ LedgerEffect(o)' = "happened" /\ LedgerPhase(o)' = LedgerPhase(o)
    BY <1>1, <2>1, Views DEF EffectShown
  <2>3. \A q \in Ops \ {o} : Rests(q)
    BY <1>2, <2>1, OwnEffect
  <2> QED
    BY <2>2, <2>3, Advancing DEF Advances
<1> QED
  BY <1>2, <1>3, Resting

\* A Build starts with its past deployments done and everything else unused.
LEMMA InitLedger == Init => Ledger!Init
<1> SUFFICES ASSUME Init PROVE Ledger!Init
  OBVIOUS
<1>1. /\ state = [o \in Ops |-> IF o \in Built THEN "confirmed" ELSE "unused"]
      /\ landed = Built \X (Vars \cup {"deploy"})
      /\ issued = [e \in Effects |-> IF e \in landed THEN 1 ELSE 0]
  BY DEF Init
<1>2. ASSUME NEW o \in Ops
      PROVE  /\ LedgerPhase(o) = (IF o \in Built THEN "done" ELSE "idle")
             /\ LedgerEffect(o) = (IF o \in Built THEN "happened" ELSE "none")
  <2>1. LedgerPhase(o) = (IF o \in Built THEN "done" ELSE "idle")
    BY <1>1, Views DEF PhaseIn
  <2>2. EffectOf(o) \in landed <=> o \in Built
    BY <1>1 DEF EffectOf
  <2>3. o \notin Built => issued[EffectOf(o)] = 0
    BY <1>1, <2>2, OwnEffect
  <2> QED
    BY <2>1, <2>2, <2>3, Views DEF EffectShown
<1>3. Phases \in [Ops -> {"idle", "done"}]
  BY <1>2 DEF Phases
<1>4. Shown = [o \in Ops |-> IF Phases[o] = "done" THEN "happened" ELSE "none"]
  BY <1>2 DEF Phases, Shown
<1> QED
  BY <1>3, <1>4 DEF Ledger!Init, Phases, Shown

\* Every operation on production is a durable intent: the record of it comes
\* before its one effect is asked for, an operation that awaits its effect never
\* asks again, and what was refused never had one.
THEOREM DeploymentsImplementLedger == Spec => ImplementsLedger
<1> USE DEF ImplementsLedger, Ledger!Spec
<1>1. TruthInv /\ [Next]_vars => [Ledger!Next]_(Ledger!vars)
  <2> SUFFICES ASSUME TruthInv, [Next]_vars PROVE Ledger!Next \/ UNCHANGED Ledger!vars
    OBVIOUS
  <2>1. CASE UNCHANGED vars
    BY <2>1, Untouched, Resting DEF vars, record, provider
  <2>2. ASSUME Next, UNCHANGED landed PROVE Ledger!Next \/ UNCHANGED Ledger!vars
    BY <2>2, RecordLedger, AskLedger
  <2> QED
    BY <2>1, <2>2, LandLedger, HappensStep DEF TruthInv, EffectsInv
<1>2. TruthInv /\ [Next]_vars => TruthInv'
  BY TruthKept
<1> QED
  BY <1>1, <1>2, InitLedger, TruthInit, PTL DEF Spec

----------------------------------------------------------------------------
\* A release is completed only after production served its target.

Reads == {"read", "stored"}

\* Production serving the target while its release is pending was witnessed;
\* so was what a call read while its release is pending, and what it finalizes.
Witnessing ==
  /\ \A r \in Releases : pending = r /\ live = target[r] => r \in witnessed
  /\ \A c \in Calls : pc[c] \in Reads /\ arg[c] \in Releases /\ pending = arg[c]
                        /\ seen[c] = target[arg[c]] => arg[c] \in witnessed
  /\ \A c \in Calls : pc[c] = "finalizing" => arg[c] \in witnessed
  /\ CompletedWasServed

WitnessInv == Typed /\ Witnessing

\* How a call comes to hold an observation, and to finalize on it.
LEMMA ReadingStep ==
  ASSUME Typed, Next, NEW c \in Calls, pc'[c] \in Reads \cup {"finalizing"}
  PROVE  /\ arg'[c] = arg[c]
         /\ \/ pc'[c] = pc[c] /\ seen'[c] = seen[c]
            \/ pc'[c] \in Reads /\ seen'[c] \in {live, None} /\ UNCHANGED <<record, provider>>
            \/ pc'[c] \in Reads /\ pc[c] \in Reads /\ seen'[c] = seen[c]
            \/ pc'[c] = "finalizing" /\ pc[c] \in Reads /\ SawTarget(c) /\ arg[c] \in Releases
<1> DEFINE Goal == /\ arg'[c] = arg[c]
                   /\ \/ pc'[c] = pc[c] /\ seen'[c] = seen[c]
                      \/ pc'[c] \in Reads /\ seen'[c] \in {live, None} /\ UNCHANGED <<record, provider>>
                      \/ pc'[c] \in Reads /\ pc[c] \in Reads /\ seen'[c] = seen[c]
                      \/ /\ pc'[c] = "finalizing" /\ pc[c] \in Reads /\ SawTarget(c)
                         /\ arg[c] \in Releases
<1>1. ASSUME NEW b \in Calls, NEW l, NEW o, NEW s, Await(b, l, o, s), l \notin Reads \cup {"finalizing"}
      PROVE  Goal
  BY <1>1 DEF Await, Reads, Typed, CallsTyped
<1>2. ASSUME NEW b \in Calls, Return(b) PROVE Goal
  BY <1>1, <1>2 DEF Return, Reads
<1>3. ASSUME NEW b \in Calls, Refused(b) PROVE Goal
  BY <1>2, <1>3 DEF Refused
<1>4. ASSUME UNCHANGED <<pc, arg, seen>> PROVE Goal
  BY <1>4
<1>5. ASSUME NEW b \in Calls, NEW l, NEW o, NEW s, Await(b, l, o, s), b # c PROVE Goal
  BY <1>5 DEF Await, Typed, CallsTyped
<1>6. ASSUME ReadServing(c) PROVE Goal
  <2>1. /\ \E s \in {live, None} : Await(c, "read", arg[c], s)
        /\ UNCHANGED <<record, provider>>
    BY <1>6 DEF ReadServing
  <2> QED
    BY <2>1 DEF Await, Reads, Typed, CallsTyped
<1>7. ASSUME StoreServing(c) PROVE Goal
  <2>1. CASE Await(c, "stored", arg[c], seen[c]) /\ pc[c] = "read"
    BY <2>1 DEF Await, Reads, Typed, CallsTyped
  <2> QED
    BY <1>2, <1>3, <1>7, <2>1 DEF StoreServing
<1>8. ASSUME TargetSeen(c) PROVE Goal
  <2>1. CASE Await(c, "finalizing", arg[c], None)
    BY <1>8, <2>1 DEF TargetSeen, Await, Reads, Typed, CallsTyped
  <2> QED
    BY <1>3, <1>8, <2>1 DEF TargetSeen
<1>9. ASSUME NEW b \in Calls, ReadServing(b) \/ StoreServing(b) \/ TargetSeen(b) PROVE Goal
  <2>1. CASE b = c
    BY <1>6, <1>7, <1>8, <1>9, <2>1
  <2>2. CASE b # c
    BY <1>2, <1>3, <1>5, <1>9, <2>2 DEF ReadServing, StoreServing, TargetSeen
  <2> QED
    BY <2>1, <2>2
<1>10. ASSUME NEW b \in Calls, Begin(b) PROVE Goal
  BY <1>1, <1>10 DEF Begin, SubmitBegin, ReconcileBegin, ObserveBegin, ExecuteBegin,
     ObserveReleaseBegin, Reads
<1>11. ASSUME NEW b \in Calls, Call(b) PROVE Goal
  <2> USE DEF Reads
  <2> QED
    BY <1>1, <1>2, <1>3, <1>9, <1>11 DEF Call, ConfigAttempt, ConfigReceipt, ConfigReceiptRefused,
       ConfigUncertain, SubmissionBoundary, SubmitAbandoned, SubmissionAnswered, Reconcile, Observe,
       SettleDeploy, PreflightFails, Switch, SwitchAnswered, ObserveReleaseBegin,
       ObserveReleaseRefused, TargetNotSeen, Finalize
<1>12. ~Crash
  BY DEF Crash, Reads
<1> QED
  BY <1>4, <1>10, <1>11, <1>12 DEF Next, PrepareDeploy, BuildEnds, PrepareRelease, Remap,
     ChangeSnapshotted, Land, SwitchedOutside, calls

\* What production is seen to serve changes only with a witness of it.
LEMMA LiveStep ==
  ASSUME Typed, Next
  PROVE  /\ witnessed \subseteq witnessed'
         /\ live' # live =>
              /\ UNCHANGED <<pending, target, state>>
              /\ \A r \in Releases : pending = r /\ live' = target[r] => r \in witnessed'
<1> DEFINE Goal == /\ witnessed \subseteq witnessed'
                   /\ live' # live =>
                        /\ UNCHANGED <<pending, target, state>>
                        /\ \A r \in Releases : pending = r /\ live' = target[r] => r \in witnessed'
<1>1. ASSUME UNCHANGED <<live, witnessed>> PROVE Goal
  BY <1>1
<1>2. ASSUME NEW c \in Calls, Refused(c) PROVE Goal
  BY <1>1, <1>2 DEF Refused, provider
<1>3. ASSUME NEW c \in Calls, Begin(c) PROVE Goal
  BY <1>1, <1>3 DEF Begin, SubmitBegin, ReconcileBegin, ObserveBegin, ExecuteBegin,
     ObserveReleaseBegin, provider
<1>4. ASSUME NEW c \in Calls, Call(c) PROVE Goal
  BY <1>1, <1>2, <1>4 DEF Call, ConfigAttempt, ConfigReceipt, ConfigReceiptRefused, ConfigUncertain,
     SubmissionBoundary, SubmitAbandoned, SubmissionAnswered, Reconcile, Observe, SettleDeploy,
     PreflightFails, Switch, SwitchAnswered, ObserveReleaseBegin, ObserveReleaseRefused,
     ReadServing, StoreServing, TargetSeen, TargetNotSeen, Finalize, Ask, provider
<1>5. ASSUME NEW d, Live(d), UNCHANGED record PROVE Goal
  BY <1>5 DEF Live, record
<1>6. ASSUME \/ \E r \in Releases, k \in Kinds, d \in Deploys : PrepareRelease(r, k, d)
      PROVE  Goal
  BY <1>6 DEF PrepareRelease
<1> QED
  BY <1>1, <1>3, <1>4, <1>5, <1>6 DEF Next, PrepareDeploy, BuildEnds, Remap, ChangeSnapshotted, Land,
     SwitchedOutside, Crash, provider

\* Only its preparation makes a release one that was used.
LEMMA PreparesRelease ==
  ASSUME Typed, Next, NEW r \in Releases, state[r] = "unused", state'[r] # "unused"
  PROVE  \E k \in Kinds, d \in Deploys : PrepareRelease(r, k, d)
<1> DEFINE Goal == \E k \in Kinds, d \in Deploys : PrepareRelease(r, k, d)
<1>1. ASSUME NEW o, NEW s, SetState(o, s) PROVE o = r
  BY <1>1 DEF SetState, Typed, RecordTyped
<1>2. ASSUME UNCHANGED state PROVE FALSE
  BY <1>2
<1>3. ASSUME UNCHANGED record PROVE FALSE
  BY <1>3 DEF record
<1>4. ASSUME NEW c \in Calls, Refused(c) PROVE FALSE
  BY <1>3, <1>4 DEF Refused
<1>5. ASSUME NEW c \in Calls PROVE arg[c] # r
  BY DEF Typed, Prepared
<1>6. ASSUME NEW c \in Calls, Begin(c) PROVE FALSE
  BY <1>1, <1>3, <1>6 DEF Begin, SubmitBegin, ReconcileBegin, ObserveBegin, ExecuteBegin,
     ObserveReleaseBegin
<1>7. ASSUME NEW c \in Calls, Call(c) PROVE FALSE
  BY <1>1, <1>2, <1>3, <1>4, <1>5, <1>7 DEF Call, ConfigAttempt, ConfigReceipt, ConfigReceiptRefused,
     ConfigUncertain, SubmissionBoundary, SubmitAbandoned, SubmissionAnswered, Reconcile, Submitted,
     Observe, SettleDeploy, PreflightFails, Switch, SwitchAnswered, ObserveReleaseBegin,
     ObserveReleaseRefused, ReadServing, StoreServing, TargetSeen, TargetNotSeen, Finalize
<1>8. ASSUME NEW d \in Deploys, PrepareDeploy(d) PROVE FALSE
  BY <1>1, <1>8 DEF PrepareDeploy
<1>9. ASSUME NEW q \in Releases, NEW k \in Kinds, NEW d \in Deploys, PrepareRelease(q, k, d) PROVE Goal
  <2>1. q = r
    BY <1>1, <1>9 DEF PrepareRelease
  <2> QED
    BY <1>9, <2>1
<1> QED
  BY <1>2, <1>3, <1>6, <1>7, <1>8, <1>9 DEF Next, BuildEnds, Remap, ChangeSnapshotted, Land,
     SwitchedOutside, Crash

\* A release becomes the pending one by being prepared, with what production
\* serves just then.
LEMMA PendingStep ==
  ASSUME WitnessInv, Next, NEW r \in Releases, pending' = r
  PROVE  \/ pending = r /\ target'[r] = target[r]
         \/ /\ \A c \in Calls : arg[c] # r
            /\ live' = target'[r] => r \in witnessed'
<1> USE DEF WitnessInv
<1>1. ASSUME NEW o \in Ops, Prepares(o)
      PROVE  /\ r = o /\ \A c \in Calls : arg[c] # r
             /\ \E k \in Kinds, d \in Deploys : PrepareRelease(r, k, d)
  <2>1. r = o /\ state[r] = "unused" /\ state'[r] = "prepared"
    BY <1>1 DEF Prepares, SetState, Typed, RecordTyped
  <2>2. \A c \in Calls : arg[c] # r
    BY <2>1 DEF Typed, Prepared
  <2>3. \E k \in Kinds, d \in Deploys : PrepareRelease(r, k, d)
    BY <2>1, PreparesRelease
  <2> QED
    BY <2>1, <2>2, <2>3
<1>2. ASSUME NEW k \in Kinds, NEW d \in Deploys, PrepareRelease(r, k, d)
      PROVE  live' = target'[r] => r \in witnessed'
  BY <1>2 DEF PrepareRelease, Typed, RecordTyped
<1>3. ASSUME NEW o \in Ops, NEW s \in DeployStates \cup ReleaseStates, Moves(o, s)
      PROVE  pending = r /\ target'[r] = target[r]
  BY <1>3 DEF Moves
<1> QED
  BY <1>1, <1>2, <1>3, Shapes

\* No release completes that production was not seen to serve.
LEMMA WitnessStep ==
  ASSUME WitnessInv, Next
  PROVE  WitnessInv'
<1> USE DEF WitnessInv
<1>1. Typed' /\ witnessed \subseteq witnessed'
  BY TypedStep, LiveStep
<1>2. ASSUME NEW r \in Releases, pending' = r, live' = target'[r] PROVE r \in witnessed'
  <2>1. CASE pending = r /\ target'[r] = target[r]
    <3>1. CASE live' = live
      BY <1>1, <1>2, <2>1, <3>1 DEF Witnessing
    <3>2. CASE live' # live
      BY <1>2, <2>1, <3>2, LiveStep
    <3> QED
      BY <3>1, <3>2
  <2> QED
    BY <1>2, <2>1, PendingStep
<1>3. ASSUME NEW c \in Calls, pc'[c] \in Reads, NEW r \in Releases, arg'[c] = r, pending' = r,
             seen'[c] = target'[r]
      PROVE  r \in witnessed'
  <2>1. arg[c] = r
    BY <1>3, ReadingStep
  <2>2. pending = r /\ target'[r] = target[r]
    BY <1>3, <2>1, PendingStep
  <2>3. r \in witnessed
    <3>1. CASE pc[c] \in Reads /\ seen'[c] = seen[c]
      BY <1>3, <2>1, <2>2, <3>1 DEF Witnessing
    <3>2. CASE seen'[c] \in {live, None}
      <4>1. target[r] \in Deploys
        BY <2>2 DEF Typed, Prepared
      <4> QED
        BY <1>3, <2>2, <3>2, <4>1 DEF Witnessing
    <3>3. pc'[c] # "finalizing"
      BY <1>3 DEF Reads
    <3> QED
      BY <1>3, <3>1, <3>2, <3>3, ReadingStep
  <2> QED
    BY <1>1, <2>3
<1>4. ASSUME NEW c \in Calls, pc'[c] = "finalizing" PROVE arg'[c] \in witnessed'
  <2>1. arg'[c] = arg[c]
    BY <1>4, ReadingStep
  <2>2. CASE pc[c] = "finalizing"
    BY <1>1, <2>1, <2>2 DEF Witnessing
  <2>3. CASE pc[c] \in Reads /\ SawTarget(c) /\ arg[c] \in Releases
    BY <1>1, <2>1, <2>3 DEF Witnessing, SawTarget
  <2>4. pc'[c] \notin Reads
    BY <1>4 DEF Reads
  <2> QED
    BY <1>4, <2>2, <2>3, <2>4, ReadingStep
<1>5. ASSUME NEW r \in Releases, state'[r] = "completed" PROVE r \in witnessed'
  <2>1. CASE state[r] = "completed"
    BY <1>1, <2>1 DEF Witnessing, CompletedWasServed
  <2>2. CASE state[r] # "completed"
    <3>1. PICK c \in Calls : Finalize(c) /\ arg[c] = r
      BY <1>5, <2>2, BecomesStep
    <3> QED
      BY <1>1, <3>1 DEF Finalize, Witnessing
  <2> QED
    BY <2>1, <2>2
<1> QED
  BY <1>1, <1>2, <1>3, <1>4, <1>5 DEF Witnessing, CompletedWasServed

\* A release counts as completed only if production really served its target
\* while it was the pending operation, whichever call read that and when.
THEOREM CompletedWasServedAlways == Spec => []CompletedWasServed
<1>1. Init => WitnessInv
  <2> SUFFICES ASSUME Init PROVE Witnessing
    BY InitTyped DEF WitnessInv
  <2>1. pending = None /\ \A c \in Calls : pc[c] = "idle"
    BY DEF Init
  <2>2. \A r \in Releases : state[r] = "unused"
    BY DEF Init
  <2> QED
    BY <2>1, <2>2 DEF Witnessing, CompletedWasServed, Reads
<1>2. WitnessInv /\ [Next]_vars => WitnessInv'
  <2>1. ASSUME WitnessInv, UNCHANGED vars PROVE WitnessInv'
    BY <2>1, TypedStep DEF WitnessInv, Witnessing, CompletedWasServed, vars, record, calls, provider
  <2> QED
    BY <2>1, WitnessStep
<1>3. WitnessInv => CompletedWasServed
  BY DEF WitnessInv, Witnessing
<1> QED
  BY <1>1, <1>2, <1>3, PTL DEF Spec

----------------------------------------------------------------------------
\* What the record says of production is right.

\* Nobody else has changed anything, and no switch came after its release.
Clean == outside = 0 /\ late = {}

\* No release but the pending one has stopped, and the pending one has not
\* switched production.
StopFree == \A r \in Releases : r # pending => state[r] # "safe_stop"

Unswitched == pending \in Releases => <<pending, "switch">> \notin landed

Shows ==
  CASE serving = "verified" -> live = Current
    [] serving = "drifted" -> live # Current
    [] serving = "unknown" -> TRUE

\* Until the pending release switches production, the record is right about it
\* and so is what a call read under the record's present revision; a call that
\* saw the target of the pending release saw what is still served.
Serves ==
  Clean =>
    /\ StopFree /\ Unswitched => Shows
    /\ \A c \in Calls : pc[c] \in Reads /\ c \in fresh /\ Unswitched => seen[c] \in {live, None}
    /\ \A c \in Calls : pc[c] \in Reads /\ arg[c] \in Releases /\ pending = arg[c]
                          /\ seen[c] = target[arg[c]] => live = target[arg[c]]
    /\ \A c \in Calls : pc[c] = "finalizing" /\ pending = arg[c] => live = target[arg[c]]

ServeInv == EffectsInv /\ Flow /\ Serves

\* While nobody else changes anything, production changes only by the switch of
\* the pending release.
LEMMA CleanStep ==
  ASSUME Typed, Next, Clean'
  PROVE  /\ Clean
         /\ \/ live' = live
            \/ /\ pending \in Releases /\ live' = target[pending] /\ <<pending, "switch">> \in landed'
               /\ UNCHANGED <<record, calls>>
<1> DEFINE Goal == /\ Clean
                   /\ \/ live' = live
                      \/ /\ pending \in Releases /\ live' = target[pending]
                         /\ <<pending, "switch">> \in landed' /\ UNCHANGED <<record, calls>>
<1>1. ASSUME UNCHANGED <<outside, late, live>> PROVE Goal
  BY <1>1 DEF Clean
<1>2. ASSUME NEW c \in Calls, Refused(c) PROVE Goal
  BY <1>1, <1>2 DEF Refused, provider
<1>3. ASSUME NEW c \in Calls, Begin(c) PROVE Goal
  BY <1>1, <1>3 DEF Begin, SubmitBegin, ReconcileBegin, ObserveBegin, ExecuteBegin,
     ObserveReleaseBegin, provider
<1>4. ASSUME NEW c \in Calls, Call(c) PROVE Goal
  BY <1>1, <1>2, <1>4 DEF Call, ConfigAttempt, ConfigReceipt, ConfigReceiptRefused, ConfigUncertain,
     SubmissionBoundary, SubmitAbandoned, SubmissionAnswered, Reconcile, Observe, SettleDeploy,
     PreflightFails, Switch, SwitchAnswered, ObserveReleaseBegin, ObserveReleaseRefused,
     ReadServing, StoreServing, TargetSeen, TargetNotSeen, Finalize, Ask, provider
<1>5. ASSUME NEW e \in Effects, Land(e) PROVE Goal
  <2>1. CASE e[2] = "switch"
    <3>1. e[1] \in Releases /\ e = <<e[1], "switch">>
      BY <2>1
    <3>2. pending = e[1] /\ late' = late
      BY <1>5, <2>1 DEF Land, Clean
    <3>3. live' = target[e[1]] /\ e \in landed' /\ UNCHANGED <<record, calls, outside>>
      BY <1>5, <2>1 DEF Land, Live
    <3> QED
      BY <3>1, <3>2, <3>3 DEF Clean
  <2>2. CASE e[2] # "switch"
    BY <1>1, <1>5, <2>2 DEF Land
  <2> QED
    BY <2>1, <2>2
<1>6. ASSUME ByOthers PROVE FALSE
  BY <1>6 DEF ByOthers, Clean, Typed, ProviderTyped
<1> QED
  BY <1>1, <1>3, <1>4, <1>5, <1>6 DEF Next, PrepareDeploy, BuildEnds, PrepareRelease, Remap,
     ChangeSnapshotted, SwitchedOutside, Crash, provider

\* Which call holds the record's present revision: one that just took it, or one
\* that had it while the pending operation stays.
LEMMA FreshStep ==
  ASSUME Typed, Next, NEW c \in Calls, c \in fresh'
  PROVE  pc'[c] \in {"preflight", "inspecting", "reading"} \/ (c \in fresh /\ pending' = pending)
<1> DEFINE Goal == pc'[c] \in {"preflight", "inspecting", "reading"} \/ (c \in fresh /\ pending' = pending)
<1>1. ASSUME fresh' \subseteq fresh, UNCHANGED pending PROVE Goal
  BY <1>1
<1>2. ASSUME Revised({}) PROVE FALSE
  BY <1>2 DEF Revised
<1>3. ASSUME NEW b \in Calls, Refused(b) PROVE Goal
  BY <1>1, <1>3 DEF Refused, record
<1>4. ASSUME NEW b \in Calls, NEW l \in {"preflight", "inspecting", "reading"}, NEW o, NEW s,
             Await(b, l, o, s), fresh' \subseteq fresh \cup {b}, b # c => pending' = pending
      PROVE  Goal
  BY <1>4 DEF Await, Typed, CallsTyped
<1>5. ASSUME NEW b \in Calls, NEW d \in Deploys, ObserveBegin(b, d) PROVE Goal
  BY <1>4, <1>5 DEF ObserveBegin, Revised, record
<1>6. ASSUME NEW b \in Calls, NEW r \in Releases, ExecuteBegin(b, r) PROVE Goal
  BY <1>4, <1>6 DEF ExecuteBegin, Revised
<1>7. ASSUME NEW b \in Calls, NEW o, ObserveReleaseBegin(b, o) PROVE Goal
  BY <1>4, <1>7 DEF ObserveReleaseBegin, Revised, record
<1>8. ASSUME NEW b \in Calls, Begin(b) PROVE Goal
  BY <1>1, <1>5, <1>6, <1>7, <1>8 DEF Begin, SubmitBegin, ReconcileBegin, record
<1>9. ASSUME NEW b \in Calls, Call(b) PROVE Goal
  BY <1>1, <1>2, <1>3, <1>7, <1>9 DEF Call, ConfigAttempt, ConfigReceipt, ConfigReceiptRefused,
     ConfigUncertain, SubmissionBoundary, SubmitAbandoned, SubmissionAnswered, Reconcile, Observe,
     SettleDeploy, PreflightFails, Switch, SwitchAnswered, ObserveReleaseRefused, ReadServing,
     StoreServing, TargetSeen, TargetNotSeen, Finalize, Revised, record
<1> QED
  BY <1>1, <1>2, <1>8, <1>9 DEF Next, PrepareDeploy, BuildEnds, PrepareRelease, Remap,
     ChangeSnapshotted, Land, SwitchedOutside, Crash, record, calls, Revised

\* How the record comes to say something else of production.
LEMMA ServingStep ==
  ASSUME Typed, Next
  PROVE  \/ UNCHANGED <<serving, releases>>
         \/ Remap
         \/ \E c \in Calls : StoreServing(c) /\ HoldsRevision(c)
         \/ \E c \in Calls : Finalize(c) /\ MayFinalize(arg[c])
<1> DEFINE Goal == \/ UNCHANGED <<serving, releases>>
                   \/ Remap
                   \/ \E c \in Calls : StoreServing(c) /\ HoldsRevision(c)
                   \/ \E c \in Calls : Finalize(c) /\ MayFinalize(arg[c])
<1>1. ASSUME NEW c \in Calls, Refused(c) PROVE Goal
  BY <1>1 DEF Refused, record
<1>2. ASSUME NEW c \in Calls, StoreServing(c) \/ Finalize(c) PROVE Goal
  BY <1>1, <1>2 DEF StoreServing, Finalize
<1>3. ASSUME NEW c \in Calls, Begin(c) PROVE Goal
  BY <1>3 DEF Begin, SubmitBegin, ReconcileBegin, ObserveBegin, ExecuteBegin, ObserveReleaseBegin,
     record
<1>4. ASSUME NEW c \in Calls, Call(c) PROVE Goal
  BY <1>1, <1>2, <1>4 DEF Call, ConfigAttempt, ConfigReceipt, ConfigReceiptRefused, ConfigUncertain,
     SubmissionBoundary, SubmitAbandoned, SubmissionAnswered, Reconcile, Observe, SettleDeploy,
     PreflightFails, Switch, SwitchAnswered, ObserveReleaseBegin, ObserveReleaseRefused,
     ReadServing, TargetSeen, TargetNotSeen, record
<1> QED
  BY <1>3, <1>4 DEF Next, PrepareDeploy, BuildEnds, PrepareRelease, ChangeSnapshotted, Land,
     SwitchedOutside, Crash, record

\* A release that stopped and was replaced stays so.
LEMMA StopsStay ==
  ASSUME Typed, Next, StopFree'
  PROVE  StopFree
<1>1. state \in [Ops -> DeployStates \cup ReleaseStates]
  BY DEF Typed, RecordTyped
<1>2. ASSUME NEW r \in Releases, r # pending, state[r] = "safe_stop" PROVE FALSE
  <2>1. state'[r] = "safe_stop" /\ r # pending'
    <3>1. CASE UNCHANGED <<state, pending, target>>
      BY <1>2, <3>1
    <3>2. ASSUME NEW o \in Ops, Prepares(o) PROVE state'[r] = "safe_stop" /\ r # pending'
      BY <1>1, <1>2, <3>2 DEF Prepares, SetState
    <3>3. ASSUME NEW o \in Ops, NEW s \in DeployStates \cup ReleaseStates, Moves(o, s)
          PROVE  state'[r] = "safe_stop" /\ r # pending'
      BY <1>1, <1>2, <3>3 DEF Moves, SetState
    <3> QED
      BY <3>1, <3>2, <3>3, Shapes
  <2> QED
    BY <2>1 DEF StopFree
<1> QED
  BY <1>2 DEF StopFree

\* A release whose switch happened is not given up: it stays pending, completes,
\* or has stopped.
LEMMA SwitchedEnds ==
  ASSUME EffectsInv, Flow, Next, pending \in Releases, <<pending, "switch">> \in landed,
         pending' # pending, StopFree'
  PROVE  \E c \in Calls : Finalize(c) /\ arg[c] = pending /\ MayFinalize(pending)
<1> USE DEF EffectsInv
<1>1. state \in [Ops -> DeployStates \cup ReleaseStates] /\ issued \in [Effects -> Nat]
  BY DEF Typed, RecordTyped, ProviderTyped
<1>2. ~\E o \in Ops : Prepares(o)
  <2> SUFFICES ASSUME NEW o \in Ops, Prepares(o) PROVE FALSE
    OBVIOUS
  <2>1. state[pending] = "safe_stop" /\ o # pending /\ state'[pending] = "safe_stop" /\ pending' = o
    BY <1>1 DEF Prepares, SetState
  <2> QED
    BY <2>1 DEF StopFree
<1>3. PICK s \in DeployStates \cup ReleaseStates : Moves(pending, s)
  BY <1>2, Shapes DEF Moves
<1>4. s \in Closed /\ state'[pending] = s /\ state[pending] # s /\ s # "confirmed"
  BY <1>1, <1>3 DEF Moves, SetState, ReleaseMoves, Closed
<1>5. s # "failed"
  <2> SUFFICES ASSUME s = "failed" PROVE FALSE
    OBVIOUS
  <2>1. PICK c \in Calls : arg[c] = pending /\ PreflightFails(c)
    BY <1>4, BecomesStep
  <2>2. issued[<<pending, "switch">>] = 0
    BY <2>1 DEF PreflightFails, Asked
  <2> QED
    BY <1>1, <2>2 DEF Flow
<1>6. PICK c \in Calls : Finalize(c) /\ arg[c] = pending
  BY <1>4, <1>5, BecomesStep DEF Closed
<1>7. MayFinalize(pending)
  BY <1>4, <1>6 DEF Finalize, Refused, record
<1> QED
  BY <1>6, <1>7

\* What the record says of production stays right.
LEMMA ShowsStep ==
  ASSUME ServeInv, Next, Clean', StopFree', Unswitched'
  PROVE  Shows'
<1> USE DEF ServeInv, EffectsInv
<1>1. Clean /\ StopFree
  BY CleanStep, StopsStay
<1>2. ASSUME NEW c \in Calls, Finalize(c), MayFinalize(arg[c]) PROVE Shows'
  <2> DEFINE r == arg[c]
  <2>1. r \in Releases /\ target[r] \in Deploys
    BY <1>2 DEF Finalize, MayFinalize, Typed, CallsTyped, Prepared
  <2>2. live' = target[r] /\ serving' = "verified"
    BY <1>1, <1>2 DEF Finalize, MayFinalize, Serves, provider
  <2>3. Current' = target[r]
    <3>1. CASE kind[r] = "reestablish"
      BY <1>2, <3>1 DEF Finalize, MayFinalize, Current
    <3>2. CASE kind[r] # "reestablish"
      <4>1. releases \in Seq(Deploys) /\ releases' = Append(releases, target[r])
        BY <1>2, <3>2 DEF Finalize, Typed, RecordTyped
      <4>2. releases' # <<>> /\ releases'[Len(releases')] = target[r]
        BY <2>1, <4>1
      <4> QED
        BY <4>2 DEF Current
    <3> QED
      BY <3>1, <3>2
  <2> QED
    BY <2>2, <2>3 DEF Shows
<1>3. ASSUME NEW c \in Calls, StoreServing(c), HoldsRevision(c) PROVE Shows'
  <2>1. /\ serving' = Reduced(seen[c])
        /\ UNCHANGED <<pending, state, releases, landed, live>>
    BY <1>3 DEF StoreServing, provider
  <2>2. Current' = Current
    BY <2>1 DEF Current
  <2>3. Unswitched
    BY <2>1 DEF Unswitched
  <2>4. seen[c] \in {live, None}
    BY <1>1, <1>3, <2>3 DEF StoreServing, HoldsRevision, Serves, Reads
  <2> QED
    BY <2>1, <2>2, <2>4 DEF Shows, Reduced
<1>4. ~Remap
  BY DEF Remap, ByOthers, Clean, Typed, ProviderTyped
<1>5. ASSUME ~\E c \in Calls : Finalize(c) /\ MayFinalize(arg[c]) PROVE live' = live /\ Unswitched
  <2>1. Unswitched
    <3> SUFFICES ASSUME pending \in Releases, <<pending, "switch">> \in landed PROVE FALSE
      BY DEF Unswitched
    <3>1. pending' = pending
      BY <1>5, SwitchedEnds
    <3> QED
      BY <3>1, LandedStep DEF Unswitched
  <2>2. live' = live
    BY CleanStep DEF Unswitched, record
  <2> QED
    BY <2>1, <2>2
<1>6. ASSUME UNCHANGED <<serving, releases>>, live' = live, Unswitched PROVE Shows'
  BY <1>1, <1>6 DEF Serves, Shows, Current
<1> QED
  BY <1>2, <1>3, <1>4, <1>5, <1>6, ServingStep

\* The record stays right about production, and the calls about what they saw.
LEMMA ServeStep ==
  ASSUME ServeInv, Next
  PROVE  ServeInv'
<1> USE DEF ServeInv, EffectsInv
<1>1. EffectsInv' /\ Flow'
  BY EffectsStep, FlowStep
<1> SUFFICES ASSUME Clean'
             PROVE  /\ StopFree' /\ Unswitched' => Shows'
                    /\ \A c \in Calls : pc'[c] \in Reads /\ c \in fresh' /\ Unswitched'
                                          => seen'[c] \in {live', None}
                    /\ \A c \in Calls : pc'[c] \in Reads /\ arg'[c] \in Releases /\ pending' = arg'[c]
                                          /\ seen'[c] = target'[arg'[c]] => live' = target'[arg'[c]]
                    /\ \A c \in Calls : pc'[c] = "finalizing" /\ pending' = arg'[c]
                                          => live' = target'[arg'[c]]
  BY <1>1 DEF Serves
<1>2. Clean
  BY CleanStep
<1>3. ASSUME NEW c \in Calls, pc'[c] \in Reads, c \in fresh', Unswitched'
      PROVE  seen'[c] \in {live', None}
  <2>1. c \in fresh /\ pending' = pending
    BY <1>3, FreshStep DEF Reads
  <2>2. Unswitched
    BY <1>3, <2>1, LandedStep DEF Unswitched
  <2>3. live' = live
    BY <1>3, CleanStep DEF Unswitched, record
  <2>4. CASE pc[c] \in Reads /\ seen'[c] = seen[c]
    BY <1>2, <2>1, <2>2, <2>3, <2>4 DEF Serves
  <2>5. pc'[c] # "finalizing"
    BY <1>3 DEF Reads
  <2> QED
    BY <1>3, <2>3, <2>4, <2>5, ReadingStep
<1>4. ASSUME NEW c \in Calls, pc'[c] \in Reads \cup {"finalizing"}, arg'[c] \in Releases, pending' = arg'[c]
      PROVE  /\ arg'[c] = arg[c] /\ pending = arg[c] /\ target'[arg[c]] = target[arg[c]]
             /\ live = target[arg[c]] => live' = target[arg[c]]
  <2>1. arg'[c] = arg[c]
    BY <1>4, ReadingStep
  <2>2. pending = arg[c] /\ target'[arg[c]] = target[arg[c]]
    <3> DEFINE r == arg[c]
    <3>1. pending' = r /\ r \in Releases /\ r # None
      BY <1>4, <2>1
    <3>2. state[r] # "unused"
      BY <3>1 DEF Typed, Prepared
    <3>3. ASSUME NEW o \in Ops, Prepares(o) PROVE FALSE
      BY <3>1, <3>2, <3>3 DEF Prepares
    <3>4. ASSUME NEW o \in Ops, NEW s \in DeployStates \cup ReleaseStates, Moves(o, s)
          PROVE  pending = r /\ target'[r] = target[r]
      BY <3>1, <3>4 DEF Moves
    <3> QED
      BY <3>1, <3>3, <3>4, Shapes
  <2> QED
    BY <2>1, <2>2, CleanStep
<1>5. ASSUME NEW c \in Calls, pc'[c] \in Reads, arg'[c] \in Releases, pending' = arg'[c],
             seen'[c] = target'[arg'[c]]
      PROVE  live' = target'[arg'[c]]
  <2>1. /\ arg'[c] = arg[c] /\ pending = arg[c] /\ target'[arg[c]] = target[arg[c]]
        /\ live = target[arg[c]] => live' = target[arg[c]]
    BY <1>4, <1>5
  <2>2. CASE pc[c] \in Reads /\ seen'[c] = seen[c]
    BY <1>2, <1>5, <2>1, <2>2 DEF Serves
  <2>3. CASE seen'[c] \in {live, None}
    <3>1. target[arg[c]] \in Deploys
      BY <1>5, <2>1 DEF Typed, Prepared
    <3> QED
      BY <1>5, <2>1, <2>3, <3>1
  <2>4. pc'[c] # "finalizing"
    BY <1>5 DEF Reads
  <2> QED
    BY <1>5, <2>2, <2>3, <2>4, ReadingStep
<1>6. ASSUME NEW c \in Calls, pc'[c] = "finalizing", pending' = arg'[c] PROVE live' = target'[arg'[c]]
  <2>1. arg'[c] \in Releases
    BY <1>1, <1>6 DEF Typed, CallsTyped
  <2>2. /\ arg'[c] = arg[c] /\ pending = arg[c] /\ target'[arg[c]] = target[arg[c]]
        /\ live = target[arg[c]] => live' = target[arg[c]]
    BY <1>4, <1>6, <2>1
  <2>3. CASE pc[c] = "finalizing"
    BY <1>2, <2>2, <2>3 DEF Serves
  <2>4. CASE pc[c] \in Reads /\ SawTarget(c) /\ arg[c] \in Releases
    BY <1>2, <2>2, <2>4 DEF Serves, SawTarget
  <2>5. pc'[c] \notin Reads
    BY <1>6 DEF Reads
  <2> QED
    BY <1>6, <2>3, <2>4, <2>5, ReadingStep
<1> QED
  BY <1>3, <1>5, <1>6, ShowsStep

\* What the record says of production is right whenever nothing is pending, for
\* any number of calls and releases, as long as nobody else switches production,
\* no release was stopped and no switch came after its operation.
THEOREM ServingTruthfulAlways == Spec => []ServingTruthful
<1>1. Init => ServeInv
  <2> SUFFICES ASSUME Init PROVE Flow /\ Serves
    BY EffectsInit DEF ServeInv
  <2>1. Flow
    BY TruthInit DEF TruthInv
  <2>2. \A c \in Calls : pc[c] = "idle"
    BY DEF Init
  <2>3. Shows
    <3>1. CASE releases = <<>> /\ serving = "unknown" /\ live = Other
      BY <3>1 DEF Shows
    <3>2. CASE \E d \in Built : releases = <<d>> /\ serving = "verified" /\ live = d
      <4>1. PICK d \in Built : releases = <<d>> /\ serving = "verified" /\ live = d
        BY <3>2
      <4>2. Current = d
        BY <4>1 DEF Current
      <4> QED
        BY <4>1, <4>2 DEF Shows
    <3> QED
      BY <3>1, <3>2 DEF Init
  <2> QED
    BY <2>1, <2>2, <2>3 DEF Serves, Reads
<1>2. ServeInv /\ [Next]_vars => ServeInv'
  <2>1. ASSUME ServeInv, UNCHANGED vars PROVE ServeInv'
    BY <2>1, EffectsStep DEF ServeInv, Flow, Serves, Clean, StopFree, Unswitched, Shows, Current,
       vars, record, calls, provider
  <2> QED
    BY <2>1, ServeStep
<1>3. ServeInv => ServingTruthful
  <2> SUFFICES ASSUME ServeInv, pending = None, outside = 0, late = {},
                      \A r \in Releases : state[r] # "safe_stop"
               PROVE  Shows
    BY DEF ServingTruthful, Shows
  <2>1. Clean /\ StopFree /\ Unswitched
    BY DEF Clean, StopFree, Unswitched
  <2> QED
    BY <2>1 DEF ServeInv, Serves
<1> QED
  BY <1>1, <1>2, <1>3, PTL DEF Spec
=============================================================================
