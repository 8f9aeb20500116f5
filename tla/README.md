# Path Code: specifications, model checks and proofs

Path Code is a coding agent that edits a person's repository under explicit
approval. This directory holds TLA+ models of the parts of it where order,
failure and interleaving decide whether the repository, the person's approval or
the evidence survives; TLC configurations that check them on small instances;
and proofs, checked by TLAPS, of the results that matter most. `PROJECT.json`
lists the components, runs, mutants, hazards, findings and theorems, and maps
every definition to the lines of the source it models.

## 1. The system

The library (`src/`, TypeScript) reads, searches and edits one workspace. The
command line (`scripts/pathcode-cli/`, JavaScript) runs tasks, Builds, sessions,
deployments and remote workers on top of it. Everything runs on Node's event
loop: a function runs alone until it awaits, and anything may happen at an await.

| Component | State | Operations | What is hard | What makes it correct |
|---|---|---|---|---|
| Safe editing (`src/editing`) | prepared changes and one-shot authorizations in memory; candidates and files on disk | prepare, authorize, replace, create | other calls and programs at every await, I/O faults, process death, loss of power | one publication per authorization; old or new bytes, never a mixture; nothing unseen overwritten; success is durable |
| Multi-file editing (`multi-file-*`) | a plan of 2..16 changes | admit, preflight, execute in order | partial completion, plans that share changes | the status says what was published; a refusal costs no approval |
| Mutation session (`orchestrator/mutation`) | phase, three dispositions, label, one-use flags | propose, apply, validate, close | shared state across awaits; refused calls write to it too | one dispatch; dispositions true of the disk; strong label earned |
| Recovery (`src/recovery`) | checkpoint store on disk; reviews and authorizations in memory | checkpoint, review, authorize, execute | death at any step, edits by others between review and restore | a mutation is covered before it starts; restores only what was captured; record is true |
| Process execution (`src/execution`) | flags, four timers, two captures per child | spawn, collect, escalate, resolve | events and timers in any order; descendants that outlive the leader | truthful outcome and capture; the call ends |
| Tool locks (`ag9/locks.mjs`) | a directory and `owner.json` | acquire, judge, take over, release | other processes between any two file operations; dead owners | exclusion; no dead owner blocks for ever |
| Orchestrator cycle, brain, validation | budgets, one request in flight | think, call tools, validate | cancellation, deadlines, late answers | bounded, one terminal outcome |
| Gateway (`gateway/`) | task objects in memory | start, steer, cancel, resume, await | cancellation racing completion, two resumes, stop and crash | a running task is owned; its work is not lost; what was lost can be resumed |
| Builds (`build/`) | Build records, mutation chain, loop | step, pause, stop, resume, deploy, release, reconcile | loop and person at once; external effects with unknown outcome | serialized mutations; one effect per intent |
| Cloud workstations (`gc1/`) | one workstation, journal | acquire, probe, run, tear down | lost answers, deadlines, signals | nothing left billing |
| Tasks and results (`ag1`, `ag10`, `result-lifecycle.mjs`) | worktrees, checkpoints, index | create, interrupt, resume, adopt, discard | death between two file operations, several processes | no result lost or adopted twice |
| Process registry | records of children | register, cancel | close events after cancellation, reused pids | signals only its own children |

Interaction, library: the session (`MutationSession`) asks recovery for a
checkpoint, then hands the approved changes to the owner of a single file
(`SafeEdit`) or of a plan (`MultiFileEdit`, which calls the single-file owner for
each entry), and has a validation run as a local process (`ProcessHost`).
Recovery undoes what the owners wrote, after the session has gone.

Interaction, command line: a client calls the Gateway, which creates a task
object and calls an engineering session for it (`TaskGateway`); the session keeps
worktree, branch and checkpoint, from which the Gateway resumes the task after
its own death. A Build's coordinator starts its tasks through the Gateway and
deploys what they produced (`Deployments`). Processes on one machine exclude each
other by directories (`ToolLock`).

## 2. Modules

| Module | Models | Rests on |
|---|---|---|
| `WorkspaceFs` | names, inodes, contents, what is durable, power cuts, other programs | |
| `SafeEdit` | `replaceExistingFile` and `createFile`, from preparation to outcome | `WorkspaceFs` |
| `EditContract` | what an edit promises its callers; abstract | |
| `CandidateBytes` | the byte loops of `atomic-fs.ts` | |
| `MultiFileEdit` | plans, over the contract of the single edit | `EditContract` |
| `MutationSession` | `session.ts`: propose, apply, validate, close | |
| `Recovery` | checkpoint, review, authorization, execution | |
| `ProcessHost` | `process-host.ts` | |
| `ToolLock` | `locks.mjs` | |
| `EffectLedger` | durable operations with one external effect each; abstract | |
| `Deployments` | production deployments and releases of a Build | `EffectLedger` |
| `TaskGateway` | tasks of the Gateway with their sessions, worktrees and checkpoints | |
| `MC…` | the values TLC uses for each of them | the module of that name |
| `SafeEditProofs` (with those of `CandidateBytes`), `MultiFileEditProofs`, `MutationSessionProofs`, `RecoveryProofs`, `ProcessHostProofs`, `ToolLockProofs`, `DeploymentsProofs`, `TaskGatewayProofs` | theorems | the module of that name, TLAPS |

**SafeEdit.** A call's `pc` names the await it is at; one action per stretch of
code between two awaits (`Reload`, `Screen1`, `Observe1`, `Identify1`, `Open`,
`Write`, `Sync`, `Screen2`, `Observe2`, `Identify2`, `Publish`, `Drop`,
`SyncDir`, `Verify`), with the early returns as disjuncts. `replaceExistingFile`
publishes with `rename`, `createFile` with a hard link that cannot overwrite.
`before` and `seen` are the fingerprint and the dev/ino captured by preparation
and by the call; `auth` and `bound` are the registries of
`consume-authorization.ts`. `raced` records that somebody changed the target
after the call's last look at it: `rename` cannot compare and swap, and the
properties say what holds apart from that window. A power cut keeps or loses each
unsynced entry and each unsynced content independently.

**EditContract.** Each call publishes its bytes in one step or not at all, a
creation only where nothing is, and reports SUCCESS only after the publication
was made durable. `SafeEdit` implements it under the mapping at its end;
`MultiFileEdit` is written against it and not against the detail.

**CandidateBytes.** Write, read-back and verification loops under every split
into short reads and writes, over a storage that may lose the end of a file. The
read-back asks for file position 0 each time, as the source does.

**MultiFileEdit.** `Admissible` is `createMultiFilePlan`, `Inspect` one entry of
the preflight, `Colliding` its second pass, `Attempt` and `Collect` the loop of
`executeMultiFilePlan`, `PlanStatus` the result. Several executions may share a
plan object, changes or authorizations.

**MutationSession.** `Reserve` is the synchronous reservation (flag, phase,
`busy`) before the first await; `Refuse` is every refused call including the
writes of `failCall`; `ApplyFails` is the `finally`. Calls of any method come in
any number and order, and `close()` at any moment.

**Recovery.** `Capture`, `WriteBlob`, `WriteManifest`, `ReadBack` are the
session's side, `Publish` its edits; `ReviewEntry` classifies one entry;
`Observe`, `Reload`, `Stat`, `Act`, `Sync`, `Prove` are the awaits of
`restoreEntry`. Session and host may die at any step.

**ProcessHost.** The operating system's side (`Fork`, `WriteOutput`,
`CloseOutput`, `Exit`, `Killed`, `Succumb`) and the callbacks of the host (`OnExit`,
`OnEnd`, `OnClose`, `OnData`, `OnSpawnError`, and three timers). A process may
crash or be killed by another program (`Killed`), which the host reports as
SIGNALED if it had not asked for an end itself, end by the host's signal
(`Succumb`), ignore SIGTERM (`stubborn`), survive SIGKILL for as long as the host waits
(`stuck`) or have left the group (`apart`).

**ToolLock.** `mkdir`, the write of `owner.json`, the judgement of staleness and
the removal are separate steps of each contender.

**EffectLedger.** Intent is durable first, the effect is requested at most once
and never after its outcome was waited for, a refusal is only of what was never
requested; some operations may only be finished once their effect happened. The
effect may come late, whatever the ledger says by then.

**Deployments.** A step under the Build's mutation gate reads the record, changes
it and writes it back: one action. Between such steps lie the provider calls
(`pc` names the await): configuration variable by variable (`ConfigAttempt`,
`ConfigReceipt`, `ConfigUncertain`), the submission (`SubmissionBoundary`,
`SubmissionAnswered`), reconciliation and observation (`Reconcile`, `Observe`,
`SettleDeploy`), the release (`Switch`, `SwitchAnswered`), the reading of what
production serves (`ReadServing`, `StoreServing`, `TargetSeen`, `TargetNotSeen`)
and `Finalize`. What was asked lands when the provider likes (`Land`), or never;
answers may be lost. `Crash` ends every call and keeps the record. A revision of
the record is the set of calls that still hold the present one (`fresh`). Under
the mapping at the end of the module, a deployment and a release is each an
operation of `EffectLedger`.

**TaskGateway.** A `Run` is one task object with its session; a resumed task gets
a new one. `ResumeBegin` judges the task, then awaits the project binding;
`ResumeStarts` is what follows, with the deletion of the old object. A session
opens its worktree, seeds its checkpoint, has its engines work, decides on a
class, records the final state, disposes of its worktree and ends (`OpenWorktree`,
`SeedCheckpoint`, `EngineWrites`, `Decide`, `Record`, `Finish`). While engines work
the stage says what the session awaits: a turn that the wall-clock timer watches
(`working`), the turn of a collaborator or the lease of the worktree (`peering`),
the checks of the result (`validating`), or a turn armed after the one-shot timer
had fired (`overtime`); `TurnEnds` and `TurnBegins` go from one to another, for
guidance and repairs, `MaxTurns` times at most. `HasChanges` is whether there is
work, `Probes` what Git may answer: a probe that fails is read as no changes.
`Stop` is the orderly shutdown, `Crash` and `CrashInRecord` are not; `Restart`
marks what they interrupted, all of it, part of it or nothing. Four variables are
histories: `usurped` (what was replaced without having been judged), `unseen` (work
that a failed probe hid from the session that ended), `owed` (what the Gateway
took down with it) and `unmarked` (checkpoints a restart left as they were).

## 3. Runs

| Run | Shows | Bounds |
|---|---|---|
| `safe_edit_shared` | the guarantees of an edit, and that `SafeEdit` implements `EditContract` | 1 path, 2 calls of either kind, 2 authorizations, 3 inodes, 2 interferences, none once the second call starts |
| `candidate_loops` | the loops end and a confirmed creation holds the approved bytes | 2 byte values, up to 4 bytes |
| `plans_shared` | two executions that share plans, changes and authorizations | 3 changes on 2 paths, 4 authorizations, 6 plans, 2 interferences |
| `session_shared` | a session, protected or not | 3 files, 5 calls, 2 interferences |
| `recovery_crash` | two executions of one review, after or beside a dying session | 1 replacement and 1 creation, 2 interferences, 1 damaged blob, 1 fault |
| `recovery_window` | violated: a change between the fresh observation and the restore is lost | the same, 1 execution, no faults |
| `host_family` | outcome and capture are true, and the call ends unless a descendant holds the output | 1 leader, 1 descendant, 3 bytes, limit 1 |
| `host_orphan` | violated: the call need not end | 1 leader, 1 descendant, no output |
| `lock_contended` | exclusion, cleaning up, and every call ends | 3 processes, 1 death, 1 ageing |
| `lock_fresh` | violated: two live processes inside, nobody died, nothing aged | 2 processes |
| `deployments` | one effect per operation, configured submissions, true records and observations, and that `Deployments` implements `EffectLedger` | 2 deployments, 2 releases, 2 variables, 2 calls, 1 change from outside; with two releases no outside change and no pending deployment |
| `gateway_losses` | ownership, work, resumability and the end of runs | 2 tasks of which one is in place, explored one at a time, 2 resume calls, 3 task objects, 2 further turns, of the first session only, 2 losses of the Gateway |

Why the bounds suffice. Two calls are enough for every race between two steps;
the third contender of the lock is the one that removes what the second just
made. Interference twice is enough to change a file and change it back, which is
what a comparison of contents cannot see. Two files are the fewest for which a
plan can be partly applied, three the fewest with a file between the first and
the last; one replacement and one creation are the fewest for which recovery has
both of its actions; three inodes are a target, a candidate and what somebody
else saved. Three bytes against a limit of one make a chunk below, at and beyond
the limit, and one after it. When two edits race nobody else interferes: each is
the other's interference. A deployment that is served and one that is to follow
it are the fewest for which a release replaces something; a second release is a
rollback or a re-establishment, whose question is what the first one's late
switch does to it. Three task objects are a task, its resumption and the one a
second resume creates; two losses are one in the middle of a resumed task. Two further turns are the
fewest with guidance or a repair after a repair, and with one that begins in
overtime after one that did not; what turns do to a session does not depend on
which of a task's sessions it is. Two variables are the fewest of which half can be
configured. Tasks
share nothing in the Gateway but the table they are entered in, so one at a time
loses no interleaving of their handlers. Deadlock is not checked where the system
may stop (all calls ended, all bounds used up).

Symmetry is used for inode numbers, executions, releases and calls, only in runs
without liveness properties. `SafeEdit`'s run checks its type invariant. Those of the
other modules are stated there and hold on the same bounds; they are proved
(`TypeCorrect`, section 6; for `CandidateBytes` they are part of `LoopInv`).

## 4. What was found

By a run:

- `recovery_window`: `recovery/execute.ts` says a change between review and
  execution becomes a conflict rather than a silent overwrite. Between its fresh
  observation and the rename lie several awaits with no second look; the change
  is overwritten and the entry recorded RESTORED.
- `host_orphan`: the grace timer does nothing once the leader's exit was seen.
  If a descendant still holds the output, no SIGKILL follows and no deadline is
  armed, `close` never comes and the promise stays unresolved.
- `lock_fresh`: a lock directory whose `owner.json` is not yet written is judged
  stale and removed while its owner is alive.

Met while modelling, in the models, without a run of their own:

- A failing candidate whose cleanup fails too is not reported as left behind
  (`replace-existing-file.ts:516`); the read-back accepts a candidate that lost
  its end when the approved bytes repeat their beginning (`atomic-fs.ts:213`).
- A call refused as busy returns a record that says NOT_DISPATCHED while files
  are being written (`session.ts:327`).
- An interruption of the engine is meant to leave the task resumable
  (`ag1/session.mjs:2225`, `:2651`), but when nothing was changed the worktree is
  removed (`:2439`–`:2448`), and the resume is refused for want of it
  (`gateway/runtime.mjs:982`–`:993`). `LostIsResumable` therefore speaks of
  tasks the Gateway took down, not of those an engine's interruption ended.
- A Git probe that fails or times out is read as no changes
  (`ag1/task-worktree.mjs:612`–`:623`, `:670`–`:681`): `hasChanges` is false
  (`ag1/session.mjs:2260`), nothing is committed or preserved, and the worktree is
  removed by force with the work in it (`:2439`–`:2445`). `NoWorkLost` excepts
  tasks to which that happened (`unseen`) and shows that, but for them and for
  usurped ones, no work is lost.
- `reclaimStaleGatewayOwnership` marks nothing when a process lives under the
  recorded pid (`gateway/ensure.mjs:78`–`:80`), whatever process that is, and
  another Gateway is started all the same (`:212`); an error while marking ends
  the marking. The lost tasks then stay unmarked. `LostIsResumable` shows that
  they can be resumed nevertheless, and that no others stay unmarked.
- The wall-clock timer fires once and resolves the promise of the turn it finds
  (`ag1/session.mjs:774`–`:777`). A repair arms a new promise after awaits that may
  outlast the timer (`:2058`, `:2140`), and a cancelled bridge reports no exit
  (`bridge-client.mjs:380`): such a turn ends only if its engine says so. The
  checks resolve on `close` only (`ag1/final-validation.mjs:102`), which a process
  outside the killed group can hold off for ever. A collaborator's turn and the
  creation of engines are bounded by their own programs, if at all. `RunsEnd`
  names these awaits (`Awaits`), and shows that a session that is not held by one
  of them for ever ends.
- An abort before the session listens for it (`ag1/session.mjs:1046`) is not
  delivered: the first turn goes on until its engine or its timer ends it.
- What is recorded and what is reported may differ: an engine ended by the wall
  clock is recorded CANCELLED and reported failed, and a task that verified after
  its cancellation is recorded VERIFIED and reported cancelled.
- `gateway/ensure.mjs:212` may start a second Gateway beside a live one, against
  its comment at `:76`. The model has one Gateway.

## 5. Fairness

`SafeEdit`, `MultiFileEdit`, `MutationSession`, `Recovery` and `Deployments` have
safety properties only and no fairness: their calls may hang in an I/O call, a
model or a provider.
`CandidateBytes`: weak fairness of the loops, since an I/O call returns or fails.
`ToolLock`: weak fairness of each live process's next step; nothing is assumed
of how long it holds the lock, and a waiter's deadline may come at any poll.
`ProcessHost`: weak fairness of each event and timer, since Node delivers what
is due, and of a signal ending a process that neither ignores nor survives it;
no process owes an exit or a closed pipe.
`TaskGateway`: weak fairness of `TimerEnds(r)`, since the timer is armed before
the turns it watches and resolves the promise of the one it finds, after which the
loop is left without an await; and of `Record(r)`, since from the classification to
the final state a session awaits no other program: it runs Git synchronously, and
its only awaits are imports of a built-in module (`ag1/session.mjs:2336`, `:2376`).
Nothing is assumed of engines, collaborators,
checks, clients or the Gateway's restart.

## 6. Proofs

Each theorem holds for every value of the constants, under the assumptions named
in the modules (`EditAssumption`, `SessionAssumption`, `LockAssumption`,
`DeploymentsAssumption`, `GatewayAssumption`, …), which only give the constants
their types. None of the properties is inductive as it stands; what follows names
the strengthening and why it is needed.

- **SafeEdit.** `TypeInv` adds `Underway` to `TypeOK`: a step that reads
  `ofChange[c]` needs to know the call has a change. `Consumed` (an authorization
  some call holds is no longer issued, and bound to that call's change) gives
  `AuthorizationIsOneShot`; `Permitted` gives `WritesOnlyAllowed`. `AllWhole`
  (every inode a path leads to, now or durably, is complete and synced) gives
  `NoTornFile`, since candidates are published only after `Sync` and no step
  makes a used inode less whole. `InodeInv` (`Apart`: a candidate's inode is
  nobody else's; `Drafted`: it holds what its call wrote) and `LastInv`
  (`Lasting`: what a call made durable) give `SuccessIsDurable`; `LookInv`
  (`Looked`: what a call's looks at the target established, unless it was raced)
  gives `NoBlindOverwriteAlways`. `RefInv` adds `Ended`, and from it every step
  maps to a step or a stutter of the contract: `EditsImplementContract`.
- **CandidateBytes**, in `SafeEditProofs`. `LoopInv`: what the
  candidate holds begins the approved bytes, and is all of them after the write
  loop unless storage lost its end; what the verification read begins what the
  file holds. Two sequences that begin each other are equal
  (`BeginsAntisymmetric`), so a verified creation holds the approved bytes,
  whatever was lost: `ConfirmedIsApprovedAlways`. `PublishedIsApproved` says the
  same of every candidate that is accepted, on storage that loses nothing; with a
  loss the read-back may accept less (section 4), and the verification of a
  creation is what notices. `LoopsShrink`: each system call lowers `LoopWork`, and
  no loop passes the length it stops at.
- **MultiFileEdit.** `PlanInv`: which authorization a call belongs to
  (`Belongs`), what preflight screened (`Screened`), which entry it is at
  (`Marked`, `Sequential`), that an approval is consumed by one execution
  (`Exclusive`) and that results repeat what the edits said (`Told`). It gives
  `ApprovalPublishedOnceAlways` and `StatusTruthfulAlways`, over the steps of
  `EditContract` and so over any edit that implements it.
- **MutationSession.** `IInv`: `Reserved` (a dispatching call holds the
  reservation and the flag), `OnTime` (calls made after `close()` ended without
  dispatching), `Progress` (what has been written is the first `at[c]` targets of
  the call in flight). It gives `SoleOwnerAlways`, `OneDispatchAlways`,
  `ClosedMeansNoWriteAlways`, `DispositionTruthfulAlways`. `EndInv` adds
  `Protected` (a writing call has its checkpoint) and `Compared` (what was
  compared is as approved or drifted since), for `ProtectedWritesAlways`,
  `ValidatesApprovedBytesAlways` and `StrongLabelEarnedAlways`. `Assigned` completes
  the typing for `TypeCorrect`.
- **Recovery.** `SessionInv` (checkpoint before writes), `OwnerInv` and
  `BudgetInv` (an authorization has one execution), `ReviewInv` (what a review
  knows of the stored entries), `ExecInv` (how far an execution came, and what
  its record says so far): `MutationIsCoveredAlways`, `OneExecutionAlways`,
  `RecordTruthfulAlways`, `OverwritesWhatItSawAlways`. `UndoInv` follows a recovery
  that nobody disturbs: as long as there is no fault, no damage and no change from
  outside, a file is as captured or as the session wrote it (`Original`), an entry
  that a settled review did not find eligible is as captured (`Settled`), and so is
  every chosen entry that an execution has dealt with or is about to prove
  (`Undone`); other executions and reviews may run beside it, for they too only
  put back what was captured. At the end of an execution of everything eligible
  no entry is left over: `UndisturbedRecoveryUndoesAlways`.
- **ProcessHost.** `HostInv`: bytes written are captured, counted as dropped or
  still in the pipe (`Accounted`); what the host knows of the leader is so
  (`LeaderGone`, `EndIsEnd`); once settled nothing changes (`Settled`):
  `OutcomeTruthfulAlways`, `CaptureTruthfulAlways`. `Pursued` (an unresolved call has
  its duration timer, or after a termination request a timer of the escalation,
  until the leader's exit is seen) gives `WaitsOnlyForOutputAlways`: nothing is due
  any more only where a descendant holds the output, which is what `host_orphan`
  shows. `HostWorkShrinks`: every event and timer handled lowers `WorkLeft`, a count
  of what can still be delivered.
- **ToolLock.** `HeldByOne` (while nothing was swept, at most one process is
  between `mkdir` and release, and then the directory exists) for
  `ExclusiveUnlessSweptAlways`; `MakerLeft` for `LastOneOutCleansUpAlways`;
  `Accountable` (whoever the lock names is inside or died) for `NoOrphanedLockAlways`:
  a directory that no live process will remove is judged stale by the waiters.
- **Deployments.** `EffectsInv` (`Prepared`, `Open`: the pending operation is the
  one that is not finished; `Asked`: an effect was asked for only where the
  record says so) for `EffectsAskedOnceAlways`; `Configured` for
  `SubmittedConfiguredAlways`; `TruthInv` (`Flow`, `Provided`, `Settling`: what a
  call in flight was told was so at the provider) for `DeploymentTruthfulAlways`;
  `WitnessInv` for `CompletedWasServedAlways`. `ServeInv` is for
  `ServingTruthfulAlways`, which relates the record, the calls and production while
  nobody else switches it and no switch comes after its release (`Clean`). What the
  record says is right until the pending release switches production (`Shows`), so
  is what a call read under the present revision of the record, and a call that saw
  the target of the pending release saw what is still served, because only that
  release can switch and it switches to that target (`Serves`). The refinement
  `DeploymentsImplementLedger` goes operation by operation: each step leaves the
  ledger phase alone or advances it by one move, and changes at most one
  operation.
- **TaskGateway.** `IInv`: what a resume call judged before its await still holds
  unless the task has got another object (`Judged`, `JudgedResumable`), a session
  whose worktree will be removed has committed the work it saw in it (`Committed`), it
  finds its checkpoint and worktree until its result is recorded (`Kept`), and a
  lost task waits for its resume (`Waiting`): `RunningIsOwnedAlways`, `NoWorkLostAlways`,
  `LostIsResumableAlways`, `FinishedIsNeverResumed`. `Unended` (a run that has not
  ended has a Gateway and a stage it can leave) gives `RunsGoForward`: `StagesLeft`
  counts three stages for every further turn that is left, so that no sequence of
  turns, checks, guidance and repairs can go on without end.

Every safety property, action property and refinement that a passing run checks is
thus proved. Only model-checked are the four liveness properties, since fairness
and `ENABLED` are out of the prover's reach. The part of each that is safety is
proved: whoever has not ended has a step to take, or waits for what the property
allows it to wait for, and, but for the lock, the steps taken bring it nearer to
its end.

| Liveness, checked | Proved |
|---|---|
| `LoopsEnd` | `LoopsShrink` |
| `EveryCallEnds` | `NoOrphanedLockAlways`: an abandoned lock can be taken over |
| `EndsUnlessOutputHeld` | `WaitsOnlyForOutputAlways`, `HostWorkShrinks` |
| `RunsEnd` | `RunsGoForward` |

What remains for TLC is that the fair steps are then taken.

## 7. What the models leave out

Within the modelled components:

- Workspace: one directory; a change by another program is durable at once and
  never touches a candidate; owner, mode and extended attributes are not
  modelled; the re-check of the parent directory may refuse at any time.
- Plans: the reads of one entry's preflight are one step.
- Session: what the brain proposes and what the validation concludes is open; the
  hook for tests after the mutation is left out.
- Recovery: process death only (the reports disclaim loss of power); one
  authorization per review; two reviews at once are not run.
- Process host: one output stream stands for two; process identifiers are not
  reused (`process-host.ts:88`); the gate of `execute.ts` is not modelled.
- Locks: a recursive removal is one step; a recorded identity matches exactly
  while its process lives.
- Deployments: one environment and one provider; preview deployments, removal of
  a mapping, the time windows of reconciliation and the domains of P11 are left
  out; variables are configured under the attempt mark, their values are not
  modelled.
- Gateway: handlers are atomic between awaits; one Gateway (a restart beside a
  live one is section 8); files that Git ignores, and lock files that a read-only
  task restores (`ag1/session.mjs:2190`), are not counted as work; a probe of the
  person's own checkout that fails when a task begins, and so has it work in place,
  is left out; a task is started
  only if it has no checkpoint; an engine that was stopped writes nothing more;
  PARTIALLY_VERIFIED is recorded, and BLOCKED and NOT_VERIFIED are treated, as
  FAILED. Project binding (`runtime.mjs:396`), what guidance says, event numbers,
  subscriptions and the checkpoint index of 40 entries
  (`ag10/task-checkpoint.mjs:407`, `:424`) are left out.

**Not modelled**, and why:

- *Build coordinator and controller.* Its loop (`coordinator/service.mjs:260`,
  `:268`) decides by parsed answers of its children over some forty fields of the
  record. A model that keeps those decisions would be a transliteration, one that
  leaves them open would have nothing left to check beyond the gate, which
  `Deployments` has. Hazards met while reading it: the loop and a person's call
  meet only at the gate, and a step prepared before the gate acts on a record that
  may have changed.
- *Orchestrator cycle, brain, validation, engineering run.* One sequential loop
  with counters for budgets; what is hard about it, one dispatch, truthful
  dispositions and an earned label, is in `MutationSession`, which leaves what the
  cycle concludes open.
- *Databases, integrations, environments* follow the protocol of `Deployments`
  with other providers; *runtime manager*, *process registry* and *cloud
  workstations* are drivers of a provider or of child processes, one step after
  another over one record.
- *Configuration, workspace reader, inventory, search, Git observation, scope,
  ledgers, model plane, provisioning* are read-only or pure, and hard in formats
  rather than in order.
- *Terminal interface, studio, general session, tests, scripts*: input, rendering
  and wiring.

Further hazards that were met and that no property covers: a stop requested
while `apply` establishes its checkpoint (`session.ts:1269`), a child whose
cleanup failed and whose record drops it all the same
(`process-registry.mjs:304`), and a workstation whose forced disposal fails after
its deadline (`gc1/lifecycle.mjs:241`).

The map covers about one line in nineteen of the implementation. Most of the
118,000 lines are the parts just named: rendering, prompts, parsing of tool
output, tables, detection rules and provider clients, whose behaviour is data.
The parts in which several actors, failures and durable state meet are a few
thousand lines, and these are modelled.

## 8. What is left

1. Two Gateways at once and the election of `ensure.mjs`, beside `TaskGateway`.
2. The checkpoint index: read, changed and renamed into place by two processes
   without a lock; adoption and discarding of results by several clients.
3. Preview deployments and the removal of a mapping, in `Deployments`; the same
   ledger for databases and integrations.
4. A composition of session, plans and recovery over `EditContract`, so that what
   recovery restores is what the plan wrote and not a nondeterministic edit.
