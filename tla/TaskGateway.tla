----------------------------- MODULE TaskGateway -----------------------------
(***************************************************************************)
(* The PATH Gateway (gateway/runtime.mjs, server.mjs, ensure.mjs): one     *)
(* process that owns engineering tasks for every client.  A task has an    *)
(* object in the Gateway's memory, a session of ag1/session.mjs that works *)
(* for it, a worktree and a branch, and a durable checkpoint from which    *)
(* the task is resumed when the Gateway, or the engine, has died.          *)
(*                                                                         *)
(* A Run is one such task object together with its session: a task that is *)
(* resumed gets a new one.  Handlers run to completion between awaits, so  *)
(* every action is the code between two awaits.                            *)
(***************************************************************************)
EXTENDS Naturals

CONSTANTS Task,         \* task identifiers
          InPlace,      \* tasks of a project without version control: the
                        \* project itself is their worktree
          Call,         \* clients' calls of task.resume
          None,
          MaxTurns,     \* how often a session goes on after a turn of an engine:
                        \* guidance is applied 3 times and a repair tried twice
          MaxRuns,      \* bound: task objects that are created
          MaxLosses     \* bound: how often the Gateway goes down

ASSUME GatewayAssumption ==
  /\ InPlace \subseteq Task
  /\ None \notin Task \cup Nat \cup {"running", "stopping", "open", "VERIFIED", "CANCELLED", "FAILED"}
  /\ MaxTurns \in Nat
  /\ MaxRuns \in Nat
  /\ MaxLosses \in Nat

\* Task objects, in the order in which they are created.
Run == 1..MaxRuns

VARIABLES up,           \* the Gateway process lives
          losses,       \* how often it went down
          live,         \* tasks: Map taskId -> task object
          run,          \* every task object ever created, with its session
          tree,         \* tasks whose worktree is on disk
          branch,       \* tasks whose branch path/task-<id> exists
          dirty,        \* tasks with work in the worktree and in no commit (files
                        \* that Git ignores are not counted as work)
          cp,           \* finalState in the checkpoint, "open" without one
          marked,       \* checkpoints marked interrupted
          resuming,     \* the task a call of task.resume awaits bindProject for
          saw,          \* the task object the call judged before the await
          usurped,      \* history: tasks whose object a call replaced without
                        \* having judged it
          unseen,       \* history: tasks whose work a Git probe that failed hid
                        \* from the session that ended
          owed,         \* history: tasks whose run the Gateway took down with it
          unmarked      \* history: tasks whose checkpoint a restart left unmarked

disk == <<tree, branch, dirty, cp, marked>>
calls == <<resuming, saw>>
history == <<usurped, unseen, owed, unmarked>>
vars == <<up, losses, live, run, disk, calls, history>>

Active == {"running", "stopping"}
Statuses == Active \cup {"completed", "cancelled", "failed"}

\* What a session is in the middle of.  While engines work it awaits the turn of
\* one that its wall-clock timer watches ("working"), the turn of a collaborating
\* engine or the lease of the worktree ("peering"), the checks of the result
\* ("validating"), or a turn that began after the timer had fired ("overtime").
Engaged == {"working", "peering", "validating", "overtime"}
Stages == {"opening", "preparing"} \cup Engaged \cup {"decided", "closing", "ended"}
Classes == {"VERIFIED", "PARTIALLY_VERIFIED", "FAILED", "CANCELLED", "INTERRUPTED"}
\* A checkpoint a resume refuses; BLOCKED and NOT_VERIFIED are treated as FAILED.
Closed == {"VERIFIED", "CANCELLED"}
Finals == Closed \cup {"open", "FAILED"}

\* What of its task's durable state a session has got hold of: nothing (its
\* worktree is not, or not yet, the task's), the worktree, the checkpoint too.
Reaches == {"nothing", "worktree", "checkpoint"}

NoRun == [task |-> None, status |-> None, stage |-> None, turns |-> 0, reach |-> "nothing",
          class |-> None, preserved |-> FALSE, aborted |-> FALSE, resumed |-> FALSE]
RunType == [task : Task, status : Statuses \cup {"lost"}, stage : Stages,
            turns : 0..MaxTurns, reach : Reaches, class : Classes \cup {None}, preserved : BOOLEAN,
            aborted : BOOLEAN, resumed : BOOLEAN]

\* A session that is over, with what the Gateway still reports of it.
Over(r, status) == [NoRun EXCEPT !.task = run[r].task, !.status = status, !.stage = "ended"]

Init ==
  /\ up = TRUE
  /\ losses = 0
  /\ live = [t \in Task |-> None]
  /\ run = [r \in Run |-> NoRun]
  /\ tree = InPlace
  /\ branch = {}
  /\ dirty = {}
  /\ cp = [t \in Task |-> None]
  /\ marked = {}
  /\ resuming = [c \in Call |-> None]
  /\ saw = [c \in Call |-> None]
  /\ usurped = {} /\ unseen = {}
  /\ owed = {} /\ unmarked = {}

-----------------------------------------------------------------------------
(* Clients' requests                                                       *)

\* A new task object enters the map and its session is launched.
Launch(r, t, resumed) ==
  /\ run[r] = NoRun
  /\ \A q \in Run : q < r => run[q] # NoRun
  /\ run' = [run EXCEPT ![r] = [NoRun EXCEPT !.task = t, !.status = "running",
                                  !.stage = "opening", !.resumed = resumed]]
  /\ live' = [live EXCEPT ![t] = r]
  /\ owed' = owed \ {t}
  /\ unmarked' = unmarked \ {t}

\* task.start.  A client starts a task that has no checkpoint: a new one, or a
\* Build's child whose first start never got that far.
Start(r, t) ==
  /\ up
  /\ live[t] = None
  /\ cp[t] = None
  /\ Launch(r, t, FALSE)
  /\ UNCHANGED <<up, losses, disk, calls, usurped, unseen>>

\* The map holds a session that has not ended; a stopping one goes on too.
NotStopped(t) == live[t] # None /\ run[live[t]].status = "running"
StillRunning(t) == live[t] # None /\ run[live[t]].status \in Active

\* task.cancel.  A task that has ended is answered the same way, and nothing
\* reads its abort any more.
Cancel(t) ==
  /\ up
  /\ StillRunning(t)
  /\ run' = [run EXCEPT ![live[t]].aborted = TRUE, ![live[t]].status = "stopping"]
  /\ UNCHANGED <<up, losses, live, disk, calls, history>>

\* What assessTaskContinuity says of the live object and the checkpoint: a task
\* that is neither completed nor abandoned, with its worktree, can be resumed.
Finished(t) ==
  \/ live[t] # None /\ run[live[t]].status \in {"completed", "cancelled"}
  \/ cp[t] \in Closed
ResumableByWorktree(t) == cp[t] # None /\ t \in tree
Resumable(t) == cp[t] # None /\ ~Finished(t) /\ t \in tree

\* task.resume up to the await of bindProject.  A task that is running or
\* stopping, and one that is not resumable, is answered at once.
ResumeBegin(c, t) ==
  /\ up
  /\ resuming[c] = None
  /\ ~StillRunning(t)
  /\ Resumable(t)
  /\ resuming' = [resuming EXCEPT ![c] = t]
  /\ saw' = [saw EXCEPT ![c] = live[t]]
  /\ UNCHANGED <<up, losses, live, run, disk, history>>

Answer(c) ==
  /\ resuming' = [resuming EXCEPT ![c] = None]
  /\ saw' = [saw EXCEPT ![c] = None]

\* bindProject refuses, or startTask finds the task in the map (TASK_EXISTS).
\* An object that was judged before the await is deleted first, and then
\* startTask finds none.
ResumeRefused(c) ==
  /\ up
  /\ resuming[c] # None
  /\ Answer(c)
  /\ UNCHANGED <<up, losses, live, run, disk, history>>

MayReplace(c) == saw[c] # None \/ live[resuming[c]] = None

\* task.resume after the await: whatever object the task has now is deleted if
\* there was one before the await, and a session is launched.
ResumeStarts(c, r) ==
  LET t == resuming[c] IN
  /\ up
  /\ t # None
  /\ MayReplace(c)
  /\ Launch(r, t, TRUE)
  /\ Answer(c)
  /\ usurped' = usurped \cup IF live[t] # saw[c] THEN {t} ELSE {}
  /\ UNCHANGED <<up, losses, disk, unseen>>

-----------------------------------------------------------------------------
(* A session                                                               *)

At(r, stage) == up /\ run[r].stage = stage /\ run[r].status \in Active
Advance(r, stage) == run' = [run EXCEPT ![r].stage = stage]

\* The worktree is created, or reopened: a resumed task whose worktree is gone
\* gets it again from its branch, which holds no more than was committed.
OpenWorktree(r) ==
  LET t == run[r].task IN
  /\ At(r, "opening")
  /\ run[r].resumed \/ t \in InPlace \/ t \notin branch
  /\ run' = [run EXCEPT ![r].stage = "preparing", ![r].reach = "worktree"]
  /\ tree' = tree \cup {t}
  /\ branch' = branch \cup ({t} \ InPlace)
  /\ dirty' = IF t \in tree THEN dirty ELSE dirty \ {t}
  /\ unseen' = unseen \ {t}
  /\ UNCHANGED <<up, losses, live, cp, marked, calls, usurped, owed, unmarked>>

\* allocateTaskIdentity: the branch of a task that is started again exists, so
\* the session works under an identifier of its own.
OpenElsewhere(r) ==
  LET t == run[r].task IN
  /\ At(r, "opening")
  /\ ~run[r].resumed /\ t \in branch
  /\ Advance(r, "preparing")
  /\ UNCHANGED <<up, losses, live, disk, calls, history>>

\* An early return: the checkout is not admitted, or the worktree not opened.
OpenRefused(r) ==
  /\ At(r, "opening")
  /\ run' = [run EXCEPT ![r].stage = "closing", ![r].class = "FAILED"]
  /\ UNCHANGED <<up, losses, live, disk, calls, history>>

\* The engines begin: with the turn of Antigravity, which waits on the promise
\* that the timer resolves, or with that of the selected collaborator.
Engage(r, reach) ==
  \E stage \in {"working", "peering"} :
    run' = [run EXCEPT ![r].stage = stage, ![r].reach = reach]

\* createG10Fabric seeds the checkpoint, or finds one; a peer engine that
\* attaches to an interrupted task clears the mark.
SeedCheckpoint(r) ==
  LET t == run[r].task IN
  /\ At(r, "preparing")
  /\ run[r].reach = "worktree"
  /\ Engage(r, "checkpoint")
  /\ cp' = [cp EXCEPT ![t] = IF @ = None THEN "open" ELSE @]
  /\ marked' \in {marked, marked \ {t}}
  /\ UNCHANGED <<up, losses, live, tree, branch, dirty, calls, history>>

\* The fabric could not be created, or belongs to another identifier: the
\* session goes on and writes no checkpoint for its task.
WorkUnrecorded(r) ==
  /\ At(r, "preparing")
  /\ Engage(r, run[r].reach)
  /\ UNCHANGED <<up, losses, live, disk, calls, history>>

\* The session has an engine, whose turn it awaits or whose work it checks.
HasEngine(r) == up /\ run[r].stage \in Engaged /\ run[r].status \in Active

\* Engines change files of the worktree; so may the project's own checks.
EngineWrites(r) ==
  /\ HasEngine(r)
  /\ run[r].reach # "nothing"
  /\ run[r].task \in tree
  /\ dirty' = dirty \cup {run[r].task}
  /\ UNCHANGED <<up, losses, live, run, tree, branch, cp, marked, calls, history>>

\* noteEngineInterrupted: a peer engine died and the session goes on.
PeerInterrupted(r) ==
  /\ HasEngine(r)
  /\ run[r].reach = "checkpoint"
  /\ marked' = marked \cup {run[r].task}
  /\ UNCHANGED <<up, losses, live, run, tree, branch, dirty, cp, calls, history>>

\* endCursorAttempt: the preferred engine is not ready; the worktree stays.
EngineUnavailable(r) ==
  /\ At(r, "working") \/ At(r, "peering")
  /\ run' = [run EXCEPT ![r].stage = "closing", ![r].class = "FAILED", ![r].reach = "nothing"]
  /\ cp' = IF run[r].reach = "checkpoint" THEN [cp EXCEPT ![run[r].task] = "FAILED"] ELSE cp
  /\ UNCHANGED <<up, losses, live, tree, branch, dirty, marked, calls, history>>

\* The engine has finished, and with it a turn that its own timeout bounds or
\* the lease it had; the result is checked next.
TurnEnds(r) ==
  /\ HasEngine(r)
  /\ \/ run[r].stage \in {"working", "overtime"} /\ Advance(r, "peering")
     \/ run[r].stage # "validating" /\ Advance(r, "validating")
  /\ UNCHANGED <<up, losses, live, disk, calls, history>>

\* The session goes on for another turn, while there is one left: it applies
\* guidance, with time left on the clock, or repairs what the checks refused.  A
\* repair that a collaborator did not make, or that waited for the lease, arms a
\* turn without looking at the clock again (armTerminalWait).
Uncounted(r) == run[r].turns
FurtherTurns(r) == run[r].turns + 1
GoOn(r, stage) ==
  /\ run[r].turns < MaxTurns
  /\ run' = [run EXCEPT ![r].stage = stage, ![r].turns = FurtherTurns(r)]
TurnBegins(r) ==
  /\ HasEngine(r)
  /\ \/ run[r].stage = "validating" /\ \E stage \in {"working", "peering"} : GoOn(r, stage)
     \/ run[r].stage = "peering" /\ \E stage \in {"working", "overtime"} : GoOn(r, stage)
  /\ UNCHANGED <<up, losses, live, disk, calls, history>>

\* The loop of turns is left, and the result is classified; every result with
\* changes is committed to the task's branch, and when the commit fails the
\* worktree is preserved.  An engine that the wall-clock timer stopped may
\* answer `cancelled' as well.  Changes are what Git's probes say they are:
\* when one fails, or does not answer in time, there are none.
Verdicts(r) == IF run[r].aborted THEN {"CANCELLED"} ELSE Classes
HasChanges(r) == run[r].reach # "nothing" /\ run[r].task \in dirty
Probes(r) == IF HasChanges(r) THEN BOOLEAN ELSE {FALSE}
Decide(r) ==
  /\ \E class \in Verdicts(r), changes \in Probes(r), preserve \in BOOLEAN :
       /\ preserve => changes
       /\ run' = [run EXCEPT ![r].stage = "decided", ![r].turns = 0, ![r].class = class,
                             ![r].preserved = preserve]
       /\ dirty' = IF changes /\ ~preserve THEN dirty \ {run[r].task} ELSE dirty
       /\ unseen' = IF HasChanges(r) /\ ~changes THEN unseen \cup {run[r].task} ELSE unseen
  /\ UNCHANGED <<up, losses, live, tree, branch, cp, marked, calls, usurped, owed, unmarked>>

\* The wall-clock timer resolves the promise of the turn it finds.
TimerEnds(r) == At(r, "working") /\ Decide(r)

\* The engine ends by itself, by an abort, or with its checks.
EngineEnds(r) == HasEngine(r) /\ Decide(r)

\* removeTaskWorktree, unless the worktree is preserved or is the project.  The
\* removal may fail and leave the worktree.
DisposableAlways(r) == run[r].reach # "nothing" /\ run[r].task \notin InPlace
Disposable(r) == ~run[r].preserved /\ run[r].reach # "nothing" /\ run[r].task \notin InPlace
Dispose(r) == tree' \in {tree} \cup IF Disposable(r) THEN {tree \ {run[r].task}} ELSE {}

\* markFinal: an abort, or the engine's own `cancelled', that came after the
\* classification still makes the state CANCELLED, unless the result is VERIFIED.
FinalStates(r) ==
  IF run[r].class = "VERIFIED" THEN {"VERIFIED"}
  ELSE IF run[r].aborted \/ run[r].class = "CANCELLED" THEN {"CANCELLED"}
  ELSE {"FAILED", "CANCELLED"}

\* The end of the session, without an await: the worktree is disposed of, then
\* the final state is stamped; for an engine that died the task is only marked.
\* Nothing of the disk is the session's any more.
Record(r) ==
  LET t == run[r].task
      writes == run[r].reach = "checkpoint"
      interrupted == run[r].class = "INTERRUPTED" IN
  /\ At(r, "decided")
  /\ Dispose(r)
  /\ run' = [run EXCEPT ![r].stage = "closing", ![r].reach = "nothing", ![r].preserved = FALSE]
  /\ IF writes /\ ~interrupted
     THEN \E final \in FinalStates(r) : cp' = [cp EXCEPT ![t] = final]
     ELSE cp' = cp
  /\ marked' = IF writes /\ interrupted THEN marked \cup {t} ELSE marked
  /\ UNCHANGED <<up, losses, live, branch, dirty, calls, history>>

\* The Gateway takes the session's result (runtime.mjs, after the await).  A
\* session reports its own CANCELLED as NOT_VERIFIED, so that only the abort of
\* the Gateway makes a task cancelled.
EndStatus(r) ==
  IF run[r].aborted THEN "cancelled"
  ELSE IF run[r].class \in {"VERIFIED", "PARTIALLY_VERIFIED"} THEN "completed"
  ELSE "failed"
Finish(r) ==
  /\ At(r, "closing")
  /\ run' = [run EXCEPT ![r] = Over(r, EndStatus(r))]
  /\ UNCHANGED <<up, losses, live, disk, calls, history>>

\* The session throws, or could not start its engine: the task failed, and its
\* durable state stays as it is.
Throw(r) ==
  /\ At(r, "opening") \/ At(r, "preparing") \/ HasEngine(r)
  /\ run' = [run EXCEPT ![r] = Over(r, "failed")]
  /\ UNCHANGED <<up, losses, live, disk, calls, history>>

-----------------------------------------------------------------------------
(* The Gateway goes down and is started again                              *)

Lost == {r \in Run : run[r].status \in Active}
\* A resumed run, and one that had seeded its checkpoint, can be resumed again.
Owing(r) == run[r].stage \notin {"closing", "ended"}
            /\ (run[r].resumed \/ run[r].reach = "checkpoint")
            /\ run[r].task \notin usurped

\* Memory is gone: the map, the sessions and the calls.  `busy' are runs that
\* die in the middle of an action.
GoDown(busy) ==
  /\ up
  /\ losses < MaxLosses
  /\ up' = FALSE
  /\ losses' = losses + 1
  /\ UNCHANGED <<usurped, unseen, unmarked>>
  /\ run' = [r \in Run |-> IF run[r] = NoRun THEN NoRun ELSE Over(r, "lost")]
  /\ live' = [t \in Task |-> None]
  /\ resuming' = [c \in Call |-> None]
  /\ saw' = [c \in Call |-> None]
  /\ owed' = owed \cup {run[r].task : r \in {q \in Lost \ busy : Owing(q)}}

\* stop(): every running task is marked before the process exits.
IncompleteOpen(t) == cp[t] = "open"
Incomplete(t) == cp[t] # None /\ cp[t] \notin Closed
Stop ==
  /\ GoDown({})
  /\ marked' = marked \cup {t \in Task : live[t] \in Lost /\ Incomplete(t)}
  /\ UNCHANGED <<tree, branch, dirty, cp>>

Crash ==
  /\ GoDown({})
  /\ UNCHANGED disk

\* The Gateway is killed while git removes the worktree, before markFinal.
CrashInRecord(r) ==
  /\ At(r, "decided")
  /\ GoDown({r})
  /\ Dispose(r)
  /\ UNCHANGED <<branch, dirty, cp, marked>>

\* ensureGateway starts another Gateway.  Before that it marks every incomplete
\* checkpoint, but none when a process lives under the recorded pid, be it
\* another program's, and not those that can no longer be written.
Restart ==
  /\ ~up
  /\ up' = TRUE
  /\ \E skipped \in SUBSET {t \in Task : Incomplete(t)} :
       /\ marked' = marked \cup ({t \in Task : Incomplete(t)} \ skipped)
       /\ unmarked' = unmarked \cup (skipped \ marked)
  /\ UNCHANGED <<losses, live, run, tree, branch, dirty, cp, calls, usurped, unseen, owed>>

-----------------------------------------------------------------------------
Proceed(r) ==
  \/ OpenWorktree(r) \/ OpenElsewhere(r) \/ OpenRefused(r)
  \/ SeedCheckpoint(r) \/ WorkUnrecorded(r)
  \/ EngineUnavailable(r) \/ TurnEnds(r) \/ TurnBegins(r) \/ EngineEnds(r)
  \/ Record(r) \/ Finish(r) \/ Throw(r)

Next ==
  \/ \E r \in Run : Proceed(r) \/ EngineWrites(r) \/ PeerInterrupted(r) \/ CrashInRecord(r)
  \/ \E r \in Run, t \in Task : Start(r, t)
  \/ \E t \in Task : Cancel(t)
  \/ \E c \in Call, t \in Task : ResumeBegin(c, t)
  \/ \E c \in Call : ResumeRefused(c)
  \/ \E c \in Call, r \in Run : ResumeStarts(c, r)
  \/ Stop \/ Crash \/ Restart

\* Only what the session does without another program is sure to happen: its
\* timer fires, and its result is recorded without an await.
Fairness == \A r \in Run : WF_vars(TimerEnds(r)) /\ WF_vars(Record(r))
Spec == Init /\ [][Next]_vars /\ Fairness

-----------------------------------------------------------------------------
(* Properties                                                              *)

\* Every variable has its type.
TypeOK ==
  /\ up \in BOOLEAN
  /\ losses \in 0..MaxLosses
  /\ live \in [Task -> Run \cup {None}]
  /\ run \in [Run -> RunType \cup {NoRun}]
  /\ tree \subseteq Task /\ branch \subseteq Task /\ dirty \subseteq Task
  /\ cp \in [Task -> Finals \cup {None}]
  /\ marked \subseteq Task
  /\ resuming \in [Call -> Task \cup {None}]
  /\ saw \in [Call -> Run \cup {None}]
  /\ usurped \subseteq Task /\ unseen \subseteq Task
  /\ owed \subseteq Task /\ unmarked \subseteq Task

\* A session that runs is the one the Gateway's map leads to, so that its task
\* can be watched, steered and cancelled and has no second session in the same
\* worktree.  The exception is a task one of whose resumes deleted an object it
\* had not judged: resumeTask does not look again after its await.
RunningIsOwned ==
  \A r \in Run : run[r].status \in Active =>
    live[run[r].task] = r \/ run[r].task \in usurped

\* Work in a worktree that no commit holds is never removed with the worktree,
\* whatever dies and in whatever order results are recorded, unless a failed
\* probe said that there was none; the same exception, for then one session's
\* end disposes of the other's worktree.
NoWorkLost == dirty \subseteq tree \cup usurped \cup unseen

\* A task whose session the Gateway took down with it, before the result was
\* being recorded, can be resumed when the next Gateway is up: it has its
\* checkpoint, its worktree and no final state that forbids it.  It is also
\* marked as interrupted, unless the restart left its checkpoint unmarked.
LostIsResumable ==
  up => \A t \in owed : Resumable(t) /\ t \in marked \cup unmarked

\* A task that is recorded VERIFIED or CANCELLED, or that its Gateway reports as
\* completed or cancelled, gets no further session by task.resume.
FinishedNeverResumed ==
  [][\A r \in Run : run[r] = NoRun /\ run'[r].resumed =>
       LET t == run'[r].task IN t \in usurped' \/ ~Finished(t)]_vars

\* What a session can await for ever, because nothing of its own bounds it: the
\* installer and the SDKs of the engines, a collaborator's turn, checks whose
\* output a process holds open, and a turn that began when the timer was spent.
Awaits == {"opening", "preparing", "peering", "validating", "overtime", "closing"}

\* A session ends, or its Gateway dies, unless one such await never ends: no
\* turn outlives the timer that watches it, no sequence of turns, guidance and
\* repairs goes on without end, and a result that was reached is recorded.
RunsEnd ==
  \A r \in Run :
    \/ []<>(run[r].status \notin Active)
    \/ \E stage \in Awaits : <>[](run[r].stage = stage)
=============================================================================
