-------------------------- MODULE TaskGatewayProofs --------------------------
(***************************************************************************)
(* Theorems about TaskGateway for every set of tasks and of calls, and any *)
(* number of task objects, of turns and of losses of the Gateway.          *)
(***************************************************************************)
EXTENDS TaskGateway, TLAPS

Used(r) == run[r] # NoRun

\* The map leads from a task to an object of that task.
MapTyped == \A t \in Task : live[t] # None => run[live[t]].task = t
Typed == TypeOK /\ MapTyped

\* A call that judged an object judged one whose session is over.
Judged ==
  \A c \in Call : resuming[c] # None /\ saw[c] # None =>
    Used(saw[c]) /\ run[saw[c]].status \notin Active

\* What a call of task.resume read before its await still holds, unless the task
\* has got another object since.
JudgedResumable ==
  \A c \in Call : LET t == resuming[c] IN
    t # None /\ live[t] = saw[c] /\ t \notin usurped => Resumable(t)

\* A session whose worktree will be removed has committed the work in it, if it
\* saw that there was any.
CommittedRun(r) ==
  /\ run[r].status \in Active /\ run[r].stage = "decided"
  /\ ~run[r].preserved /\ run[r].reach # "nothing"
  /\ run[r].task \notin usurped
  => run[r].task \notin dirty \/ run[r].task \in unseen
Committed == \A r \in Run : CommittedRun(r)

\* Until the result is recorded, a session finds its checkpoint and its worktree.
KeptRun(r) ==
  LET t == run[r].task IN
  /\ run[r].status \in Active /\ run[r].stage \notin {"closing", "ended"}
  /\ t \notin usurped
  => /\ cp[t] \notin Closed
     /\ run[r].resumed \/ run[r].reach = "checkpoint" => cp[t] # None
     /\ run[r].resumed \/ run[r].reach # "nothing" => t \in tree
Kept == \A r \in Run : KeptRun(r)

\* A task that was lost waits for its resume.
Waiting ==
  \A t \in owed :
    /\ t \in Task \ usurped /\ live[t] = None
    /\ cp[t] # None /\ cp[t] \notin Closed /\ t \in tree
    /\ up => t \in marked \cup unmarked

\* The inductive invariant.  NoWorkLost needs Committed; FinishedNeverResumed
\* and LostIsResumable need what a call and a session may rely on for a task
\* that no other object has usurped.
IInv ==
  /\ Typed /\ RunningIsOwned
  /\ Judged /\ JudgedResumable
  /\ Committed /\ NoWorkLost
  /\ Kept /\ Waiting

\* A session of one task: what it does by itself, and what a cancellation does
\* to it.
Session(r) ==
  \/ Proceed(r) \/ EngineWrites(r) \/ PeerInterrupted(r)
  \/ \E t \in Task : Cancel(t) /\ live[t] = r

\* What a step of session r may touch: its own task object, which stays one of
\* the same task, and the durable state of that task.
FrameObject(r) ==
  /\ up /\ run[r].status \in Active /\ run[r] \in RunType
  /\ run' \in [Run -> RunType \cup {NoRun}]
  /\ run'[r] \in RunType /\ run'[r].task = run[r].task
  /\ \A q \in Run : q # r => run'[q] = run[q]
Apart(S, SP, t) == SP \subseteq Task /\ \A u \in Task : u # t => (u \in SP <=> u \in S)
FrameDisk(t) ==
  /\ UNCHANGED <<up, losses, live, resuming, saw, usurped, owed, unmarked>>
  /\ cp' \in [Task -> Finals \cup {None}] /\ \A u \in Task : u # t => cp'[u] = cp[u]
  /\ Apart(tree, tree', t) /\ Apart(dirty, dirty', t) /\ Apart(marked, marked', t)
  /\ Apart(unseen, unseen', t)
  /\ branch' \subseteq Task
Frame(r) == FrameObject(r) /\ FrameDisk(run[r].task)

USE GatewayAssumption DEF Active, Statuses, Engaged, Stages, Classes, Closed, Finals, Reaches, Run

\* Any value of the right type that a task object has is not the empty one.
LEMMA Objects ==
  ASSUME Typed, NEW r \in Run
  PROVE  /\ NoRun \notin RunType
         /\ Used(r) => run[r] \in RunType /\ run[r].task \in Task
         /\ run[r].status \in Active => run[r] \in RunType
         /\ run[r].stage # None => run[r] \in RunType
<1>1. NoRun.task = None /\ NoRun.status = None /\ NoRun.stage = None
  BY DEF NoRun
<1>2. NoRun \notin RunType
  BY <1>1, SMT DEF RunType
<1>3. run[r] \in RunType \cup {NoRun}
  BY DEF Typed, TypeOK
<1>4. run[r] \in RunType => run[r].task \in Task
  BY DEF RunType
<1> QED
  BY <1>1, <1>2, <1>3, <1>4 DEF Used

LEMMA NoTurns == 0 \in 0..MaxTurns
  OBVIOUS

\* What is left of a session that is over is a task object.
LEMMA OverTyped ==
  ASSUME NEW r \in Run, run[r].task \in Task, NEW status \in Statuses \cup {"lost"}
  PROVE  /\ Over(r, status) \in RunType /\ Over(r, status).task = run[r].task
         /\ Over(r, status).status = status /\ Over(r, status).stage = "ended"
  BY NoTurns DEF Over, NoRun, RunType

\* The initial state has its type.
LEMMA InitTyped == Init => Typed
  BY DEF Init, Typed, TypeOK, MapTyped, NoRun

\* A step of a session stays within its frame.
LEMMA SessionFrame ==
  ASSUME Typed, NEW r \in Run, Session(r)
  PROVE  Frame(r)
<1> USE DEF disk, calls, history, At, Advance
<1> DEFINE t == run[r].task
<1>t. /\ run \in [Run -> RunType \cup {NoRun}] /\ live \in [Task -> Run \cup {None}]
      /\ tree \subseteq Task /\ branch \subseteq Task /\ dirty \subseteq Task
      /\ cp \in [Task -> Finals \cup {None}] /\ marked \subseteq Task
      /\ unseen \subseteq Task
  BY DEF Typed, TypeOK
<1>o. run[r].status \in Active => run[r] \in RunType /\ t \in Task
  BY Objects DEF RunType
<1>1. CASE OpenWorktree(r)
  <2>1. FrameObject(r)
    BY <1>t, <1>o, <1>1 DEF OpenWorktree, FrameObject, RunType
  <2>2. FrameDisk(t)
    BY <1>t, <1>o, <1>1 DEF OpenWorktree, FrameDisk, Apart
  <2> QED
    BY <2>1, <2>2 DEF Frame
<1>2. CASE EngineEnds(r)
  <2>1. PICK class \in Classes, preserve \in BOOLEAN :
          run' = [run EXCEPT ![r].stage = "decided", ![r].turns = 0, ![r].class = class,
                             ![r].preserved = preserve]
    BY <1>2 DEF EngineEnds, Decide, Verdicts
  <2>o. up /\ run[r].status \in Active /\ run[r] \in RunType
    BY <1>o, <1>2 DEF EngineEnds, HasEngine
  <2>2. FrameObject(r)
    <3> DEFINE new == [run[r] EXCEPT !.stage = "decided", !.turns = 0, !.class = class,
                                     !.preserved = preserve]
    <3>1. new \in RunType /\ new.task = t
      BY <2>o, NoTurns DEF RunType
    <3>2. run' = [run EXCEPT ![r] = new]
      BY <1>t, <2>1
    <3> HIDE DEF new
    <3> QED
      BY <1>t, <2>o, <3>1, <3>2 DEF FrameObject
  <2>3. FrameDisk(t)
    BY <1>t, <1>o, <1>2 DEF EngineEnds, HasEngine, Decide, FrameDisk, Apart
  <2> QED
    BY <2>2, <2>3 DEF Frame
<1>3. CASE OpenElsewhere(r)
  <2>1. FrameObject(r)
    BY <1>t, <1>o, <1>3 DEF OpenElsewhere, FrameObject, RunType
  <2>2. FrameDisk(t)
    BY <1>t, <1>o, <1>3 DEF OpenElsewhere, FrameDisk, Apart
  <2> QED
    BY <2>1, <2>2 DEF Frame
<1>4. CASE OpenRefused(r)
  <2>1. FrameObject(r)
    BY <1>t, <1>o, <1>4 DEF OpenRefused, FrameObject, RunType
  <2>2. FrameDisk(t)
    BY <1>t, <1>o, <1>4 DEF OpenRefused, FrameDisk, Apart
  <2> QED
    BY <2>1, <2>2 DEF Frame
<1>5. CASE SeedCheckpoint(r)
  <2>1. FrameObject(r)
    BY <1>t, <1>o, <1>5 DEF SeedCheckpoint, Engage, FrameObject, RunType
  <2>2. FrameDisk(t)
    BY <1>t, <1>o, <1>5 DEF SeedCheckpoint, Engage, FrameDisk, Apart
  <2> QED
    BY <2>1, <2>2 DEF Frame
<1>6. CASE WorkUnrecorded(r)
  <2>1. FrameObject(r)
    <3>1. PICK stage \in {"working", "peering"} :
            run' = [run EXCEPT ![r].stage = stage, ![r].reach = run[r].reach]
      BY <1>6 DEF WorkUnrecorded, Engage
    <3>2. up /\ run[r].status \in Active /\ run[r] \in RunType
      BY <1>6, <1>o DEF WorkUnrecorded
    <3> QED
      BY <1>t, <3>1, <3>2 DEF FrameObject, RunType
  <2>2. FrameDisk(t)
    BY <1>t, <1>o, <1>6 DEF WorkUnrecorded, Engage, FrameDisk, Apart
  <2> QED
    BY <2>1, <2>2 DEF Frame
<1>7. CASE EngineUnavailable(r)
  <2>1. FrameObject(r)
    BY <1>t, <1>o, <1>7 DEF EngineUnavailable, FrameObject, RunType
  <2>2. FrameDisk(t)
    BY <1>t, <1>o, <1>7 DEF EngineUnavailable, FrameDisk, Apart
  <2> QED
    BY <2>1, <2>2 DEF Frame
<1>8. CASE Record(r)
  <2>1. FrameObject(r)
    BY <1>t, <1>o, <1>8 DEF Record, FrameObject, RunType
  <2>2. FrameDisk(t)
    BY <1>t, <1>o, <1>8 DEF Record, FrameDisk, Apart, Dispose, FinalStates
  <2> QED
    BY <2>1, <2>2 DEF Frame
<1>9. CASE Finish(r)
  <2>1. FrameObject(r)
    <3>1. EndStatus(r) \in Statuses
      BY DEF EndStatus
    <3>2. up /\ run[r].status \in Active /\ run' = [run EXCEPT ![r] = Over(r, EndStatus(r))]
      BY <1>9 DEF Finish
    <3>3. Over(r, EndStatus(r)) \in RunType /\ Over(r, EndStatus(r)).task = t
      BY <1>o, <3>1, <3>2, OverTyped
    <3> QED
      BY <1>t, <1>o, <3>2, <3>3 DEF FrameObject
  <2>2. FrameDisk(t)
    BY <1>t, <1>o, <1>9 DEF Finish, FrameDisk, Apart
  <2> QED
    BY <2>1, <2>2 DEF Frame
<1>10. CASE Throw(r)
  <2>1. FrameObject(r)
    <3>1. up /\ run[r].status \in Active /\ run' = [run EXCEPT ![r] = Over(r, "failed")]
      BY <1>10 DEF Throw, HasEngine
    <3>2. Over(r, "failed") \in RunType /\ Over(r, "failed").task = t
      BY <1>o, <3>1, OverTyped
    <3> QED
      BY <1>t, <1>o, <3>1, <3>2 DEF FrameObject
  <2>2. FrameDisk(t)
    BY <1>t, <1>o, <1>10 DEF Throw, HasEngine, FrameDisk, Apart
  <2> QED
    BY <2>1, <2>2 DEF Frame
<1>11. CASE EngineWrites(r)
  <2>1. FrameObject(r)
    BY <1>t, <1>o, <1>11 DEF EngineWrites, HasEngine, FrameObject, RunType
  <2>2. FrameDisk(t)
    BY <1>t, <1>o, <1>11 DEF EngineWrites, HasEngine, FrameDisk, Apart
  <2> QED
    BY <2>1, <2>2 DEF Frame
<1>12. CASE PeerInterrupted(r)
  <2>1. FrameObject(r)
    BY <1>t, <1>o, <1>12 DEF PeerInterrupted, HasEngine, FrameObject, RunType
  <2>2. FrameDisk(t)
    BY <1>t, <1>o, <1>12 DEF PeerInterrupted, HasEngine, FrameDisk, Apart
  <2> QED
    BY <2>1, <2>2 DEF Frame
<1>13. CASE \E u \in Task : Cancel(u) /\ live[u] = r
  <2>1. PICK u \in Task : Cancel(u) /\ live[u] = r
    BY <1>13
  <2>2. run[r].status \in Active
    BY <2>1 DEF Cancel, StillRunning
  <2>3. FrameObject(r)
    BY <1>t, <1>o, <2>1, <2>2 DEF Cancel, FrameObject, RunType
  <2>4. FrameDisk(t)
    BY <1>t, <1>o, <2>1 DEF Cancel, FrameDisk, Apart, disk
  <2> QED
    BY <2>3, <2>4 DEF Frame
<1>14. CASE TurnEnds(r)
  <2>1. FrameObject(r)
    <3>1. PICK stage \in Engaged : run' = [run EXCEPT ![r].stage = stage]
      BY <1>14 DEF TurnEnds
    <3>2. up /\ run[r].status \in Active /\ run[r] \in RunType
      BY <1>14, <1>o DEF TurnEnds, HasEngine
    <3> QED
      BY <1>t, <3>1, <3>2 DEF FrameObject, RunType
  <2>2. FrameDisk(t)
    BY <1>t, <1>o, <1>14 DEF TurnEnds, FrameDisk, Apart
  <2> QED
    BY <2>1, <2>2 DEF Frame
<1>15. CASE TurnBegins(r)
  <2>1. PICK stage \in Engaged : GoOn(r, stage)
    BY <1>15 DEF TurnBegins
  <2>2. run[r].status \in Active /\ up
    BY <1>15 DEF TurnBegins, HasEngine
  <2>3. FrameObject(r)
    BY <1>t, <1>o, <2>1, <2>2 DEF GoOn, FurtherTurns, FrameObject, RunType
  <2>4. FrameDisk(t)
    BY <1>t, <1>o, <1>15 DEF TurnBegins, FrameDisk, Apart
  <2> QED
    BY <2>3, <2>4 DEF Frame
<1> QED
  BY <1>1, <1>2, <1>3, <1>4, <1>5, <1>6, <1>7, <1>8, <1>9, <1>10, <1>11, <1>12, <1>13, <1>14, <1>15
  DEF Session, Proceed

-----------------------------------------------------------------------------
(* Steps of a session                                                      *)

\* Of a task that is not usurped, the session that steps is the only one, and
\* the map leads to it.
LEMMA SoleSession ==
  ASSUME IInv, NEW r \in Run, Session(r), run[r].task \notin usurped
  PROVE  /\ run[r].task \in Task /\ live[run[r].task] = r
         /\ \A q \in Run : q # r /\ run[q].status \in Active => run[q].task # run[r].task
  BY SessionFrame, Objects DEF IInv, RunningIsOwned, Frame, FrameObject, RunType

\* What a step of a session leaves its own task in.
LEMMA OwnStep ==
  ASSUME IInv, NEW r \in Run, Session(r), run[r].task \notin usurped
  PROVE  /\ run[r].task \in dirty' => run[r].task \in tree' \cup unseen'
         /\ CommittedRun(r)'
         /\ KeptRun(r)'
<1> USE DEF disk, calls, history, At, Advance
<1> DEFINE t == run[r].task
<1>t. /\ run \in [Run -> RunType \cup {NoRun}] /\ cp \in [Task -> Finals \cup {None}]
      /\ run[r] \in RunType /\ t \in Task /\ run[r].status \in Active
      /\ run'[r].task = t /\ usurped' = usurped
  BY SessionFrame, SoleSession DEF IInv, Typed, TypeOK, Frame, FrameObject, FrameDisk
<1>k. /\ KeptRun(r) /\ CommittedRun(r) /\ (t \in dirty => t \in tree \cup unseen)
      /\ t \in InPlace => t \in Task
  BY <1>t DEF IInv, Kept, Committed, NoWorkLost
<1>1. CASE OpenWorktree(r)
  BY <1>t, <1>k, <1>1 DEF OpenWorktree, KeptRun, CommittedRun, RunType
<1>2. CASE OpenElsewhere(r)
  BY <1>t, <1>k, <1>2 DEF OpenElsewhere, KeptRun, CommittedRun, RunType
<1>3. CASE OpenRefused(r)
  BY <1>t, <1>k, <1>3 DEF OpenRefused, KeptRun, CommittedRun, RunType
<1>4. CASE SeedCheckpoint(r)
  BY <1>t, <1>k, <1>4 DEF SeedCheckpoint, Engage, KeptRun, CommittedRun, RunType
<1>5. CASE WorkUnrecorded(r)
  BY <1>t, <1>k, <1>5 DEF WorkUnrecorded, Engage, KeptRun, CommittedRun, RunType
<1>6. CASE EngineUnavailable(r)
  BY <1>t, <1>k, <1>6 DEF EngineUnavailable, KeptRun, CommittedRun, RunType
<1>7. CASE EngineEnds(r)
  BY <1>t, <1>k, <1>7 DEF EngineEnds, HasEngine, Decide, Probes, HasChanges, KeptRun,
     CommittedRun, RunType
<1>8. CASE Record(r)
  BY <1>t, <1>k, <1>8 DEF Record, KeptRun, CommittedRun, RunType, Dispose, Disposable
<1>9. CASE Finish(r)
  BY <1>t, <1>k, <1>9 DEF Finish, KeptRun, CommittedRun, RunType, Over, NoRun, EndStatus
<1>10. CASE Throw(r)
  BY <1>t, <1>k, <1>10 DEF Throw, HasEngine, KeptRun, CommittedRun, RunType, Over, NoRun
<1>11. CASE EngineWrites(r)
  BY <1>t, <1>k, <1>11 DEF EngineWrites, HasEngine, KeptRun, CommittedRun, RunType
<1>12. CASE PeerInterrupted(r)
  BY <1>t, <1>k, <1>12 DEF PeerInterrupted, HasEngine, KeptRun, CommittedRun, RunType
<1>13. CASE \E u \in Task : Cancel(u) /\ live[u] = r
  BY <1>t, <1>k, <1>13 DEF Cancel, StillRunning, KeptRun, CommittedRun, RunType
<1>14. CASE TurnEnds(r)
  BY <1>t, <1>k, <1>14 DEF TurnEnds, HasEngine, KeptRun, CommittedRun, RunType
<1>15. CASE TurnBegins(r)
  <2>1. PICK stage \in Engaged : GoOn(r, stage)
    BY <1>15 DEF TurnBegins
  <2>2. run[r].stage \in Engaged /\ UNCHANGED <<tree, dirty, unseen, cp>>
    BY <1>15 DEF TurnBegins, HasEngine
  <2> QED
    BY <1>t, <1>k, <2>1, <2>2 DEF GoOn, KeptRun, CommittedRun, RunType
<1> QED
  BY <1>1, <1>2, <1>3, <1>4, <1>5, <1>6, <1>7, <1>8, <1>9, <1>10, <1>11, <1>12, <1>13, <1>14, <1>15
  DEF Session, Proceed

\* A step of a session keeps the invariant.
LEMMA SessionStep ==
  ASSUME IInv, NEW r \in Run, Session(r)
  PROVE  IInv'
<1> DEFINE t == run[r].task
<1>f. Frame(r)
  BY SessionFrame DEF IInv
<1> USE <1>f DEF Frame, FrameObject, FrameDisk, Apart
<1>t. /\ Typed /\ t \in Task /\ run[r] # NoRun /\ run'[r] # NoRun
      /\ live \in [Task -> Run \cup {None}]
      /\ tree \subseteq Task /\ dirty \subseteq Task
  BY Objects DEF IInv, Typed, TypeOK, RunType
<1>s. t \notin usurped => /\ live[t] = r
                          /\ \A q \in Run : q # r /\ run[q].status \in Active => run[q].task # t
  BY SoleSession
<1>o. t \notin usurped => (t \in dirty' => t \in tree' \cup unseen') /\ CommittedRun(r)' /\ KeptRun(r)'
  BY OwnStep
<1>q. \A q \in Run : q # r => run'[q] = run[q]
  OBVIOUS
<1>1. Typed'
  BY <1>t DEF Typed, TypeOK, MapTyped
<1>2. RunningIsOwned'
  BY <1>s DEF IInv, RunningIsOwned
<1>3. Judged'
  <2>1. \A c \in Call : resuming[c] # None /\ saw[c] # None => saw[c] \in Run /\ saw[c] # r
    BY DEF IInv, Typed, TypeOK, Judged
  <2> QED
    BY <2>1, <1>q DEF IInv, Judged, Used
<1>4. JudgedResumable'
  <2> SUFFICES ASSUME NEW c \in Call, resuming[c] # None, live[resuming[c]] = saw[c],
                      resuming[c] \notin usurped
               PROVE  Resumable(resuming[c])'
    BY DEF JudgedResumable
  <2> DEFINE u == resuming[c]
  <2>1. u \in Task /\ Resumable(u)
    BY <1>t DEF IInv, Typed, TypeOK, JudgedResumable
  <2>2. u # t
    BY <1>s, <1>t DEF IInv, Judged
  <2>3. live[u] # r
    BY <2>2, <2>1, <1>t DEF Typed, MapTyped
  <2> QED
    BY <2>1, <2>2, <2>3, <1>t, <1>q DEF Resumable, Finished
<1>5. Committed'
  <2> SUFFICES ASSUME NEW q \in Run, q # r PROVE CommittedRun(q)'
    BY <1>o DEF Committed, CommittedRun
  <2>1. run'[q] = run[q] /\ CommittedRun(q) /\ (run[q].status \in Active => run[q].task \in Task)
    BY <1>t, Objects DEF IInv, Committed, RunType
  <2> QED
    BY <2>1, <1>s, <1>t DEF CommittedRun
<1>6. NoWorkLost'
  <2> SUFFICES ASSUME NEW u \in dirty', u # t PROVE u \in tree' \cup usurped' \cup unseen'
    BY <1>o DEF NoWorkLost
  <2> QED
    BY <1>t DEF IInv, NoWorkLost
<1>7. Kept'
  <2> SUFFICES ASSUME NEW q \in Run, q # r PROVE KeptRun(q)'
    BY <1>o DEF Kept, KeptRun
  <2>1. run'[q] = run[q] /\ KeptRun(q) /\ (run[q].status \in Active => run[q].task \in Task)
    BY <1>t, Objects DEF IInv, Kept, RunType
  <2> QED
    BY <2>1, <1>s, <1>t DEF KeptRun
<1>8. Waiting'
  <2> SUFFICES ASSUME NEW u \in owed
               PROVE  /\ u \in Task \ usurped /\ live[u] = None
                      /\ cp'[u] # None /\ cp'[u] \notin Closed /\ u \in tree'
                      /\ u \in marked' \cup unmarked'
    BY DEF Waiting
  <2>1. /\ u \in Task \ usurped /\ live[u] = None
        /\ cp[u] # None /\ cp[u] \notin Closed /\ u \in tree
        /\ u \in marked \cup unmarked
    BY DEF IInv, Waiting
  <2>2. u # t
    BY <2>1, <1>s
  <2> QED
    BY <2>1, <2>2
<1> QED
  BY <1>1, <1>2, <1>3, <1>4, <1>5, <1>6, <1>7, <1>8 DEF IInv

-----------------------------------------------------------------------------
(* Launches                                                                *)

\* What starts a session adds one task object, and for a resumed task nothing
\* that a call or a session relies on is missing.
Launching(r, t, resumed) ==
  /\ up /\ Launch(r, t, resumed)
  /\ UNCHANGED <<up, losses, tree, branch, dirty, cp, marked, unseen>>
  /\ usurped \subseteq usurped' /\ usurped' \subseteq Task
  /\ t \notin usurped' => /\ \A q \in Run : run[q].status \in Active => run[q].task # t
                          /\ cp[t] \notin Closed
                          /\ resumed => cp[t] # None /\ t \in tree
  /\ \A u \in Task : u # t => (u \in usurped' <=> u \in usurped)
  /\ resuming' \in [Call -> Task \cup {None}] /\ saw' \in [Call -> Run \cup {None}]
  /\ \A c \in Call : resuming'[c] # None => resuming'[c] = resuming[c] /\ saw'[c] = saw[c]

\* A launch keeps the invariant.
LEMMA LaunchStep ==
  ASSUME IInv, NEW r \in Run, NEW t \in Task, NEW resumed \in BOOLEAN,
         Launching(r, t, resumed)
  PROVE  IInv'
<1> USE DEF Launching, Launch
<1> DEFINE new == [NoRun EXCEPT !.task = t, !.status = "running",
                                !.stage = "opening", !.resumed = resumed]
<1>n. /\ new \in RunType /\ new.task = t /\ new.stage = "opening"
      /\ new.reach = "nothing" /\ new.resumed = resumed /\ new # NoRun
  BY NoTurns DEF NoRun, RunType
<1>t. /\ run \in [Run -> RunType \cup {NoRun}] /\ live \in [Task -> Run \cup {None}]
      /\ run[r] = NoRun /\ NoRun.status \notin Active /\ NoRun.task = None
      /\ run'[r] = new /\ live'[t] = r
      /\ \A q \in Run : q # r => run'[q] = run[q]
      /\ \A u \in Task : u # t => live'[u] = live[u]
      /\ \A u \in Task : live[u] # r
  BY DEF IInv, Typed, TypeOK, MapTyped, NoRun
<1>q. \A q \in Run : run[q].status \in Active => run[q].task \in Task
  BY Objects DEF IInv, RunType
<1>1. Typed'
  <2>1. TypeOK'
    BY <1>n, <1>t DEF IInv, Typed, TypeOK
  <2>2. MapTyped'
    BY <1>n, <1>t DEF IInv, Typed, MapTyped
  <2> QED
    BY <2>1, <2>2 DEF Typed
<1>2. RunningIsOwned'
  BY <1>n, <1>t, <1>q DEF IInv, RunningIsOwned
<1>3. Judged'
  BY <1>n, <1>t DEF IInv, Judged, Used, Typed, TypeOK
<1>4. JudgedResumable'
  <2> SUFFICES ASSUME NEW c \in Call, resuming'[c] # None, live'[resuming'[c]] = saw'[c],
                      resuming'[c] \notin usurped'
               PROVE  Resumable(resuming[c])'
    BY DEF JudgedResumable
  <2> DEFINE u == resuming[c]
  <2>1. u \in Task /\ resuming'[c] = u /\ saw'[c] = saw[c]
    BY DEF IInv, Typed, TypeOK
  <2>2. u # t
    BY <2>1, <1>t DEF IInv, Judged, Used
  <2>3. Resumable(u)
    BY <2>1, <2>2, <1>t DEF IInv, JudgedResumable
  <2>4. live'[u] = live[u] /\ (live[u] # None => run'[live[u]] = run[live[u]])
    BY <2>1, <2>2, <1>t
  <2> QED
    BY <2>1, <2>2, <2>3, <2>4, <1>t DEF Resumable, Finished
<1>5. Committed'
  BY <1>n, <1>t, <1>q DEF IInv, Committed, CommittedRun
<1>6. NoWorkLost'
  BY DEF IInv, NoWorkLost
<1>7. Kept'
  BY <1>n, <1>t, <1>q DEF IInv, Kept, KeptRun
<1>8. Waiting'
  BY <1>t DEF IInv, Waiting
<1> QED
  BY <1>1, <1>2, <1>3, <1>4, <1>5, <1>6, <1>7, <1>8 DEF IInv

\* task.start launches a session of a task that has none.
LEMMA StartLaunches ==
  ASSUME IInv, NEW r \in Run, NEW t \in Task, Start(r, t)
  PROVE  Launching(r, t, FALSE)
<1>1. t \notin usurped => \A q \in Run : run[q].status \in Active => run[q].task # t
  <2> SUFFICES ASSUME t \notin usurped, NEW q \in Run, run[q].status \in Active, run[q].task = t
               PROVE  FALSE
    OBVIOUS
  <2>1. live[t] = q
    BY DEF IInv, RunningIsOwned
  <2> QED
    BY <2>1 DEF Start
<1> QED
  BY <1>1 DEF Start, Launching, IInv, Typed, TypeOK, disk, calls

\* task.resume launches one of a task that was found resumable and has none,
\* unless it got another object since.
LEMMA ResumeLaunches ==
  ASSUME IInv, NEW c \in Call, NEW r \in Run, ResumeStarts(c, r)
  PROVE  LET t == resuming[c] IN
         t \in Task /\ Launching(r, t, TRUE) /\ (t \notin usurped' => Resumable(t))
<1> DEFINE t == resuming[c]
<1>1. /\ t \in Task /\ up /\ Launch(r, t, TRUE) /\ usurped \subseteq Task
      /\ usurped' = usurped \cup IF live[t] # saw[c] THEN {t} ELSE {}
      /\ resuming' = [resuming EXCEPT ![c] = None] /\ saw' = [saw EXCEPT ![c] = None]
      /\ UNCHANGED <<up, losses, tree, branch, dirty, cp, marked, unseen>>
      /\ resuming \in [Call -> Task \cup {None}] /\ saw \in [Call -> Run \cup {None}]
  BY DEF ResumeStarts, Answer, disk, IInv, Typed, TypeOK
<1>2. t \notin usurped' => t \notin usurped /\ live[t] = saw[c]
  BY <1>1
<1>3. t \notin usurped' => Resumable(t)
  BY <1>1, <1>2 DEF IInv, JudgedResumable
<1>4. t \notin usurped' => \A q \in Run : run[q].status \in Active => run[q].task # t
  <2> SUFFICES ASSUME t \notin usurped', NEW q \in Run, run[q].status \in Active, run[q].task = t
               PROVE  FALSE
    OBVIOUS
  <2>1. live[t] = q
    BY <1>2 DEF IInv, RunningIsOwned
  <2>2. saw[c] = q /\ q # None
    BY <2>1, <1>2
  <2> QED
    BY <2>2, <1>1 DEF IInv, Judged
<1> QED
  BY <1>1, <1>3, <1>4 DEF Launching, Resumable, Finished

-----------------------------------------------------------------------------
(* Calls, losses and restarts                                              *)

\* The first half of a resume keeps the invariant.
LEMMA ResumeBeginStep ==
  ASSUME IInv, NEW c \in Call, NEW t \in Task, ResumeBegin(c, t)
  PROVE  IInv'
<1> USE DEF ResumeBegin, disk, history
<1>t. /\ resuming \in [Call -> Task \cup {None}] /\ saw \in [Call -> Run \cup {None}]
      /\ live \in [Task -> Run \cup {None}]
  BY DEF IInv, Typed, TypeOK
<1>1. Typed'
  BY <1>t DEF IInv, Typed, TypeOK, MapTyped
<1>2. Judged'
  <2>1. live[t] # None => Used(live[t]) /\ run[live[t]].status \notin Active
    BY <1>t DEF IInv, Typed, MapTyped, StillRunning, Used, NoRun
  <2> QED
    BY <1>t, <2>1 DEF IInv, Judged, Used
<1>3. JudgedResumable'
  BY <1>t DEF IInv, JudgedResumable, Resumable, Finished
<1>4. /\ RunningIsOwned' /\ Committed' /\ NoWorkLost' /\ Kept' /\ Waiting'
  BY DEF IInv, RunningIsOwned, Committed, CommittedRun, NoWorkLost, Kept, KeptRun, Waiting
<1> QED
  BY <1>1, <1>2, <1>3, <1>4 DEF IInv

\* A refused resume keeps the invariant.
LEMMA ResumeRefusedStep ==
  ASSUME IInv, NEW c \in Call, ResumeRefused(c)
  PROVE  IInv'
<1> USE DEF ResumeRefused, Answer, disk, history
<1>t. resuming \in [Call -> Task \cup {None}] /\ saw \in [Call -> Run \cup {None}]
  BY DEF IInv, Typed, TypeOK
<1>1. Typed'
  BY <1>t DEF IInv, Typed, TypeOK, MapTyped
<1>2. Judged'
  BY <1>t DEF IInv, Judged, Used
<1>3. JudgedResumable'
  BY <1>t DEF IInv, JudgedResumable, Resumable, Finished
<1>4. /\ RunningIsOwned' /\ Committed' /\ NoWorkLost' /\ Kept' /\ Waiting'
  BY DEF IInv, RunningIsOwned, Committed, CommittedRun, NoWorkLost, Kept, KeptRun, Waiting
<1> QED
  BY <1>1, <1>2, <1>3, <1>4 DEF IInv

\* Without a running task, and with calls that are gone, little is left to keep.
LEMMA DownStep ==
  ASSUME IInv, NEW busy \in SUBSET Run, GoDown(busy),
         tree' \subseteq Task, dirty' = dirty, branch' = branch, cp' = cp, marked' \subseteq Task,
         NoWorkLost',
         \A t \in owed' : t \in Task \ usurped /\ cp[t] # None /\ cp[t] \notin Closed /\ t \in tree'
  PROVE  IInv'
<1> USE DEF GoDown
<1>t. /\ run \in [Run -> RunType \cup {NoRun}] /\ Typed
      /\ resuming' = [c \in Call |-> None] /\ live' = [t \in Task |-> None]
  BY DEF IInv, Typed, TypeOK
<1>o. \A r \in Run : /\ run'[r].status \notin Active
                     /\ run'[r] \in RunType \cup {NoRun}
  <2> SUFFICES ASSUME NEW r \in Run
               PROVE  run'[r].status \notin Active /\ run'[r] \in RunType \cup {NoRun}
    OBVIOUS
  <2>1. CASE run[r] = NoRun
    BY <2>1 DEF NoRun
  <2>2. CASE run[r] # NoRun
    <3>1. run[r].task \in Task /\ run'[r] = Over(r, "lost")
      BY <2>2, <1>t, Objects DEF Used
    <3> QED
      BY <3>1, OverTyped
  <2> QED
    BY <2>1, <2>2
<1>1. Typed'
  <2>1. run' \in [Run -> RunType \cup {NoRun}]
    BY <1>o
  <2>2. TypeOK'
    <3>0. losses' \in 0..MaxLosses
      <4>1. losses \in 0..MaxLosses
        BY <1>t DEF Typed, TypeOK
      <4> QED
        BY <4>1
    <3>1. /\ up' \in BOOLEAN /\ losses' \in 0..MaxLosses
          /\ usurped' \subseteq Task /\ owed' \subseteq Task
          /\ unseen' \subseteq Task /\ unmarked' \subseteq Task
      BY <1>t, <3>0 DEF Typed, TypeOK
    <3>2. /\ live' \in [Task -> Run \cup {None}]
          /\ resuming' \in [Call -> Task \cup {None}] /\ saw' \in [Call -> Run \cup {None}]
      BY <1>t
    <3>3. /\ cp' \in [Task -> Finals \cup {None}] /\ branch' \subseteq Task
          /\ dirty' \subseteq Task
      BY <1>t DEF Typed, TypeOK
    <3> QED
      BY <2>1, <3>1, <3>2, <3>3 DEF TypeOK
  <2>3. MapTyped'
    BY <1>t DEF MapTyped
  <2> QED
    BY <2>2, <2>3 DEF Typed
<1>2. RunningIsOwned' /\ Judged' /\ JudgedResumable' /\ Committed' /\ Kept'
  BY <1>o, <1>t DEF RunningIsOwned, Judged, JudgedResumable, Committed, CommittedRun, Kept, KeptRun
<1>3. Waiting'
  BY <1>t DEF Waiting
<1> QED
  BY <1>1, <1>2, <1>3 DEF IInv

\* A task that is owed when the Gateway goes down has its checkpoint and its
\* worktree.
LEMMA OwedKept ==
  ASSUME IInv, NEW busy, GoDown(busy)
  PROVE  \A t \in owed' : t \in Task \ usurped /\ cp[t] # None /\ cp[t] \notin Closed /\ t \in tree
<1> SUFFICES ASSUME NEW q \in Lost, Owing(q)
             PROVE  LET t == run[q].task IN
                    t \in Task \ usurped /\ cp[t] # None /\ cp[t] \notin Closed /\ t \in tree
  BY DEF GoDown, IInv, Waiting
<1>1. q \in Run /\ run[q].status \in Active /\ run[q].task \in Task
  BY Objects DEF Lost, IInv, RunType
<1> QED
  BY <1>1 DEF Owing, IInv, Kept, KeptRun

\* The Gateway's end, at whatever point, keeps the invariant.
LEMMA LossStep ==
  ASSUME IInv, Stop \/ Crash \/ \E r \in Run : CrashInRecord(r)
  PROVE  IInv'
<1>t. tree \subseteq Task /\ marked \subseteq Task /\ NoWorkLost
  BY DEF IInv, Typed, TypeOK
<1>1. CASE Stop \/ Crash
  <2>1. /\ GoDown({}) /\ tree' = tree /\ dirty' = dirty /\ branch' = branch /\ cp' = cp
        /\ marked' \subseteq Task
    BY <1>1, <1>t DEF Stop, Crash, disk
  <2>2. NoWorkLost'
    BY <2>1, <1>t DEF NoWorkLost, GoDown
  <2> QED
    BY <2>1, <2>2, <1>t, DownStep, OwedKept
<1>2. CASE \E r \in Run : CrashInRecord(r)
  <2>1. PICK r \in Run : CrashInRecord(r)
    BY <1>2
  <2> DEFINE t == run[r].task
  <2>2. /\ GoDown({r}) /\ Dispose(r) /\ dirty' = dirty /\ branch' = branch /\ cp' = cp
        /\ marked' = marked /\ run[r].status \in Active /\ run[r].stage = "decided"
    BY <2>1 DEF CrashInRecord, At
  <2>3. tree' = tree \/ (Disposable(r) /\ tree' = tree \ {t})
    BY <2>2 DEF Dispose
  <2>4. NoWorkLost'
    <3>1. Disposable(r) => t \notin dirty \/ t \in usurped \cup unseen
      BY <2>2 DEF Disposable, IInv, Committed, CommittedRun
    <3> QED
      BY <2>2, <2>3, <3>1, <1>t DEF NoWorkLost, GoDown
  <2>5. \A u \in owed' : u = t => u \in usurped
    <3> SUFFICES ASSUME t \in owed', t \notin usurped PROVE FALSE
      OBVIOUS
    <3>1. live[t] = r /\ r # None /\ t \in Task
      BY <2>2, Objects DEF IInv, RunningIsOwned, RunType
    <3>2. t \notin owed
      BY <3>1 DEF IInv, Waiting
    <3>3. PICK q \in Lost \ {r} : run[q].task = t
      BY <3>2, <2>2 DEF GoDown
    <3>4. live[t] = q
      BY <3>3 DEF Lost, IInv, RunningIsOwned
    <3> QED
      BY <3>1, <3>3, <3>4
  <2>6. \A u \in owed' : u \in Task \ usurped /\ cp[u] # None /\ cp[u] \notin Closed /\ u \in tree
    BY <2>2, OwedKept
  <2>7. \A u \in owed' : u \in tree'
    BY <2>3, <2>5, <2>6
  <2> QED
    BY <2>2, <2>3, <2>4, <2>6, <2>7, <1>t, DownStep
<1> QED
  BY <1>1, <1>2

\* The next Gateway marks what it finds and keeps the invariant.
LEMMA RestartStep ==
  ASSUME IInv, Restart
  PROVE  IInv'
<1> USE DEF Restart, calls, history
<1>1. Typed'
  BY DEF IInv, Typed, TypeOK, MapTyped
<1>2. Waiting'
  BY DEF IInv, Waiting, Incomplete
<1>3. /\ RunningIsOwned' /\ Judged' /\ JudgedResumable' /\ Committed' /\ NoWorkLost' /\ Kept'
  BY DEF IInv, RunningIsOwned, Judged, Used, JudgedResumable, Resumable, Finished,
         Committed, CommittedRun, NoWorkLost, Kept, KeptRun
<1> QED
  BY <1>1, <1>2, <1>3 DEF IInv

-----------------------------------------------------------------------------
(* Theorems                                                                *)

\* The initial state satisfies the invariant.
LEMMA InitIInv == Init => IInv
<1> SUFFICES ASSUME Init PROVE IInv
  OBVIOUS
<1>1. \A r \in Run : run[r].status \notin Active
  BY DEF Init, NoRun
<1>2. Typed
  BY InitTyped
<1> QED
  BY <1>1, <1>2 DEF Init, IInv, RunningIsOwned, Judged, JudgedResumable, Committed,
     CommittedRun, NoWorkLost, Kept, KeptRun, Waiting

\* Every step is one of a session, a launch, a call, a loss or a restart.
LEMMA Steps ==
  ASSUME Next
  PROVE  \/ \E r \in Run : Session(r)
         \/ \E r \in Run, t \in Task : Start(r, t)
         \/ \E c \in Call, r \in Run : ResumeStarts(c, r)
         \/ \E c \in Call, t \in Task : ResumeBegin(c, t)
         \/ \E c \in Call : ResumeRefused(c)
         \/ Stop \/ Crash \/ \E r \in Run : CrashInRecord(r)
         \/ Restart
         \/ \E t \in Task : Cancel(t) /\ live[t] \notin Run
  BY DEF Next, Session

\* Every step keeps the invariant.
LEMMA StepIInv == IInv /\ [Next]_vars => IInv'
<1> SUFFICES ASSUME IInv, [Next]_vars PROVE IInv'
  OBVIOUS
<1>1. CASE \E r \in Run : Session(r)
  BY <1>1, SessionStep
<1>2. CASE \E r \in Run, t \in Task : Start(r, t)
  BY <1>2, StartLaunches, LaunchStep
<1>3. CASE \E c \in Call, r \in Run : ResumeStarts(c, r)
  <2>1. PICK c \in Call, r \in Run : ResumeStarts(c, r)
    BY <1>3
  <2>2. resuming[c] \in Task /\ Launching(r, resuming[c], TRUE)
    BY <2>1, ResumeLaunches
  <2> QED
    BY <2>2, LaunchStep
<1>4. CASE \E c \in Call, t \in Task : ResumeBegin(c, t)
  BY <1>4, ResumeBeginStep
<1>5. CASE \E c \in Call : ResumeRefused(c)
  BY <1>5, ResumeRefusedStep
<1>6. CASE Stop \/ Crash \/ \E r \in Run : CrashInRecord(r)
  BY <1>6, LossStep
<1>7. CASE Restart
  BY <1>7, RestartStep
<1>8. CASE \E t \in Task : Cancel(t) /\ live[t] \notin Run
  BY <1>8 DEF Cancel, StillRunning, IInv, Typed, TypeOK
<1>9. CASE UNCHANGED vars
  BY <1>9 DEF vars, disk, calls, history, IInv, Typed, TypeOK, MapTyped, RunningIsOwned,
     Judged, Used, JudgedResumable, Resumable, Finished, Committed, CommittedRun,
     NoWorkLost, Kept, KeptRun, Waiting
<1> QED
  BY <1>1, <1>2, <1>3, <1>4, <1>5, <1>6, <1>7, <1>8, <1>9, Steps

\* The invariant always holds.
LEMMA Inductive == Spec => []IInv
  BY InitIInv, StepIInv, PTL DEF Spec

\* Every variable keeps its type (TypeOK), through every loss of the Gateway.
THEOREM TypeCorrect == Spec => []TypeOK
<1>1. IInv => TypeOK
  BY DEF IInv, Typed
<1> QED
  BY <1>1, Inductive, PTL

\* A running session is always the one that the Gateway's map leads to
\* (RunningIsOwned), but for a task that a late resume has usurped.
THEOREM RunningIsOwnedAlways == Spec => []RunningIsOwned
<1>1. IInv => RunningIsOwned
  BY DEF IInv
<1> QED
  BY <1>1, Inductive, PTL

\* No worktree is removed with work in it that is in no commit (NoWorkLost), not
\* by the end of a session, nor by a crash in the middle of that end, other than
\* by a session whose Git probe failed and so saw no work, or one of two that
\* share the worktree of a usurped task.
THEOREM NoWorkLostAlways == Spec => []NoWorkLost
<1>1. IInv => NoWorkLost
  BY DEF IInv
<1> QED
  BY <1>1, Inductive, PTL

\* A task that went down with the Gateway can be resumed when the Gateway is
\* back (LostIsResumable), also when the restart marked nothing; its checkpoint
\* is marked as interrupted unless that restart left it out.
THEOREM LostIsResumableAlways == Spec => []LostIsResumable
<1>1. IInv => LostIsResumable
  BY DEF IInv, Waiting, LostIsResumable, Resumable, Finished
<1> QED
  BY <1>1, Inductive, PTL

\* No step launches a resumed session of a task that is finished
\* (FinishedNeverResumed), though bindProject is awaited after the judgement.
THEOREM FinishedIsNeverResumed == Spec => FinishedNeverResumed
<1> DEFINE Judges == \A r \in Run : run[r] = NoRun /\ run'[r].resumed =>
                       LET t == run'[r].task IN t \in usurped' \/ ~Finished(t)
<1>n. NoRun.resumed = FALSE
  BY DEF NoRun
<1>1. IInv /\ [Next]_vars => Judges
  <2> SUFFICES ASSUME IInv, [Next]_vars, NEW r \in Run, run[r] = NoRun, run'[r].resumed
               PROVE  run'[r].task \in usurped' \/ ~Finished(run'[r].task)
    OBVIOUS
  <2>t. run \in [Run -> RunType \cup {NoRun}]
    BY DEF IInv, Typed, TypeOK
  <2>1. ASSUME NEW q \in Run, Session(q) PROVE FALSE
    <3>1. q # r
      BY <2>1, SessionFrame, Objects DEF IInv, Frame, FrameObject
    <3> QED
      BY <2>1, <3>1, <1>n, SessionFrame DEF IInv, Frame, FrameObject
  <2>2. ASSUME NEW q \in Run, NEW t \in Task, Start(q, t) PROVE FALSE
    BY <2>2, <1>n, <2>t DEF Start, Launch, NoRun
  <2>3. ASSUME NEW c \in Call, NEW q \in Run, ResumeStarts(c, q)
        PROVE  run'[r].task \in usurped' \/ ~Finished(run'[r].task)
    <3> DEFINE t == resuming[c]
    <3>1. Launch(q, t, TRUE) /\ (t \notin usurped' => Resumable(t))
      BY <2>3, ResumeLaunches DEF Launching
    <3>2. q = r /\ run'[r].task = t
      BY <3>1, <1>n, <2>t DEF Launch, NoRun
    <3> QED
      BY <3>1, <3>2 DEF Resumable
  <2>4. CASE run' = run
    BY <2>4, <1>n
  <2>5. ASSUME NEW busy, GoDown(busy) PROVE FALSE
    BY <2>5, <1>n DEF GoDown
  <2>6. ASSUME NEW t \in Task, Cancel(t) PROVE live[t] \in Run
    BY <2>6 DEF Cancel, StillRunning, IInv, Typed, TypeOK
  <2>7. Next \/ run' = run
    BY DEF vars
  <2> QED
    BY <2>1, <2>2, <2>3, <2>4, <2>5, <2>6, <2>7, Steps
    DEF ResumeBegin, ResumeRefused, Stop, Crash, CrashInRecord, Restart, vars
<1>2. QED
  BY <1>1, Inductive, PTL DEF Spec, FinishedNeverResumed

-----------------------------------------------------------------------------
(* A run goes on, and only forward                                         *)

\* A run that has not ended has a Gateway, and a stage that it can leave.
Unended == \A r \in Run : run[r].status \in Active => up /\ run[r].stage # "ended"

\* How many more stages a run goes through at most: three with every further
\* turn of its engines.
Left(object) ==
  LET later == 3 * (MaxTurns - object.turns) IN
  IF object.status \notin Active THEN 0
  ELSE CASE object.stage = "opening" -> 3 * MaxTurns + 7
         [] object.stage = "preparing" -> 3 * MaxTurns + 6
         [] object.stage \in {"working", "overtime"} -> later + 5
         [] object.stage = "peering" -> later + 4
         [] object.stage = "validating" -> later + 3
         [] object.stage = "decided" -> 2
         [] object.stage = "closing" -> 1
         [] OTHER -> 0
StagesLeft(r) == Left(run[r])

\* What a step may do to a run: its own proceeding takes it to a later stage,
\* nothing takes it to an earlier one, and a run that is over stays over.
Forward(r) ==
  /\ run[r].status \in Active => StagesLeft(r)' <= StagesLeft(r)
  /\ Proceed(r) => StagesLeft(r)' < StagesLeft(r)
  /\ run[r] # NoRun /\ run[r].status \notin Active => run'[r].status \notin Active

LEMMA InitUnended == Init => Unended
  BY DEF Init, Unended, NoRun

LEMMA LeftNatural == \A object \in RunType \cup {NoRun} : Left(object) \in Nat
<1>1. Left(NoRun) = 0
  BY DEF Left, NoRun
<1>2. ASSUME NEW object \in RunType PROVE Left(object) \in Nat
  <2>1. object.turns \in 0..MaxTurns
    BY DEF RunType
  <2>2. 3 * (MaxTurns - object.turns) \in Nat /\ 3 * MaxTurns \in Nat
    BY <2>1
  <2> QED
    BY <2>2 DEF Left
<1> QED
  BY <1>1, <1>2

\* A run that proceeds gets to a later stage.
LEMMA ProceedLater ==
  ASSUME Typed, NEW r \in Run, Proceed(r)
  PROVE  /\ StagesLeft(r)' < StagesLeft(r)
         /\ run'[r].status \in Active => run'[r].stage # "ended"
<1> USE DEF At, Advance, RunType
<1>t. run \in [Run -> RunType \cup {NoRun}] /\ up \in BOOLEAN
  BY DEF Typed, TypeOK
<1>f. run[r] \in RunType /\ run[r].status \in Active /\ run'[r] \in RunType
  BY SessionFrame DEF Session, Frame, FrameObject
<1>m. MaxTurns \in Nat /\ run[r].turns \in Nat /\ run'[r].turns \in Nat /\ run[r].turns <= MaxTurns
  <2>1. run[r].turns \in 0..MaxTurns /\ run'[r].turns \in 0..MaxTurns
    BY <1>f
  <2> QED
    BY <2>1
<1>1. CASE OpenWorktree(r) \/ OpenElsewhere(r)
  BY <1>t, <1>f, <1>1 DEF OpenWorktree, OpenElsewhere, StagesLeft, Left
<1>2. CASE OpenRefused(r)
  BY <1>t, <1>f, <1>2 DEF OpenRefused, StagesLeft, Left
<1>3. CASE SeedCheckpoint(r) \/ WorkUnrecorded(r)
  <2>1. /\ run[r].stage = "preparing"
        /\ run'[r].stage \in {"working", "peering"} /\ run'[r].turns = run[r].turns
    BY <1>t, <1>f, <1>3 DEF SeedCheckpoint, WorkUnrecorded, Engage
  <2> QED
    BY <1>f, <1>m, <2>1 DEF StagesLeft, Left
<1>4. CASE EngineUnavailable(r)
  BY <1>t, <1>f, <1>4 DEF EngineUnavailable, StagesLeft, Left
<1>5. CASE EngineEnds(r)
  <2>1. run[r].stage \in Engaged /\ run'[r].stage = "decided"
    BY <1>t, <1>f, <1>5 DEF EngineEnds, HasEngine, Decide
  <2> QED
    BY <1>f, <1>m, <2>1 DEF StagesLeft, Left
<1>6. CASE Record(r)
  BY <1>t, <1>f, <1>6 DEF Record, StagesLeft, Left
<1>7. CASE Finish(r)
  <2>1. run[r].stage = "closing" /\ run'[r].status \notin Active
    BY <1>t, <1>f, <1>7 DEF Finish, Over, NoRun, EndStatus
  <2> QED
    BY <1>f, <2>1 DEF StagesLeft, Left
<1>8. CASE Throw(r)
  <2>1. run[r].stage \in {"opening", "preparing"} \cup Engaged /\ run'[r].status \notin Active
    BY <1>t, <1>f, <1>8 DEF Throw, HasEngine, Over, NoRun
  <2> QED
    BY <1>f, <1>m, <2>1 DEF StagesLeft, Left
<1>9. CASE TurnEnds(r)
  <2>1. /\ run'[r].turns = run[r].turns
        /\ \/ run[r].stage \in {"working", "overtime"} /\ run'[r].stage = "peering"
           \/ run[r].stage \in {"working", "overtime", "peering"} /\ run'[r].stage = "validating"
    BY <1>t, <1>f, <1>9 DEF TurnEnds, HasEngine
  <2> QED
    BY <1>f, <1>m, <2>1 DEF StagesLeft, Left
<1>10. CASE TurnBegins(r)
  <2>1. PICK stage \in {"working", "peering", "overtime"} :
          /\ GoOn(r, stage)
          /\ run[r].stage \in {"validating", "peering"}
          /\ run[r].stage = "peering" => stage # "peering"
    BY <1>10 DEF TurnBegins
  <2>2. run'[r].turns = run[r].turns + 1 /\ run[r].turns < MaxTurns /\ run'[r].stage = stage
    BY <1>t, <1>f, <2>1 DEF GoOn, FurtherTurns
  <2> QED
    BY <1>f, <1>m, <2>1, <2>2 DEF StagesLeft, Left
<1> QED
  BY <1>1, <1>2, <1>3, <1>4, <1>5, <1>6, <1>7, <1>8, <1>9, <1>10 DEF Proceed

\* A cancellation and an engine that writes or dies leave the run's stage alone.
LEMMA OtherwiseSameStage ==
  ASSUME Typed, Unended, NEW r \in Run, Session(r), ~Proceed(r)
  PROVE  StagesLeft(r)' = StagesLeft(r) /\ run'[r].stage # "ended"
<1>f. /\ run \in [Run -> RunType \cup {NoRun}]
      /\ run[r] \in RunType /\ run[r].status \in Active /\ run[r].stage # "ended"
  BY SessionFrame DEF Frame, FrameObject, Typed, TypeOK, Unended
<1>1. CASE EngineWrites(r) \/ PeerInterrupted(r)
  BY <1>f, <1>1 DEF EngineWrites, PeerInterrupted, StagesLeft, Left
<1>2. CASE \E t \in Task : Cancel(t) /\ live[t] = r
  <2>1. /\ run'[r].stage = run[r].stage /\ run'[r].turns = run[r].turns
        /\ run'[r].status \in Active
    BY <1>f, <1>2 DEF Cancel, RunType
  <2> QED
    BY <1>f, <2>1 DEF StagesLeft, Left
<1> QED
  BY <1>1, <1>2 DEF Session

\* A step that leaves a run's object alone takes it nowhere.
LEMMA LeftAlone ==
  ASSUME Typed, NEW r \in Run, run'[r] = run[r]
  PROVE  Forward(r)
<1>1. StagesLeft(r)' = StagesLeft(r) /\ StagesLeft(r) \in Nat
  BY LeftNatural DEF StagesLeft, Typed, TypeOK
<1>2. ~Proceed(r)
  BY <1>1, ProceedLater
<1> QED
  BY <1>1, <1>2 DEF Forward

\* Every step keeps a run going, and takes none back.
LEMMA StepForward ==
  ASSUME IInv, Unended, [Next]_vars
  PROVE  Unended' /\ \A r \in Run : Forward(r)
<1>t. Typed /\ run \in [Run -> RunType \cup {NoRun}] /\ live \in [Task -> Run \cup {None}]
  BY DEF IInv, Typed, TypeOK
<1>n. NoRun.status \notin Active
  BY DEF NoRun
<1>1. CASE \E r \in Run : Session(r)
  <2> PICK r \in Run : Session(r)
    BY <1>1
  <2>1. Frame(r)
    BY <1>t, SessionFrame
  <2>2. /\ up /\ up' = up /\ run[r].status \in Active
        /\ \A q \in Run : q # r => run'[q] = run[q]
    BY <2>1 DEF Frame, FrameObject, FrameDisk
  <2>3. StagesLeft(r) \in Nat
    BY <1>t, LeftNatural DEF StagesLeft
  <2>4. Forward(r) /\ (run'[r].status \in Active => run'[r].stage # "ended")
    <3>1. CASE Proceed(r)
      <4>1. StagesLeft(r)' < StagesLeft(r) /\ (run'[r].status \in Active => run'[r].stage # "ended")
        BY <1>t, <3>1, ProceedLater
      <4>2. StagesLeft(r)' \in Nat
        BY <2>1, LeftNatural DEF StagesLeft, Frame, FrameObject
      <4> QED
        BY <2>2, <2>3, <4>1, <4>2 DEF Forward
    <3>2. CASE ~Proceed(r)
      <4>1. StagesLeft(r)' = StagesLeft(r) /\ run'[r].stage # "ended"
        BY <1>t, <3>2, OtherwiseSameStage
      <4> QED
        BY <2>2, <2>3, <3>2, <4>1 DEF Forward
    <3> QED
      BY <3>1, <3>2
  <2>5. \A q \in Run : Forward(q)
    BY <1>t, <2>2, <2>4, LeftAlone
  <2>6. Unended'
    BY <2>2, <2>4 DEF Unended
  <2> QED
    BY <2>5, <2>6
<1>2. CASE \/ \E r \in Run, t \in Task : Start(r, t)
           \/ \E c \in Call, r \in Run : ResumeStarts(c, r)
  <2>1. PICK r \in Run, t \in Task, resumed \in BOOLEAN : Launch(r, t, resumed) /\ up /\ up' = up
    <3>1. CASE \E r \in Run, t \in Task : Start(r, t)
      BY <3>1 DEF Start
    <3>2. CASE \E c \in Call, r \in Run : ResumeStarts(c, r)
      <4>1. PICK c \in Call, r \in Run : ResumeStarts(c, r)
        BY <3>2
      <4>2. resuming[c] \in Task
        BY <4>1, <1>t DEF ResumeStarts, Typed, TypeOK
      <4> QED
        BY <4>1, <4>2 DEF ResumeStarts
    <3> QED
      BY <1>2, <3>1, <3>2
  <2>2. /\ run[r] = NoRun /\ run'[r].stage = "opening"
        /\ \A q \in Run : q # r => run'[q] = run[q]
    BY <1>t, <2>1 DEF Launch, NoRun
  <2>3. ~Proceed(r)
    BY <1>t, <1>n, <2>2, SessionFrame DEF Session, Frame, FrameObject
  <2>4. Forward(r)
    BY <1>n, <2>2, <2>3 DEF Forward
  <2>5. \A q \in Run : Forward(q)
    BY <1>t, <2>2, <2>4, LeftAlone
  <2>6. Unended'
    BY <2>1, <2>2 DEF Unended
  <2> QED
    BY <2>5, <2>6
<1>3. CASE \E busy \in SUBSET Run : GoDown(busy)
  <2>1. \A r \in Run : run'[r].status \notin Active
    <3> SUFFICES ASSUME NEW r \in Run PROVE run'[r].status \notin Active
      OBVIOUS
    <3>1. run'[r] = IF run[r] = NoRun THEN NoRun ELSE Over(r, "lost")
      BY <1>3 DEF GoDown
    <3>2. Over(r, "lost").status = "lost"
      BY DEF Over, NoRun
    <3> QED
      BY <1>n, <3>1, <3>2
  <2>2. \A r \in Run : StagesLeft(r)' = 0 /\ StagesLeft(r) \in Nat
    BY <1>t, <2>1, LeftNatural DEF StagesLeft, Left
  <2>3. up' = FALSE
    BY <1>3 DEF GoDown
  <2>4. \A r \in Run : ~Proceed(r)
    <3> SUFFICES ASSUME NEW r \in Run, Proceed(r) PROVE FALSE
      OBVIOUS
    <3>1. up' = up /\ run'[r].task \in Task
      BY <1>t, SessionFrame DEF Session, Frame, FrameObject, FrameDisk, RunType
    <3> QED
      BY <1>3, <2>3, <3>1 DEF GoDown
  <2> QED
    BY <2>1, <2>2, <2>4 DEF Forward, Unended
<1>4. CASE run' = run /\ (up => up')
  <2>1. \A r \in Run : Forward(r)
    BY <1>t, <1>4, LeftAlone
  <2>2. Unended'
    BY <1>4 DEF Unended
  <2> QED
    BY <2>1, <2>2
<1>5. CASE Next
  <2>1. ~\E t \in Task : Cancel(t) /\ live[t] \notin Run
    BY <1>t DEF Cancel, StillRunning
  <2>2. CASE \/ \E c \in Call, t \in Task : ResumeBegin(c, t)
             \/ \E c \in Call : ResumeRefused(c)
             \/ Restart
    BY <1>4, <2>2 DEF ResumeBegin, ResumeRefused, Restart
  <2>3. CASE Stop \/ Crash \/ \E r \in Run : CrashInRecord(r)
    BY <1>3, <2>3 DEF Stop, Crash, CrashInRecord
  <2> QED
    BY <1>1, <1>2, <1>5, <2>1, <2>2, <2>3, Steps
<1> QED
  BY <1>4, <1>5 DEF vars

\* The safety core of RunsEnd: while a run has not ended its Gateway lives and
\* its stage is one that the run can leave, each proceeding takes it nearer to
\* its end, further turns for guidance and repairs included, no cancellation,
\* resume, engine or loss takes it back, and once over it is never running again.
\* Which of its awaits end is not a matter of this theorem.
THEOREM RunsGoForward ==
  Spec => []Unended /\ [][\A r \in Run : Forward(r)]_vars
<1>1. IInv /\ Unended /\ [Next]_vars => Unended'
  BY StepForward
<1>2. IInv /\ Unended /\ [Next]_vars => [\A r \in Run : Forward(r)]_vars
  BY StepForward
<1> QED
  BY <1>1, <1>2, InitUnended, Inductive, PTL DEF Spec
=============================================================================
