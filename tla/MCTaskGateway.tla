---------------------------- MODULE MCTaskGateway ----------------------------
(***************************************************************************)
(* A small instance of TaskGateway for TLC: a task of a Git repository and *)
(* one of a project without version control.                               *)
(***************************************************************************)
EXTENDS TaskGateway

\* Nothing in the Gateway relates two tasks, so each is explored alone.
OneTask == \A q, r \in Run : run[q] # NoRun /\ run[r] # NoRun => run[q].task = run[r].task

\* Without a worktree that can be removed there is less to happen.
Simpler == \A r \in Run : run[r].task \in InPlace => r < MaxRuns /\ losses < MaxLosses

\* Guidance and repairs are a session's own affair: the first has them all.
FirstRepairs == \A r \in Run : r > 1 => run[r].turns = 0

Bounded == OneTask /\ Simpler /\ FirstRepairs
=============================================================================
