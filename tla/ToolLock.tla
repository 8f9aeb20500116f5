------------------------------ MODULE ToolLock ------------------------------
(***************************************************************************)
(* The per-tool install lock (scripts/pathcode-cli/ag9/locks.mjs): a       *)
(* directory made with mkdir, then owner.json in it; a waiter that judges  *)
(* the lock stale removes the directory and tries to make its own.  Each   *)
(* contender is a process of its own, so that every file operation of one  *)
(* interleaves with those of the others.                                   *)
(***************************************************************************)
EXTENDS Naturals, FiniteSets

CONSTANTS
  Procs,      \* contenders for the lock of one tool, one call each
  None,
  MaxDeaths,  \* bound: processes that die
  MaxAgings   \* bound: times the lock's age passes staleMs

ASSUME LockAssumption == None \notin Procs /\ MaxDeaths \in Nat /\ MaxAgings \in Nat

VARIABLES
  dir,      \* whether the lock directory exists
  owner,    \* who owner.json names; None while it is missing or incomplete
  old,      \* whether the lock is older than staleMs
  pc,       \* process -> where its call is
  deaths, agings,
  swept     \* history: whether a lock was ever removed as stale

vars == <<dir, owner, old, pc, deaths, agings, swept>>

Waiting == {"acquire", "judge", "sweep", "reacquire", "poll"}
Ended == {"done", "timeout", "failed", "dead"}

TypeOK ==
  /\ dir \in BOOLEAN /\ owner \in Procs \cup {None} /\ old \in BOOLEAN /\ swept \in BOOLEAN
  /\ ~dir => owner = None /\ ~old
  /\ pc \in [Procs -> Waiting \cup Ended \cup {"write", "inside", "release"}]
  /\ deaths \in 0 .. MaxDeaths /\ agings \in 0 .. MaxAgings

Init ==
  /\ dir = FALSE /\ owner = None /\ old = FALSE
  /\ pc = [p \in Procs |-> "acquire"]
  /\ deaths = 0 /\ agings = 0 /\ swept = FALSE

Goto(p, l) == pc' = [pc EXCEPT ![p] = l]

\* tryAcquireLockDir: mkdir decides; EEXIST is no error.  After it failed the
\* loop looks at the deadline and the lock (first try, poll) or sleeps.
Mkdir(p) ==
  /\ pc[p] \in {"acquire", "reacquire", "poll"}
  /\ \/ ~dir /\ dir' = TRUE /\ Goto(p, "write")
     \/ dir /\ UNCHANGED dir /\ Goto(p, IF pc[p] = "reacquire" THEN "poll" ELSE "judge")
  /\ UNCHANGED <<owner, old, deaths, agings, swept>>

\* owner.json goes into whatever directory has the name by now; without one,
\* or when the write fails, the call throws and removes nothing.
WriteOwner(p) ==
  /\ pc[p] = "write"
  /\ \/ dir /\ owner' = p /\ old' = FALSE /\ Goto(p, "inside")
     \/ UNCHANGED <<owner, old>> /\ Goto(p, "failed")
  /\ UNCHANGED <<dir, deaths, agings, swept>>

OwnerGone(o) == pc[o] = "dead"

StaleIfNamed == dir /\ owner # None /\ (old \/ OwnerGone(owner))

\* isLockStale: a missing directory or owner.json counts as stale.
IsLockStale == owner = None \/ old \/ OwnerGone(owner)

Judge(p) ==
  /\ pc[p] = "judge"
  /\ Goto(p, IF IsLockStale THEN "sweep" ELSE "poll")
  /\ UNCHANGED <<dir, owner, old, deaths, agings, swept>>

\* releaseLockDir: whoever's directory it is.
Rm == dir' = FALSE /\ owner' = None /\ old' = FALSE

Sweep(p) ==
  /\ pc[p] = "sweep"
  /\ Rm
  /\ swept' = (swept \/ dir)
  /\ Goto(p, "reacquire")
  /\ UNCHANGED <<deaths, agings>>

TimeoutReleasing(p) ==
  /\ pc[p] = "judge"
  /\ Rm
  /\ Goto(p, "timeout")
  /\ UNCHANGED <<deaths, agings, swept>>

\* The deadline is looked at once per round, before the lock.
Timeout(p) ==
  /\ pc[p] = "judge"
  /\ Goto(p, "timeout")
  /\ UNCHANGED <<dir, owner, old, deaths, agings, swept>>

LeaveOnSuccess(p) ==
  /\ pc[p] = "inside"
  /\ Goto(p, "release") \/ Goto(p, "done")
  /\ UNCHANGED <<dir, owner, old, deaths, agings, swept>>

\* fn returns or throws; finally releases.
Leave(p) ==
  /\ pc[p] = "inside"
  /\ Goto(p, "release")
  /\ UNCHANGED <<dir, owner, old, deaths, agings, swept>>

Release(p) ==
  /\ pc[p] = "release"
  /\ Rm
  /\ Goto(p, "done")
  /\ UNCHANGED <<deaths, agings, swept>>

Die(p) ==
  /\ deaths < MaxDeaths /\ pc[p] \notin Ended
  /\ deaths' = deaths + 1
  /\ Goto(p, "dead")
  /\ UNCHANGED <<dir, owner, old, agings, swept>>

Age ==
  /\ agings < MaxAgings /\ dir /\ owner # None /\ ~old
  /\ old' = TRUE /\ agings' = agings + 1
  /\ UNCHANGED <<dir, owner, pc, deaths, swept>>

Step(p) == Mkdir(p) \/ WriteOwner(p) \/ Judge(p) \/ Sweep(p) \/ Leave(p) \/ Release(p)

Next == Age \/ \E p \in Procs : Step(p) \/ Timeout(p) \/ Die(p)

\* The loop of a live process goes on and fn ends; nothing else is owed.
Fairness == \A p \in Procs : WF_vars(Step(p))

Spec == Init /\ [][Next]_vars /\ Fairness

----------------------------------------------------------------------------
Inside == {p \in Procs : pc[p] \in {"inside", "release"}}

\* As long as no waiter ever judged a lock stale, at most one process runs its
\* fn, whatever times out, throws or dies.
ExclusiveUnlessSwept == ~swept => \A p, q \in Inside : p = q

\* Unless a process died or failed to write its owner.json, the calls leave no
\* lock behind, also when waiters removed each other's.
LastOneOutCleansUp ==
  (\A p \in Procs : pc[p] \in {"done", "timeout"}) => ~dir

\* A dead owner, wherever it died, does not keep the others out for ever, even
\* if their deadline never comes.
EveryCallEnds == \A p \in Procs : <>(pc[p] \in Ended)

\* withToolLock: run fn while holding an exclusive per-tool lock.
MutualExclusion == \A p, q \in Inside : p = q
=============================================================================
