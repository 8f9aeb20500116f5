--------------------------- MODULE ToolLockProofs ---------------------------
(***************************************************************************)
(* What the lock does guarantee, for any number of processes.              *)
(***************************************************************************)
EXTENDS ToolLock, TLAPS

\* Who made the directory and has not removed it.
Holding == {"write", "inside", "release"}

\* While nothing was swept the directory belongs to the one holder, if any.
HeldByOne ==
  /\ pc \in [Procs -> Waiting \cup Ended \cup Holding]
  /\ ~swept => \A p \in Procs : pc[p] \in Holding =>
                 dir /\ \A q \in Procs : pc[q] \in Holding => p = q

USE DEF Waiting, Ended, Holding

\* At the start nobody holds the directory.
LEMMA InitHeldByOne == Init => HeldByOne
  BY DEF Init, HeldByOne

\* A step that takes no directory and removes none keeps the holder.
LEMMA QuietKeepsHeldByOne ==
  ASSUME HeldByOne, NEW p \in Procs, NEW l \in Waiting \cup Ended \cup Holding, Goto(p, l),
         l \in Holding => pc[p] \in Holding,
         UNCHANGED <<dir, swept>>
  PROVE  HeldByOne'
  BY DEF HeldByOne, Goto

\* Every step keeps the one holder.
LEMMA StepKeepsHeldByOne == HeldByOne /\ [Next]_vars => HeldByOne'
<1> SUFFICES ASSUME HeldByOne, [Next]_vars PROVE HeldByOne'
  OBVIOUS
<1>1. ASSUME NEW p \in Procs, Mkdir(p) PROVE HeldByOne'
  <2>1. CASE ~dir /\ dir' = TRUE /\ Goto(p, "write")
    BY <1>1, <2>1 DEF Mkdir, HeldByOne, Goto
  <2>2. CASE dir /\ UNCHANGED dir
    <3>1. PICK l \in {"poll", "judge"} : Goto(p, l)
      BY <1>1, <2>2 DEF Mkdir
    <3> QED
      BY <1>1, <2>2, <3>1, QuietKeepsHeldByOne DEF Mkdir
  <2> QED
    BY <1>1, <2>1, <2>2 DEF Mkdir
<1>2. ASSUME NEW p \in Procs, WriteOwner(p) PROVE HeldByOne'
  BY <1>2, QuietKeepsHeldByOne DEF WriteOwner
<1>3. ASSUME NEW p \in Procs, Judge(p) \/ Timeout(p) PROVE HeldByOne'
  BY <1>3, QuietKeepsHeldByOne DEF Judge, Timeout
<1>4. ASSUME NEW p \in Procs, Sweep(p) PROVE HeldByOne'
  BY <1>4 DEF Sweep, HeldByOne, Goto, Rm
<1>5. ASSUME NEW p \in Procs, Leave(p) PROVE HeldByOne'
  BY <1>5, QuietKeepsHeldByOne DEF Leave
<1>6. ASSUME NEW p \in Procs, Release(p) PROVE HeldByOne'
  BY <1>6 DEF Release, HeldByOne, Goto, Rm
<1>7. ASSUME NEW p \in Procs, Die(p) PROVE HeldByOne'
  BY <1>7, QuietKeepsHeldByOne DEF Die
<1>8. CASE Age \/ UNCHANGED vars
  BY <1>8 DEF Age, vars, HeldByOne
<1> QED
  BY <1>1, <1>2, <1>3, <1>4, <1>5, <1>6, <1>7, <1>8 DEF Next, Step

\* mkdir alone is enough: until a waiter removes a lock it takes for stale
\* (locks.mjs, withToolLock) no two processes run their fn at once.
THEOREM ExclusiveUnlessSweptAlways == Spec => []ExclusiveUnlessSwept
<1>1. HeldByOne => ExclusiveUnlessSwept
  BY DEF HeldByOne, ExclusiveUnlessSwept, Inside
<1> QED
  BY <1>1, InitHeldByOne, StepKeepsHeldByOne, PTL DEF Spec

\* A directory outlives neither the release nor the timeout of whoever made it.
MakerLeft == dir => \E p \in Procs : pc[p] \notin Waiting \cup {"done", "timeout"}

LockInv == TypeOK /\ MakerLeft

\* At the start there is no directory.
LEMMA InitLockInv == Init => LockInv
<1> SUFFICES ASSUME Init PROVE LockInv
  OBVIOUS
<1>1. deaths \in 0 .. MaxDeaths /\ agings \in 0 .. MaxAgings
  BY LockAssumption DEF Init
<1>2. pc \in [Procs -> Waiting \cup Ended \cup {"write", "inside", "release"}]
  BY DEF Init
<1> QED
  BY <1>1, <1>2 DEF Init, LockInv, TypeOK, MakerLeft

\* A call that goes on, without making or removing the directory, is the maker
\* afterwards if it was before.
LEMMA GotoKeepsMaker ==
  ASSUME LockInv, NEW p \in Procs,
         NEW l \in Waiting \cup Ended \cup {"write", "inside", "release"}, Goto(p, l),
         pc[p] \in Waiting \/ l \in {"inside", "release", "failed", "dead"},
         UNCHANGED dir
  PROVE  MakerLeft' /\ pc' \in [Procs -> Waiting \cup Ended \cup {"write", "inside", "release"}]
<1>1. /\ pc' \in [Procs -> Waiting \cup Ended \cup {"write", "inside", "release"}]
      /\ pc'[p] = l /\ \A q \in Procs \ {p} : pc'[q] = pc[q]
  BY DEF LockInv, TypeOK, Goto
<1>2. ASSUME NEW q \in Procs, pc[q] \notin Waiting \cup {"done", "timeout"}
      PROVE  pc'[q] \notin Waiting \cup {"done", "timeout"}
  BY <1>1, <1>2
<1> QED
  BY <1>1, <1>2 DEF LockInv, MakerLeft

\* Every step keeps the types, and a maker to every directory.
LEMMA StepKeepsLockInv == LockInv /\ [Next]_vars => LockInv'
<1> SUFFICES ASSUME LockInv, [Next]_vars PROVE LockInv'
  OBVIOUS
<1>1. ASSUME NEW p \in Procs, Mkdir(p) PROVE LockInv'
  <2>1. CASE ~dir /\ dir' = TRUE /\ Goto(p, "write")
    BY <1>1, <2>1 DEF Mkdir, LockInv, TypeOK, MakerLeft, Goto
  <2>2. CASE dir /\ UNCHANGED dir
    <3>1. PICK l \in {"poll", "judge"} : Goto(p, l)
      BY <1>1, <2>2 DEF Mkdir
    <3> QED
      BY <1>1, <2>2, <3>1, GotoKeepsMaker DEF Mkdir, LockInv, TypeOK
  <2> QED
    BY <1>1, <2>1, <2>2 DEF Mkdir
<1>2. ASSUME NEW p \in Procs, WriteOwner(p) PROVE LockInv'
  <2>1. PICK l \in {"inside", "failed"} : Goto(p, l)
    BY <1>2 DEF WriteOwner
  <2>2. MakerLeft' /\ pc' \in [Procs -> Waiting \cup Ended \cup {"write", "inside", "release"}]
    BY <1>2, <2>1, GotoKeepsMaker DEF WriteOwner
  <2>3. CASE dir /\ owner' = p /\ old' = FALSE
    BY <1>2, <2>2, <2>3 DEF WriteOwner, LockInv, TypeOK
  <2>4. CASE UNCHANGED <<owner, old>>
    BY <1>2, <2>2, <2>4 DEF WriteOwner, LockInv, TypeOK
  <2> QED
    BY <1>2, <2>3, <2>4 DEF WriteOwner
<1>3. ASSUME NEW p \in Procs, Judge(p) \/ Timeout(p) \/ Leave(p) PROVE LockInv'
  <2>1. PICK l \in {"sweep", "poll", "timeout", "release"} :
          Goto(p, l) /\ (pc[p] \in Waiting \/ l = "release")
    BY <1>3 DEF Judge, Timeout, Leave
  <2> QED
    BY <1>3, <2>1, GotoKeepsMaker DEF Judge, Timeout, Leave, LockInv, TypeOK
<1>4. ASSUME NEW p \in Procs, Sweep(p) \/ Release(p) PROVE LockInv'
  BY <1>4 DEF Sweep, Release, Rm, Goto, LockInv, TypeOK, MakerLeft
<1>5. ASSUME NEW p \in Procs, Die(p) PROVE LockInv'
  <2>1. deaths' \in 0 .. MaxDeaths
    BY <1>5, LockAssumption DEF Die, LockInv, TypeOK
  <2> QED
    BY <1>5, <2>1, GotoKeepsMaker DEF Die, LockInv, TypeOK
<1>6. CASE Age
  <2>1. agings' \in 0 .. MaxAgings
    BY <1>6, LockAssumption DEF Age, LockInv, TypeOK
  <2> QED
    BY <1>6, <2>1 DEF Age, LockInv, TypeOK, MakerLeft
<1>7. CASE UNCHANGED vars
  BY <1>7 DEF vars, LockInv, TypeOK, MakerLeft
<1> QED
  BY <1>1, <1>2, <1>3, <1>4, <1>5, <1>6, <1>7 DEF Next, Step

\* Every variable of the lock keeps its type, and only an existing directory
\* has an owner or an age.
THEOREM TypeCorrect == Spec => []TypeOK
<1>1. LockInv => TypeOK
  BY DEF LockInv
<1> QED
  BY <1>1, InitLockInv, StepKeepsLockInv, PTL DEF Spec

\* Calls that all end by release or deadline leave no directory, even when
\* waiters removed and replaced each other's (locks.mjs, the finally of
\* withToolLock).
THEOREM LastOneOutCleansUpAlways == Spec => []LastOneOutCleansUp
<1>1. LockInv => LastOneOutCleansUp
  BY DEF LockInv, TypeOK, MakerLeft, LastOneOutCleansUp
<1> QED
  BY <1>1, InitLockInv, StepKeepsLockInv, PTL DEF Spec

----------------------------------------------------------------------------
\* Why nobody waits for ever.

\* Whoever the lock names is inside, or died.
Accountable == owner # None => pc[owner] \in {"inside", "release", "dead"}

\* A directory that no live process will remove is judged stale, whoever made
\* it, wrote its name into it and left it in whatever order.
NoOrphanedLock == dir /\ (\A p \in Procs : pc[p] \notin Holding) => IsLockStale

\* The name in the lock stays that of one who answers for it.
LEMMA StepKeepsAccountable == LockInv /\ Accountable /\ [Next]_vars => Accountable'
<1> SUFFICES ASSUME LockInv, Accountable, [Next]_vars PROVE Accountable'
  OBVIOUS
<1>1. pc \in [Procs -> Waiting \cup Ended \cup Holding] /\ owner \in Procs \cup {None}
  BY DEF LockInv, TypeOK
<1>2. ASSUME NEW p \in Procs, NEW l, Goto(p, l), UNCHANGED owner,
             pc[p] \notin {"inside", "release", "dead"} \/ l \in {"inside", "release", "dead"}
      PROVE  Accountable'
  BY <1>1, <1>2 DEF Accountable, Goto
<1>3. ASSUME NEW p \in Procs, Mkdir(p) \/ Judge(p) \/ Timeout(p) \/ Leave(p) PROVE Accountable'
  BY <1>2, <1>3 DEF Mkdir, Judge, Timeout, Leave
<1>4. ASSUME NEW p \in Procs, WriteOwner(p) PROVE Accountable'
  <2>1. CASE owner' = p /\ Goto(p, "inside")
    BY <1>1, <2>1 DEF Accountable, Goto
  <2> QED
    BY <1>2, <1>4, <2>1 DEF WriteOwner
<1>5. ASSUME NEW p \in Procs, Sweep(p) \/ Release(p) PROVE Accountable'
  BY <1>5 DEF Sweep, Release, Rm, Accountable
<1>6. ASSUME NEW p \in Procs, Die(p) PROVE Accountable'
  BY <1>2, <1>6 DEF Die
<1>7. CASE Age \/ UNCHANGED vars
  BY <1>7 DEF Age, vars, Accountable
<1> QED
  BY <1>3, <1>4, <1>5, <1>6, <1>7 DEF Next, Step

\* No lock is left that the waiters take for one in use while nobody will
\* release it, in whatever order they removed and replaced each other's
\* (locks.mjs, isLockStale): the reason why a waiter gets its turn.
THEOREM NoOrphanedLockAlways == Spec => []NoOrphanedLock
<1>1. Init => Accountable
  BY DEF Init, Accountable
<1>2. LockInv /\ Accountable => NoOrphanedLock
  BY DEF LockInv, TypeOK, Accountable, NoOrphanedLock, IsLockStale, OwnerGone
<1> QED
  BY <1>1, <1>2, InitLockInv, StepKeepsLockInv, StepKeepsAccountable, PTL DEF Spec
=============================================================================
