--------------------------- MODULE SafeEditProofs ---------------------------
(***************************************************************************)
(* Theorems about SafeEdit for every set of calls, paths, changes,         *)
(* authorizations and inodes; at the end those about the byte loops of     *)
(* CandidateBytes.                                                         *)
(***************************************************************************)
EXTENDS SafeEdit, CandidateBytes, SequenceTheorems, TLAPS

\* A call under way has a change; it has a candidate from open to publish.
Underway ==
  \A c \in Calls :
    /\ pc[c] # "idle" => ofChange[c] \in Changes
    /\ pc[c] \in {"write", "sync"} \cup Final => Exists(c)

TypeInv == TypeOK /\ Underway

\* No call is under way at first.
LEMMA InitTypeInv == Init => TypeInv
  BY FsAssumption, EditAssumption
  DEF Init, FsInit, TypeInv, TypeOK, FsTypeOK, Underway, Entries, Names, PCs,
      Configs, Final, Exists, Calls

\* What the steps that end a call do to the variables the invariants read.
LEMMA ReturnType ==
  ASSUME TypeInv, NEW c \in Calls, NEW result \in Outcomes, Return(c, result)
  PROVE  /\ UNCHANGED <<config, before, auth, bound, ofChange, byAuth, outside,
                        cfg, seen, durable, author, raced>>
         /\ pc' \in [Calls -> PCs]
         /\ \A d \in Calls : pc'[d] = IF d = c THEN "done" ELSE pc[d]
         /\ outcome' \in [Calls -> Outcomes \cup {None}]
  BY DEF TypeInv, TypeOK, Return, requestVars, PCs

\* Unlinking a candidate leaves the other candidates alone.
LEMMA UnlinkType ==
  ASSUME TypeInv, NEW c \in Calls, Unlink(c)
  PROVE  /\ FsTypeOK'
         /\ \A d \in Calls \ {c} : Exists(d) => Exists(d)'
  BY DEF TypeInv, TypeOK, FsTypeOK, Unlink, Exists, Names, Calls, Entries

\* A call that gives up, with or without its candidate removed.
LEMMA AbortType ==
  ASSUME TypeInv, NEW c \in Calls, NEW result \in Outcomes, pc[c] # "idle",
         Abort(c, result)
  PROVE  TypeInv'
<1>1. FsTypeOK' /\ \A d \in Calls \ {c} : Exists(d) => Exists(d)'
  BY UnlinkType DEF Abort, TypeInv, TypeOK, FsTypeOK, fsVars, Exists
<1>2. flagged' \in SUBSET Calls
  BY DEF Abort, TypeInv, TypeOK
<1> QED
  BY <1>1, <1>2, ReturnType DEF Abort, TypeInv, TypeOK, Underway, Final
\* What a step that goes on does to the variables the invariants read.
LEMMA GotoType ==
  ASSUME TypeInv, NEW c \in Calls, NEW step \in PCs, Goto(c, step)
  PROVE  /\ UNCHANGED <<config, before, auth, bound, ofChange, byAuth, outside, outcome>>
         /\ pc' \in [Calls -> PCs]
         /\ \A d \in Calls : pc'[d] = IF d = c THEN step ELSE pc[d]
  BY DEF TypeInv, TypeOK, Goto, requestVars

\* A step that only goes on, to a step that has what it needs.
LEMMA QuietType ==
  ASSUME TypeInv, NEW c \in Calls, NEW step \in PCs, Goto(c, step), Quiet,
         ofChange[c] \in Changes,
         step \in {"write", "sync"} \cup Final => Exists(c)
  PROVE  TypeInv'
  BY GotoType DEF Quiet, fsVars, TypeInv, TypeOK, FsTypeOK, Underway, Exists

\* A call that ends before it has a candidate.
LEMMA EarlyReturnType ==
  ASSUME TypeInv, NEW c \in Calls, pc[c] # "idle", Refuse(c) \/ Fail(c)
  PROVE  TypeInv'
<1>1. PICK result \in Outcomes : Return(c, result)
  BY DEF Refuse, Fail, Outcomes
<1> QED
  BY <1>1, ReturnType DEF Refuse, Fail, fsVars, TypeInv, TypeOK, FsTypeOK, Underway, Exists, Final

\* A step of one call.
LEMMA StepCallType ==
  ASSUME TypeInv, NEW c \in Calls, CallStep(c)
  PROVE  TypeInv'
<1>0. CASE Reload(c)
  <2>1. cfg' \in [Calls -> Configs \cup {None}]
    BY <1>0 DEF Reload, TypeInv, TypeOK
  <2> QED
    BY <1>0, <2>1 DEF Reload, At, Goto, requestVars, fsVars, TypeInv, TypeOK, FsTypeOK, Underway,
         Exists, PCs, Outcomes, Final, Preparing
<1>16. pc[c] # "idle" => T(c) \in Paths
  BY EditAssumption DEF T, TypeInv, Underway
<1>1. CASE Screen1(c)
  BY <1>1, QuietType, EarlyReturnType DEF Screen1, At, TypeInv, Underway, PCs, Preparing, Final
<1>2. CASE Observe1(c)
  BY <1>2, QuietType, EarlyReturnType DEF Observe1, At, TypeInv, Underway, PCs, Preparing, Candidate, Final
<1>3. CASE Identify1(c)
  <2>1. CASE Modifies(c) /\ Goto(c, "open") /\ seen' = [seen EXCEPT ![c] = dir[T(c)]]
             /\ UNCHANGED <<fsVars, cfg, flagged, durable, author, raced>>
    <3>1. dir[T(c)] \in Entries
      BY <1>3, <1>16 DEF Identify1, At, TypeInv, TypeOK, FsTypeOK, Names
    <3>2. seen' \in [Calls -> Entries \cup {None}]
      BY <2>1, <3>1 DEF TypeInv, TypeOK
    <3>3. "open" \in PCs /\ "open" \notin {"write", "sync"} \cup Final
      BY DEF PCs, Candidate, Final
    <3> QED
      BY <1>3, <2>1, <3>2, <3>3, GotoType DEF Identify1, At, fsVars, TypeInv, TypeOK, FsTypeOK, Underway, Exists
  <2>2. CASE Goto(c, "observe1") /\ Quiet
    BY <1>3, <2>2, QuietType DEF Identify1, At, TypeInv, Underway, PCs, Preparing, Final
  <2>3. CASE Refuse(c)
    BY <1>3, <2>3, EarlyReturnType DEF Identify1, At
  <2> QED
    BY <1>3, <2>1, <2>2, <2>3 DEF Identify1
<1>4. CASE Open(c)
  <2>1. FsTypeOK' /\ Exists(c)' /\ \A d \in Calls : Exists(d) => Exists(d)'
    BY <1>4, FsAssumption DEF Open, OpenExclusive, TypeInv, TypeOK, FsTypeOK, Exists, Names, Entries, Calls
  <2>2. "write" \in PCs
    BY DEF PCs, Candidate
  <2> QED
    BY <1>4, <2>1, <2>2, GotoType DEF Open, At, CandidateStep, TypeInv, TypeOK, Underway
<1>5. CASE Write(c)
  <2>1. FsTypeOK' /\ UNCHANGED dir
    BY <1>5, EditAssumption DEF Write, At, WriteAll, TypeInv, TypeOK, FsTypeOK, Underway
  <2>2. "sync" \in PCs
    BY DEF PCs, Candidate
  <2> QED
    BY <1>5, <2>1, <2>2, GotoType DEF Write, At, CandidateStep, TypeInv, TypeOK, Underway, Exists
<1>6. CASE Sync(c)
  <2>1. FsTypeOK' /\ UNCHANGED dir
    BY <1>6 DEF Sync, At, FsyncFile, TypeInv, TypeOK, FsTypeOK, Underway, Exists, Names, Entries, Calls
  <2>2. "screen2" \in PCs
    BY DEF PCs, Final
  <2> QED
    BY <1>6, <2>1, <2>2, GotoType DEF Sync, At, CandidateStep, TypeInv, TypeOK, Underway, Exists
<1>7. CASE CandidateFault(c)
  <2>1. FsTypeOK' /\ \A d \in Calls \ {c} : Exists(d) => Exists(d)'
    BY <1>7, UnlinkType DEF CandidateFault, TypeInv, TypeOK, FsTypeOK, fsVars, Exists
  <2> QED
    BY <1>7, <2>1, ReturnType DEF CandidateFault, Candidate, Outcomes, TypeInv, TypeOK, Underway, Final
<1>8. CASE Screen2(c)
  <2>1. CASE Abort(c, "REFUSED_PRECOMMIT")
    BY <1>8, <2>1, AbortType DEF Screen2, At, Outcomes
  <2> QED
    BY <1>8, <2>1, QuietType DEF Screen2, At, TypeInv, Underway, PCs, Final
<1>9. CASE Observe2(c)
  <2>1. ASSUME NEW r \in Outcomes, Abort(c, r) PROVE TypeInv'
    BY <1>9, <2>1, AbortType DEF Observe2, At
  <2> QED
    BY <1>9, <2>1, QuietType DEF Observe2, At, TypeInv, Underway, PCs, Final, Outcomes
<1>10. CASE Identify2(c)
  <2>1. ASSUME NEW r \in Outcomes, Abort(c, r) PROVE TypeInv'
    BY <1>10, <2>1, AbortType DEF Identify2, At
  <2> QED
    BY <1>10, <2>1, QuietType DEF Identify2, At, TypeInv, Underway, PCs, Final, Outcomes
<1>11. CASE Publish(c)
  <2>1. FsTypeOK' /\ \A d \in Calls \ {c} : dir'[d] = dir[d]
    BY <1>11, <1>16, FsAssumption DEF Publish, At, RenameOver, LinkNoOverwrite, TypeInv, TypeOK, FsTypeOK,
         Names, Entries, Calls
  <2>2. author' \in [Paths -> Calls \cup {Outsider}] /\ raced' \in SUBSET Calls
    BY <1>11, <1>16 DEF Publish, Published, Watching, TypeInv, TypeOK
  <2>3. PICK step \in {"syncdir", "drop"} : Goto(c, step)
    BY <1>11 DEF Publish
  <2>4. step \in PCs /\ step \notin {"write", "sync"} \cup Final
    BY DEF PCs, Publishing, Final
  <2> QED
    BY <1>11, <2>1, <2>2, <2>3, <2>4, GotoType DEF Publish, At, Published, TypeInv, TypeOK, Underway, Exists
<1>12. CASE PublishFault(c)
  BY <1>12, AbortType DEF PublishFault, At, Outcomes
<1>13. CASE Drop(c)
  <2>1. FsTypeOK' /\ \A d \in Calls \ {c} : Exists(d) => Exists(d)'
    BY <1>13, UnlinkType DEF Drop, TypeInv, TypeOK, FsTypeOK, fsVars, Exists
  <2>2. flagged' \in SUBSET Calls
    BY <1>13 DEF Drop, TypeInv, TypeOK
  <2>3. "syncdir" \in PCs /\ "syncdir" \notin {"write", "sync"} \cup Final
    BY DEF PCs, Publishing, Final
  <2> QED
    BY <1>13, <2>1, <2>2, <2>3, GotoType DEF Drop, At, TypeInv, TypeOK, Underway
<1>14. CASE SyncDir(c)
  <2>1. FsTypeOK' /\ UNCHANGED dir
    BY <1>14 DEF SyncDir, FsyncDirectory, TypeInv, TypeOK, FsTypeOK, fsVars, Names
  <2>2. durable' \in SUBSET Calls
    BY <1>14 DEF SyncDir, TypeInv, TypeOK
  <2>3. "verify" \in PCs /\ "verify" \notin {"write", "sync"} \cup Final
    BY DEF PCs, Publishing, Final
  <2> QED
    BY <1>14, <2>1, <2>2, <2>3, GotoType DEF SyncDir, At, TypeInv, TypeOK, Underway, Exists
<1>15. CASE Verify(c)
  <2>1. PICK result \in Outcomes : Return(c, result)
    BY <1>15 DEF Verify, Outcomes
  <2> QED
    BY <1>15, <2>1, ReturnType DEF Verify, At, fsVars, TypeInv, TypeOK, FsTypeOK, Underway, Exists, Final
<1> QED
  BY <1>0, <1>1, <1>2, <1>3, <1>4, <1>5, <1>6, <1>7, <1>8, <1>9, <1>10, <1>11, <1>12, <1>13,
     <1>14, <1>15 DEF CallStep

\* TypeInv is inductive.
LEMMA StepTypeInv == TypeInv /\ [Next]_vars => TypeInv'
<1> SUFFICES ASSUME TypeInv, [Next]_vars PROVE TypeInv'
  OBVIOUS
<1> USE DEF Calls
<1>1. ASSUME NEW ch \in Changes, Prepare(ch) PROVE TypeInv'
  <2>1. Exists(Target[ch]) => Content(Target[ch]) \in Bytes \cup {Torn}
    BY EditAssumption DEF TypeInv, TypeOK, FsTypeOK, Exists, Content, Names, Entries
  <2> QED
    BY <1>1, <2>1 DEF Prepare, TypeInv, TypeOK, FsTypeOK, Underway, fsVars, callVars, Exists
<1>2. ASSUME NEW a \in Auths, NEW ch \in Changes, Authorize(a, ch) PROVE TypeInv'
  BY <1>2 DEF Authorize, TypeInv, TypeOK, FsTypeOK, Underway, fsVars, callVars, Exists
<1>3. ASSUME NEW c \in Calls, NEW a \in Auths, NEW ch \in Changes, Invoke(c, a, ch)
      PROVE TypeInv'
  BY <1>3 DEF Invoke, TypeInv, TypeOK, FsTypeOK, Underway, fsVars, Exists, Outcomes,
       PCs, Preparing, Final
<1>4. ASSUME NEW c \in Calls, CallStep(c) PROVE TypeInv'
  BY <1>4, StepCallType
<1>5. ASSUME NEW p \in Paths, OutsideChange(p) PROVE TypeInv'
  <2>1. FsTypeOK' /\ \A d \in Calls : dir'[d] = dir[d]
    BY <1>5, FsAssumption DEF OutsideChange, OverwriteInPlace, SaveAsNewFile, Remove, TypeInv,
         TypeOK, FsTypeOK, Exists, Names, Entries
  <2>2. outside' \in 0 .. MaxOutside /\ author' \in [Paths -> Calls \cup {Outsider}]
        /\ raced' \in SUBSET Calls
    BY <1>5, EditAssumption DEF OutsideChange, TypeInv, TypeOK, Watching
  <2> QED
    BY <1>5, <2>1, <2>2 DEF OutsideChange, requestAndCalls, callVars, TypeInv, TypeOK, Underway, Exists
<1>6. ASSUME NEW p \in Paths, OutsideLink(p) PROVE TypeInv'
  <2>1. FsTypeOK' /\ \A d \in Calls : dir'[d] = dir[d]
    BY <1>6, FsAssumption DEF OutsideLink, AddHardLink, TypeInv, TypeOK, FsTypeOK, Exists, Names, Entries
  <2>2. outside' \in 0 .. MaxOutside
    BY <1>6, EditAssumption DEF OutsideLink, TypeInv, TypeOK
  <2> QED
    BY <1>6, <2>1, <2>2 DEF OutsideLink, requestAndCalls, callVars, TypeInv, TypeOK, Underway, Exists
<1>7. CASE Reconfigure
  <2>1. outside' \in 0 .. MaxOutside
    BY <1>7, EditAssumption DEF Reconfigure, TypeInv, TypeOK
  <2> QED
    BY <1>7, <2>1 DEF Reconfigure, requestAndCalls, callVars, fsVars, TypeInv, TypeOK, FsTypeOK,
         Underway, Exists
<1>8. CASE Crash
  BY <1>8 DEF Crash, ProcessDies, fsVars, TypeInv, TypeOK, FsTypeOK, Underway, Exists, Running, PCs,
       Final
<1>9. CASE PowerLoss
  <2>1. FsTypeOK'
    BY <1>9 DEF PowerLoss, PowerCut, TypeInv, TypeOK, FsTypeOK, Names, Entries
  <2>2. author' \in [Paths -> Calls \cup {Outsider}]
    BY <1>9 DEF PowerLoss, TypeInv, TypeOK
  <2> QED
    BY <1>9, <2>1, <2>2 DEF PowerLoss, ProcessDies, TypeInv, TypeOK, Underway, Running, PCs, Final
<1>10. CASE UNCHANGED vars
  BY <1>10 DEF vars, fsVars, callVars, TypeInv, TypeOK, FsTypeOK, Underway, Exists
<1> QED
  BY <1>1, <1>2, <1>3, <1>4, <1>5, <1>6, <1>7, <1>8, <1>9, <1>10 DEF Next

\* SafeEdit keeps its type: every variable holds what its comment says.
THEOREM TypeCorrect == Spec => []TypeOK
<1>1. TypeInv => TypeOK
  BY DEF TypeInv
<1> QED
  BY <1>1, InitTypeInv, StepTypeInv, PTL DEF Spec
------------------------------------------------------------------------------
(* One call per authorization.                                              *)

\* A consumed authorization stays consumed or lost, and bound as it was.
Consumed ==
  /\ \A c \in Calls : pc[c] = "idle" => byAuth[c] = None
  /\ \A c \in Calls : byAuth[c] # None => auth[byAuth[c]] \in {"consumed", "lost"}

AuthInv == TypeInv /\ Consumed /\ OneCallPerAuthorization

\* Nothing has been authorized at first.
LEMMA InitAuthInv == Init => AuthInv
  BY InitTypeInv DEF AuthInv, Consumed, OneCallPerAuthorization, Init

\* Only Authorize, Invoke and the death of the process touch the registry.
LEMMA CallStepKeepsRegistry ==
  ASSUME TypeInv, NEW c \in Calls, CallStep(c)
  PROVE  /\ UNCHANGED <<auth, bound, byAuth, ofChange>>
         /\ \A d \in Calls : pc'[d] = "idle" => pc[d] = "idle"
<1>1. ASSUME NEW step, Goto(c, step), step # "idle"
      PROVE  /\ UNCHANGED <<auth, bound, byAuth, ofChange>>
             /\ \A d \in Calls : pc'[d] = "idle" => pc[d] = "idle"
  BY <1>1 DEF Goto, requestVars, TypeInv, TypeOK
<1>2. ASSUME NEW result, Return(c, result)
      PROVE  /\ UNCHANGED <<auth, bound, byAuth, ofChange>>
             /\ \A d \in Calls : pc'[d] = "idle" => pc[d] = "idle"
  BY <1>2 DEF Return, requestVars, TypeInv, TypeOK
<1>3. CASE Reload(c)
  BY <1>3, <1>1 DEF Reload, requestVars, TypeInv, TypeOK
<1>4. CASE Screen1(c) \/ Observe1(c) \/ Identify1(c)
  BY <1>4, <1>1, <1>2 DEF Screen1, Observe1, Identify1, Refuse, Fail
<1>5. CASE Open(c) \/ Write(c) \/ Sync(c) \/ CandidateFault(c)
  BY <1>5, <1>1, <1>2 DEF Open, Write, Sync, CandidateFault
<1>6. CASE Screen2(c) \/ Observe2(c) \/ Identify2(c)
  BY <1>6, <1>1, <1>2 DEF Screen2, Observe2, Identify2, Abort
<1>7. CASE Publish(c) \/ PublishFault(c)
  BY <1>7, <1>1, <1>2 DEF Publish, PublishFault, Abort
<1>8. CASE Drop(c) \/ SyncDir(c) \/ Verify(c)
  BY <1>8, <1>1, <1>2 DEF Drop, SyncDir, Verify
<1> QED
  BY <1>3, <1>4, <1>5, <1>6, <1>7, <1>8 DEF CallStep

\* Invoke consumes what was issued; every other step keeps what is consumed.
LEMMA StepAuthInv == AuthInv /\ [Next]_vars => AuthInv'
<1> SUFFICES ASSUME AuthInv, [Next]_vars PROVE Consumed' /\ OneCallPerAuthorization'
  BY StepTypeInv DEF AuthInv
<1> USE DEF AuthInv, Consumed, OneCallPerAuthorization
<1>1. ASSUME NEW ch \in Changes, Prepare(ch) PROVE Consumed' /\ OneCallPerAuthorization'
  BY <1>1 DEF Prepare, callVars
<1>2. ASSUME NEW a \in Auths, NEW ch \in Changes, Authorize(a, ch)
      PROVE Consumed' /\ OneCallPerAuthorization'
  BY <1>2, EditAssumption DEF Authorize, callVars, TypeInv, TypeOK
<1>3. ASSUME NEW c \in Calls, NEW a \in Auths, NEW ch \in Changes, Invoke(c, a, ch)
      PROVE Consumed' /\ OneCallPerAuthorization'
  <2>1. CASE Consumable(a, ch)
    <3>1. byAuth' = [byAuth EXCEPT ![c] = a] /\ auth' = [auth EXCEPT ![a] = "consumed"]
          /\ ofChange' = [ofChange EXCEPT ![c] = ch] /\ UNCHANGED bound
          /\ pc' = [pc EXCEPT ![c] = "reload"] /\ auth[a] = "issued" /\ bound[a] = ch
      BY <1>3, <2>1 DEF Invoke, Consumable
    <3>2. \A d \in Calls : byAuth[d] # a
      BY <3>1, EditAssumption
    <3> QED
      BY <3>1, <3>2 DEF TypeInv, TypeOK
  <2>2. CASE ~Consumable(a, ch)
    <3>1. byAuth[c] = None
      BY <1>3 DEF Invoke, At
    <3> QED
      BY <1>3, <2>2, <3>1 DEF Invoke, TypeInv, TypeOK
  <2> QED
    BY <2>1, <2>2
<1>4. ASSUME NEW c \in Calls, CallStep(c) PROVE Consumed' /\ OneCallPerAuthorization'
  BY <1>4, CallStepKeepsRegistry
<1>5. ASSUME NEW p \in Paths, OutsideChange(p) \/ OutsideLink(p)
      PROVE Consumed' /\ OneCallPerAuthorization'
  BY <1>5 DEF OutsideChange, OutsideLink, requestAndCalls, callVars
<1>6. CASE Reconfigure
  BY <1>6 DEF Reconfigure, requestAndCalls, callVars
<1>7. CASE Crash \/ PowerLoss
  BY <1>7, EditAssumption DEF Crash, PowerLoss, ProcessDies, TypeInv, TypeOK, Running
<1>8. CASE UNCHANGED vars
  BY <1>8 DEF vars, callVars
<1> QED
  BY <1>1, <1>2, <1>3, <1>4, <1>5, <1>6, <1>7, <1>8 DEF Next

\* However many calls share an authorization, in whatever order they arrive
\* and however often the process dies, one of them at most gets through.
THEOREM AuthorizationIsOneShot == Spec => []OneCallPerAuthorization
<1>1. AuthInv => OneCallPerAuthorization
  BY DEF AuthInv
<1> QED
  BY <1>1, InitAuthInv, StepAuthInv, PTL DEF Spec
------------------------------------------------------------------------------
(* No path ever holds incomplete bytes.                                     *)

Whole(i) == i \in synced /\ data[i] \in Bytes

\* Whatever a path leads to, now or after a power cut, is whole, and so is
\* every candidate from its fsync on; a candidate being fsynced is complete.
AllWhole ==
  /\ \A p \in Paths : (Exists(p) => Whole(dir[p])) /\ (disk[p] # Absent => Whole(disk[p]))
  /\ \A c \in Calls : /\ pc[c] = "sync" => data[dir[c]] \in Bytes
                      /\ pc[c] \in Final => Whole(dir[c])

WholeInv == TypeInv /\ AllWhole

\* Every file is whole at first.
LEMMA InitWholeInv == Init => WholeInv
  BY InitTypeInv, FsAssumption
  DEF WholeInv, AllWhole, Whole, Init, FsInit, Exists, Names, Final, Entries, Calls

\* An inode that is whole and has a name stays whole as long as it has one:
\* only a candidate being opened is emptied, and it takes a free inode.
WholeKept == \A j \in Inodes : Whole(j) /\ ~Free(j) => Whole(j)'

\* Where the entries of paths may lead after a step.
PathsLeadToWhole ==
  \A p \in Paths : /\ dir'[p] \in {dir[p], disk[p], Absent} \/ Whole(dir[p])'
                   /\ disk'[p] \in {dir[p], disk[p], Absent} \/ Whole(disk[p])'

\* A step that keeps whole inodes whole, and leads paths only to whole inodes,
\* keeps every path whole.
LEMMA PathsWhole ==
  ASSUME WholeInv, WholeKept, PathsLeadToWhole
  PROVE  \A p \in Paths : /\ (Exists(p) => Whole(dir[p]))'
                          /\ (disk[p] # Absent => Whole(disk[p]))'
<1> TAKE p \in Paths
<1>1. ASSUME NEW j \in {dir[p], disk[p]}, j # Absent
      PROVE  j \in synced' /\ data'[j] \in Bytes
  <2>1. j \in Inodes /\ Whole(j) /\ ~Free(j)
    BY <1>1 DEF WholeInv, AllWhole, TypeInv, TypeOK, FsTypeOK, Names, Entries, Exists, Free
  <2> QED
    BY <2>1 DEF WholeKept, Whole
<1>2. dir'[p] # Absent => Whole(dir[p])'
  BY <1>1 DEF PathsLeadToWhole, Whole
<1>3. disk'[p] # Absent => Whole(disk[p])'
  BY <1>1 DEF PathsLeadToWhole, Whole
<1> QED
  BY <1>2, <1>3 DEF Exists

\* Steps that change no file and move no call into its final phase.
LEMMA NoFileStep ==
  ASSUME WholeInv, UNCHANGED fsVars,
         \A c \in Calls : pc'[c] = pc[c] \/ pc'[c] \notin {"sync"} \cup Final
                          \/ (pc[c] \in Final /\ pc'[c] \in Final)
  PROVE  AllWhole'
  BY DEF WholeInv, AllWhole, fsVars, Whole, Exists

\* A candidate that has been opened has an inode of its own name.
LEMMA CandidateHeld ==
  ASSUME TypeInv, NEW c \in Calls, pc[c] \in {"write", "sync"} \cup Final
  PROVE  dir[c] \in Inodes /\ ~Free(dir[c])
  BY DEF TypeInv, TypeOK, FsTypeOK, Underway, Exists, Names, Entries, Free, Calls

\* A step of one call that keeps whole inodes whole and the other calls where
\* they are.
LEMMA OtherCandidates ==
  ASSUME WholeInv, WholeKept, PathsLeadToWhole, NEW c \in Calls,
         \A d \in Calls \ {c} : pc'[d] = pc[d] /\ dir'[d] = dir[d],
         \A d \in Calls \ {c} : pc[d] = "sync" => data'[dir[d]] \in Bytes,
         pc'[c] = "sync" => data'[dir'[c]] \in Bytes,
         pc'[c] \in Final => Whole(dir[c])'
  PROVE  AllWhole'
<1>1. \A d \in Calls \ {c} : pc[d] \in Final => Whole(dir[d])'
  BY CandidateHeld DEF WholeInv, AllWhole, WholeKept, Whole
<1> QED
  BY <1>1, PathsWhole DEF AllWhole, WholeInv

\* Unlinking a candidate, and a publication, move no content.
LEMMA UnlinkWhole ==
  ASSUME TypeInv, NEW c \in Calls, Unlink(c) \/ UNCHANGED fsVars
  PROVE  /\ WholeKept /\ PathsLeadToWhole /\ UNCHANGED data
         /\ \A d \in Calls \ {c} : dir'[d] = dir[d]
  BY FsAssumption DEF TypeInv, TypeOK, FsTypeOK, Unlink, fsVars, WholeKept, PathsLeadToWhole, Whole,
     Free, Names, Calls

\* A call that gives up.
LEMMA AbortWhole ==
  ASSUME WholeInv, NEW c \in Calls, NEW result \in Outcomes,
         Return(c, result), Unlink(c) \/ UNCHANGED fsVars
  PROVE  AllWhole'
<1>1. \A d \in Calls : pc'[d] = IF d = c THEN "done" ELSE pc[d]
  BY ReturnType DEF WholeInv
<1>2. WholeKept /\ PathsLeadToWhole /\ UNCHANGED data /\ \A d \in Calls \ {c} : dir'[d] = dir[d]
  BY UnlinkWhole DEF WholeInv
<1>3. \A d \in Calls \ {c} : pc[d] = "sync" => data'[dir[d]] \in Bytes
  BY <1>2 DEF WholeInv, AllWhole
<1> QED
  BY <1>1, <1>2, <1>3, OtherCandidates DEF Final

\* A step of one call.
LEMMA CallStepWhole ==
  ASSUME WholeInv, NEW c \in Calls, CallStep(c)
  PROVE  AllWhole'
<1>1. ASSUME NEW result \in Outcomes, Return(c, result), Unlink(c) \/ UNCHANGED fsVars
      PROVE  AllWhole'
  BY <1>1, AbortWhole
<1>2. ASSUME NEW step \in PCs, Goto(c, step), UNCHANGED fsVars,
             step \in {"sync"} \cup Final => pc[c] \in Final /\ step \in Final
      PROVE  AllWhole'
  BY <1>2, GotoType, NoFileStep DEF WholeInv
<1>3. CASE Reload(c)
  BY <1>3, NoFileStep DEF Reload, Goto, requestVars, fsVars, WholeInv, TypeInv, TypeOK, Final
<1>4. CASE Screen1(c) \/ Observe1(c) \/ Identify1(c)
  BY <1>4, <1>1, <1>2 DEF Screen1, Observe1, Identify1, Refuse, Fail, Quiet, fsVars, PCs, Preparing,
     Candidate, Final, Outcomes
<1>5. CASE Open(c)
  <2>1. \A d \in Calls : pc'[d] = IF d = c THEN "write" ELSE pc[d]
    BY <1>5, GotoType DEF Open, WholeInv, PCs, Candidate
  <2>2. PICK j \in Inodes : OpenExclusive(c, j)
    BY <1>5 DEF Open
  <2>3. /\ WholeKept /\ PathsLeadToWhole
        /\ \A d \in Calls \ {c} : dir'[d] = dir[d]
    BY <2>2, FsAssumption DEF OpenExclusive, WholeKept, PathsLeadToWhole, Whole, Free, WholeInv,
       TypeInv, TypeOK, FsTypeOK, Names, Calls
  <2>4. \A d \in Calls \ {c} : pc[d] = "sync" => data'[dir[d]] \in Bytes
    BY <2>2, CandidateHeld DEF OpenExclusive, WholeInv, AllWhole, TypeInv, TypeOK, FsTypeOK
  <2> QED
    BY <2>1, <2>3, <2>4, OtherCandidates DEF Final
<1>6. CASE Write(c)
  <2>1. \A d \in Calls : pc'[d] = IF d = c THEN "sync" ELSE pc[d]
    BY <1>6, GotoType DEF Write, WholeInv, PCs, Candidate
  <2>2. After[ofChange[c]] \in Bytes /\ dir[c] \in Inodes
    BY <1>6, EditAssumption, CandidateHeld DEF Write, At, WholeInv, TypeInv, Underway
  <2>3. data' = [data EXCEPT ![dir[c]] = After[ofChange[c]]] /\ UNCHANGED <<dir, disk, synced>>
    BY <1>6 DEF Write, WriteAll
  <2>4. WholeKept /\ PathsLeadToWhole
    BY <2>2, <2>3 DEF WholeKept, PathsLeadToWhole, Whole, WholeInv, TypeInv, TypeOK, FsTypeOK
  <2>5. \A d \in Calls \ {c} : pc[d] = "sync" => data'[dir[d]] \in Bytes
    BY <2>2, <2>3 DEF WholeInv, AllWhole, TypeInv, TypeOK, FsTypeOK
  <2>6. data'[dir'[c]] \in Bytes
    BY <2>2, <2>3 DEF WholeInv, TypeInv, TypeOK, FsTypeOK
  <2> QED
    BY <2>1, <2>3, <2>4, <2>5, <2>6, OtherCandidates DEF Final
<1>7. CASE Sync(c)
  <2>1. \A d \in Calls : pc'[d] = IF d = c THEN "screen2" ELSE pc[d]
    BY <1>7, GotoType DEF Sync, WholeInv, PCs, Final
  <2>2. synced' = synced \cup {dir[c]} /\ UNCHANGED <<dir, disk, data>>
    BY <1>7 DEF Sync, FsyncFile
  <2>3. WholeKept /\ PathsLeadToWhole /\ Whole(dir[c])'
    BY <1>7, <2>2 DEF Sync, At, WholeKept, PathsLeadToWhole, Whole, WholeInv, AllWhole
  <2> QED
    BY <2>1, <2>2, <2>3, OtherCandidates DEF WholeInv, AllWhole
<1>8. CASE CandidateFault(c)
  BY <1>8, <1>1 DEF CandidateFault, Outcomes
<1>9. CASE Screen2(c) \/ Observe2(c) \/ Identify2(c)
  BY <1>9, <1>1, <1>2 DEF Screen2, Observe2, Identify2, At, Abort, Quiet, fsVars, PCs, Final, Outcomes
<1>10. CASE Publish(c)
  <2>1. \A d \in Calls : pc'[d] = IF d = c THEN pc'[c] ELSE pc[d]
    BY <1>10 DEF Publish, Goto, WholeInv, TypeInv, TypeOK
  <2>2. pc'[c] \notin {"sync"} \cup Final
    BY <1>10 DEF Publish, Goto, WholeInv, TypeInv, TypeOK, Final
  <2>3. UNCHANGED <<disk, data, synced>> /\ Whole(dir[c]) /\ T(c) \in Paths
    BY <1>10, EditAssumption DEF Publish, RenameOver, LinkNoOverwrite, At, T, Final, WholeInv, AllWhole,
       TypeInv, Underway
  <2>4. /\ \A p \in Paths : dir'[p] = dir[p] \/ dir'[p] = dir[c]
        /\ \A d \in Calls \ {c} : dir'[d] = dir[d]
    BY <1>10, <2>3, FsAssumption DEF Publish, RenameOver, LinkNoOverwrite, WholeInv, TypeInv, TypeOK,
       FsTypeOK, Names, Calls
  <2>5. WholeKept /\ PathsLeadToWhole
    BY <2>3, <2>4 DEF WholeKept, PathsLeadToWhole, Whole
  <2> QED
    BY <2>1, <2>2, <2>3, <2>4, <2>5, OtherCandidates DEF WholeInv, AllWhole
<1>11. CASE PublishFault(c)
  BY <1>11, <1>1 DEF PublishFault, Abort, Outcomes
<1>12. CASE Drop(c)
  <2>1. \A d \in Calls : pc'[d] = IF d = c THEN "syncdir" ELSE pc[d]
    BY <1>12, GotoType DEF Drop, WholeInv, PCs, Publishing
  <2>2. WholeKept /\ PathsLeadToWhole /\ UNCHANGED data /\ \A d \in Calls \ {c} : dir'[d] = dir[d]
    BY <1>12, UnlinkWhole DEF Drop, WholeInv
  <2> QED
    BY <2>1, <2>2, OtherCandidates DEF Final, WholeInv, AllWhole
<1>13. CASE SyncDir(c)
  <2>1. \A d \in Calls : pc'[d] = IF d = c THEN "verify" ELSE pc[d]
    BY <1>13, GotoType DEF SyncDir, WholeInv, PCs, Publishing
  <2>2. UNCHANGED <<dir, data, synced>> /\ \A p \in Paths : disk'[p] \in {dir[p], disk[p]}
    BY <1>13 DEF SyncDir, FsyncDirectory, fsVars
  <2>3. WholeKept /\ PathsLeadToWhole
    BY <2>2 DEF WholeKept, PathsLeadToWhole, Whole
  <2> QED
    BY <2>1, <2>2, <2>3, OtherCandidates DEF Final, WholeInv, AllWhole
<1>14. CASE Verify(c)
  BY <1>14, <1>1 DEF Verify, Outcomes
<1> QED
  BY <1>3, <1>4, <1>5, <1>6, <1>7, <1>8, <1>9, <1>10, <1>11, <1>12, <1>13, <1>14 DEF CallStep

\* What other programs and power cuts do keeps whole inodes whole.
LEMMA OutsideWhole ==
  ASSUME WholeInv, NEW p \in Paths, OutsideChange(p)
  PROVE  AllWhole'
<1>1. UNCHANGED pc
  BY DEF OutsideChange, requestAndCalls, callVars
<1>2. \A d \in Calls : dir'[d] = dir[d]
  BY FsAssumption DEF OutsideChange, OverwriteInPlace, SaveAsNewFile, Remove, WholeInv, TypeInv, TypeOK,
     FsTypeOK, Names, Calls
<1>3. CASE \E b \in Bytes : OverwriteInPlace(p, b)
  <2>1. WholeKept /\ PathsLeadToWhole
    BY <1>3 DEF OverwriteInPlace, WholeKept, PathsLeadToWhole, Whole, WholeInv, TypeInv, TypeOK, FsTypeOK
  <2>2. \A d \in Calls : pc[d] = "sync" => data'[dir[d]] \in Bytes
    BY <1>3, CandidateHeld DEF OverwriteInPlace, WholeInv, AllWhole, TypeInv, TypeOK, FsTypeOK
  <2> QED
    BY <1>1, <1>2, <2>1, <2>2, PathsWhole, CandidateHeld DEF WholeInv, AllWhole, WholeKept, Whole
<1>4. CASE \E b \in Bytes, j \in Inodes : SaveAsNewFile(p, b, j)
  <2>1. WholeKept /\ PathsLeadToWhole
    BY <1>4 DEF SaveAsNewFile, WholeKept, PathsLeadToWhole, Whole, WholeInv, TypeInv, TypeOK, FsTypeOK, Names
  <2>2. \A d \in Calls : pc[d] = "sync" => data'[dir[d]] \in Bytes
    BY <1>4, CandidateHeld DEF SaveAsNewFile, WholeInv, AllWhole, TypeInv, TypeOK, FsTypeOK
  <2> QED
    BY <1>1, <1>2, <2>1, <2>2, PathsWhole, CandidateHeld DEF WholeInv, AllWhole, WholeKept, Whole
<1>5. CASE Remove(p)
  <2>1. WholeKept /\ PathsLeadToWhole
    BY <1>5 DEF Remove, WholeKept, PathsLeadToWhole, Whole, WholeInv, TypeInv, TypeOK, FsTypeOK, Names
  <2> QED
    BY <1>1, <1>2, <1>5, <2>1, PathsWhole DEF Remove, WholeInv, AllWhole, Whole
<1> QED
  BY <1>3, <1>4, <1>5 DEF OutsideChange

\* Every step keeps paths and fsynced candidates whole.
LEMMA StepWholeInv == WholeInv /\ [Next]_vars => WholeInv'
<1> SUFFICES ASSUME WholeInv, [Next]_vars PROVE AllWhole'
  BY StepTypeInv DEF WholeInv
<1>1. CASE UNCHANGED <<fsVars, pc>>
  BY <1>1, NoFileStep
<1>2. ASSUME NEW c \in Calls, NEW a \in Auths, NEW ch \in Changes, Invoke(c, a, ch)
      PROVE  AllWhole'
  BY <1>2, NoFileStep DEF Invoke, WholeInv, TypeInv, TypeOK, Final
<1>3. ASSUME NEW p \in Paths, OutsideLink(p) PROVE AllWhole'
  <2>1. WholeKept /\ PathsLeadToWhole /\ UNCHANGED <<data, synced, pc>> /\ \A d \in Calls : dir'[d] = dir[d]
    BY <1>3, FsAssumption DEF OutsideLink, AddHardLink, requestAndCalls, callVars, WholeKept,
       PathsLeadToWhole, Whole, WholeInv, TypeInv, TypeOK, FsTypeOK, Names, Calls
  <2> QED
    BY <2>1, PathsWhole DEF WholeInv, AllWhole, Whole
<1>4. CASE Crash
  BY <1>4, NoFileStep DEF Crash, ProcessDies, Running, Final, WholeInv, TypeInv, TypeOK
<1>5. CASE PowerLoss
  <2>1. WholeKept /\ PathsLeadToWhole
    BY <1>5 DEF PowerLoss, PowerCut, WholeKept, PathsLeadToWhole, Whole, Names
  <2>2. \A c \in Calls : pc'[c] \notin {"sync"} \cup Final
    BY <1>5 DEF PowerLoss, ProcessDies, Running, Final
  <2> QED
    BY <2>1, <2>2, PathsWhole DEF AllWhole
<1>6. CASE Next
  BY <1>1, <1>2, <1>3, <1>4, <1>5, <1>6, CallStepWhole, OutsideWhole
  DEF Next, Prepare, Authorize, Reconfigure, requestAndCalls, callVars
<1> QED
  BY <1>1, <1>6 DEF vars, callVars

\* At no moment, and after no power cut, does a workspace path show a torn
\* file: a candidate becomes reachable only after its bytes were fsynced.
THEOREM NoTornFile == Spec => []NeverTorn
<1>1. WholeInv => NeverTorn
  BY DEF WholeInv, AllWhole, NeverTorn, Whole, Content
<1> QED
  BY <1>1, InitWholeInv, StepWholeInv, PTL DEF Spec
------------------------------------------------------------------------------
(* What one call's step leaves alone.                                       *)

\* The other calls, and everything a call was given, stay as they are.
LEMMA CallFrame ==
  ASSUME TypeInv, NEW c \in Calls, CallStep(c)
  PROVE  /\ UNCHANGED <<config, before, auth, bound, ofChange, byAuth, outside>>
         /\ \A d \in Calls \ {c} : /\ pc'[d] = pc[d] /\ dir'[d] = dir[d] /\ cfg'[d] = cfg[d]
                                   /\ seen'[d] = seen[d] /\ outcome'[d] = outcome[d]
                                   /\ d \in durable' <=> d \in durable
         /\ raced \subseteq raced'
<1> DEFINE Frame == /\ UNCHANGED <<config, before, auth, bound, ofChange, byAuth, outside>>
                    /\ \A d \in Calls \ {c} : /\ pc'[d] = pc[d] /\ dir'[d] = dir[d] /\ cfg'[d] = cfg[d]
                                              /\ seen'[d] = seen[d] /\ outcome'[d] = outcome[d]
                                              /\ d \in durable' <=> d \in durable
                    /\ raced \subseteq raced'
<1>1. ASSUME NEW step, Goto(c, step)
      PROVE  /\ UNCHANGED <<config, before, auth, bound, ofChange, byAuth, outside, outcome>>
             /\ \A d \in Calls \ {c} : pc'[d] = pc[d]
  BY <1>1 DEF Goto, requestVars, TypeInv, TypeOK
<1>2. ASSUME NEW result, Return(c, result)
      PROVE  /\ UNCHANGED <<config, before, auth, bound, ofChange, byAuth, outside, cfg, seen, durable, raced>>
             /\ \A d \in Calls \ {c} : pc'[d] = pc[d] /\ outcome'[d] = outcome[d]
  BY <1>2 DEF Return, requestVars, TypeInv, TypeOK
<1>3. ASSUME Unlink(c) \/ UNCHANGED fsVars
      PROVE  \A d \in Calls \ {c} : dir'[d] = dir[d]
  BY <1>3, UnlinkWhole
<1>4. ASSUME NEW result, Return(c, result), Unlink(c) \/ UNCHANGED fsVars
      PROVE  Frame
  BY <1>4, <1>2, <1>3
<1>5. ASSUME NEW step, Goto(c, step), UNCHANGED <<cfg, seen, durable, raced>>,
             \A d \in Calls \ {c} : dir'[d] = dir[d]
      PROVE  Frame
  BY <1>5, <1>1
<1>6. ASSUME NEW step, Goto(c, step), Quiet PROVE Frame
  BY <1>6, <1>5 DEF Quiet, fsVars
<1>7. CASE Reload(c)
  BY <1>7, <1>1 DEF Reload, requestVars, fsVars, TypeInv, TypeOK
<1>8. CASE Screen1(c) \/ Observe1(c)
  BY <1>8, <1>4, <1>6 DEF Screen1, Observe1, Refuse, Fail
<1>9. CASE Identify1(c)
  BY <1>9, <1>1, <1>4, <1>6 DEF Identify1, Refuse, fsVars, TypeInv, TypeOK
<1>10. CASE Open(c)
  BY <1>10, <1>5 DEF Open, CandidateStep, OpenExclusive, TypeInv, TypeOK, FsTypeOK
<1>11. CASE Write(c) \/ Sync(c)
  BY <1>11, <1>5 DEF Write, Sync, CandidateStep, WriteAll, FsyncFile
<1>12. CASE CandidateFault(c)
  BY <1>12, <1>4 DEF CandidateFault
<1>13. CASE Screen2(c) \/ Observe2(c) \/ Identify2(c)
  BY <1>13, <1>4, <1>6 DEF Screen2, Observe2, Identify2, Abort
<1>14. CASE Publish(c)
  <2>1. T(c) \in Paths
    BY <1>14, EditAssumption DEF Publish, At, T, TypeInv, Underway
  <2>2. \A d \in Calls \ {c} : dir'[d] = dir[d]
    BY <1>14, <2>1, FsAssumption DEF Publish, RenameOver, LinkNoOverwrite, TypeInv, TypeOK, FsTypeOK,
       Names, Calls
  <2> QED
    BY <1>14, <1>1, <2>2 DEF Publish, Published
<1>15. CASE PublishFault(c)
  BY <1>15, <1>4 DEF PublishFault, Abort
<1>16. CASE Drop(c)
  BY <1>16, <1>3, <1>5 DEF Drop
<1>17. CASE SyncDir(c)
  BY <1>17, <1>1 DEF SyncDir, FsyncDirectory, fsVars
<1>18. CASE Verify(c)
  BY <1>18, <1>4 DEF Verify
<1> QED
  BY <1>7, <1>8, <1>9, <1>10, <1>11, <1>12, <1>13, <1>14, <1>15, <1>16, <1>17, <1>18 DEF CallStep
------------------------------------------------------------------------------
(* Nothing is written unless the configuration allows it.                   *)

Past == {"observe1", "identify1"} \cup Candidate \cup Final \cup Publishing

Wrote(c) == Exists(c) \/ \E p \in Paths : author[p] = c

\* A call writes only after its second step let it pass, and that verdict was
\* reached with the configuration it keeps.
PermittedCall(c) ==
  /\ pc[c] \in {"idle", "reload", "screen1"} => ~Wrote(c)
  /\ pc[c] \in {"reload", "screen1"} => byAuth[c] # None
  /\ pc[c] \in Past \/ Wrote(c) => cfg[c] = "allows" /\ byAuth[c] # None

Permitted == \A c \in Calls : PermittedCall(c)

PermitInv == TypeInv /\ Permitted

\* Nobody has written anything at first.
LEMMA InitPermitInv == Init => PermitInv
  BY InitTypeInv, EditAssumption, FsAssumption
  DEF PermitInv, Permitted, PermittedCall, Wrote, Exists, Past, Candidate, Final, Publishing, Init,
      FsInit, Calls, Names

\* A call keeps its permission wherever it goes without writing for the first
\* time, and ends with it.
LEMMA StaysPermitted ==
  ASSUME PermitInv, NEW c \in Calls, UNCHANGED <<cfg, byAuth, author>>,
         dir'[c] \in {dir[c], Absent} \/ pc[c] \in Past,
         pc'[c] \notin {"idle", "reload", "screen1"},
         pc'[c] \in Past => pc[c] \in Past
  PROVE  PermittedCall(c)'
  BY DEF PermitInv, Permitted, PermittedCall, Wrote, Exists

\* A step of one call: Screen1 is where it gets its permission.
LEMMA CallStepPermitted ==
  ASSUME PermitInv, NEW c \in Calls, CallStep(c)
  PROVE  Permitted'
<1> USE DEF PermitInv
<1>1. ASSUME NEW d \in Calls \ {c}, \A p \in Paths : author'[p] \in {author[p], c}
      PROVE  PermittedCall(d)'
  BY <1>1, CallFrame DEF Permitted, PermittedCall, Wrote, Exists
<1>2. ASSUME UNCHANGED author, PermittedCall(c)'
      PROVE  Permitted'
  BY <1>1, <1>2 DEF Permitted
<1>3. ASSUME NEW step \in PCs, Goto(c, step)
      PROVE  pc'[c] = step /\ UNCHANGED byAuth
  BY <1>3 DEF Goto, requestVars, TypeInv, TypeOK
<1>4. ASSUME NEW result \in Outcomes, Return(c, result), Unlink(c) \/ UNCHANGED fsVars
      PROVE  Permitted'
  <2>1. pc'[c] = "done" /\ UNCHANGED <<cfg, byAuth, author>>
    BY <1>4, ReturnType
  <2>2. dir'[c] \in {dir[c], Absent}
    BY <1>4 DEF Unlink, fsVars, TypeInv, TypeOK, FsTypeOK
  <2>3. PermittedCall(c)'
    BY <2>1, <2>2, StaysPermitted DEF Past, Candidate, Final, Publishing
  <2> QED
    BY <1>2, <2>1, <2>3
<1>5. ASSUME NEW step \in Past, Goto(c, step), UNCHANGED <<cfg, author>>, pc[c] \in Past
      PROVE  Permitted'
  <2>1. pc'[c] = step /\ UNCHANGED byAuth
    BY <1>3, <1>5 DEF Past, PCs, Preparing
  <2>2. PermittedCall(c)'
    BY <1>5, <2>1, StaysPermitted DEF Past, Candidate, Final, Publishing
  <2> QED
    BY <1>2, <1>5, <2>2
<1>6. CASE Reload(c)
  <2>1. UNCHANGED <<fsVars, byAuth, author>> /\ pc[c] = "reload" /\ pc'[c] \in {"screen1", "done"}
    BY <1>6 DEF Reload, At, Goto, requestVars, TypeInv, TypeOK
  <2>2. PermittedCall(c)'
    BY <2>1 DEF Permitted, PermittedCall, Wrote, Exists, fsVars, Past, Candidate, Final, Publishing
  <2> QED
    BY <1>2, <2>1, <2>2
<1>7. CASE Screen1(c)
  <2>1. CASE Refuse(c)
    BY <1>4, <2>1 DEF Refuse, Outcomes
  <2>2. CASE Admitted(c) /\ Quiet /\ \E step \in {"observe1", "identify1"} : Goto(c, step)
    <3>1. pc'[c] \in {"observe1", "identify1"} /\ UNCHANGED <<fsVars, byAuth, cfg, author>>
          /\ cfg[c] = "allows" /\ pc[c] = "screen1"
      BY <1>3, <1>7, <2>2 DEF Quiet, Admitted, Screen1, At, PCs, Preparing
    <3>2. PermittedCall(c)'
      BY <3>1 DEF Permitted, PermittedCall, Wrote, Exists, fsVars
    <3> QED
      BY <1>2, <3>1, <3>2
  <2> QED
    BY <1>7, <2>1, <2>2 DEF Screen1
<1>8. CASE Observe1(c) \/ Identify1(c)
  BY <1>8, <1>4, <1>5 DEF Observe1, Identify1, At, Quiet, Refuse, Fail, Past, Candidate, Outcomes
<1>9. CASE Open(c) \/ Write(c) \/ Sync(c)
  BY <1>9, <1>5 DEF Open, Write, Sync, At, CandidateStep, Past, Candidate, Final
<1>10. CASE CandidateFault(c)
  BY <1>10, <1>4 DEF CandidateFault, Outcomes
<1>11. CASE Screen2(c) \/ Observe2(c) \/ Identify2(c)
  BY <1>11, <1>4, <1>5 DEF Screen2, Observe2, Identify2, At, Abort, Quiet, Past, Final, Outcomes
<1>12. CASE Publish(c)
  <2>1. pc[c] = "publish" /\ pc'[c] \in {"syncdir", "drop"} /\ UNCHANGED <<cfg, byAuth>>
        /\ \A p \in Paths : author'[p] \in {author[p], c}
    BY <1>12, <1>3 DEF Publish, At, Published, PCs, Publishing, TypeInv, TypeOK
  <2>2. PermittedCall(c)'
    BY <2>1 DEF Permitted, PermittedCall, Past, Final
  <2> QED
    BY <1>1, <2>1, <2>2 DEF Permitted
<1>13. CASE PublishFault(c)
  BY <1>13, <1>4 DEF PublishFault, Abort, Outcomes
<1>14. CASE Drop(c) \/ SyncDir(c)
  BY <1>14, <1>5 DEF Drop, SyncDir, At, Past, Publishing
<1>15. CASE Verify(c)
  BY <1>15, <1>4 DEF Verify, Outcomes
<1> QED
  BY <1>6, <1>7, <1>8, <1>9, <1>10, <1>11, <1>12, <1>13, <1>14, <1>15 DEF CallStep

\* Only an idle call is given a change, and it has written nothing.
LEMMA StepPermitInv == PermitInv /\ [Next]_vars => PermitInv'
<1> SUFFICES ASSUME PermitInv, [Next]_vars PROVE Permitted'
  BY StepTypeInv DEF PermitInv
<1>1. ASSUME UNCHANGED <<pc, cfg, byAuth, author>>, \A c \in Calls : dir'[c] = dir[c]
      PROVE  Permitted'
  BY <1>1 DEF PermitInv, Permitted, PermittedCall, Wrote, Exists
<1>2. ASSUME NEW ch \in Changes, Prepare(ch) PROVE Permitted'
  BY <1>1, <1>2 DEF Prepare, fsVars, callVars
<1>3. ASSUME NEW a \in Auths, NEW ch \in Changes, Authorize(a, ch) PROVE Permitted'
  BY <1>1, <1>3 DEF Authorize, fsVars, callVars
<1>4. ASSUME NEW c \in Calls, NEW a \in Auths, NEW ch \in Changes, Invoke(c, a, ch)
      PROVE  Permitted'
  <2>1. UNCHANGED <<fsVars, cfg, author>> /\ pc[c] = "idle"
        /\ \A d \in Calls \ {c} : pc'[d] = pc[d] /\ byAuth'[d] = byAuth[d]
    BY <1>4 DEF Invoke, At, PermitInv, TypeInv, TypeOK
  <2>2. pc'[c] = "done" \/ (pc'[c] = "reload" /\ byAuth'[c] # None)
    BY <1>4, EditAssumption DEF Invoke, PermitInv, TypeInv, TypeOK
  <2> QED
    BY <2>1, <2>2 DEF PermitInv, Permitted, PermittedCall, Wrote, Exists, fsVars, Past, Candidate,
       Final, Publishing
<1>5. ASSUME NEW p \in Paths, OutsideChange(p) PROVE Permitted'
  <2>1. \A c \in Calls : dir'[c] = dir[c]
    BY <1>5, FsAssumption DEF OutsideChange, OverwriteInPlace, SaveAsNewFile, Remove, PermitInv,
       TypeInv, TypeOK, FsTypeOK, Names, Calls
  <2>2. \A q \in Paths : author'[q] \in {author[q], Outsider}
    BY <1>5 DEF OutsideChange, PermitInv, TypeInv, TypeOK
  <2>3. UNCHANGED <<pc, cfg, byAuth>>
    BY <1>5 DEF OutsideChange, requestAndCalls, callVars
  <2> QED
    BY <2>1, <2>2, <2>3, EditAssumption DEF PermitInv, Permitted, PermittedCall, Wrote, Exists
<1>6. ASSUME NEW p \in Paths, OutsideLink(p) PROVE Permitted'
  <2>1. \A c \in Calls : dir'[c] = dir[c]
    BY <1>6, FsAssumption DEF OutsideLink, AddHardLink, PermitInv, TypeInv, TypeOK, FsTypeOK, Names, Calls
  <2> QED
    BY <1>1, <1>6, <2>1 DEF OutsideLink, requestAndCalls, callVars
<1>7. CASE Reconfigure
  BY <1>1, <1>7 DEF Reconfigure, requestAndCalls, fsVars, callVars
<1>8. CASE Crash \/ PowerLoss
  <2>1. /\ \A c \in Calls : dir'[c] \in {dir[c], Absent} /\ pc'[c] \in {pc[c], "dead"}
        /\ \A c \in Calls : pc'[c] \in Past => pc[c] \in Past
        /\ \A p \in Paths : author'[p] \in {author[p], Outsider}
        /\ UNCHANGED <<cfg, byAuth>>
    BY <1>8, FsAssumption DEF Crash, PowerLoss, ProcessDies, PowerCut, fsVars, PermitInv, TypeInv, TypeOK,
       FsTypeOK, Names, Calls, Past, Candidate, Final, Publishing
  <2> QED
    BY <2>1, EditAssumption DEF PermitInv, Permitted, PermittedCall, Wrote, Exists
<1>9. CASE UNCHANGED vars
  BY <1>1, <1>9 DEF vars, fsVars, callVars
<1> QED
  BY <1>2, <1>3, <1>4, <1>5, <1>6, <1>7, <1>8, <1>9, CallStepPermitted DEF Next, PermitInv

\* A candidate or a published file of a call exists only if the configuration
\* the call reloaded allowed it, whenever it was changed since
\* (runRestrictionRechecks over resolveMutationConfig).
THEOREM WritesOnlyAllowed == Spec => []NothingWrittenUnlessAllowed
<1>1. PermitInv => NothingWrittenUnlessAllowed
  BY DEF PermitInv, Permitted, PermittedCall, Wrote, NothingWrittenUnlessAllowed
<1> QED
  BY <1>1, InitPermitInv, StepPermitInv, PTL DEF Spec
------------------------------------------------------------------------------
(* Who leads to which inode.                                                *)

Holder(c) == pc[c] \in {"write", "sync"} \cup Final

Leads(p, i) == dir[p] = i \/ disk[p] = i

\* Two paths never share an inode, now or durably, and a candidate shares its
\* inode with no path and no other candidate before it is published.
Apart ==
  /\ \A i \in Inodes : \A p, q \in Paths : Leads(p, i) /\ Leads(q, i) => p = q
  /\ \A c \in Calls : Holder(c) => \A p \in Paths : ~Leads(p, dir[c])
  /\ \A c, d \in Calls : Holder(c) /\ Holder(d) /\ dir[c] = dir[d] => c = d

\* A candidate that is being written has not been fsynced; one that is written
\* holds the approved bytes.
Drafted ==
  \A c \in Calls :
    /\ pc[c] \in {"write", "sync"} => dir[c] \notin synced
    /\ pc[c] \in {"sync"} \cup Final => data[dir[c]] = After[ofChange[c]]

InodeInv == WholeInv /\ Apart /\ Drafted

\* At first there are no candidates, and every path has its own inode.
LEMMA InitInodeInv == Init => InodeInv
  BY InitWholeInv, FsAssumption
  DEF InodeInv, Apart, Drafted, Holder, Leads, Init, FsInit, Final, Calls, Names

\* A candidate that is held has an inode.
LEMMA HolderFacts ==
  ASSUME TypeInv, NEW c \in Calls, Holder(c)
  PROVE  dir[c] \in Inodes /\ ~Free(dir[c])
  BY CandidateHeld DEF Holder

\* Steps that change no file, nor the bytes of any candidate, and after which
\* nobody holds a candidate who did not before.
LEMMA CalmInodes ==
  ASSUME InodeInv, UNCHANGED <<data, synced>>,
         \A p \in Paths : dir'[p] \in {dir[p], disk[p], Absent} /\ disk'[p] \in {dir[p], disk[p], Absent},
         \A c \in Calls : Holder(c)' => /\ Holder(c) /\ dir'[c] = dir[c] /\ ofChange'[c] = ofChange[c]
                                        /\ pc'[c] = pc[c] \/ (pc[c] \in Final /\ pc'[c] \in Final)
  PROVE  Apart' /\ Drafted'
<1>1. \A p \in Paths : \A i \in Inodes : Leads(p, i)' => Leads(p, i)
  BY FsAssumption DEF Leads
<1>2. \A c \in Calls : Holder(c) => dir[c] \in Inodes
  BY HolderFacts DEF InodeInv, WholeInv
<1>3. Apart'
  <2>1. \A i \in Inodes : \A p, q \in Paths : Leads(p, i)' /\ Leads(q, i)' => p = q
    BY <1>1 DEF InodeInv, Apart
  <2>2. ASSUME NEW c \in Calls, Holder(c)', NEW p \in Paths, Leads(p, dir[c])' PROVE FALSE
    <3>1. Holder(c) /\ dir'[c] = dir[c] /\ dir[c] \in Inodes
      BY <1>2, <2>2
    <3>2. Leads(p, dir[c])
      BY <1>1, <2>2, <3>1 DEF Leads
    <3> QED
      BY <3>1, <3>2 DEF InodeInv, Apart
  <2>3. \A c, d \in Calls : Holder(c)' /\ Holder(d)' /\ dir'[c] = dir'[d] => c = d
    BY DEF InodeInv, Apart
  <2> QED
    BY <2>1, <2>2, <2>3 DEF Apart
<1>4. Drafted'
  BY DEF InodeInv, Drafted, Holder, Final
<1> QED
  BY <1>3, <1>4

\* A step of one call: Open takes a free inode, Publish gives the candidate's
\* inode to one path.
LEMMA CallStepInodes ==
  ASSUME InodeInv, NEW c \in Calls, CallStep(c)
  PROVE  Apart' /\ Drafted'
<1> USE DEF InodeInv, WholeInv
<1>1. ASSUME NEW step \in PCs, Goto(c, step)
      PROVE  pc'[c] = step /\ UNCHANGED ofChange /\ \A d \in Calls \ {c} : pc'[d] = pc[d]
  BY <1>1, GotoType
<1>2. ASSUME NEW result \in Outcomes, Return(c, result), Unlink(c) \/ UNCHANGED fsVars
      PROVE  Apart' /\ Drafted'
  <2>1. pc'[c] = "done" /\ UNCHANGED ofChange /\ \A d \in Calls \ {c} : pc'[d] = pc[d] /\ dir'[d] = dir[d]
    BY <1>2, ReturnType, CallFrame
  <2>2. UNCHANGED <<data, synced, disk>> /\ \A p \in Paths : dir'[p] = dir[p]
    BY <1>2, FsAssumption DEF Unlink, fsVars, TypeInv, TypeOK, FsTypeOK, Names, Calls
  <2>3. \A d \in Calls : Holder(d)' => d # c
    BY <2>1 DEF Holder, Final
  <2> QED
    BY <2>1, <2>2, <2>3, CalmInodes DEF Holder
<1>3. ASSUME NEW step \in PCs, Goto(c, step), UNCHANGED fsVars,
             step \in {"write", "sync"} \cup Final => pc[c] \in Final /\ step \in Final
      PROVE  Apart' /\ Drafted'
  <2>1. \A d \in Calls : Holder(d)' => /\ Holder(d) /\ dir'[d] = dir[d] /\ ofChange'[d] = ofChange[d]
                                       /\ pc'[d] = pc[d] \/ (pc[d] \in Final /\ pc'[d] \in Final)
    BY <1>1, <1>3 DEF Holder, fsVars
  <2> QED
    BY <1>3, <2>1, CalmInodes DEF fsVars
<1>4. CASE Reload(c)
  <2>1. UNCHANGED <<fsVars, ofChange>> /\ pc'[c] \in {"screen1", "done"}
        /\ \A d \in Calls \ {c} : pc'[d] = pc[d]
    BY <1>4 DEF Reload, Goto, requestVars, TypeInv, TypeOK
  <2>2. \A d \in Calls : Holder(d)' => d # c
    BY <2>1 DEF Holder, Final
  <2> QED
    BY <2>1, <2>2, CalmInodes DEF Holder, fsVars
<1>5. CASE Screen1(c) \/ Observe1(c) \/ Identify1(c)
  BY <1>5, <1>2, <1>3 DEF Screen1, Observe1, Identify1, Refuse, Fail, Quiet, fsVars, PCs, Preparing,
     Candidate, Final, Outcomes
<1>6. CASE Open(c)
  <2>1. pc[c] = "open" /\ pc'[c] = "write" /\ UNCHANGED ofChange
        /\ \A d \in Calls \ {c} : pc'[d] = pc[d] /\ dir'[d] = dir[d]
    BY <1>6, <1>1, CallFrame DEF Open, At, PCs, Candidate
  <2>2. PICK j \in Inodes : OpenExclusive(c, j)
    BY <1>6 DEF Open
  <2>3. /\ dir'[c] = j /\ \A p \in Paths : dir'[p] = dir[p]
        /\ UNCHANGED disk /\ synced' = synced \ {j}
        /\ \A i \in Inodes \ {j} : data'[i] = data[i]
    BY <2>2, FsAssumption DEF OpenExclusive, TypeInv, TypeOK, FsTypeOK, Names, Calls
  <2>4. /\ \A p \in Paths : ~Leads(p, j) /\ ~Leads(p, j)'
        /\ \A d \in Calls : dir[d] # j
    BY <2>2, <2>3 DEF OpenExclusive, Free, Leads, Names, Calls
  <2>5. \A d \in Calls \ {c} : Holder(d)' => Holder(d) /\ dir[d] \in Inodes \ {j}
    BY <2>1, <2>4, HolderFacts DEF Holder
  <2>6. Apart'
    <3>1. \A i \in Inodes : \A p, q \in Paths : Leads(p, i)' /\ Leads(q, i)' => p = q
      BY <2>3 DEF Apart, Leads
    <3>2. \A d \in Calls : Holder(d)' => \A p \in Paths : ~Leads(p, dir[d])'
      BY <2>1, <2>3, <2>4, <2>5 DEF Apart, Leads
    <3>3. \A d, e \in Calls : Holder(d)' /\ Holder(e)' /\ dir'[d] = dir'[e] => d = e
      BY <2>1, <2>3, <2>4, <2>5 DEF Apart
    <3> QED
      BY <3>1, <3>2, <3>3 DEF Apart
  <2>7. Drafted'
    BY <2>1, <2>3, <2>5 DEF Drafted, Holder, Final
  <2> QED
    BY <2>6, <2>7
<1>7. CASE Write(c)
  <2>1. pc[c] = "write" /\ pc'[c] = "sync" /\ UNCHANGED ofChange
        /\ \A d \in Calls \ {c} : pc'[d] = pc[d]
    BY <1>7, <1>1 DEF Write, At, PCs, Candidate
  <2>2. UNCHANGED <<dir, disk, synced>> /\ dir[c] \in Inodes
        /\ data' = [data EXCEPT ![dir[c]] = After[ofChange[c]]]
    BY <1>7, <2>1, HolderFacts DEF Write, WriteAll, Holder
  <2>3. \A d \in Calls : Holder(d)' <=> Holder(d)
    BY <2>1 DEF Holder
  <2>4. Apart'
    BY <2>2, <2>3 DEF Apart, Leads
  <2>5. Drafted'
    <3>1. data'[dir[c]] = After[ofChange[c]]
      BY <2>2 DEF TypeInv, TypeOK, FsTypeOK
    <3>2. \A d \in Calls \ {c} : Holder(d) => data'[dir[d]] = data[dir[d]]
      BY <2>1, <2>2, HolderFacts DEF Apart, Holder, TypeInv, TypeOK, FsTypeOK
    <3> QED
      BY <2>1, <2>2, <3>1, <3>2 DEF Drafted, Holder
  <2> QED
    BY <2>4, <2>5
<1>8. CASE Sync(c)
  <2>1. pc[c] = "sync" /\ pc'[c] = "screen2" /\ UNCHANGED ofChange
        /\ \A d \in Calls \ {c} : pc'[d] = pc[d]
    BY <1>8, <1>1 DEF Sync, At, PCs, Final
  <2>2. UNCHANGED <<dir, disk, data>> /\ synced' = synced \cup {dir[c]}
    BY <1>8 DEF Sync, FsyncFile
  <2>3. \A d \in Calls : Holder(d)' <=> Holder(d)
    BY <2>1 DEF Holder, Final
  <2>4. Apart'
    BY <2>2, <2>3 DEF Apart, Leads
  <2>5. Drafted'
    <3>1. \A d \in Calls \ {c} : Holder(d) => dir[d] # dir[c]
      BY <2>1 DEF Apart, Holder
    <3> QED
      BY <2>1, <2>2, <3>1 DEF Drafted, Holder, Final
  <2> QED
    BY <2>4, <2>5
<1>9. CASE CandidateFault(c)
  BY <1>9, <1>2 DEF CandidateFault, Outcomes
<1>10. CASE Screen2(c) \/ Observe2(c) \/ Identify2(c)
  BY <1>10, <1>2, <1>3 DEF Screen2, Observe2, Identify2, At, Abort, Quiet, fsVars, PCs, Final, Outcomes
<1>11. CASE Publish(c)
  <2>1. pc[c] = "publish" /\ pc'[c] \in {"syncdir", "drop"} /\ UNCHANGED ofChange
        /\ \A d \in Calls \ {c} : pc'[d] = pc[d] /\ dir'[d] = dir[d]
    BY <1>11, <1>1, CallFrame DEF Publish, At, PCs, Publishing
  <2>2. T(c) \in Paths
    BY <2>1, EditAssumption DEF T, TypeInv, Underway
  <2>3. UNCHANGED <<disk, data, synced>> /\ dir'[T(c)] = dir[c]
        /\ \A p \in Paths \ {T(c)} : dir'[p] = dir[p]
    BY <1>11, <2>2, FsAssumption DEF Publish, RenameOver, LinkNoOverwrite, TypeInv, TypeOK, FsTypeOK,
       Names, Calls
  <2>4. Holder(c) /\ \A p \in Paths : ~Leads(p, dir[c])
    BY <2>1 DEF Holder, Final, Apart
  <2>5. \A d \in Calls : Holder(d)' => Holder(d) /\ d # c /\ dir[d] # dir[c] /\ dir'[d] = dir[d]
    BY <2>1, <2>4 DEF Holder, Final, Apart
  <2>6. Apart'
    <3>1. \A i \in Inodes : \A p, q \in Paths : Leads(p, i)' /\ Leads(q, i)' => p = q
      BY <2>2, <2>3, <2>4 DEF Apart, Leads
    <3>2. \A d \in Calls : Holder(d)' => \A p \in Paths : ~Leads(p, dir[d])'
      BY <2>2, <2>3, <2>5 DEF Apart, Leads
    <3>3. \A d, e \in Calls : Holder(d)' /\ Holder(e)' /\ dir'[d] = dir'[e] => d = e
      BY <2>5 DEF Apart
    <3> QED
      BY <3>1, <3>2, <3>3 DEF Apart
  <2>7. Drafted'
    BY <2>1, <2>3, <2>5 DEF Drafted, Holder
  <2> QED
    BY <2>6, <2>7
<1>12. CASE PublishFault(c)
  BY <1>12, <1>2 DEF PublishFault, Abort, Outcomes
<1>13. CASE Drop(c)
  <2>1. pc'[c] = "syncdir" /\ UNCHANGED ofChange
        /\ \A d \in Calls \ {c} : pc'[d] = pc[d] /\ dir'[d] = dir[d]
    BY <1>13, <1>1, CallFrame DEF Drop, PCs, Publishing
  <2>2. UNCHANGED <<disk, data, synced>> /\ \A p \in Paths : dir'[p] = dir[p]
    BY <1>13, FsAssumption DEF Drop, Unlink, fsVars, TypeInv, TypeOK, FsTypeOK, Names, Calls
  <2>3. \A d \in Calls : Holder(d)' => d # c
    BY <2>1 DEF Holder, Final
  <2> QED
    BY <2>1, <2>2, <2>3, CalmInodes DEF Holder
<1>14. CASE SyncDir(c)
  <2>1. pc'[c] = "verify" /\ UNCHANGED ofChange /\ \A d \in Calls \ {c} : pc'[d] = pc[d]
    BY <1>14, <1>1 DEF SyncDir, PCs, Publishing
  <2>2. UNCHANGED <<dir, data, synced>> /\ \A p \in Paths : disk'[p] \in {dir[p], disk[p]}
    BY <1>14 DEF SyncDir, FsyncDirectory, fsVars
  <2>3. \A d \in Calls : Holder(d)' => d # c
    BY <2>1 DEF Holder, Final
  <2> QED
    BY <2>1, <2>2, <2>3, CalmInodes DEF Holder
<1>15. CASE Verify(c)
  BY <1>15, <1>2 DEF Verify, Outcomes
<1> QED
  BY <1>4, <1>5, <1>6, <1>7, <1>8, <1>9, <1>10, <1>11, <1>12, <1>13, <1>14, <1>15 DEF CallStep

\* Another program writes to the inode the path already has, or to a free one.
LEMMA OutsideInodes ==
  ASSUME InodeInv, NEW p \in Paths, OutsideChange(p)
  PROVE  Apart' /\ Drafted'
<1> USE DEF InodeInv, WholeInv
<1>1. UNCHANGED <<pc, ofChange>>
  BY DEF OutsideChange, requestAndCalls, callVars
<1>2. \A c \in Calls : dir'[c] = dir[c]
  BY FsAssumption DEF OutsideChange, OverwriteInPlace, SaveAsNewFile, Remove, TypeInv, TypeOK,
     FsTypeOK, Names, Calls
<1>3. \A c \in Calls : Holder(c) => dir[c] \in Inodes /\ ~Free(dir[c])
  BY HolderFacts
<1>4. ASSUME NEW b \in Bytes, OverwriteInPlace(p, b)
      PROVE  Apart' /\ Drafted'
  <2>1. /\ UNCHANGED dir /\ \A q \in Paths : disk'[q] \in {dir[q], disk[q]}
        /\ \A i \in Inodes : i # dir[p] => data'[i] = data[i] /\ (i \in synced' <=> i \in synced)
    BY <1>4 DEF OverwriteInPlace, TypeInv, TypeOK, FsTypeOK
  <2>2. \A c \in Calls : Holder(c) => dir[c] # dir[p]
    BY <1>3 DEF Apart, Leads
  <2>3. \A q \in Paths : \A i \in Inodes : Leads(q, i)' => Leads(q, i)
    BY <2>1 DEF Leads
  <2>4. Apart'
    BY <1>1, <1>2, <1>3, <2>3 DEF Apart, Holder
  <2>5. Drafted'
    BY <1>1, <1>2, <1>3, <2>1, <2>2 DEF Drafted, Holder
  <2> QED
    BY <2>4, <2>5
<1>5. ASSUME NEW b \in Bytes, NEW i \in Inodes, SaveAsNewFile(p, b, i)
      PROVE  Apart' /\ Drafted'
  <2>1. /\ dir'[p] = i /\ disk'[p] = i
        /\ \A q \in Paths \ {p} : dir'[q] = dir[q] /\ disk'[q] = disk[q]
        /\ \A j \in Inodes : j # i => data'[j] = data[j] /\ (j \in synced' <=> j \in synced)
    BY <1>5 DEF SaveAsNewFile, TypeInv, TypeOK, FsTypeOK, Names
  <2>2. \A q \in Paths : ~Leads(q, i)
    BY <1>5 DEF SaveAsNewFile, Free, Leads, Names
  <2>3. \A c \in Calls : Holder(c) => dir[c] \in Inodes \ {i}
    BY <1>3, <1>5 DEF SaveAsNewFile
  <2>4. Apart'
    <3>1. \A j \in Inodes : \A q, r \in Paths : Leads(q, j)' /\ Leads(r, j)' => q = r
      BY <2>1, <2>2 DEF Apart, Leads
    <3>2. \A c \in Calls : Holder(c)' => \A q \in Paths : ~Leads(q, dir[c])'
      BY <1>1, <1>2, <2>1, <2>3 DEF Apart, Leads, Holder
    <3>3. \A c, d \in Calls : Holder(c)' /\ Holder(d)' /\ dir'[c] = dir'[d] => c = d
      BY <1>1, <1>2 DEF Apart, Holder
    <3> QED
      BY <3>1, <3>2, <3>3 DEF Apart
  <2>5. Drafted'
    BY <1>1, <1>2, <2>1, <2>3 DEF Drafted, Holder
  <2> QED
    BY <2>4, <2>5
<1>6. CASE Remove(p)
  <2>1. /\ UNCHANGED <<data, synced>>
        /\ \A q \in Paths : dir'[q] \in {dir[q], Absent} /\ disk'[q] \in {disk[q], Absent}
    BY <1>6 DEF Remove, TypeInv, TypeOK, FsTypeOK, Names
  <2> QED
    BY <1>1, <1>2, <2>1, CalmInodes DEF Holder
<1> QED
  BY <1>4, <1>5, <1>6 DEF OutsideChange

\* Candidates are held by running calls only.
LEMMA HoldersRun ==
  ASSUME NEW c \in Calls, Holder(c)
  PROVE  Running(c)
  BY DEF Holder, Running, Final

\* Every step keeps inodes apart and candidates drafted.
LEMMA StepInodeInv == InodeInv /\ [Next]_vars => InodeInv'
<1> SUFFICES ASSUME InodeInv, [Next]_vars PROVE Apart' /\ Drafted'
  BY StepWholeInv DEF InodeInv
<1> USE DEF InodeInv, WholeInv
<1>1. ASSUME UNCHANGED <<pc, ofChange, fsVars>> PROVE Apart' /\ Drafted'
  BY <1>1, CalmInodes DEF fsVars, Holder
<1>2. ASSUME NEW ch \in Changes, Prepare(ch) PROVE Apart' /\ Drafted'
  BY <1>1, <1>2 DEF Prepare, callVars
<1>3. ASSUME NEW a \in Auths, NEW ch \in Changes, Authorize(a, ch) PROVE Apart' /\ Drafted'
  BY <1>1, <1>3 DEF Authorize, callVars
<1>4. ASSUME NEW c \in Calls, NEW a \in Auths, NEW ch \in Changes, Invoke(c, a, ch)
      PROVE  Apart' /\ Drafted'
  <2>1. UNCHANGED fsVars /\ pc'[c] \in {"done", "reload"}
        /\ \A d \in Calls \ {c} : pc'[d] = pc[d] /\ ofChange'[d] = ofChange[d]
    BY <1>4 DEF Invoke, TypeInv, TypeOK
  <2>2. \A d \in Calls : Holder(d)' => d # c
    BY <2>1 DEF Holder, Final
  <2> QED
    BY <2>1, <2>2, CalmInodes DEF Holder, fsVars
<1>5. ASSUME NEW p \in Paths, OutsideChange(p) PROVE Apart' /\ Drafted'
  BY <1>5, OutsideInodes
<1>6. ASSUME NEW p \in Paths, OutsideLink(p) PROVE Apart' /\ Drafted'
  <2>1. \A n \in Paths \cup Calls : dir'[n] = dir[n]
    BY <1>6, FsAssumption DEF OutsideLink, AddHardLink, TypeInv, TypeOK, FsTypeOK, Names, Calls
  <2> QED
    BY <1>6, <2>1, CalmInodes DEF OutsideLink, AddHardLink, requestAndCalls, callVars, Holder
<1>7. CASE Reconfigure
  BY <1>1, <1>7 DEF Reconfigure, requestAndCalls, callVars
<1>8. CASE Crash \/ PowerLoss
  <2>1. \A c \in Calls : ~Holder(c)'
    BY <1>8, HoldersRun DEF Crash, PowerLoss, ProcessDies, Holder, Final
  <2>2. \A p \in Paths : \A i \in Inodes : Leads(p, i)' => Leads(p, i)
    BY <1>8, FsAssumption DEF Crash, PowerLoss, PowerCut, fsVars, Leads, Names
  <2>3. Apart'
    BY <2>1, <2>2 DEF Apart
  <2>4. Drafted'
    BY <2>1 DEF Drafted, Holder
  <2> QED
    BY <2>3, <2>4
<1>9. CASE UNCHANGED vars
  BY <1>1, <1>9 DEF vars, callVars
<1> QED
  BY <1>2, <1>3, <1>4, <1>5, <1>6, <1>7, <1>8, <1>9, CallStepInodes DEF Next
------------------------------------------------------------------------------
(* What a step does to a path.                                              *)

\* The path keeps its file, its bytes and its author; at most it is saved.
Still(p) ==
  /\ dir'[p] = dir[p] /\ author'[p] = author[p] /\ disk'[p] \in {disk[p], dir[p]}
  /\ Exists(p) => Content(p)' = Content(p)

\* A call touches no path but by publishing at its own target.
LEMMA CallStepStill ==
  ASSUME InodeInv, NEW c \in Calls, CallStep(c), NEW p \in Paths, ~(Publish(c) /\ p = T(c))
  PROVE  Still(p)
<1> USE DEF InodeInv, WholeInv
<1>1. p # c /\ p \in Names
  BY FsAssumption DEF Names, Calls
<1>2. ASSUME UNCHANGED author, Unlink(c) \/ UNCHANGED fsVars PROVE Still(p)
  BY <1>1, <1>2 DEF Still, Unlink, fsVars, Exists, Content, TypeInv, TypeOK, FsTypeOK
<1>3. ASSUME NEW result, Return(c, result), Unlink(c) \/ UNCHANGED fsVars PROVE Still(p)
  BY <1>2, <1>3 DEF Return
<1>4. CASE Reload(c) \/ Screen1(c) \/ Observe1(c) \/ Identify1(c)
  BY <1>2, <1>3, <1>4 DEF Reload, Screen1, Observe1, Identify1, Quiet, Refuse, Fail
<1>5. CASE Open(c)
  <2>1. PICK j \in Inodes : OpenExclusive(c, j)
    BY <1>5 DEF Open
  <2>2. dir'[p] = dir[p] /\ UNCHANGED <<disk, author>>
    BY <1>1, <1>5, <2>1 DEF Open, CandidateStep, OpenExclusive, TypeInv, TypeOK, FsTypeOK
  <2>3. dir[p] # j
    BY <1>1, <2>1 DEF OpenExclusive, Free
  <2>4. Exists(p) => dir[p] \in Inodes
    BY <1>1 DEF Exists, TypeInv, TypeOK, FsTypeOK, Entries
  <2>5. Exists(p) => data'[dir[p]] = data[dir[p]]
    BY <2>1, <2>3, <2>4 DEF OpenExclusive, TypeInv, TypeOK, FsTypeOK
  <2> QED
    BY <2>2, <2>5 DEF Still, Content
<1>6. CASE Write(c)
  <2>1. dir[c] # dir[p]
    <3>1. Holder(c)
      BY <1>6 DEF Write, At, Holder
    <3> QED
      BY <3>1 DEF Apart, Leads
  <2>2. Exists(p) => dir[p] \in Inodes
    BY <1>1 DEF Exists, TypeInv, TypeOK, FsTypeOK, Entries
  <2> QED
    BY <1>6, <2>1, <2>2 DEF Write, CandidateStep, WriteAll, Still, Content, TypeInv, TypeOK, FsTypeOK
<1>7. CASE Sync(c)
  BY <1>7 DEF Sync, CandidateStep, FsyncFile, Still, Content
<1>8. CASE CandidateFault(c)
  BY <1>3, <1>8 DEF CandidateFault
<1>9. CASE Screen2(c) \/ Observe2(c) \/ Identify2(c) \/ PublishFault(c)
  BY <1>2, <1>3, <1>9 DEF Screen2, Observe2, Identify2, PublishFault, Quiet, Abort
<1>10. CASE Publish(c)
  <2>1. T(c) \in Paths /\ T(c) # p
    BY <1>10, EditAssumption DEF Publish, At, T, TypeInv, Underway
  <2>2. dir'[p] = dir[p] /\ UNCHANGED <<disk, data>> /\ author'[p] = author[p]
    BY <1>1, <1>10, <2>1 DEF Publish, RenameOver, LinkNoOverwrite, Published, TypeInv, TypeOK, FsTypeOK
  <2> QED
    BY <2>2 DEF Still, Content
<1>11. CASE Drop(c)
  BY <1>2, <1>11 DEF Drop
<1>12. CASE SyncDir(c)
  BY <1>12 DEF SyncDir, FsyncDirectory, fsVars, Still, Content
<1>13. CASE Verify(c)
  BY <1>3, <1>13 DEF Verify
<1> QED
  BY <1>4, <1>5, <1>6, <1>7, <1>8, <1>9, <1>10, <1>11, <1>12, <1>13 DEF CallStep

\* Publishing puts the approved bytes at the target, under the call's name.
LEMMA PublishLands ==
  ASSUME InodeInv, NEW c \in Calls, Publish(c)
  PROVE  /\ T(c) \in Paths /\ author'[T(c)] = c
         /\ Exists(T(c))' /\ Content(T(c))' = After[ofChange[c]]
         /\ pc[c] = "publish" /\ pc'[c] \in {"drop", "syncdir"} /\ UNCHANGED <<ofChange, outcome, durable>>
<1> USE DEF InodeInv, WholeInv
<1>1. pc[c] = "publish" /\ pc'[c] \in {"drop", "syncdir"} /\ UNCHANGED <<ofChange, outcome, durable>>
  BY DEF Publish, At, Goto, requestVars, Published, TypeInv, TypeOK
<1>2. T(c) \in Paths /\ T(c) # c
  BY <1>1, EditAssumption, FsAssumption DEF T, TypeInv, Underway, Calls
<1>3. author'[T(c)] = c
  BY <1>2 DEF Publish, Published, TypeInv, TypeOK
<1>4. dir'[T(c)] = dir[c] /\ UNCHANGED data
  BY <1>2 DEF Publish, RenameOver, LinkNoOverwrite, TypeInv, TypeOK, FsTypeOK, Names, Calls
<1>5. dir[c] \in Inodes /\ data[dir[c]] = After[ofChange[c]]
  BY <1>1, HolderFacts DEF Holder, Drafted, Final
<1> QED
  BY <1>1, <1>2, <1>3, <1>4, <1>5, FsAssumption DEF Exists, Content, T

\* Another program touches one path, and takes its name off it.
LEMMA OutsideStill ==
  ASSUME InodeInv, NEW p \in Paths, OutsideChange(p), NEW q \in Paths \ {p}
  PROVE  Still(q)
<1> USE DEF InodeInv, WholeInv
<1>1. q \in Names /\ p \in Names /\ (Exists(q) => dir[q] \in Inodes)
  BY DEF Names, Exists, TypeInv, TypeOK, FsTypeOK, Entries
<1>2. author'[q] = author[q]
  BY DEF OutsideChange, TypeInv, TypeOK
<1>3. ASSUME NEW b \in Bytes, OverwriteInPlace(p, b) PROVE Still(q)
  <2>1. Exists(q) => dir[q] # dir[p]
    BY <1>1 DEF Apart, Leads
  <2> QED
    BY <1>1, <1>2, <1>3, <2>1 DEF OverwriteInPlace, Still, Content, TypeInv, TypeOK, FsTypeOK
<1>4. ASSUME NEW b \in Bytes, NEW i \in Inodes, SaveAsNewFile(p, b, i) PROVE Still(q)
  <2>1. dir[q] # i
    BY <1>1, <1>4 DEF SaveAsNewFile, Free
  <2> QED
    BY <1>1, <1>2, <1>4, <2>1 DEF SaveAsNewFile, Still, Content, TypeInv, TypeOK, FsTypeOK
<1>5. CASE Remove(p)
  BY <1>1, <1>2, <1>5 DEF Remove, Still, Content, TypeInv, TypeOK, FsTypeOK
<1> QED
  BY <1>3, <1>4, <1>5 DEF OutsideChange
------------------------------------------------------------------------------
(* A reported success lasts.                                                *)

\* The bytes a call published are still at its target unless the path has
\* another author since, and durably there once its directory fsync succeeded.
Landed(c) ==
  /\ Exists(T(c)) /\ Content(T(c)) = After[ofChange[c]]
  /\ c \in durable => disk[T(c)] = dir[T(c)]

LastingCall(c) ==
  /\ pc[c] \in Publishing \/ outcome[c] = "SUCCESS" => (author[T(c)] = c => Landed(c))
  /\ outcome[c] = "SUCCESS" => c \in durable /\ pc[c] = "done"
  /\ c \in durable => pc[c] \in {"verify", "done", "dead"}

Lasting == \A c \in Calls : LastingCall(c)

LastInv == InodeInv /\ Lasting

\* Nobody has published before the first call.
LEMMA InitLastInv == Init => LastInv
  BY InitInodeInv, EditAssumption DEF LastInv, Lasting, LastingCall, Init, Publishing, Outcomes

\* What a call landed stays where its target keeps still.
LEMMA StaysLanded ==
  ASSUME InodeInv, NEW c \in Calls, Still(T(c)), Landed(c), ofChange'[c] = ofChange[c], T(c) \in Paths,
         c \in durable' => c \in durable \/ disk'[T(c)] = dir'[T(c)]
  PROVE  Landed(c)'
<1>1. T(c)' = T(c) /\ Content(T(c))' = Content(T(c))
  BY DEF T, Still, Landed, Content
<1> QED
  BY <1>1 DEF Landed, Still, T, Exists

\* A call that is not the one that publishes keeps what it landed.
LEMMA KeepsLasting ==
  ASSUME LastInv, NEW c \in Calls, ofChange'[c] = ofChange[c],
         pc[c] # "idle" => Still(T(c)) \/ author'[T(c)] # c,
         pc'[c] \in Publishing => pc[c] \in Publishing,
         outcome'[c] = "SUCCESS" => /\ outcome[c] = "SUCCESS" \/ pc[c] \in Publishing
                                    /\ c \in durable' /\ pc'[c] = "done",
         c \in durable' => /\ c \in durable \/ \A p \in Paths : disk'[p] = dir'[p]
                           /\ pc'[c] \in {"verify", "done", "dead"}
  PROVE  LastingCall(c)'
<1>1. T(c)' = T(c)
  BY DEF T
<1>2. ASSUME pc[c] \in Publishing \/ outcome[c] = "SUCCESS", author'[T(c)] = c
      PROVE  Landed(c)'
  <2>1. pc[c] # "idle"
    BY <1>2 DEF LastInv, Lasting, LastingCall, Publishing
  <2>2. T(c) \in Paths
    BY <2>1, EditAssumption DEF LastInv, InodeInv, WholeInv, TypeInv, Underway, T
  <2>3. Still(T(c)) /\ author[T(c)] = c
    BY <1>2, <2>1 DEF Still
  <2>4. Landed(c)
    BY <1>2, <2>3 DEF LastInv, Lasting, LastingCall
  <2> QED
    BY <2>2, <2>3, <2>4, StaysLanded DEF LastInv
<1> QED
  BY <1>1, <1>2 DEF LastingCall

\* A step of one call.
LEMMA CallStepLasting ==
  ASSUME LastInv, NEW c \in Calls, CallStep(c)
  PROVE  Lasting'
<1> USE DEF LastInv, InodeInv, WholeInv
<1>1. ASSUME NEW d \in Calls, pc[d] # "idle", ~(d = c /\ Publish(c))
      PROVE  Still(T(d)) \/ author'[T(d)] # d
  <2>1. T(d) \in Paths
    BY <1>1, EditAssumption DEF TypeInv, Underway, T
  <2>2. CASE Publish(c) /\ T(d) = T(c)
    BY <1>1, <2>2, PublishLands
  <2>3. CASE ~(Publish(c) /\ T(d) = T(c))
    BY <2>1, <2>3, CallStepStill
  <2> QED
    BY <2>2, <2>3
<1>2. ASSUME NEW d \in Calls \ {c} PROVE LastingCall(d)'
  <2>1. /\ UNCHANGED ofChange /\ pc'[d] = pc[d] /\ outcome'[d] = outcome[d]
        /\ d \in durable' <=> d \in durable
    BY <1>2, CallFrame
  <2>2. /\ outcome[d] = "SUCCESS" => d \in durable /\ pc[d] = "done"
        /\ d \in durable => pc[d] \in {"verify", "done", "dead"}
    BY DEF Lasting, LastingCall
  <2> QED
    BY <1>1, <1>2, <2>1, <2>2, KeepsLasting
<1> SUFFICES LastingCall(c)'
  BY <1>2 DEF Lasting
<1>3. UNCHANGED ofChange
  BY CallFrame
<1>4. /\ outcome[c] = "SUCCESS" => c \in durable /\ pc[c] = "done"
      /\ c \in durable => pc[c] \in {"verify", "done", "dead"}
  BY DEF Lasting, LastingCall
<1>5. ASSUME UNCHANGED <<outcome, durable>>, pc'[c] \in Publishing => pc[c] \in Publishing,
             ~Publish(c), pc[c] \notin {"verify", "done", "dead"}
      PROVE  LastingCall(c)'
  BY <1>1, <1>3, <1>4, <1>5, KeepsLasting
<1>6. ASSUME NEW result \in Outcomes \ {"SUCCESS"}, Return(c, result), ~Publish(c)
      PROVE  LastingCall(c)'
  <2>1. pc'[c] = "done" /\ outcome'[c] = result /\ UNCHANGED durable
    BY <1>6 DEF Return, TypeInv, TypeOK
  <2> QED
    BY <1>1, <1>3, <1>4, <1>6, <2>1, KeepsLasting DEF Publishing
<1>7. ASSUME NEW step \in PCs \ Publishing, Goto(c, step), UNCHANGED durable, ~Publish(c),
             pc[c] \notin {"verify", "done", "dead"}
      PROVE  LastingCall(c)'
  <2>1. pc'[c] = step /\ UNCHANGED outcome
    BY <1>7 DEF Goto, TypeInv, TypeOK
  <2> QED
    BY <1>5, <1>7, <2>1
<1>8. CASE Publish(c)
  <2>1. c \notin durable' /\ outcome'[c] # "SUCCESS"
    BY <1>4, <1>8, PublishLands
  <2>2. Landed(c)'
    BY <1>8, <2>1, PublishLands DEF Landed, T
  <2> QED
    BY <2>1, <2>2 DEF LastingCall
<1>9. CASE Reload(c)
  <2>1. ~Publish(c)
    BY <1>9 DEF Reload, Publish, At
  <2>2. pc[c] = "reload" /\ pc'[c] \in {"done", "screen1"} /\ UNCHANGED durable
        /\ outcome'[c] \in {outcome[c], "REFUSED_PRECOMMIT"}
    BY <1>9 DEF Reload, At, Goto, TypeInv, TypeOK
  <2> QED
    BY <1>1, <1>3, <1>4, <2>1, <2>2, KeepsLasting DEF Publishing
<1>10. CASE Screen1(c) \/ Observe1(c) \/ Identify1(c)
  BY <1>6, <1>7, <1>10 DEF Screen1, Observe1, Identify1, Publish, At, Quiet, Refuse, Fail, Outcomes, PCs,
     Preparing, Candidate, Publishing
<1>11. CASE Open(c) \/ Write(c) \/ Sync(c)
  BY <1>7, <1>11 DEF Open, Write, Sync, Publish, At, CandidateStep, PCs, Candidate, Final, Publishing
<1>12. CASE CandidateFault(c)
  BY <1>6, <1>12 DEF CandidateFault, Candidate, Publish, At, Outcomes
<1>13. CASE Screen2(c) \/ Observe2(c) \/ Identify2(c)
  BY <1>6, <1>7, <1>13 DEF Screen2, Observe2, Identify2, Publish, At, Quiet, Abort, Outcomes, PCs, Final,
     Publishing
<1>14. CASE PublishFault(c)
  <2>1. CASE Publish(c)
    BY <1>8, <2>1
  <2> QED
    BY <1>6, <1>14, <2>1 DEF PublishFault, Abort, Outcomes
<1>15. CASE Drop(c)
  BY <1>5, <1>15 DEF Drop, Goto, At, Publish, Publishing, TypeInv, TypeOK
<1>16. CASE SyncDir(c)
  <2>1. pc[c] = "syncdir" /\ pc'[c] = "verify" /\ UNCHANGED outcome /\ ~Publish(c)
    BY <1>16 DEF SyncDir, At, Goto, Publish, TypeInv, TypeOK
  <2>2. c \in durable' => c \in durable \/ \A p \in Paths : disk'[p] = dir'[p]
    BY <1>16 DEF SyncDir, FsyncDirectory
  <2> QED
    BY <1>1, <1>3, <1>4, <2>1, <2>2, KeepsLasting DEF Publishing
<1>17. CASE Verify(c)
  <2>1. pc[c] = "verify" /\ pc'[c] = "done" /\ UNCHANGED durable /\ ~Publish(c)
    BY <1>17 DEF Verify, Return, At, Publish, TypeInv, TypeOK
  <2>2. outcome'[c] = "SUCCESS" => c \in durable
    BY <1>17 DEF Verify, Verified, Return, TypeInv, TypeOK
  <2> QED
    BY <1>1, <1>3, <1>4, <2>1, <2>2, KeepsLasting DEF Publishing
<1> QED
  BY <1>8, <1>9, <1>10, <1>11, <1>12, <1>13, <1>14, <1>15, <1>16, <1>17 DEF CallStep

\* A power cut gives a path its present file back, or an outsider's.
LEMMA PowerCutStill ==
  ASSUME InodeInv, PowerLoss, NEW p \in Paths
  PROVE  Still(p) \/ author'[p] = Outsider
<1> USE DEF InodeInv, WholeInv
<1>1. ASSUME dir'[p] = dir[p] PROVE Still(p)
  <2>1. author'[p] = author[p] /\ disk'[p] = dir[p]
    BY <1>1 DEF PowerLoss, PowerCut
  <2>2. Exists(p) => dir[p] \in synced
    BY DEF AllWhole, Whole
  <2>3. Exists(p) => data'[dir[p]] = data[dir[p]]
    BY <2>2 DEF PowerLoss, PowerCut, TypeInv, TypeOK, FsTypeOK
  <2> QED
    BY <1>1, <2>1, <2>3 DEF Still, Content
<1> QED
  BY <1>1 DEF PowerLoss

\* Every step leaves what has landed alone, or changes the author of its path.
LEMMA StepLastInv == LastInv /\ [Next]_vars => LastInv'
<1> SUFFICES ASSUME LastInv, [Next]_vars PROVE Lasting'
  BY StepInodeInv DEF LastInv
<1> USE DEF LastInv
<1>1. \A c \in Calls : /\ outcome[c] = "SUCCESS" => c \in durable /\ pc[c] = "done"
                       /\ c \in durable => pc[c] \in {"verify", "done", "dead"}
                       /\ pc[c] # "idle" => T(c) \in Paths
  BY EditAssumption DEF Lasting, LastingCall, InodeInv, WholeInv, TypeInv, Underway, T
<1>2. ASSUME NEW c \in Calls, UNCHANGED <<outcome, durable>>, ofChange'[c] = ofChange[c],
             pc'[c] = pc[c] \/ (pc'[c] = "dead" /\ Running(c)),
             \A p \in Paths : Still(p) \/ author'[p] # c
      PROVE  LastingCall(c)'
  BY <1>1, <1>2, KeepsLasting DEF Publishing, Running
<1>3. ASSUME UNCHANGED <<pc, ofChange, outcome, durable>>, \A p \in Paths : Still(p)
      PROVE  Lasting'
  BY <1>2, <1>3 DEF Lasting
<1>4. ASSUME UNCHANGED <<fsVars, author>>, NEW p \in Paths PROVE Still(p)
  BY <1>4 DEF Still, fsVars, Content
<1>5. ASSUME NEW ch \in Changes, Prepare(ch) PROVE Lasting'
  BY <1>3, <1>4, <1>5 DEF Prepare, callVars
<1>6. ASSUME NEW a \in Auths, NEW ch \in Changes, Authorize(a, ch) PROVE Lasting'
  BY <1>3, <1>4, <1>6 DEF Authorize, callVars
<1>7. ASSUME NEW c \in Calls, NEW a \in Auths, NEW ch \in Changes, Invoke(c, a, ch)
      PROVE  Lasting'
  <2>1. /\ UNCHANGED <<fsVars, author, durable>> /\ pc[c] = "idle" /\ pc'[c] \in {"done", "reload"}
        /\ outcome'[c] \in {outcome[c], "REFUSED_PRECOMMIT"}
        /\ \A d \in Calls \ {c} : /\ pc'[d] = pc[d] /\ ofChange'[d] = ofChange[d]
                                  /\ outcome'[d] = outcome[d]
    BY <1>7 DEF Invoke, At, InodeInv, WholeInv, TypeInv, TypeOK
  <2>2. outcome'[c] # "SUCCESS" /\ c \notin durable' /\ pc'[c] \notin Publishing
    BY <1>1, <2>1 DEF Publishing
  <2>3. LastingCall(c)'
    BY <2>2 DEF LastingCall
  <2>4. ASSUME NEW d \in Calls \ {c} PROVE LastingCall(d)'
    BY <1>1, <1>4, <2>1, <2>4, KeepsLasting
  <2> QED
    BY <2>3, <2>4 DEF Lasting
<1>8. ASSUME NEW p \in Paths, OutsideChange(p) PROVE Lasting'
  <2>1. UNCHANGED <<pc, ofChange, outcome, durable>>
    BY <1>8 DEF OutsideChange, requestAndCalls, callVars
  <2>2. author'[p] = Outsider
    BY <1>8 DEF OutsideChange, InodeInv, WholeInv, TypeInv, TypeOK
  <2>3. \A c \in Calls : \A q \in Paths : Still(q) \/ author'[q] # c
    BY <1>8, <2>2, OutsideStill, EditAssumption
  <2> QED
    BY <1>2, <2>1, <2>3 DEF Lasting
<1>9. ASSUME NEW p \in Paths, OutsideLink(p) PROVE Lasting'
  <2>1. UNCHANGED <<pc, ofChange, outcome, durable, author, disk, data>>
    BY <1>9 DEF OutsideLink, AddHardLink, requestAndCalls, callVars
  <2>2. \A q \in Paths : dir'[q] = dir[q]
    BY <1>9, FsAssumption DEF OutsideLink, AddHardLink, InodeInv, WholeInv, TypeInv, TypeOK, FsTypeOK,
       Names
  <2> QED
    BY <1>3, <2>1, <2>2 DEF Still, Content
<1>10. CASE Reconfigure
  BY <1>3, <1>4, <1>10 DEF Reconfigure, requestAndCalls, callVars
<1>11. CASE Crash \/ PowerLoss
  <2>1. /\ UNCHANGED <<ofChange, outcome, durable>>
        /\ \A c \in Calls : pc'[c] = pc[c] \/ (pc'[c] = "dead" /\ Running(c))
    BY <1>11 DEF Crash, PowerLoss, ProcessDies
  <2>2. \A c \in Calls : \A p \in Paths : Still(p) \/ author'[p] # c
    BY <1>4, <1>11, PowerCutStill, EditAssumption DEF Crash
  <2> QED
    BY <1>2, <2>1, <2>2 DEF Lasting
<1>12. CASE UNCHANGED vars
  BY <1>3, <1>4, <1>12 DEF vars, callVars
<1> QED
  BY <1>5, <1>6, <1>7, <1>8, <1>9, <1>10, <1>11, <1>12, CallStepLasting DEF Next

\* What a call reported as SUCCESS is at its target and on the disk, whatever
\* crashes, power cuts and calls for the same path follow, until somebody else
\* publishes there (the fsyncs and the final verification of replaceExistingFile
\* and createFile).
THEOREM SuccessIsDurable == Spec => []DurableSuccess
<1>1. LastInv => DurableSuccess
  <2> SUFFICES ASSUME LastInv, NEW c \in Calls, outcome[c] = "SUCCESS", author[T(c)] = c
               PROVE  /\ Exists(T(c)) /\ Content(T(c)) = After[ofChange[c]]
                      /\ disk[T(c)] = dir[T(c)] /\ dir[T(c)] \in synced
    BY DEF DurableSuccess
  <2>1. Landed(c) /\ c \in durable /\ pc[c] = "done"
    BY DEF LastInv, Lasting, LastingCall
  <2>2. T(c) \in Paths
    BY <2>1, EditAssumption DEF LastInv, InodeInv, WholeInv, TypeInv, Underway, T
  <2> QED
    BY <2>1, <2>2 DEF Landed, LastInv, InodeInv, WholeInv, AllWhole, Whole
<1> QED
  BY <1>1, InitLastInv, StepLastInv, PTL DEF Spec
------------------------------------------------------------------------------
(* Only a raced replacement destroys what it did not see.                   *)

\* The target of a call that looked at it for the last time is as it saw it,
\* as long as nobody else touched the path.
LookedCall(c) ==
  pc[c] \in {"identify2", "publish"} /\ Modifies(c) /\ c \notin raced =>
    /\ Exists(T(c)) /\ Content(T(c)) = before[ofChange[c]]
    /\ pc[c] = "publish" => dir[T(c)] = seen[c]

\* A call that runs works for a change that was prepared.
Looked == \A c \in Calls : /\ Running(c) => before[ofChange[c]] # None
                           /\ LookedCall(c)

LookInv == InodeInv /\ Looked

\* No call is running at first.
LEMMA InitLookInv == Init => LookInv
  BY InitInodeInv DEF LookInv, Looked, LookedCall, Running, Init

\* A call that stays at its last look stays undisturbed or is marked.
LEMMA StaysLooked ==
  ASSUME LookInv, NEW c \in Calls, pc'[c] = pc[c], ofChange'[c] = ofChange[c], seen'[c] = seen[c],
         raced \subseteq raced', before'[ofChange[c]] = before[ofChange[c]],
         pc[c] \in {"identify2", "publish"} => Still(T(c)) \/ c \in raced'
  PROVE  LookedCall(c)'
<1> SUFFICES ASSUME pc[c] \in {"identify2", "publish"}, Modifies(c)', c \notin raced'
             PROVE  /\ Exists(T(c))' /\ Content(T(c))' = before'[ofChange'[c]]
                    /\ pc'[c] = "publish" => dir'[T(c)'] = seen'[c]
  BY DEF LookedCall
<1>1. Still(T(c)) /\ T(c)' = T(c) /\ Modifies(c) /\ c \notin raced
  BY DEF T, Modifies
<1>2. Exists(T(c)) /\ Content(T(c)) = before[ofChange[c]] /\ (pc[c] = "publish" => dir[T(c)] = seen[c])
  BY <1>1 DEF LookInv, Looked, LookedCall
<1>3. Content(T(c))' = Content(T(c))
  BY <1>1, <1>2 DEF Still, Content
<1> QED
  BY <1>1, <1>2, <1>3 DEF Still, Exists

\* How a replacement gets to its last look and past it.
LEMMA LastLook ==
  ASSUME TypeInv, NEW c \in Calls, CallStep(c), Modifies(c), pc'[c] \in {"identify2", "publish"}
  PROVE  /\ UNCHANGED <<fsVars, seen, raced>>
         /\ \/ pc'[c] = "identify2" /\ AsPrepared(c)
            \/ pc[c] = "identify2" /\ pc'[c] = "publish" /\ dir[T(c)] = seen[c]
<1>1. ASSUME NEW step, Goto(c, step) PROVE pc'[c] = step
  BY <1>1 DEF Goto, TypeInv, TypeOK
<1>2. ASSUME NEW result, Return(c, result) PROVE FALSE
  BY <1>2 DEF Return, TypeInv, TypeOK
<1>3. CASE Reload(c)
  BY <1>3 DEF Reload, Goto, TypeInv, TypeOK
<1>4. CASE Screen1(c) \/ Observe1(c) \/ Identify1(c)
  BY <1>1, <1>2, <1>4 DEF Screen1, Observe1, Identify1, Refuse, Fail
<1>5. CASE Open(c) \/ Write(c) \/ Sync(c) \/ CandidateFault(c)
  BY <1>1, <1>2, <1>5 DEF Open, Write, Sync, CandidateFault
<1>6. CASE Screen2(c)
  BY <1>1, <1>2, <1>6 DEF Screen2, Abort
<1>7. CASE Observe2(c)
  BY <1>1, <1>2, <1>7 DEF Observe2, Abort, Quiet
<1>8. CASE Identify2(c)
  BY <1>1, <1>2, <1>8 DEF Identify2, Abort, Quiet, At
<1>9. CASE Publish(c) \/ PublishFault(c)
  BY <1>1, <1>2, <1>9 DEF Publish, PublishFault, Abort
<1>10. CASE Drop(c) \/ SyncDir(c) \/ Verify(c)
  BY <1>1, <1>2, <1>10 DEF Drop, SyncDir, Verify
<1> QED
  BY <1>3, <1>4, <1>5, <1>6, <1>7, <1>8, <1>9, <1>10 DEF CallStep

\* Only a call that has begun and not ended takes steps.
LEMMA StepperRuns ==
  ASSUME NEW c \in Calls, CallStep(c)
  PROVE  Running(c)
  BY DEF CallStep, Running, At, Candidate, Reload, Screen1, Observe1, Identify1, Open, Write, Sync,
     CandidateFault, Screen2, Observe2, Identify2, Publish, PublishFault, Drop, SyncDir, Verify

\* A step of one call: the others watching the path it publishes are marked.
LEMMA CallStepLooked ==
  ASSUME LookInv, NEW c \in Calls, CallStep(c)
  PROVE  Looked'
<1> USE DEF LookInv, InodeInv, WholeInv
<1>1. ASSUME NEW d \in Calls \ {c}
      PROVE  (Running(d) => before[ofChange[d]] # None)' /\ LookedCall(d)'
  <2>1. /\ UNCHANGED <<before, ofChange>> /\ pc'[d] = pc[d] /\ seen'[d] = seen[d]
        /\ raced \subseteq raced'
    BY <1>1, CallFrame
  <2>2. ASSUME pc[d] \in {"identify2", "publish"} PROVE Still(T(d)) \/ d \in raced'
    <3>1. T(d) \in Paths
      BY <2>2, EditAssumption DEF TypeInv, Underway, T
    <3>2. CASE Publish(c) /\ T(d) = T(c)
      BY <1>1, <2>2, <3>2 DEF Publish, Published, Watching
    <3>3. CASE ~(Publish(c) /\ T(d) = T(c))
      BY <3>1, <3>3, CallStepStill
    <3> QED
      BY <3>2, <3>3
  <2>3. LookedCall(d)'
    BY <1>1, <2>1, <2>2, StaysLooked
  <2> QED
    BY <1>1, <2>1, <2>3 DEF Looked, Running
<1>2. (Running(c) => before[ofChange[c]] # None)'
  BY CallFrame, StepperRuns DEF Looked
<1>3. LookedCall(c)'
  <2> SUFFICES ASSUME pc'[c] \in {"identify2", "publish"}, Modifies(c)', c \notin raced'
               PROVE  /\ Exists(T(c))' /\ Content(T(c))' = before'[ofChange'[c]]
                      /\ pc'[c] = "publish" => dir'[T(c)'] = seen'[c]
    BY DEF LookedCall
  <2>1. UNCHANGED <<before, ofChange>> /\ Modifies(c) /\ T(c)' = T(c)
    BY CallFrame DEF Modifies, T
  <2>2. /\ UNCHANGED <<dir, data, seen, raced>>
        /\ \/ pc'[c] = "identify2" /\ AsPrepared(c)
           \/ pc[c] = "identify2" /\ pc'[c] = "publish" /\ dir[T(c)] = seen[c]
    BY <2>1, LastLook DEF fsVars
  <2>3. Exists(T(c)) /\ Content(T(c)) = before[ofChange[c]]
    BY <2>1, <2>2 DEF AsPrepared, Looked, LookedCall
  <2> QED
    BY <2>1, <2>2, <2>3 DEF Exists, Content
<1> QED
  BY <1>1, <1>2, <1>3 DEF Looked

\* Every step leaves what a call has looked at alone, or marks the call raced.
LEMMA StepLookInv == LookInv /\ [Next]_vars => LookInv'
<1> SUFFICES ASSUME LookInv, [Next]_vars PROVE Looked'
  BY StepInodeInv DEF LookInv
<1> USE DEF LookInv
<1>1. \A c \in Calls : pc[c] \in {"identify2", "publish"} => Running(c) /\ T(c) \in Paths
  BY EditAssumption DEF InodeInv, WholeInv, TypeInv, Underway, T, Running
<1>2. ASSUME NEW c \in Calls, pc'[c] = pc[c], ofChange'[c] = ofChange[c], seen'[c] = seen[c],
             raced \subseteq raced', Running(c) => before'[ofChange[c]] = before[ofChange[c]],
             pc[c] \in {"identify2", "publish"} => Still(T(c)) \/ c \in raced'
      PROVE  (Running(c) => before[ofChange[c]] # None)' /\ LookedCall(c)'
  <2>1. CASE Running(c)
    BY <1>2, <2>1, StaysLooked DEF Looked, Running
  <2>2. CASE ~Running(c)
    BY <1>2, <2>2 DEF LookedCall, Running
  <2> QED
    BY <2>1, <2>2
<1>3. ASSUME UNCHANGED <<fsVars, author>>, NEW p \in Paths PROVE Still(p)
  BY <1>3 DEF Still, fsVars, Content
<1>4. ASSUME UNCHANGED <<fsVars, author, before, pc, ofChange, seen, raced>> PROVE Looked'
  BY <1>1, <1>2, <1>3, <1>4 DEF Looked
<1>5. ASSUME NEW ch \in Changes, Prepare(ch) PROVE Looked'
  <2>1. UNCHANGED <<fsVars, author, pc, ofChange, seen, raced>>
    BY <1>5 DEF Prepare, callVars
  <2>2. \A c \in Calls : Running(c) => before'[ofChange[c]] = before[ofChange[c]]
    <3>1. \A c \in Calls : Running(c) => ofChange[c] \in Changes \ {ch}
      BY <1>5 DEF Prepare, Looked, Running, InodeInv, WholeInv, TypeInv, Underway
    <3> QED
      BY <1>5, <3>1 DEF Prepare, InodeInv, WholeInv, TypeInv, TypeOK
  <2> QED
    BY <1>1, <1>2, <1>3, <2>1, <2>2 DEF Looked
<1>6. ASSUME NEW a \in Auths, NEW ch \in Changes, Authorize(a, ch) PROVE Looked'
  BY <1>4, <1>6 DEF Authorize, callVars
<1>7. ASSUME NEW c \in Calls, NEW a \in Auths, NEW ch \in Changes, Invoke(c, a, ch)
      PROVE  Looked'
  <2>1. /\ UNCHANGED <<fsVars, author, before, seen, raced>> /\ pc'[c] \in {"done", "reload"}
        /\ ofChange'[c] = ch /\ before[ch] # None
        /\ \A d \in Calls \ {c} : pc'[d] = pc[d] /\ ofChange'[d] = ofChange[d]
    BY <1>7 DEF Invoke, InodeInv, WholeInv, TypeInv, TypeOK
  <2>2. (Running(c) => before[ofChange[c]] # None)' /\ LookedCall(c)'
    BY <2>1 DEF LookedCall
  <2>3. ASSUME NEW d \in Calls \ {c}
        PROVE (Running(d) => before[ofChange[d]] # None)' /\ LookedCall(d)'
    BY <1>1, <1>2, <1>3, <2>1, <2>3
  <2> QED
    BY <2>2, <2>3 DEF Looked
<1>8. ASSUME NEW p \in Paths, OutsideChange(p) PROVE Looked'
  <2>1. UNCHANGED <<before, pc, ofChange, seen>> /\ raced' = raced \cup Watching(p)
    BY <1>8 DEF OutsideChange, requestAndCalls, callVars
  <2>2. \A c \in Calls : pc[c] \in {"identify2", "publish"} => Still(T(c)) \/ c \in raced'
    BY <1>1, <1>8, <2>1, OutsideStill DEF Watching
  <2> QED
    BY <1>2, <2>1, <2>2 DEF Looked
<1>9. ASSUME NEW p \in Paths, OutsideLink(p) PROVE Looked'
  <2>1. UNCHANGED <<before, pc, ofChange, seen, raced, author, disk, data>>
    BY <1>9 DEF OutsideLink, AddHardLink, requestAndCalls, callVars
  <2>2. \A q \in Paths : dir'[q] = dir[q]
    BY <1>9, FsAssumption DEF OutsideLink, AddHardLink, InodeInv, WholeInv, TypeInv, TypeOK, FsTypeOK,
       Names
  <2>3. \A q \in Paths : Still(q)
    BY <2>1, <2>2 DEF Still, Content
  <2> QED
    BY <1>1, <1>2, <2>1, <2>3 DEF Looked
<1>10. CASE Reconfigure
  BY <1>4, <1>10 DEF Reconfigure, requestAndCalls, callVars
<1>11. CASE Crash \/ PowerLoss
  <2>1. \A c \in Calls : ~Running(c)'
    BY <1>11 DEF Crash, PowerLoss, ProcessDies, Running
  <2> QED
    BY <2>1 DEF Looked, LookedCall, Running
<1>12. CASE UNCHANGED vars
  BY <1>4, <1>12 DEF vars, callVars
<1> QED
  BY <1>5, <1>6, <1>7, <1>8, <1>9, <1>10, <1>11, <1>12, CallStepLooked DEF Next

\* What the step of a call that publishes finds at the target.
LEMMA PublishFinds ==
  ASSUME LookInv, NEW c \in Calls, Publish(c)
  PROVE  IF Modifies(c)
         THEN pc'[c] = "syncdir" /\ c \notin raced
                => Content(T(c)) = before[ofChange[c]] /\ dir[T(c)] = seen[c]
         ELSE ~Exists(T(c))
  BY DEF LookInv, Looked, LookedCall, Publish, At, LinkNoOverwrite, Exists

\* A rename destroys only the bytes the replacement was prepared against, in
\* the very file it captured, unless somebody changed the target after its last
\* look; a creation never replaces a file (the two looks around the candidate
\* in replaceExistingFile, linkNoOverwrite in createFile).
THEOREM NoBlindOverwriteAlways == Spec => NoBlindOverwrite
<1>1. ASSUME LookInv, [Next]_vars, NEW c \in Calls, At(c, "publish"), pc'[c] \in Publishing
      PROVE  Publish(c)
  <2> USE DEF LookInv, InodeInv, WholeInv
  <2>1. pc'[c] # pc[c] /\ pc'[c] \notin {"done", "dead", "reload"}
    BY <1>1 DEF At, Publishing
  <2>2. PICK d \in Calls : CallStep(d)
    <3>1. ASSUME NEW e \in Calls, NEW a \in Auths, NEW ch \in Changes, Invoke(e, a, ch)
          PROVE  pc'[c] \in {pc[c], "done", "reload"}
      BY <1>1, <3>1 DEF Invoke, TypeInv, TypeOK
    <3> QED
      BY <1>1, <2>1, <3>1 DEF Next, Prepare, Authorize, OutsideChange, OutsideLink, Reconfigure, Crash,
         PowerLoss, ProcessDies, requestAndCalls, callVars, vars
  <2>3. d = c
    BY <1>1, <2>1, <2>2, CallFrame
  <2>4. ASSUME NEW result, Return(c, result) PROVE FALSE
    BY <2>1, <2>4 DEF Return, TypeInv, TypeOK
  <2>5. ~PublishFault(c) /\ ~CandidateFault(c)
    BY <2>4 DEF PublishFault, CandidateFault, Abort
  <2> QED
    BY <1>1, <2>2, <2>3, <2>5 DEF CallStep, At, Reload, Screen1, Observe1, Identify1, Open, Write, Sync,
       Screen2, Observe2, Identify2, Drop, SyncDir, Verify
<1>2. LookInv /\ [Next]_vars =>
        [\A c \in Calls : At(c, "publish") /\ pc'[c] \in Publishing =>
           IF Modifies(c)
           THEN pc'[c] = "syncdir" /\ c \notin raced
                  => Content(T(c)) = before[ofChange[c]] /\ dir[T(c)] = seen[c]
           ELSE ~Exists(T(c))]_vars
  BY <1>1, PublishFinds
<1> QED
  BY <1>2, InitLookInv, StepLookInv, PTL DEF Spec, NoBlindOverwrite
------------------------------------------------------------------------------
(* SafeEdit implements EditContract.                                        *)

\* A call that has ended has an outcome.
Ended == \A c \in Calls : pc[c] = "done" => outcome[c] \in Outcomes

RefInv == LastInv /\ Ended

Working == Preparing \cup Candidate \cup Final

\* No call has ended at first.
LEMMA InitRefInv == Init => RefInv
  BY InitLastInv DEF RefInv, Ended, Init

\* The moves of one call between the standings of the contract.
LEMMA CallMove ==
  ASSUME TypeInv, NEW c \in Calls, CallStep(c)
  PROVE  \/ /\ pc[c] \in Working /\ ~Publish(c) /\ ~SyncDir(c)
            /\ \/ pc'[c] \in Working
               \/ pc'[c] = "done" /\ outcome'[c] \in {"REFUSED_PRECOMMIT", "FAILED_PRECOMMIT"}
         \/ Publish(c) /\ pc[c] = "publish" /\ pc'[c] \in {"drop", "syncdir"}
         \/ Drop(c) /\ pc[c] = "drop" /\ pc'[c] = "syncdir"
         \/ SyncDir(c) /\ pc[c] = "syncdir" /\ pc'[c] = "verify"
         \/ Verify(c) /\ pc[c] = "verify" /\ pc'[c] = "done" /\ UNCHANGED durable
<1>1. ASSUME NEW step, Goto(c, step) PROVE pc'[c] = step
  BY <1>1 DEF Goto, TypeInv, TypeOK
<1>2. ASSUME NEW result, Return(c, result) PROVE pc'[c] = "done" /\ outcome'[c] = result
  BY <1>2 DEF Return, TypeInv, TypeOK
<1>3. CASE Reload(c)
  BY <1>3 DEF Reload, Goto, At, Publish, SyncDir, Working, Preparing, TypeInv, TypeOK
<1>4. CASE Screen1(c) \/ Observe1(c) \/ Identify1(c)
  BY <1>1, <1>2, <1>4 DEF Screen1, Observe1, Identify1, Refuse, Fail, At, Publish, SyncDir, Working,
     Preparing, Candidate
<1>5. CASE Open(c) \/ Write(c) \/ Sync(c) \/ CandidateFault(c)
  BY <1>1, <1>2, <1>5 DEF Open, Write, Sync, CandidateFault, At, Publish, SyncDir, Working, Candidate,
     Final
<1>6. CASE Screen2(c) \/ Observe2(c) \/ Identify2(c)
  BY <1>1, <1>2, <1>6 DEF Screen2, Observe2, Identify2, Abort, At, Publish, SyncDir, Working, Final
<1>7. CASE Publish(c)
  BY <1>1, <1>7 DEF Publish, At
<1>8. CASE PublishFault(c)
  <2>1. pc[c] = "publish" /\ pc'[c] = "done" /\ outcome'[c] \in {"REFUSED_PRECOMMIT", "FAILED_PRECOMMIT"}
    BY <1>2, <1>8 DEF PublishFault, Abort, At
  <2>2. ~Publish(c) /\ ~SyncDir(c)
    BY <1>1, <2>1 DEF Publish, SyncDir, At
  <2> QED
    BY <2>1, <2>2 DEF Working, Final
<1>9. CASE Drop(c)
  BY <1>1, <1>9 DEF Drop, At
<1>10. CASE SyncDir(c)
  BY <1>1, <1>10 DEF SyncDir, At
<1>11. CASE Verify(c)
  BY <1>2, <1>11 DEF Verify, Return, At
<1> QED
  BY <1>3, <1>4, <1>5, <1>6, <1>7, <1>8, <1>9, <1>10, <1>11 DEF CallStep

\* Every call that ends is given an outcome.
LEMMA StepRefInv == RefInv /\ [Next]_vars => RefInv'
<1> SUFFICES ASSUME RefInv, [Next]_vars PROVE Ended'
  BY StepLastInv DEF RefInv
<1> USE DEF RefInv, LastInv, InodeInv, WholeInv
<1>1. ASSUME UNCHANGED outcome, \A c \in Calls : pc'[c] \in {pc[c], "dead"} PROVE Ended'
  BY <1>1 DEF Ended
<1>2. ASSUME NEW c \in Calls, CallStep(c) PROVE Ended'
  <2>1. ASSUME pc'[c] = "done" PROVE outcome'[c] \in Outcomes
    BY <1>2, <2>1, CallMove DEF Verify, Return, Outcomes, Working, Preparing, Candidate, Final, TypeInv,
       TypeOK
  <2>2. \A d \in Calls \ {c} : pc'[d] = pc[d] /\ outcome'[d] = outcome[d]
    BY <1>2, CallFrame
  <2> QED
    BY <2>1, <2>2 DEF Ended
<1>3. ASSUME NEW c \in Calls, NEW a \in Auths, NEW ch \in Changes, Invoke(c, a, ch) PROVE Ended'
  BY <1>3 DEF Invoke, At, Ended, Outcomes, TypeInv, TypeOK
<1>4. CASE UNCHANGED <<pc, outcome>> \/ Crash \/ PowerLoss
  BY <1>1, <1>4 DEF Crash, PowerLoss, ProcessDies
<1> QED
  BY <1>2, <1>3, <1>4 DEF Next, Prepare, Authorize, OutsideChange, OutsideLink, Reconfigure,
     requestAndCalls, callVars, vars

\* What a path shows, and would show after a power cut, is complete.
LEMMA ShownBytes ==
  ASSUME RefInv
  PROVE  /\ FileOf(dir) \in [Paths -> Bytes \cup {Absent}]
         /\ FileOf(disk) \in [Paths -> Bytes \cup {Absent}]
  BY DEF RefInv, LastInv, InodeInv, WholeInv, AllWhole, Whole, FileOf, Exists

\* Only publication changes what paths show.
LEMMA CallShows ==
  ASSUME RefInv, NEW c \in Calls, CallStep(c)
  PROVE  FileOf(dir)' = IF Publish(c) THEN [FileOf(dir) EXCEPT ![T(c)] = After[ofChange[c]]]
                                      ELSE FileOf(dir)
<1> USE DEF RefInv, LastInv
<1>1. ASSUME NEW p \in Paths, ~(Publish(c) /\ p = T(c))
      PROVE  FileOf(dir)'[p] = FileOf(dir)[p]
  <2>1. Still(p)
    BY <1>1, CallStepStill
  <2> QED
    BY <2>1 DEF Still, FileOf, Exists, Content
<1>2. CASE Publish(c)
  <2>1. T(c) \in Paths /\ FileOf(dir)'[T(c)] = After[ofChange[c]]
    BY <1>2, PublishLands DEF FileOf, Exists, Content, T
  <2> QED
    BY <1>1, <1>2, <2>1 DEF FileOf
<1>3. CASE ~Publish(c)
  BY <1>1, <1>3 DEF FileOf
<1> QED
  BY <1>2, <1>3

\* Only a directory fsync changes what a power cut would leave.
LEMMA CallSaves ==
  ASSUME RefInv, NEW c \in Calls, CallStep(c)
  PROVE  /\ c \in durable' /\ SyncDir(c) /\ c \notin durable => FileOf(disk)' = FileOf(dir)
         /\ SyncDir(c) => c \in durable' \/ FileOf(disk)' = FileOf(disk)
         /\ ~SyncDir(c) => FileOf(disk)' = FileOf(disk)
<1> USE DEF RefInv, LastInv, InodeInv, WholeInv
<1>1. ASSUME UNCHANGED <<disk, data>> PROVE FileOf(disk)' = FileOf(disk)
  BY <1>1 DEF FileOf
<1>2. ASSUME Unlink(c) \/ UNCHANGED fsVars PROVE UNCHANGED <<disk, data>>
  BY <1>2 DEF Unlink, fsVars
<1>3. CASE SyncDir(c)
  BY <1>3 DEF SyncDir, FsyncDirectory, FileOf, fsVars
<1>4. CASE Open(c)
  <2>1. PICK j \in Inodes : OpenExclusive(c, j)
    BY <1>4 DEF Open
  <2>2. UNCHANGED disk /\ \A p \in Paths : disk[p] # Absent => data'[disk[p]] = data[disk[p]]
    BY <2>1 DEF OpenExclusive, Free, TypeInv, TypeOK, FsTypeOK, Entries
  <2> QED
    BY <1>4, <2>2 DEF FileOf, Open, SyncDir, At
<1>5. CASE Write(c)
  <2>1. Holder(c) /\ \A p \in Paths : disk[p] # dir[c]
    BY <1>5 DEF Write, At, Holder, Apart, Leads
  <2>2. UNCHANGED disk /\ \A p \in Paths : disk[p] # Absent => data'[disk[p]] = data[disk[p]]
    BY <1>5, <2>1 DEF Write, WriteAll, TypeInv, TypeOK, FsTypeOK, Entries
  <2> QED
    BY <1>5, <2>2 DEF FileOf, Write, SyncDir, At
<1>6. CASE Reload(c) \/ Screen1(c) \/ Observe1(c) \/ Identify1(c)
  BY <1>1, <1>2, <1>6 DEF Reload, Screen1, Observe1, Identify1, Quiet, Refuse, Fail, SyncDir, At, fsVars
<1>7. CASE Sync(c) \/ CandidateFault(c) \/ Drop(c) \/ Verify(c)
  BY <1>1, <1>2, <1>7 DEF Sync, FsyncFile, CandidateFault, Candidate, Drop, Verify, SyncDir, At, fsVars
<1>8. CASE Screen2(c) \/ Observe2(c) \/ Identify2(c) \/ PublishFault(c)
  BY <1>1, <1>2, <1>8 DEF Screen2, Observe2, Identify2, PublishFault, Quiet, Abort, SyncDir, At, fsVars
<1>9. CASE Publish(c)
  BY <1>1, <1>9 DEF Publish, RenameOver, LinkNoOverwrite, SyncDir, At
<1> QED
  BY <1>3, <1>4, <1>5, <1>6, <1>7, <1>8, <1>9 DEF CallStep

\* How far a call is, by its step.
LEMMA StandingOf ==
  ASSUME NEW c \in Calls
  PROVE  /\ pc[c] \in Working => Standing(c) = "working"
         /\ pc[c] \in {"drop", "syncdir"} => Standing(c) = "published"
         /\ pc[c] = "verify" => Standing(c) = IF c \in durable THEN "settled" ELSE "published"
         /\ pc[c] = "done" => Standing(c) = outcome[c]
         /\ pc[c] = "idle" => Standing(c) = "idle"
         /\ pc[c] = "dead" => Standing(c) = "dead"
  BY DEF Standing, Working, Preparing, Candidate, Final

\* The same after a step.
LEMMA StandingAfter ==
  ASSUME NEW c \in Calls
  PROVE  /\ pc'[c] \in Working => Standing(c)' = "working"
         /\ pc'[c] \in {"drop", "syncdir"} => Standing(c)' = "published"
         /\ pc'[c] = "verify" => Standing(c)' = IF c \in durable' THEN "settled" ELSE "published"
         /\ pc'[c] = "done" => Standing(c)' = outcome'[c]
         /\ pc'[c] = "idle" => Standing(c)' = "idle"
         /\ pc'[c] = "dead" => Standing(c)' = "dead"
  BY DEF Standing, Working, Preparing, Candidate, Final

\* A call whose step, outcome and durability stay has the same standing.
LEMMA StandingKept ==
  ASSUME NEW c \in Calls, pc'[c] = pc[c], outcome'[c] = outcome[c],
         c \in durable' <=> c \in durable
  PROVE  Standing(c)' = Standing(c)
  BY DEF Standing

Standings == [c \in Calls |-> Standing(c)]

\* A step that moves one call.
LEMMA MovesOne ==
  ASSUME NEW c \in Calls, NEW s, Standing(c)' = s,
         \A d \in Calls \ {c} : pc'[d] = pc[d] /\ outcome'[d] = outcome[d]
                                /\ (d \in durable' <=> d \in durable)
  PROVE  Standings' = [Standings EXCEPT ![c] = s]
<1>1. ASSUME NEW d \in Calls \ {c} PROVE Standings'[d] = Standings[d]
  <2>1. Standing(d)' = Standing(d)
    BY <1>1, StandingKept
  <2> QED
    BY <2>1 DEF Standings
<1>2. Standings'[c] = s
  BY DEF Standings
<1> QED
  BY <1>1, <1>2 DEF Standings

\* A step that moves none.
LEMMA MovesNone ==
  ASSUME UNCHANGED <<pc, outcome, durable>>
  PROVE  Standings' = Standings
  BY DEF Standings, Standing

\* A step the contract does not see.
LEMMA Unseen ==
  ASSUME UNCHANGED <<FileOf(dir), FileOf(disk), ofChange, Standings>>
  PROVE  UNCHANGED Contract!vars
  BY DEF Contract!vars, Standings, Calls

\* The states SafeEdit starts in are states the contract starts in.
LEMMA InitContract == Init => Contract!Init
<1> SUFFICES ASSUME Init PROVE Contract!Init
  OBVIOUS
<1>1. FileOf(dir) \in [Paths -> Bytes \cup {Absent}] /\ FileOf(disk) \in [Paths -> Bytes \cup {Absent}]
  BY InitRefInv, ShownBytes
<1>2. \A p \in Paths : disk[p] = dir[p]
  BY DEF Init, FsInit, Names
<1>3. FileOf(disk) = FileOf(dir)
  BY <1>2 DEF FileOf
<1>4. [c \in Calls |-> Standing(c)] = [c \in Calls |-> "idle"]
  BY StandingOf DEF Init
<1> QED
  BY <1>1, <1>3, <1>4 DEF Contract!Init, Contract!Contents, Init, Calls

\* A step of one call is a step of the contract, or none.
LEMMA CallStepContract ==
  ASSUME RefInv, NEW c \in Calls, CallStep(c)
  PROVE  Contract!Next \/ UNCHANGED Contract!vars
<1> USE DEF RefInv, LastInv, InodeInv, WholeInv
<1>1. UNCHANGED ofChange
      /\ \A d \in Calls \ {c} : pc'[d] = pc[d] /\ outcome'[d] = outcome[d]
                                /\ (d \in durable' <=> d \in durable)
  BY CallFrame
<1>2. c \in durable => pc[c] \in {"verify", "done", "dead"}
  BY DEF Lasting, LastingCall
<1>3. ASSUME NEW s, Standing(c)' = s PROVE Contract!Becomes(c, s)
  BY <1>1, <1>3, MovesOne DEF Contract!Becomes, Standings, Calls
<1>4. ASSUME Standing(c)' = Standing(c), FileOf(dir)' = FileOf(dir), FileOf(disk)' = FileOf(disk)
      PROVE  UNCHANGED Contract!vars
  BY <1>1, <1>4, MovesOne, Unseen DEF Standings
<1>5. CASE pc[c] \in Working /\ ~Publish(c) /\ ~SyncDir(c)
  <2>1. FileOf(dir)' = FileOf(dir) /\ FileOf(disk)' = FileOf(disk) /\ Standing(c) = "working"
    BY <1>5, CallShows, CallSaves, StandingOf
  <2>2. CASE pc'[c] \in Working
    BY <1>4, <2>1, <2>2, StandingAfter
  <2>3. CASE pc'[c] = "done" /\ outcome'[c] \in {"REFUSED_PRECOMMIT", "FAILED_PRECOMMIT"}
    <3>1. Contract!Becomes(c, "REFUSED_PRECOMMIT") \/ Contract!Becomes(c, "FAILED_PRECOMMIT")
      BY <1>3, <2>3, StandingAfter
    <3>2. Contract!End(c)
      BY <1>1, <2>1, <3>1 DEF Contract!End, Calls
    <3> QED
      BY <3>2 DEF Contract!Next, Calls
  <2> QED
    BY <1>5, <2>2, <2>3, CallMove DEF Publish, Drop, SyncDir, Verify, At, Working, Preparing, Candidate,
       Final
<1>6. CASE Publish(c)
  <2>1. pc[c] = "publish" /\ pc'[c] \in {"drop", "syncdir"} /\ ~SyncDir(c)
    BY <1>6, PublishLands DEF SyncDir, At
  <2>2. FileOf(dir)' = [FileOf(dir) EXCEPT ![T(c)] = After[ofChange[c]]] /\ FileOf(disk)' = FileOf(disk)
    BY <1>6, <2>1, CallShows, CallSaves
  <2>3. Standing(c) = "working" /\ Standing(c)' = "published"
    BY <2>1, StandingOf, StandingAfter DEF Working, Final
  <2>4. Action[ofChange[c]] = "create" => FileOf(dir)[T(c)] = Absent
    BY <1>6, PublishLands DEF Publish, Modifies, LinkNoOverwrite, FileOf
  <2>5. Contract!Publish(c)
    BY <1>1, <1>3, <2>2, <2>3, <2>4 DEF Contract!Publish, T, Calls
  <2> QED
    BY <2>5 DEF Contract!Next, Calls
<1>7. CASE Drop(c) /\ pc[c] = "drop" /\ pc'[c] = "syncdir"
  <2>1. ~Publish(c) /\ ~SyncDir(c)
    BY <1>7 DEF Publish, SyncDir, At
  <2> QED
    BY <1>4, <1>7, <2>1, CallShows, CallSaves, StandingOf, StandingAfter
<1>8. CASE SyncDir(c) /\ pc[c] = "syncdir" /\ pc'[c] = "verify"
  <2>1. c \notin durable /\ FileOf(dir)' = FileOf(dir) /\ Standing(c) = "published"
    BY <1>2, <1>8, CallShows, StandingOf DEF Publish, At
  <2>2. CASE c \in durable'
    <3>1. FileOf(disk)' = FileOf(dir) /\ Standing(c)' = "settled"
      BY <1>8, <2>1, <2>2, CallSaves, StandingAfter
    <3>2. Contract!Settle(c)
      BY <1>1, <1>3, <2>1, <3>1 DEF Contract!Settle, Calls
    <3> QED
      BY <3>2 DEF Contract!Next, Calls
  <2>3. CASE c \notin durable'
    BY <1>4, <1>8, <2>1, <2>3, CallSaves, StandingAfter
  <2> QED
    BY <2>2, <2>3
<1>9. CASE Verify(c) /\ pc[c] = "verify" /\ pc'[c] = "done" /\ UNCHANGED durable
  <2>1. ~Publish(c) /\ ~SyncDir(c)
    BY <1>9 DEF Publish, SyncDir, At
  <2>2. FileOf(dir)' = FileOf(dir) /\ FileOf(disk)' = FileOf(disk)
    BY <2>1, CallShows, CallSaves
  <2>3. Standing(c) = (IF c \in durable THEN "settled" ELSE "published") /\ Standing(c)' = outcome'[c]
    BY <1>9, StandingOf, StandingAfter
  <2>4. \/ outcome'[c] = "COMMITTED_FAILURE"
        \/ outcome'[c] = "SUCCESS" /\ c \in durable /\ Exists(T(c)) /\ Content(T(c)) = After[ofChange[c]]
    BY <1>9 DEF Verify, Verified, Return, TypeInv, TypeOK
  <2>5. T(c) \in Paths
    BY <1>9, EditAssumption DEF T, TypeInv, Underway
  <2>6. Contract!End(c)
    BY <1>1, <1>3, <2>2, <2>3, <2>4, <2>5 DEF Contract!End, FileOf, Exists, Content, T, Calls
  <2> QED
    BY <2>6 DEF Contract!Next, Calls
<1> QED
  BY <1>5, <1>6, <1>7, <1>8, <1>9, CallMove

\* Another program's change of a path is one step of the contract.
LEMMA OutsideContract ==
  ASSUME RefInv, NEW p \in Paths, OutsideChange(p)
  PROVE  Contract!Next
<1> USE DEF RefInv, LastInv, InodeInv, WholeInv
<1>1. UNCHANGED <<ofChange, pc, outcome, durable>>
  BY DEF OutsideChange, requestAndCalls, callVars
<1>2. ASSUME NEW q \in Paths \ {p} PROVE FileOf(dir)'[q] = FileOf(dir)[q]
  <2>1. Still(q)
    BY OutsideStill
  <2> QED
    BY <2>1 DEF Still, FileOf, Exists, Content
<1>3. p \in Names /\ \A q \in Paths : disk[q] # Absent => disk[q] \in Inodes
  BY DEF Names, TypeInv, TypeOK, FsTypeOK, Entries
<1>4. ASSUME NEW b \in Bytes \cup {Absent}, FileOf(dir)'[p] = b, FileOf(disk)'[p] = b,
             \A q \in Paths \ {p} : FileOf(disk)'[q] = FileOf(disk)[q]
      PROVE  Contract!Next
  <2>1. FileOf(dir)' = [FileOf(dir) EXCEPT ![p] = b] /\ FileOf(disk)' = [FileOf(disk) EXCEPT ![p] = b]
    <3>1. FileOf(dir)' = [FileOf(dir) EXCEPT ![p] = b]
      <4>1. \A q \in Paths : FileOf(dir)'[q] = IF q = p THEN b ELSE FileOf(dir)[q]
        BY <1>2, <1>4
      <4> QED
        BY <4>1 DEF FileOf
    <3>2. FileOf(disk)' = [FileOf(disk) EXCEPT ![p] = b]
      <4>1. \A q \in Paths : FileOf(disk)'[q] = IF q = p THEN b ELSE FileOf(disk)[q]
        BY <1>4
      <4> QED
        BY <4>1 DEF FileOf
    <3> QED
      BY <3>1, <3>2
  <2>2. Contract!Outside(p, b)
    BY <1>1, <2>1, MovesNone DEF Contract!Outside, Standings, Calls
  <2> QED
    BY <2>2 DEF Contract!Next, Contract!Contents
<1>5. ASSUME NEW b \in Bytes, OverwriteInPlace(p, b) PROVE Contract!Next
  <2>1. /\ dir'[p] = dir[p] /\ disk'[p] = dir[p] /\ dir[p] \in Inodes /\ data'[dir[p]] = b
        /\ \A q \in Paths \ {p} : disk'[q] = disk[q]
        /\ \A i \in Inodes : i # dir[p] => data'[i] = data[i]
    BY <1>3, <1>5 DEF OverwriteInPlace, Exists, TypeInv, TypeOK, FsTypeOK, Entries
  <2>2. \A q \in Paths \ {p} : disk[q] # dir[p]
    BY <2>1 DEF Apart, Leads
  <2>3. \A q \in Paths \ {p} : FileOf(disk)'[q] = FileOf(disk)[q]
    BY <1>3, <2>1, <2>2 DEF FileOf
  <2>4. FileOf(dir)'[p] = b /\ FileOf(disk)'[p] = b
    BY <2>1, FsAssumption DEF FileOf
  <2> QED
    BY <1>4, <2>3, <2>4
<1>6. ASSUME NEW b \in Bytes, NEW i \in Inodes, SaveAsNewFile(p, b, i) PROVE Contract!Next
  <2>1. /\ dir'[p] = i /\ disk'[p] = i /\ data'[i] = b
        /\ \A q \in Paths \ {p} : disk'[q] = disk[q] /\ disk[q] # i
        /\ \A j \in Inodes : j # i => data'[j] = data[j]
    BY <1>3, <1>6 DEF SaveAsNewFile, Free, TypeInv, TypeOK, FsTypeOK
  <2>2. \A q \in Paths \ {p} : FileOf(disk)'[q] = FileOf(disk)[q]
    BY <1>3, <2>1 DEF FileOf
  <2>3. FileOf(dir)'[p] = b /\ FileOf(disk)'[p] = b
    BY <2>1, FsAssumption DEF FileOf
  <2> QED
    BY <1>4, <2>2, <2>3
<1>7. CASE Remove(p)
  <2>1. /\ dir'[p] = Absent /\ disk'[p] = Absent /\ UNCHANGED data
        /\ \A q \in Paths \ {p} : disk'[q] = disk[q]
    BY <1>3, <1>7 DEF Remove, TypeInv, TypeOK, FsTypeOK
  <2> QED
    BY <1>4, <2>1 DEF FileOf
<1> QED
  BY <1>5, <1>6, <1>7 DEF OutsideChange

\* A crash, and what a power cut takes back.
LEMMA CrashContract ==
  ASSUME RefInv, Crash \/ PowerLoss
  PROVE  Contract!Next
<1> USE DEF RefInv, LastInv, InodeInv, WholeInv
<1>1. UNCHANGED <<ofChange, outcome, durable>>
      /\ \A c \in Calls : pc'[c] = IF Running(c) THEN "dead" ELSE pc[c]
  BY DEF Crash, PowerLoss, ProcessDies
<1>2. ASSUME NEW c \in Calls
      PROVE  Standing(c)' = IF Standing(c) \in {"working", "published", "settled"} THEN "dead"
                                                                                  ELSE Standing(c)
  <2>1. CASE Running(c)
    <3>1. pc[c] \in Working \/ pc[c] \in {"drop", "syncdir", "verify"}
      BY <2>1 DEF Running, Working, TypeInv, TypeOK, PCs, Publishing
    <3> QED
      BY <1>1, <2>1, <3>1, StandingOf, StandingAfter
  <2>2. CASE ~Running(c)
    <3>1. Standing(c)' = Standing(c)
      BY <1>1, <2>2, StandingKept
    <3>2. Standing(c) \notin {"working", "published", "settled"}
      BY <2>2, StandingOf DEF Running, Ended, Outcomes
    <3> QED
      BY <3>1, <3>2
  <2> QED
    BY <2>1, <2>2
<1>3. Standings' = [c \in Calls |-> IF Standings[c] \in {"working", "published", "settled"} THEN "dead"
                                    ELSE Standings[c]]
  BY <1>2 DEF Standings
<1>4. CASE Crash
  BY <1>1, <1>3, <1>4 DEF Crash, fsVars, Contract!Next, Contract!Crash, FileOf, Standings, Calls
<1>5. CASE PowerLoss
  <2> DEFINE kept == {p \in Paths : dir'[p] = dir[p]}
  <2>1. \A p \in Paths : /\ dir'[p] = dir[p] \/ dir'[p] = disk[p]
                         /\ disk'[p] = dir'[p]
    BY <1>5 DEF PowerLoss, PowerCut, Names
  <2>2. \A p \in Paths : /\ dir[p] # Absent => data'[dir[p]] = data[dir[p]]
                         /\ disk[p] # Absent => data'[disk[p]] = data[disk[p]]
    BY <1>5 DEF PowerLoss, PowerCut, AllWhole, Whole, Exists, TypeInv, TypeOK, FsTypeOK
  <2>3. FileOf(dir)' = [p \in Paths |-> IF p \in kept THEN FileOf(dir)[p] ELSE FileOf(disk)[p]]
    BY <2>1, <2>2 DEF FileOf
  <2>4. FileOf(disk)' = FileOf(dir)'
    BY <2>1 DEF FileOf
  <2>5. kept \in SUBSET Paths
    OBVIOUS
  <2>6. Contract!Crash
    BY <1>1, <1>3, <2>3, <2>4, <2>5 DEF Contract!Crash, Standings, Calls
  <2> QED
    BY <2>6 DEF Contract!Next
<1> QED
  BY <1>4, <1>5

\* Every step is a step of the contract, or leaves what it speaks of alone.
LEMMA StepContract ==
  ASSUME RefInv, [Next]_vars
  PROVE  Contract!Next \/ UNCHANGED Contract!vars
<1>1. ASSUME UNCHANGED <<FileOf(dir), FileOf(disk), ofChange, pc, outcome, durable>>
      PROVE  UNCHANGED Contract!vars
  BY <1>1, MovesNone, Unseen
<1>2. ASSUME UNCHANGED <<fsVars, ofChange, pc, outcome, durable>> PROVE UNCHANGED Contract!vars
  BY <1>1, <1>2 DEF fsVars, FileOf
<1>3. ASSUME NEW c \in Calls, NEW a \in Auths, NEW ch \in Changes, Invoke(c, a, ch)
      PROVE  Contract!Next
  <2> USE DEF RefInv, LastInv, InodeInv, WholeInv
  <2>1. /\ pc[c] = "idle" /\ ofChange' = [ofChange EXCEPT ![c] = ch] /\ UNCHANGED <<fsVars, durable>>
        /\ pc'[c] = "reload" \/ (pc'[c] = "done" /\ outcome'[c] = "REFUSED_PRECOMMIT")
        /\ \A d \in Calls \ {c} : pc'[d] = pc[d] /\ outcome'[d] = outcome[d]
    BY <1>3 DEF Invoke, At, TypeInv, TypeOK
  <2>2. Standing(c) = "idle" /\ Standing(c)' \in {"working", "REFUSED_PRECOMMIT"}
    BY <2>1, StandingOf, StandingAfter DEF Working, Preparing
  <2>3. Contract!Becomes(c, "working") \/ Contract!Becomes(c, "REFUSED_PRECOMMIT")
    BY <2>1, <2>2, MovesOne DEF Contract!Becomes, Standings, Calls
  <2>4. FileOf(dir)' = FileOf(dir) /\ FileOf(disk)' = FileOf(disk)
    BY <2>1 DEF fsVars, FileOf
  <2>5. Contract!Begin(c, ch)
    BY <2>1, <2>2, <2>3, <2>4 DEF Contract!Begin, Calls
  <2> QED
    BY <2>5 DEF Contract!Next, Calls
<1>4. ASSUME NEW p \in Paths, OutsideLink(p) PROVE UNCHANGED Contract!vars
  <2>1. UNCHANGED <<disk, data, ofChange, pc, outcome, durable>> /\ \A q \in Paths : dir'[q] = dir[q]
    BY <1>4, FsAssumption DEF OutsideLink, AddHardLink, requestAndCalls, callVars, RefInv, LastInv,
       InodeInv, WholeInv, TypeInv, TypeOK, FsTypeOK, Names
  <2> QED
    BY <1>1, <2>1 DEF FileOf
<1>5. CASE \/ \E ch \in Changes : Prepare(ch)
           \/ \E a \in Auths, ch \in Changes : Authorize(a, ch)
           \/ Reconfigure \/ UNCHANGED vars
  BY <1>2, <1>5 DEF Prepare, Authorize, Reconfigure, requestAndCalls, callVars, vars
<1> QED
  BY <1>3, <1>4, <1>5, CallStepContract, OutsideContract, CrashContract DEF Next

\* Seen from outside, replaceExistingFile and createFile publish exactly the
\* approved bytes in one step or nothing, report SUCCESS only for what is
\* durable, and lose to a power cut only what they did not report.
THEOREM EditsImplementContract == Spec => ImplementsContract
<1> USE DEF ImplementsContract, Contract!Spec
<1>1. RefInv /\ [Next]_vars => [Contract!Next]_(Contract!vars)
  BY StepContract
<1> QED
  BY <1>1, InitContract, InitRefInv, StepRefInv, PTL DEF Spec

----------------------------------------------------------------------------
\* The byte loops that SafeEdit takes as steps (CandidateBytes), for bytes of
\* any length and every way the system calls may split them.

\* The first bytes of another sequence.
Begins(s, t) == Len(s) <= Len(t) /\ \A k \in 1 .. Len(s) : s[k] = t[k]

\* What the candidate holds is the beginning of what was approved, all of it
\* once it was written unless storage lost its end; what the verification has
\* read is the beginning of what the file holds, and nothing else is confirmed.
LoopInv ==
  /\ approved \in Contents /\ file \in Contents /\ buffer \in Contents
  /\ phase \in Phases
  /\ Begins(file, approved)
  /\ phase \notin {"write", "rejected"} => LosesTail \/ file = approved
  /\ phase = "write" => buffer = <<>>
  /\ phase = "readback" => Len(buffer) <= Len(approved)
  /\ phase \in {"verify", "confirmed", "unconfirmed"} => Begins(buffer, file)
  /\ phase = "confirmed" => buffer = approved

\* The contents are the byte sequences up to the bound.
LEMMA ContentsAreSequences ==
  ASSUME MaxLen \in Nat, NEW s
  PROVE  s \in Contents <=> s \in Seq(Byte) /\ Len(s) <= MaxLen
<1>1. ASSUME s \in Contents PROVE s \in Seq(Byte) /\ Len(s) <= MaxLen
  <2>1. PICK n \in 0 .. MaxLen : s \in [1 .. n -> Byte]
    BY <1>1 DEF Contents
  <2> QED
    BY <2>1
<1>2. ASSUME s \in Seq(Byte), Len(s) <= MaxLen PROVE s \in Contents
  <2>1. Len(s) \in 0 .. MaxLen /\ s \in [1 .. Len(s) -> Byte]
    BY <1>2, LenProperties
  <2> QED
    BY <2>1 DEF Contents
<1> QED
  BY <1>1, <1>2

\* Sequences of which each is the beginning of the other are one.
LEMMA BeginsAntisymmetric ==
  ASSUME NEW s \in Seq(Byte), NEW t \in Seq(Byte), Begins(s, t), Len(s) = Len(t)
  PROVE  s = t
  BY SeqEqual DEF Begins

\* Nothing is the beginning of every sequence.
LEMMA NothingBegins ==
  ASSUME MaxLen \in Nat, NEW t \in Seq(Byte)
  PROVE  <<>> \in Contents /\ Begins(<<>>, t)
<1>1. <<>> \in Seq(Byte) /\ Len(<<>>) = 0 /\ Len(t) \in Nat
  BY EmptySeq, LenProperties
<1>2. \A s : s \in Seq(Byte) /\ Len(s) <= MaxLen => s \in Contents
  BY ContentsAreSequences
<1>3. 0 <= MaxLen
  OBVIOUS
<1>4. <<>> \in Contents
  BY <1>1, <1>2, <1>3
<1> QED
  BY <1>1, <1>4 DEF Begins

\* A longer piece of a sequence after a beginning of it gives a longer beginning.
LEMMA BeginsGrows ==
  ASSUME NEW s \in Seq(Byte), NEW t \in Seq(Byte), Begins(s, t), NEW n \in Nat, Len(s) + n <= Len(t)
  PROVE  LET u == s \o SubSeq(t, Len(s) + 1, Len(s) + n)
         IN  u \in Seq(Byte) /\ Len(u) = Len(s) + n /\ Begins(u, t)
<1> DEFINE piece == SubSeq(t, Len(s) + 1, Len(s) + n)
           u == s \o piece
<1>1. Len(s) \in Nat /\ Len(t) \in Nat /\ \A k \in 1 .. Len(t) : t[k] \in Byte
  BY LenProperties, ElementOfSeq
<1>2. /\ piece \in Seq(Byte) /\ Len(piece) = n
      /\ \A k \in 1 .. n : piece[k] = t[Len(s) + k]
  <2>1. \A k \in Len(s) + 1 .. Len(s) + n : t[k] \in Byte
    BY <1>1
  <2>2. /\ piece \in Seq(Byte)
        /\ Len(piece) = IF Len(s) + 1 <= Len(s) + n THEN (Len(s) + n) - (Len(s) + 1) + 1 ELSE 0
        /\ \A k \in 1 .. (Len(s) + n) - (Len(s) + 1) + 1 : piece[k] = t[Len(s) + 1 + k - 1]
    BY <1>1, <2>1, SubSeqProperties
  <2> QED
    BY <1>1, <2>2
<1>3. /\ u \in Seq(Byte) /\ Len(u) = Len(s) + n
      /\ \A k \in 1 .. Len(s) + n : u[k] = IF k <= Len(s) THEN s[k] ELSE piece[k - Len(s)]
  BY <1>2, ConcatProperties
<1>4. ASSUME NEW k \in 1 .. Len(s) + n PROVE u[k] = t[k]
  BY <1>1, <1>2, <1>3, <1>4 DEF Begins
<1> QED
  BY <1>3, <1>4 DEF Begins

\* One read or write of part of the rest of a sequence extends a beginning of it.
LEMMA PiecesGrow ==
  ASSUME NEW s \in Seq(Byte), NEW t \in Seq(Byte), Begins(s, t),
         NEW n \in 1 .. Len(t) - Len(s)
  PROVE  LET u == s \o SubSeq(t, Len(s) + 1, Len(s) + n)
         IN  u \in Seq(Byte) /\ Len(u) = Len(s) + n /\ Len(u) <= Len(t) /\ Begins(u, t)
<1>1. n \in Nat /\ Len(s) + n <= Len(t) /\ Len(s) \in Nat
  BY LenProperties
<1> QED
  BY <1>1, BeginsGrows

\* The candidate, its read-back and its verification keep to the approved bytes.
LEMMA LoopStep ==
  ASSUME MaxLen \in Nat, LoopInv, LoopNext
  PROVE  LoopInv'
<1>1. /\ approved \in Seq(Byte) /\ file \in Seq(Byte) /\ buffer \in Seq(Byte)
      /\ Len(approved) <= MaxLen /\ Len(file) <= MaxLen /\ Len(buffer) <= MaxLen
      /\ Len(approved) \in Nat /\ Len(file) \in Nat /\ Len(buffer) \in Nat
  BY ContentsAreSequences, LenProperties DEF LoopInv
<1>2. CASE WriteChunk
  <2>1. PICK n \in 1 .. Len(approved) - Len(file) :
          file' = file \o SubSeq(approved, Len(file) + 1, Len(file) + n)
    BY <1>2 DEF WriteChunk
  <2>2. file' \in Seq(Byte) /\ Len(file') <= Len(approved) /\ Begins(file', approved)
    BY <1>1, <2>1, PiecesGrow DEF LoopInv
  <2>3. Len(file') <= MaxLen
    BY <1>1, <2>2, LenProperties
  <2>4. file' \in Contents
    BY <2>2, <2>3, ContentsAreSequences
  <2> QED
    BY <1>2, <2>2, <2>4 DEF WriteChunk, LoopInv
<1>3. CASE WriteStalls
  BY <1>3 DEF WriteStalls, Phases, LoopInv
<1>4. CASE WriteDone
  <2>1. file = approved
    BY <1>1, <1>4, BeginsAntisymmetric DEF WriteDone, LoopInv
  <2> QED
    BY <1>1, <1>4, <2>1, EmptySeq DEF WriteDone, Phases, LoopInv
<1>5. CASE LoseTail
  <2>1. PICK n \in 0 .. Len(file) : file' = SubSeq(file, 1, n)
    BY <1>5 DEF LoseTail
  <2>2. file' \in Seq(Byte) /\ Len(file') = n /\ \A k \in 1 .. n : file'[k] = file[k]
    BY <1>1, <2>1, ElementOfSeq, SubSeqProperties
  <2>3. Begins(file', approved) /\ Len(file') <= MaxLen
    <3>1. Len(file) <= Len(approved) /\ \A k \in 1 .. Len(file) : file[k] = approved[k]
      BY DEF Begins, LoopInv
    <3>2. Len(file') <= Len(file) /\ \A k \in 1 .. Len(file') : file'[k] = approved[k]
      BY <1>1, <2>2, <3>1
    <3> QED
      BY <1>1, <2>2, <3>1, <3>2 DEF Begins
  <2>4. file' \in Contents
    BY <2>2, <2>3, ContentsAreSequences
  <2> QED
    BY <1>5, <2>3, <2>4 DEF LoseTail, LoopInv
<1>6. CASE ReadCandidateChunk
  <2>1. PICK chunk \in Reads(0, Len(approved) - Len(buffer)) :
          IF chunk = <<>> THEN phase' = "rejected" /\ UNCHANGED buffer
                          ELSE buffer' = buffer \o chunk /\ UNCHANGED phase
    BY <1>6 DEF ReadCandidateChunk
  <2>2. CASE chunk = <<>>
    BY <1>6, <2>1, <2>2 DEF ReadCandidateChunk, Phases, LoopInv
  <2>3. CASE chunk # <<>>
    <3>1. PICK n \in 0 .. Len(file) : chunk = SubSeq(file, 1, n) /\ n <= Len(approved) - Len(buffer)
      BY <1>1, <1>6, <2>1 DEF ReadCandidateChunk, Reads
    <3>2. chunk \in Seq(Byte) /\ Len(chunk) = n
      BY <1>1, <3>1, ElementOfSeq, SubSeqProperties
    <3>3. buffer' \in Seq(Byte) /\ Len(buffer') = Len(buffer) + n
      BY <1>1, <2>1, <2>3, <3>2, ConcatProperties
    <3>4. Len(buffer') <= Len(approved)
      BY <1>1, <3>1, <3>3
    <3>5. buffer' \in Contents
      BY <1>1, <3>3, <3>4, ContentsAreSequences
    <3> QED
      BY <1>6, <2>1, <2>3, <3>4, <3>5 DEF ReadCandidateChunk, LoopInv
  <2> QED
    BY <2>2, <2>3
<1>7. CASE CompareCandidate
  BY <1>7 DEF CompareCandidate, Phases, LoopInv
<1>8. CASE StartVerification
  <2>1. <<>> \in Contents /\ Begins(<<>>, file)
    BY <1>1, NothingBegins
  <2> QED
    BY <1>8, <2>1 DEF StartVerification, Phases, LoopInv
<1>9. CASE VerifyChunk
  <2>1. PICK chunk \in Reads(Len(buffer), Len(file) - Len(buffer)) :
          IF chunk = <<>> THEN phase' = "unconfirmed" /\ UNCHANGED buffer
                          ELSE buffer' = buffer \o chunk /\ UNCHANGED phase
    BY <1>9 DEF VerifyChunk
  <2>2. CASE chunk = <<>>
    BY <1>9, <2>1, <2>2 DEF VerifyChunk, Phases, LoopInv
  <2>3. CASE chunk # <<>>
    <3>1. PICK n \in 1 .. Len(file) - Len(buffer) :
            chunk = SubSeq(file, Len(buffer) + 1, Len(buffer) + n)
      BY <1>1, <1>9, <2>1 DEF VerifyChunk, Reads
    <3>2. Begins(buffer, file)
      BY <1>9 DEF VerifyChunk, LoopInv
    <3>3. buffer' \in Seq(Byte) /\ Len(buffer') <= Len(file) /\ Begins(buffer', file)
      BY <1>1, <2>1, <2>3, <3>1, <3>2, PiecesGrow
    <3>4. Len(buffer') <= MaxLen
      BY <1>1, <3>3, LenProperties
    <3>5. buffer' \in Contents
      BY <3>3, <3>4, ContentsAreSequences
    <3> QED
      BY <1>9, <2>1, <2>3, <3>3, <3>5 DEF VerifyChunk, LoopInv
  <2> QED
    BY <2>2, <2>3
<1>10. CASE CompareCreation
  BY <1>10 DEF CompareCreation, Phases, LoopInv
<1> QED
  BY <1>2, <1>3, <1>4, <1>5, <1>6, <1>7, <1>8, <1>9, <1>10 DEF LoopNext, Code

\* The loops keep to the approved bytes in every behaviour.
LEMMA LoopAlways ==
  ASSUME BytesAssumption
  PROVE  LoopSpec => []LoopInv
<1>1. MaxLen \in Nat
  BY DEF BytesAssumption
<1>2. LoopInit => LoopInv
  <2> SUFFICES ASSUME LoopInit PROVE LoopInv
    OBVIOUS
  <2>1. approved \in Seq(Byte) /\ file = <<>> /\ buffer = <<>> /\ phase = "write" /\ Len(approved) \in Nat
    BY <1>1, ContentsAreSequences, LenProperties DEF LoopInit
  <2>2. <<>> \in Contents /\ Begins(<<>>, approved)
    BY <1>1, <2>1, NothingBegins
  <2> QED
    BY <2>1, <2>2 DEF LoopInit, Phases, LoopInv
<1>3. LoopInv /\ [LoopNext]_loopVars => LoopInv'
  <2>1. ASSUME LoopInv, UNCHANGED loopVars PROVE LoopInv'
    BY <2>1 DEF LoopInv, loopVars, Begins
  <2> QED
    BY <1>1, <2>1, LoopStep
<1> QED
  BY <1>2, <1>3, PTL DEF LoopSpec

\* Whatever the system calls transfer at a time and whatever storage loses, a
\* creation reported as verified holds the approved bytes, for any bytes.
THEOREM ConfirmedIsApprovedAlways ==
  ASSUME BytesAssumption
  PROVE  LoopSpec => []ConfirmedIsApproved
<1>1. ASSUME MaxLen \in Nat, LoopInv PROVE ConfirmedIsApproved
  <2> SUFFICES ASSUME phase = "confirmed" PROVE file = approved
    BY DEF ConfirmedIsApproved
  <2>1. Begins(approved, file) /\ Begins(file, approved)
    BY <1>1 DEF LoopInv
  <2>2. approved \in Seq(Byte) /\ file \in Seq(Byte) /\ Len(approved) \in Nat /\ Len(file) \in Nat
    BY <1>1, ContentsAreSequences, LenProperties DEF LoopInv
  <2> QED
    BY <2>1, <2>2, BeginsAntisymmetric DEF Begins
<1>2. MaxLen \in Nat
  BY DEF BytesAssumption
<1>3. LoopInv => ConfirmedIsApproved
  BY <1>1, <1>2
<1> QED
  BY <1>3, LoopAlways, PTL

\* On storage that loses nothing, no candidate is published but with all of the
\* approved bytes.
THEOREM PublishedIsApproved ==
  ASSUME BytesAssumption, ~LosesTail
  PROVE  LoopSpec => [](phase \in {"accepted", "verify", "confirmed", "unconfirmed"} => file = approved)
<1>1. LoopInv => (phase \in {"accepted", "verify", "confirmed", "unconfirmed"} => file = approved)
  BY DEF LoopInv
<1> QED
  BY <1>1, LoopAlways, PTL
----------------------------------------------------------------------------
\* How much the loops still have to do at most: each phase less than the one
\* before, and in a phase the bytes that are still to be transferred.
LoopWork ==
  CASE phase = "write" -> 2 * (MaxLen + 2) + 1 + (Len(approved) - Len(file))
    [] phase = "readback" -> (MaxLen + 2) + 1 + (Len(approved) - Len(buffer))
    [] phase = "accepted" -> MaxLen + 2
    [] phase = "verify" -> 1 + (Len(file) - Len(buffer))
    [] OTHER -> 0

\* A loop stops exactly where it should: it never passes the length it compares
\* with, and until then a read has an answer.
LoopsNeverStuck ==
  /\ phase = "write" /\ Len(file) # Len(approved) => Len(file) < Len(approved)
  /\ phase = "readback" /\ Len(buffer) # Len(approved) =>
       Len(buffer) < Len(approved) /\ Reads(0, Len(approved) - Len(buffer)) # {}
  /\ phase = "verify" /\ Len(buffer) # Len(file) =>
       Len(buffer) < Len(file) /\ Reads(Len(buffer), Len(file) - Len(buffer)) # {}

\* The lengths that the loops compare.
LEMMA LoopLengths ==
  ASSUME MaxLen \in Nat, LoopInv
  PROVE  /\ approved \in Seq(Byte) /\ file \in Seq(Byte) /\ buffer \in Seq(Byte)
         /\ Len(approved) \in 0 .. MaxLen /\ Len(file) \in 0 .. MaxLen /\ Len(buffer) \in 0 .. MaxLen
         /\ Len(file) <= Len(approved)
         /\ phase = "readback" => Len(buffer) <= Len(approved)
         /\ phase = "verify" => Len(buffer) <= Len(file)
         /\ LoopWork \in Nat
<1>1. /\ approved \in Seq(Byte) /\ file \in Seq(Byte) /\ buffer \in Seq(Byte)
      /\ Len(approved) <= MaxLen /\ Len(file) <= MaxLen /\ Len(buffer) <= MaxLen
      /\ Len(approved) \in Nat /\ Len(file) \in Nat /\ Len(buffer) \in Nat
  BY ContentsAreSequences, LenProperties DEF LoopInv
<1>2. /\ Len(file) <= Len(approved)
      /\ phase = "readback" => Len(buffer) <= Len(approved)
      /\ phase = "verify" => Len(buffer) <= Len(file)
  BY DEF LoopInv, Begins
<1>3. LoopWork \in Nat
  <2>1. phase \in Phases
    BY DEF LoopInv
  <2> QED
    BY <1>1, <1>2, <2>1 DEF LoopWork, Phases
<1> QED
  BY <1>1, <1>2, <1>3

\* What is appended makes longer.
LEMMA ChunkLengthens ==
  ASSUME NEW s \in Seq(Byte), NEW t \in Seq(Byte), NEW m \in Nat, NEW n \in 1 .. Len(t) - m
  PROVE  Len(s \o SubSeq(t, m + 1, m + n)) = Len(s) + n
<1>1. Len(t) \in Nat /\ \A k \in 1 .. Len(t) : t[k] \in Byte
  BY LenProperties, ElementOfSeq
<1>2. m + 1 \in Int /\ m + n \in Int /\ \A k \in m + 1 .. m + n : t[k] \in Byte
  BY <1>1
<1>3. SubSeq(t, m + 1, m + n) \in Seq(Byte) /\ Len(SubSeq(t, m + 1, m + n)) = n
  <2>1. /\ SubSeq(t, m + 1, m + n) \in Seq(Byte)
        /\ Len(SubSeq(t, m + 1, m + n)) = IF m + 1 <= m + n THEN (m + n) - (m + 1) + 1 ELSE 0
    BY <1>2, SubSeqProperties
  <2> QED
    BY <2>1
<1> QED
  BY <1>3, ConcatProperties

\* Every system call and comparison leaves the loops less to do.
LEMMA LoopWorkStep ==
  ASSUME MaxLen \in Nat, LoopInv, LoopInv', LoopNext
  PROVE  LoopWork' <= LoopWork /\ (Code => LoopWork' < LoopWork)
<1>1. /\ approved \in Seq(Byte) /\ file \in Seq(Byte) /\ buffer \in Seq(Byte)
      /\ Len(approved) \in 0 .. MaxLen /\ Len(file) \in 0 .. MaxLen /\ Len(buffer) \in 0 .. MaxLen
      /\ Len(file) <= Len(approved)
      /\ phase = "readback" => Len(buffer) <= Len(approved)
      /\ phase = "verify" => Len(buffer) <= Len(file)
      /\ LoopWork \in Nat
  BY LoopLengths
<1>2. /\ Len(file') \in 0 .. MaxLen /\ Len(buffer') \in 0 .. MaxLen /\ Len(approved') \in 0 .. MaxLen
      /\ Len(file') <= Len(approved')
      /\ phase' = "readback" => Len(buffer') <= Len(approved')
      /\ phase' = "verify" => Len(buffer') <= Len(file')
      /\ LoopWork' \in Nat
  <2>1. approved' \in Seq(Byte) /\ file' \in Seq(Byte) /\ buffer' \in Seq(Byte)
        /\ Len(approved') <= MaxLen /\ Len(file') <= MaxLen /\ Len(buffer') <= MaxLen
        /\ Len(approved') \in Nat /\ Len(file') \in Nat /\ Len(buffer') \in Nat
    BY ContentsAreSequences, LenProperties DEF LoopInv
  <2>2. /\ Len(file') <= Len(approved')
        /\ phase' = "readback" => Len(buffer') <= Len(approved')
        /\ phase' = "verify" => Len(buffer') <= Len(file')
        /\ phase' \in Phases
    BY DEF LoopInv, Begins
  <2> QED
    BY <2>1, <2>2 DEF LoopWork, Phases
<1>3. CASE WriteChunk
  <2>1. PICK n \in 1 .. Len(approved) - Len(file) :
          file' = file \o SubSeq(approved, Len(file) + 1, Len(file) + n)
    BY <1>3 DEF WriteChunk
  <2>2. Len(file') = Len(file) + n
    BY <1>1, <2>1, ChunkLengthens
  <2>3. phase = "write" /\ phase' = "write" /\ Len(approved') = Len(approved)
    BY <1>3 DEF WriteChunk
  <2>4. LoopWork = 2 * (MaxLen + 2) + 1 + (Len(approved) - Len(file))
    BY <2>3 DEF LoopWork
  <2>5. LoopWork' = 2 * (MaxLen + 2) + 1 + (Len(approved') - Len(file'))
    BY <2>3 DEF LoopWork
  <2>6. LoopWork' = LoopWork - n
    BY <1>1, <1>2, <2>1, <2>2, <2>3, <2>4, <2>5
  <2> QED
    BY <1>1, <1>2, <2>1, <2>6
<1>4. CASE WriteStalls
  BY <1>1, <1>2, <1>4 DEF WriteStalls, LoopWork
<1>5. CASE WriteDone
  BY <1>1, <1>2, <1>5 DEF WriteDone, LoopWork
<1>6. CASE ReadCandidateChunk
  <2>1. PICK chunk \in Reads(0, Len(approved) - Len(buffer)) :
          IF chunk = <<>> THEN phase' = "rejected" /\ UNCHANGED buffer
                          ELSE buffer' = buffer \o chunk /\ UNCHANGED phase
    BY <1>6 DEF ReadCandidateChunk
  <2>2. CASE chunk = <<>>
    BY <1>1, <1>2, <1>6, <2>1, <2>2 DEF ReadCandidateChunk, LoopWork
  <2>3. CASE chunk # <<>>
    <3>1. PICK n \in 0 .. Len(file) :
            chunk = SubSeq(file, 0 + 1, 0 + n) /\ (n = 0 => Len(file) = 0)
      BY <1>1, <1>6, <2>1 DEF ReadCandidateChunk, Reads
    <3>2. n # 0
      BY <2>3, <3>1, SubSeqEmpty
    <3>3. Len(buffer') = Len(buffer) + n
      BY <1>1, <2>1, <2>3, <3>1, <3>2, ChunkLengthens
    <3>4. phase = "readback" /\ phase' = "readback" /\ Len(approved') = Len(approved)
      BY <1>6, <2>1, <2>3 DEF ReadCandidateChunk
    <3>5. LoopWork = (MaxLen + 2) + 1 + (Len(approved) - Len(buffer))
      BY <3>4 DEF LoopWork
    <3>6. LoopWork' = (MaxLen + 2) + 1 + (Len(approved') - Len(buffer'))
      BY <3>4 DEF LoopWork
    <3>7. LoopWork' = LoopWork - n
      BY <1>1, <1>2, <3>1, <3>2, <3>3, <3>4, <3>5, <3>6
    <3> QED
      BY <1>1, <1>2, <3>1, <3>2, <3>7
  <2> QED
    BY <2>2, <2>3
<1>7. CASE CompareCandidate
  BY <1>1, <1>2, <1>7 DEF CompareCandidate, LoopWork
<1>8. CASE StartVerification
  BY <1>1, <1>2, <1>8 DEF StartVerification, LoopWork
<1>9. CASE VerifyChunk
  <2>1. PICK chunk \in Reads(Len(buffer), Len(file) - Len(buffer)) :
          IF chunk = <<>> THEN phase' = "unconfirmed" /\ UNCHANGED buffer
                          ELSE buffer' = buffer \o chunk /\ UNCHANGED phase
    BY <1>9 DEF VerifyChunk
  <2>2. CASE chunk = <<>>
    BY <1>1, <1>2, <1>9, <2>1, <2>2 DEF VerifyChunk, LoopWork
  <2>3. CASE chunk # <<>>
    <3>1. PICK n \in 1 .. Len(file) - Len(buffer) :
            chunk = SubSeq(file, Len(buffer) + 1, Len(buffer) + n)
      BY <1>1, <1>9, <2>1 DEF VerifyChunk, Reads
    <3>2. Len(buffer') = Len(buffer) + n
      BY <1>1, <2>1, <2>3, <3>1, ChunkLengthens
    <3> QED
      BY <1>1, <1>2, <1>9, <2>1, <2>3, <3>2 DEF VerifyChunk, LoopWork
  <2> QED
    BY <2>2, <2>3
<1>10. CASE CompareCreation
  BY <1>1, <1>2, <1>10 DEF CompareCreation, LoopWork
<1>11. ASSUME LoseTail PROVE LoopWork' = LoopWork /\ phase = "readback" /\ UNCHANGED <<approved, buffer, phase>>
  BY <1>11 DEF LoseTail, LoopWork
<1>12. ASSUME Code PROVE LoopWork' < LoopWork
  BY <1>3, <1>4, <1>5, <1>6, <1>7, <1>8, <1>9, <1>10, <1>12 DEF Code
<1> QED
  <2>1. CASE Code
    BY <1>1, <1>2, <1>12, <2>1
  <2>2. CASE ~Code
    BY <1>1, <1>11, <2>2 DEF LoopNext
  <2> QED
    BY <2>1, <2>2

\* The loops end after finitely many system calls, however these are split and
\* whatever storage loses between them (writeAll, readCandidateBytesImpl and
\* verifyPublishedCreation of atomic-fs.ts): each leaves less to do, and while
\* something is left no loop waits for a length it has passed.
THEOREM LoopsShrink ==
  ASSUME BytesAssumption
  PROVE  LoopSpec => /\ []LoopsNeverStuck /\ [](LoopWork \in Nat)
                       /\ [][LoopWork' <= LoopWork /\ (Code => LoopWork' < LoopWork)]_loopVars
<1>1. MaxLen \in Nat
  BY DEF BytesAssumption
<1>2. LoopInv => LoopWork \in Nat
  BY <1>1, LoopLengths
<1>3. LoopInv => LoopsNeverStuck
  <2> SUFFICES ASSUME LoopInv PROVE LoopsNeverStuck
    OBVIOUS
  <2>1. /\ Len(approved) \in 0 .. MaxLen /\ Len(file) \in 0 .. MaxLen /\ Len(buffer) \in 0 .. MaxLen
        /\ Len(file) <= Len(approved)
        /\ phase = "readback" => Len(buffer) <= Len(approved)
        /\ phase = "verify" => Len(buffer) <= Len(file)
    BY <1>1, LoopLengths
  <2>2. ASSUME NEW position \in Nat, NEW room \in Nat, room > 0, position <= Len(file)
        PROVE  Reads(position, room) # {}
    <3>1. CASE Len(file) - position = 0
      BY <3>1 DEF Reads
    <3>2. CASE Len(file) - position # 0
      <4>1. 1 \in {k \in 1 .. room : k <= Len(file) - position}
        BY <2>1, <2>2, <3>2
      <4> QED
        BY <3>2, <4>1 DEF Reads
    <3> QED
      BY <3>1, <3>2
  <2> QED
    BY <2>1, <2>2 DEF LoopsNeverStuck
<1>4. LoopInv /\ LoopInv' /\ [LoopNext]_loopVars =>
        [LoopWork' <= LoopWork /\ (Code => LoopWork' < LoopWork)]_loopVars
  BY <1>1, LoopWorkStep
<1> QED
  BY <1>2, <1>3, <1>4, LoopAlways, PTL DEF LoopSpec
====
