--------------------------- MODULE RecoveryProofs ---------------------------
(***************************************************************************)
(* Recovery, for any checkpoint, any number of reviews and executions, and *)
(* any amount of interference, damage and failing calls.                   *)
(***************************************************************************)
EXTENDS Recovery, SequenceTheorems, TLAPS

\* The entries are the positions of the checkpoint.
LEMMA EntriesAre == Entries = 1 .. Len(Kind) /\ Len(Kind) \in Nat \ {0}
  BY RecoveryAssumption, LenProperties, EmptySeq DEF Entries

------------------------------------------------------------------------------
(* The session.                                                             *)

\* The session mutates only after everything was captured and the checkpoint
\* stands, and the manifest stands on all of its blobs.
SessionInv ==
  /\ stored \subseteq Blobs /\ manifest \in BOOLEAN
  /\ session \in {"capture", "persist", "apply", "checked"} \cup Ended
  /\ captured \subseteq Entries /\ applied \subseteq captured
  /\ session \in {"persist", "apply", "checked"} => captured = Entries
  /\ session \in {"apply", "checked"} \/ applied # {} => manifest
  /\ manifest => Blobs \subseteq stored

\* At the start nothing was captured, stored or changed.
LEMMA SessionInit == Init => SessionInv
  BY DEF Init, SessionInv

\* Every step keeps what the session relies on.
LEMMA SessionKeeps ==
  ASSUME SessionInv, [Next]_vars
  PROVE  SessionInv'
<1> USE DEF SessionInv, Ended
<1>1. CASE UNCHANGED sessionVars
  BY <1>1 DEF sessionVars
<1>2. CASE Capture
  <2>1. CASE session' = "refused" /\ UNCHANGED captured
    BY <1>2, <2>1 DEF Capture
  <2>2. ASSUME NEW i \in Entries, captured' = captured \cup {i},
               session' = IF captured' = Entries THEN "persist" ELSE "capture"
        PROVE  SessionInv'
    BY <1>2, <2>2 DEF Capture
  <2> QED
    BY <1>2, <2>1, <2>2 DEF Capture
<1>3. CASE WriteBlob
  BY <1>3 DEF WriteBlob
<1>4. CASE WriteManifest
  BY <1>4 DEF WriteManifest
<1>5. CASE StoreFault \/ ReadBack
  BY <1>5 DEF StoreFault, ReadBack
<1>6. CASE Recheck \/ PublishRefused \/ SessionDies
  BY <1>6 DEF Recheck, PublishRefused, SessionDies
<1>7. CASE Publish
  BY <1>7 DEF Publish
<1>8. CASE HostNext
  <2>1. UNCHANGED sessionVars
    BY <1>8 DEF HostNext, BeginReview, ReviewEntry, Authorize, ReviewStep, Execute, PassOver, Observe,
       Reload, Stat, Act, Sync, ActFault, Prove, ExecStep, HostDies
  <2> QED
    BY <1>1, <2>1
<1>9. ASSUME NEW i \in Entries, NEW content \in Contents, OutsideChange(i, content)
      PROVE  UNCHANGED sessionVars
  BY <1>9 DEF OutsideChange
<1>10. ASSUME NEW b \in Blobs, DamageBlob(b) PROVE UNCHANGED sessionVars
  BY <1>10 DEF DamageBlob
<1>11. CASE UNCHANGED vars
  BY <1>1, <1>11 DEF vars
<1> QED
  BY <1>1, <1>2, <1>3, <1>4, <1>5, <1>6, <1>7, <1>8, <1>9, <1>10, <1>11 DEF Next, SessionNext

\* No file is changed before the checkpoint that could undo it stands
\* (session.ts, checkpoint.ts, store.ts), whatever fails and whoever dies.
THEOREM MutationIsCoveredAlways == Spec => []MutationIsCovered
<1>1. SessionInv => MutationIsCovered
  BY DEF SessionInv, MutationIsCovered
<1>2. SessionInv /\ [Next]_vars => SessionInv'
  BY SessionKeeps
<1> QED
  BY <1>1, <1>2, SessionInit, PTL DEF Spec

------------------------------------------------------------------------------
(* Files, reviews and bounds.                                               *)

\* The bounds on faults are kept, and only blobs of the checkpoint are damaged.
BudgetInv ==
  /\ outside \in 0 .. MaxOutside /\ damage \in 0 .. MaxDamage /\ faults \in 0 .. MaxFaults
  /\ damaged \subseteq Blobs

\* At the start nothing has failed.
LEMMA BudgetInit == Init => BudgetInv
  BY RecoveryAssumption DEF Init, BudgetInv

\* Every step keeps the bounds.
LEMMA BudgetKeeps ==
  ASSUME BudgetInv, [Next]_vars
  PROVE  BudgetInv'
<1> USE RecoveryAssumption DEF BudgetInv
<1>1. CASE UNCHANGED <<budget, damaged>>
  BY <1>1 DEF budget
<1>2. CASE Fault /\ UNCHANGED damaged
  BY <1>2 DEF Fault
<1>3. CASE SessionNext
  BY <1>1, <1>2, <1>3 DEF SessionNext, Capture, WriteBlob, WriteManifest, StoreFault, ReadBack, Recheck,
     Publish, PublishRefused, SessionDies, SessionStep
<1>4. ASSUME NEW r \in Reviews, BeginReview(r) \/ ReviewEntry(r) \/ Authorize(r) PROVE BudgetInv'
  BY <1>1, <1>2, <1>4 DEF BeginReview, ReviewEntry, Authorize, ReviewStep
<1>5. ASSUME NEW x \in Executions, NEW r \in Reviews, Execute(x, r) PROVE BudgetInv'
  BY <1>1, <1>5 DEF Execute
<1>6. ASSUME NEW x \in Executions,
             PassOver(x) \/ Observe(x) \/ Reload(x) \/ Stat(x) \/ Act(x) \/ Sync(x) \/ ActFault(x) \/ Prove(x)
      PROVE  BudgetInv'
  BY <1>1, <1>2, <1>6 DEF PassOver, Observe, Reload, Stat, Act, Sync, ActFault, Prove, ExecStep
<1>7. CASE HostDies
  BY <1>1, <1>7 DEF HostDies
<1>8. ASSUME NEW i \in Entries, NEW content \in Contents, OutsideChange(i, content) PROVE BudgetInv'
  BY <1>8 DEF OutsideChange
<1>9. ASSUME NEW b \in Blobs, DamageBlob(b) PROVE BudgetInv'
  BY <1>9 DEF DamageBlob
<1>10. CASE UNCHANGED vars
  BY <1>1, <1>10 DEF vars
<1> QED
  BY <1>3, <1>4, <1>5, <1>6, <1>7, <1>8, <1>9, <1>10 DEF Next, HostNext

\* A review that is ready, and no other, has classified every entry.
ReviewInv ==
  /\ review \in [Reviews -> {"idle", "reviewing", "ready", "dead"}]
  /\ shown \in [Reviews -> Seq(ReviewDispositions)]
  /\ \A r \in Reviews : Len(shown[r]) <= Len(Kind)
  /\ \A r \in Reviews : review[r] = "ready" => Len(shown[r]) = Len(Kind)
  /\ chosen \in [Reviews -> SUBSET Entries]
  /\ settled \subseteq Reviews

Locations == {"idle", "done", "refused", "dead"} \cup AtEntry

\* An execution that goes on holds a consumed authorization that no other has.
OwnerInv ==
  /\ pc \in [Executions -> Locations]
  /\ under \in [Executions -> Reviews \cup {None}]
  /\ spent \subseteq Reviews
  /\ \A x \in Executions : pc[x] \notin {"idle", "refused"} => under[x] \in spent
  /\ OneExecutionPerAuthorization

\* A step of execution x that goes on from an entry.
Moves(x) == \E l \in AtEntry \cup {"done"} : pc[x] \in AtEntry /\ Goto(x, l)

\* Which steps move executions on.
LEMMA ExecMoves ==
  ASSUME NEW x \in Executions,
         PassOver(x) \/ Observe(x) \/ Reload(x) \/ Stat(x) \/ Act(x) \/ Sync(x) \/ ActFault(x) \/ Prove(x)
  PROVE  Moves(x) /\ UNCHANGED <<damaged, sessionVars, reviewVars, spent, under>>
<1> USE DEF Moves, ExecStep, AtEntry
<1>1. ASSUME NEW d, Conclude(x, d), pc[x] \in AtEntry PROVE Moves(x)
  BY <1>1 DEF Conclude
<1>2. CASE PassOver(x)
  BY <1>1, <1>2 DEF PassOver
<1>3. CASE Observe(x)
  BY <1>1, <1>3 DEF Observe
<1>4. CASE Reload(x)
  BY <1>1, <1>4 DEF Reload
<1>5. CASE Stat(x)
  BY <1>1, <1>5 DEF Stat
<1>6. CASE Act(x)
  BY <1>1, <1>6 DEF Act
<1>7. CASE Sync(x)
  BY <1>7 DEF Sync
<1>8. CASE ActFault(x)
  BY <1>1, <1>8 DEF ActFault
<1>9. CASE Prove(x)
  BY <1>1, <1>9 DEF Prove
<1> QED
  BY <1>2, <1>3, <1>4, <1>5, <1>6, <1>7, <1>8, <1>9

\* Only the executions' own steps and the death of their host touch them.
LEMMA OthersKeepExecutions ==
  ASSUME \/ SessionNext
         \/ \E r \in Reviews : BeginReview(r) \/ ReviewEntry(r) \/ Authorize(r)
         \/ \E i \in Entries, content \in Contents : OutsideChange(i, content)
         \/ \E b \in Blobs : DamageBlob(b)
         \/ UNCHANGED vars
  PROVE  UNCHANGED execVars
  BY DEF SessionNext, Capture, WriteBlob, WriteManifest, StoreFault, ReadBack, Recheck, Publish,
     PublishRefused, SessionDies, SessionStep, BeginReview, ReviewEntry, Authorize, ReviewStep,
     OutsideChange, DamageBlob, vars

\* At the start no authorization was issued.
LEMMA OwnerInit == Init => OwnerInv
  BY DEF Init, OwnerInv, Locations, OneExecutionPerAuthorization

\* Every step keeps the owners of authorizations.
LEMMA OwnerKeeps ==
  ASSUME OwnerInv, [Next]_vars
  PROVE  OwnerInv'
<1> USE DEF OwnerInv, OneExecutionPerAuthorization
<1>1. CASE UNCHANGED execVars
  BY <1>1 DEF execVars
<1>2. ASSUME NEW x \in Executions, Moves(x), UNCHANGED <<spent, under>> PROVE OwnerInv'
  <2>1. PICK l \in AtEntry \cup {"done"} : pc[x] \in AtEntry /\ Goto(x, l)
    BY <1>2 DEF Moves
  <2>2. \A y \in Executions : pc'[y] \notin {"idle", "refused"} => pc[y] \notin {"idle", "refused"}
    BY <2>1 DEF Goto, AtEntry, Locations
  <2>3. pc' \in [Executions -> Locations]
    BY <2>1 DEF Goto, Locations
  <2> QED
    BY <1>2, <2>2, <2>3
<1>3. ASSUME NEW x \in Executions, NEW r \in Reviews, Execute(x, r) PROVE OwnerInv'
  <2>1. CASE Spendable(r)
    BY <1>3, <2>1 DEF Execute, Spendable, Goto, Locations, AtEntry
  <2>2. CASE ~Spendable(r)
    BY <1>3, <2>2 DEF Execute, Spendable, Goto, Locations, AtEntry
  <2> QED
    BY <2>1, <2>2
<1>4. CASE HostDies
  BY <1>4 DEF HostDies, Locations, AtEntry
<1> QED
  BY <1>1, <1>2, <1>3, <1>4, ExecMoves, OthersKeepExecutions DEF Next, HostNext

\* One authorization carries at most one execution (consume-authorization.ts),
\* for any number of executions presenting it at once.
THEOREM OneExecutionAlways == Spec => []OneExecutionPerAuthorization
<1>1. OwnerInv => OneExecutionPerAuthorization
  BY DEF OwnerInv
<1>2. OwnerInv /\ [Next]_vars => OwnerInv'
  BY OwnerKeeps
<1> QED
  BY <1>1, <1>2, OwnerInit, PTL DEF Spec

\* At the start nothing is reviewed.
LEMMA ReviewInit == Init => ReviewInv
  BY EntriesAre, EmptySeq DEF Init, ReviewInv

\* Every step keeps what is known of reviews.
LEMMA ReviewKeeps ==
  ASSUME ReviewInv, [Next]_vars
  PROVE  ReviewInv'
<1> USE DEF ReviewInv
<1>1. CASE UNCHANGED reviewVars
  BY <1>1 DEF reviewVars
<1>2. ASSUME NEW r \in Reviews, BeginReview(r) PROVE ReviewInv'
  BY <1>2 DEF BeginReview
<1>3. ASSUME NEW r \in Reviews, ReviewEntry(r) PROVE ReviewInv'
  <2>1. Len(shown[r]) + 1 \in Entries /\ UNCHANGED <<chosen, settled>>
    BY <1>3 DEF ReviewEntry
  <2>2. PICK d \in ReviewDispositions : shown' = [shown EXCEPT ![r] = Append(@, d)]
    BY <1>3 DEF ReviewEntry, Classify, ReviewDispositions
  <2>3. /\ Append(shown[r], d) \in Seq(ReviewDispositions)
        /\ Len(Append(shown[r], d)) = Len(shown[r]) + 1
    BY <2>2, AppendProperties
  <2>4. /\ shown' \in [Reviews -> Seq(ReviewDispositions)]
        /\ Len(shown'[r]) = Len(shown[r]) + 1
        /\ \A q \in Reviews \ {r} : shown'[q] = shown[q]
    BY <2>2, <2>3
  <2>5. review' = [review EXCEPT ![r] = IF Len(shown[r]) + 1 = Len(Kind) THEN "ready" ELSE "reviewing"]
    BY <1>3 DEF ReviewEntry
  <2>6. \A q \in Reviews : Len(shown'[q]) <= Len(Kind)
    BY <2>1, <2>4, EntriesAre
  <2>7. /\ review' \in [Reviews -> {"idle", "reviewing", "ready", "dead"}]
        /\ \A q \in Reviews \ {r} : review'[q] = review[q]
        /\ review'[r] = "ready" => Len(shown'[r]) = Len(Kind)
    BY <2>4, <2>5
  <2>8. \A q \in Reviews : review'[q] = "ready" => Len(shown'[q]) = Len(Kind)
    BY <2>4, <2>7
  <2> QED
    BY <2>1, <2>4, <2>6, <2>7, <2>8
<1>4. ASSUME NEW r \in Reviews, Authorize(r) PROVE ReviewInv'
  <2>1. PICK S \in SUBSET Eligible(r) : chosen' = [chosen EXCEPT ![r] = S]
    BY <1>4 DEF Authorize
  <2>2. shown[r] \in Seq(ReviewDispositions) /\ Len(shown[r]) <= Len(Kind)
    OBVIOUS
  <2>3. Eligible(r) \subseteq Entries
    BY <2>2, EntriesAre, LenProperties DEF Eligible
  <2> QED
    BY <1>4, <2>1, <2>3 DEF Authorize
<1>5. CASE HostDies
  BY <1>5 DEF HostDies
<1>6. ASSUME NEW x \in Executions, NEW r \in Reviews, Execute(x, r) PROVE ReviewInv'
  BY <1>1, <1>6 DEF Execute
<1>7. CASE SessionNext
  BY <1>1, <1>7 DEF SessionNext, Capture, WriteBlob, WriteManifest, StoreFault, ReadBack, Recheck,
     Publish, PublishRefused, SessionDies, SessionStep
<1>8. ASSUME NEW i \in Entries, NEW content \in Contents, OutsideChange(i, content) PROVE ReviewInv'
  BY <1>1, <1>8 DEF OutsideChange
<1>9. ASSUME NEW b \in Blobs, DamageBlob(b) PROVE ReviewInv'
  BY <1>1, <1>9 DEF DamageBlob
<1>10. CASE UNCHANGED vars
  BY <1>1, <1>10 DEF vars
<1> QED
  BY <1>1, <1>2, <1>3, <1>4, <1>5, <1>6, <1>7, <1>8, <1>9, <1>10, ExecMoves DEF Next, HostNext

------------------------------------------------------------------------------
(* What an execution knows and has recorded.                                *)

AtWork == {"sync", "prove"}

\* The record of x covers the entries before the current one.
Recording(x) ==
  /\ record[x] \in Seq(Dispositions) /\ Len(record[x]) <= Len(Kind)
  /\ pc[x] = "idle" => record[x] = <<>>
  /\ pc[x] # "idle" => under[x] \in Reviews /\ Len(shown[under[x]]) = Len(Kind)
  /\ pc[x] \in AtEntry => Current(x) \in Entries
  /\ acted[x] \subseteq Entries

\* An entry changed by x is on record as such, or is the one being worked on.
Accountable(x) ==
  /\ pc[x] \in AtWork => Current(x) \in acted[x]
  /\ pc[x] \notin AtWork \cup {"dead"} => acted[x] \subseteq DOMAIN record[x]
  /\ pc[x] \in AtWork => acted[x] \subseteq DOMAIN record[x] \cup {Current(x)}
  /\ \A i \in DOMAIN record[x] :
       /\ i \in acted[x] =>
            record[x][i] \in {"RESTORED", "RESTORE_FAILED", "RESTORE_OUTCOME_UNCONFIRMED"}
       /\ record[x][i] = "RESTORED" => i \in acted[x]

\* What x saw of the current entry still holds, or changed behind its back.
Informed(x) ==
  /\ pc[x] \in {"reload", "stat", "act"} => file[Current(x)] = "post" \/ unseen[x]
  /\ pc[x] \in {"stat", "act"} /\ Kind[Current(x)] = "REPLACE_TEXT" => held[x] = "pre"

Tables ==
  /\ pc \in [Executions -> Locations]
  /\ under \in [Executions -> Reviews \cup {None}]
  /\ spent \subseteq Reviews
  /\ record \in [Executions -> Seq(Dispositions)]
  /\ held \in [Executions -> Contents \cup {None}]
  /\ acted \in [Executions -> SUBSET Entries]
  /\ unseen \in [Executions -> BOOLEAN]
  /\ file \in [Entries -> Contents]

ExecInv == Tables /\ \A x \in Executions : Recording(x) /\ Accountable(x) /\ Informed(x)

\* At the start no execution has a record.
LEMMA ExecInit == Init => ExecInv
<1> SUFFICES ASSUME Init PROVE ExecInv
  OBVIOUS
<1>1. Tables
  <2>1. \A i \in Entries : Pre(i) \in Contents
    BY DEF Pre, Contents
  <2> QED
    BY <2>1, EmptySeq DEF Init, Tables, Locations
<1>2. ASSUME NEW x \in Executions PROVE Recording(x) /\ Accountable(x) /\ Informed(x)
  BY EntriesAre, EmptySeq DEF Init, Recording, Accountable, Informed, AtEntry, AtWork
<1> QED
  BY <1>1, <1>2 DEF ExecInv

\* An execution about which nothing changes, except perhaps its host's death.
LEMMA OtherKeeps ==
  ASSUME ExecInv, NEW x \in Executions,
         pc'[x] = pc[x] \/ (pc'[x] = "dead" /\ pc[x] \in AtEntry),
         under'[x] = under[x], record'[x] = record[x], held'[x] = held[x], acted'[x] = acted[x],
         unseen[x] => unseen'[x],
         pc[x] \in {"reload", "stat", "act"} => unseen'[x] \/ file'[Current(x)] = file[Current(x)],
         \A r \in Reviews : Len(shown[r]) = Len(Kind) => shown'[r] = shown[r]
  PROVE  Recording(x)' /\ Accountable(x)' /\ Informed(x)'
<1>1. Recording(x) /\ Accountable(x) /\ Informed(x)
  BY DEF ExecInv
<1>2. Recording(x)'
  BY <1>1 DEF Recording, Current, AtEntry
<1>3. Accountable(x)'
  BY <1>1 DEF Accountable, Current, AtEntry, AtWork
<1>4. Informed(x)'
  BY <1>1 DEF Informed, Current, AtEntry
<1> QED
  BY <1>2, <1>3, <1>4

\* Concluding an entry truthfully.
LEMMA ConcludeKeeps ==
  ASSUME ExecInv, NEW x \in Executions, NEW d \in Dispositions, pc[x] \in AtEntry,
         Conclude(x, d), ExecStep,
         Current(x) \in acted[x] =>
           d \in {"RESTORED", "RESTORE_FAILED", "RESTORE_OUTCOME_UNCONFIRMED"},
         d = "RESTORED" => Current(x) \in acted[x]
  PROVE  ExecInv'
<1>1. Tables /\ Recording(x) /\ Accountable(x)
  BY DEF ExecInv
<1>2. /\ Append(record[x], d) \in Seq(Dispositions)
      /\ Len(Append(record[x], d)) = Current(x)
      /\ \A i \in 1 .. Len(record[x]) : Append(record[x], d)[i] = record[x][i]
      /\ Append(record[x], d)[Current(x)] = d
      /\ DOMAIN record[x] = 1 .. Len(record[x]) /\ Len(record[x]) \in Nat
      /\ DOMAIN Append(record[x], d) = 1 .. Current(x)
  BY <1>1, AppendProperties, LenProperties DEF Recording, Current
<1>3. /\ record'[x] = Append(record[x], d)
      /\ pc'[x] = (IF Current(x) = Len(Kind) THEN "done" ELSE "observe")
      /\ acted' = acted /\ under' = under /\ file' = file /\ shown' = shown /\ spent' = spent
      /\ held'[x] = None /\ unseen'[x] = FALSE
      /\ \A y \in Executions \ {x} :
           pc'[y] = pc[y] /\ record'[y] = record[y] /\ held'[y] = held[y] /\ unseen'[y] = unseen[y]
  BY <1>1 DEF Conclude, Goto, Tables, ExecStep, reviewVars
<1>4. Tables'
  BY <1>1, <1>2, <1>3 DEF Tables, Conclude, Goto, Locations, AtEntry
<1>5. Recording(x)'
  BY <1>1, <1>2, <1>3, EntriesAre DEF Recording, Current, AtEntry
<1>6. Accountable(x)'
  BY <1>1, <1>2, <1>3 DEF Accountable, AtWork, AtEntry
<1>7. Informed(x)'
  BY <1>3 DEF Informed
<1>8. ASSUME NEW y \in Executions \ {x} PROVE Recording(y)' /\ Accountable(y)' /\ Informed(y)'
  <2>1. /\ y \in Executions /\ pc'[y] = pc[y] /\ under'[y] = under[y] /\ record'[y] = record[y]
        /\ held'[y] = held[y] /\ acted'[y] = acted[y] /\ unseen'[y] = unseen[y]
        /\ file'[Current(y)] = file[Current(y)]
        /\ \A r \in Reviews : shown'[r] = shown[r]
    BY <1>3
  <2> QED
    BY <2>1, OtherKeeps
<1> QED
  BY <1>4, <1>5, <1>6, <1>7, <1>8 DEF ExecInv

\* Somebody else changes a file: whoever observed it is marked.
LEMMA ChangeKeeps ==
  ASSUME ExecInv, NEW i \in Entries, NEW content \in Contents, Change(i, content, None),
         UNCHANGED <<execVars, shown>>
  PROVE  ExecInv'
<1>1. Tables
  BY DEF ExecInv
<1>2. /\ file' = [file EXCEPT ![i] = content]
      /\ \A x \in Executions : unseen'[x] =
           (unseen[x] \/ (pc[x] \in AtEntry \ {"observe"} /\ Current(x) = i))
  BY RecoveryAssumption DEF Change
<1>3. Tables'
  BY <1>1, <1>2 DEF Tables, Change, execVars
<1>4. ASSUME NEW x \in Executions PROVE Recording(x)' /\ Accountable(x)' /\ Informed(x)'
  <2>1. /\ pc'[x] = pc[x] /\ under'[x] = under[x] /\ record'[x] = record[x]
        /\ held'[x] = held[x] /\ acted'[x] = acted[x]
        /\ \A r \in Reviews : shown'[r] = shown[r]
    BY DEF execVars
  <2>2. unseen[x] => unseen'[x]
    BY <1>2
  <2>3. pc[x] \in {"reload", "stat", "act"} => unseen'[x] \/ file'[Current(x)] = file[Current(x)]
    BY <1>1, <1>2 DEF AtEntry, Tables, ExecInv, Recording
  <2> QED
    BY <2>1, <2>2, <2>3, OtherKeeps
<1> QED
  BY <1>3, <1>4 DEF ExecInv

\* Steps that change neither a file nor an execution.
LEMMA QuietKeeps ==
  ASSUME ExecInv, UNCHANGED <<file, execVars, unseen>>,
         \A r \in Reviews : Len(shown[r]) = Len(Kind) => shown'[r] = shown[r]
  PROVE  ExecInv'
<1>1. Tables'
  BY DEF ExecInv, Tables, execVars
<1>2. ASSUME NEW x \in Executions PROVE Recording(x)' /\ Accountable(x)' /\ Informed(x)'
  <2>1. /\ pc'[x] = pc[x] /\ under'[x] = under[x] /\ record'[x] = record[x]
        /\ held'[x] = held[x] /\ acted'[x] = acted[x] /\ unseen'[x] = unseen[x]
        /\ file'[Current(x)] = file[Current(x)]
    BY DEF execVars
  <2> QED
    BY <2>1, OtherKeeps
<1> QED
  BY <1>1, <1>2 DEF ExecInv

\* Going on with the current entry without changing anything.
LEMMA GoOnKeeps ==
  ASSUME ExecInv, NEW x \in Executions, NEW l \in AtEntry, Goto(x, l), ExecStep,
         UNCHANGED <<file, record, acted, unseen>>,
         held' \in [Executions -> Contents \cup {None}],
         \A y \in Executions \ {x} : held'[y] = held[y],
         pc[x] \in AtEntry, pc[x] \in AtWork <=> l \in AtWork,
         l \in {"reload", "stat", "act"} => file[Current(x)] = "post" \/ unseen[x],
         l \in {"stat", "act"} /\ Kind[Current(x)] = "REPLACE_TEXT" => held'[x] = "pre"
  PROVE  ExecInv'
<1>1. Tables /\ Recording(x) /\ Accountable(x)
  BY DEF ExecInv
<1>2. /\ pc'[x] = l /\ \A y \in Executions \ {x} : pc'[y] = pc[y]
      /\ pc' \in [Executions -> Locations] /\ under' = under /\ spent' = spent /\ shown' = shown
  BY <1>1 DEF Goto, Tables, Locations, ExecStep, reviewVars
<1>3. Tables'
  BY <1>1, <1>2 DEF Tables
<1>4. Recording(x)'
  BY <1>1, <1>2 DEF Recording, Current, AtEntry
<1>5. Accountable(x)'
  BY <1>1, <1>2 DEF Accountable, Current, AtEntry, AtWork
<1>6. Informed(x)'
  BY <1>2 DEF Informed, Current
<1>7. ASSUME NEW y \in Executions \ {x} PROVE Recording(y)' /\ Accountable(y)' /\ Informed(y)'
  <2>1. /\ y \in Executions /\ pc'[y] = pc[y] /\ under'[y] = under[y] /\ record'[y] = record[y]
        /\ held'[y] = held[y] /\ acted'[y] = acted[y] /\ unseen'[y] = unseen[y]
        /\ file'[Current(y)] = file[Current(y)]
        /\ \A r \in Reviews : shown'[r] = shown[r]
    BY <1>2
  <2> QED
    BY <2>1, OtherKeeps
<1> QED
  BY <1>3, <1>4, <1>5, <1>6, <1>7 DEF ExecInv

\* The rename or unlink.
LEMMA ActKeeps ==
  ASSUME ExecInv, NEW x \in Executions, Act(x)
  PROVE  ExecInv'
<1>1. Tables /\ Recording(x) /\ Accountable(x) /\ Informed(x) /\ pc[x] = "act" /\ ExecStep
  BY DEF ExecInv, Act
<1>2. Current(x) \in Entries
  BY <1>1 DEF Recording, AtEntry
<1>3. CASE Conclude(x, "RESTORE_FAILED")
  BY <1>1, <1>3, ConcludeKeeps DEF Dispositions, AtEntry
<1>4. CASE /\ Change(Current(x), IF Kind[Current(x)] = "REPLACE_TEXT" THEN held[x] ELSE "absent", x)
           /\ acted' = [acted EXCEPT ![x] = @ \cup {Current(x)}]
           /\ Goto(x, "sync")
           /\ UNCHANGED <<record, held>>
  <2>1. PICK c \in Contents : Change(Current(x), c, x)
    BY <1>1, <1>4 DEF Informed, Contents
  <2>2. /\ pc'[x] = "sync" /\ \A y \in Executions \ {x} : pc'[y] = pc[y]
        /\ pc' \in [Executions -> Locations] /\ under' = under /\ spent' = spent /\ shown' = shown
        /\ acted' \in [Executions -> SUBSET Entries] /\ acted'[x] = acted[x] \cup {Current(x)}
        /\ \A y \in Executions \ {x} : acted'[y] = acted[y]
    BY <1>1, <1>2, <1>4 DEF Goto, Tables, Locations, AtEntry, ExecStep, reviewVars
  <2>3. /\ file' = [file EXCEPT ![Current(x)] = c] /\ unseen' \in [Executions -> BOOLEAN]
        /\ \A y \in Executions \ {x} : unseen'[y] =
             (unseen[y] \/ (pc[y] \in AtEntry \ {"observe"} /\ Current(y) = Current(x)))
    BY <1>1, <2>1 DEF Change, Tables
  <2>4. Tables'
    BY <1>1, <1>2, <1>4, <2>2, <2>3 DEF Tables
  <2>5. Recording(x)'
    BY <1>1, <1>2, <1>4, <2>2 DEF Recording, Current, AtEntry
  <2>6. DOMAIN record[x] = 1 .. Len(record[x]) /\ Current(x) \notin DOMAIN record[x]
    BY <1>1, LenProperties DEF Recording, Current
  <2>7. Accountable(x)'
    BY <1>1, <1>4, <2>2, <2>6 DEF Accountable, Current, AtWork
  <2>8. Informed(x)'
    BY <2>2 DEF Informed
  <2>9. ASSUME NEW y \in Executions \ {x} PROVE Recording(y)' /\ Accountable(y)' /\ Informed(y)'
    <3>1. /\ y \in Executions /\ pc'[y] = pc[y] /\ under'[y] = under[y] /\ record'[y] = record[y]
          /\ held'[y] = held[y] /\ acted'[y] = acted[y]
          /\ \A r \in Reviews : shown'[r] = shown[r]
      BY <1>4, <2>2
    <3>2. unseen[y] => unseen'[y]
      BY <2>3
    <3>3. pc[y] \in {"reload", "stat", "act"} => unseen'[y] \/ file'[Current(y)] = file[Current(y)]
      BY <1>1, <1>2, <2>3 DEF AtEntry, Tables
    <3> QED
      BY <3>1, <3>2, <3>3, OtherKeeps
  <2> QED
    BY <2>4, <2>5, <2>7, <2>8, <2>9 DEF ExecInv
<1> QED
  BY <1>3, <1>4 DEF Act

\* What a step of an execution may conclude.
LEMMA StepsKeep ==
  ASSUME ReviewInv, ExecInv, NEW x \in Executions,
         PassOver(x) \/ Observe(x) \/ Reload(x) \/ Stat(x) \/ Act(x) \/ Sync(x) \/ ActFault(x) \/ Prove(x)
  PROVE  ExecInv'
<1>1. Tables /\ Recording(x) /\ Accountable(x) /\ Informed(x)
  BY DEF ExecInv
<1>2. DOMAIN record[x] = 1 .. Len(record[x]) /\ Current(x) \notin DOMAIN record[x]
  BY <1>1, LenProperties DEF Recording, Current
<1>3. ASSUME NEW d \in Dispositions \ {"RESTORED"}, Conclude(x, d), ExecStep,
             pc[x] \in {"observe", "reload", "stat", "act"}
      PROVE  ExecInv'
  <2>1. Current(x) \notin acted[x]
    BY <1>1, <1>2, <1>3 DEF Accountable, AtWork
  <2> QED
    BY <1>3, <2>1, ConcludeKeeps DEF AtEntry
<1>4. held' = held => held' \in [Executions -> Contents \cup {None}]
  BY <1>1 DEF Tables
<1>5. CASE PassOver(x)
  <2>1. Current(x) \in Entries /\ under[x] \in Reviews /\ Len(shown[under[x]]) = Len(Kind)
    BY <1>1, <1>5 DEF PassOver, Recording, AtEntry
  <2>2. shown[under[x]][Current(x)] \in ReviewDispositions
    BY <2>1, EntriesAre, LenProperties, ElementOfSeq DEF ReviewInv
  <2>3. CarryReviewDisposition(shown[under[x]][Current(x)]) \in Dispositions \ {"RESTORED"}
    BY <2>2 DEF CarryReviewDisposition, Dispositions, ReviewDispositions
  <2> QED
    BY <1>3, <1>5, <2>3 DEF PassOver
<1>6. CASE Observe(x)
  <2>1. CASE /\ file[Current(x)] = "post"
             /\ Goto(x, IF Kind[Current(x)] = "REPLACE_TEXT" THEN "reload" ELSE "stat")
             /\ UNCHANGED <<file, record, held, acted, budget, unseen>>
    <3>1. PICK l \in {"reload", "stat"} :
            Goto(x, l) /\ (Kind[Current(x)] = "REPLACE_TEXT" => l = "reload")
      BY <2>1
    <3> QED
      BY <1>4, <1>6, <2>1, <3>1, GoOnKeeps DEF Observe, AtEntry, AtWork
  <2>2. CASE \E d \in {"NOT_APPLIED", "RECOVERY_CONFLICT", "RECOVERY_ENTRY_INVALID"} : Conclude(x, d)
    BY <1>3, <1>6, <2>2 DEF Observe, Dispositions, ReviewDispositions
  <2> QED
    BY <1>6, <2>1, <2>2 DEF Observe
<1>7. CASE Reload(x)
  <2>1. CASE /\ held' = [held EXCEPT ![x] = "pre"] /\ Goto(x, "stat")
             /\ UNCHANGED <<file, record, acted, budget, unseen>>
    <3>1. /\ held' \in [Executions -> Contents \cup {None}] /\ held'[x] = "pre"
          /\ \A y \in Executions \ {x} : held'[y] = held[y]
      BY <1>1, <2>1 DEF Tables, Contents
    <3>2. file[Current(x)] = "post" \/ unseen[x]
      BY <1>1, <1>7 DEF Informed, Reload
    <3> QED
      BY <1>7, <2>1, <3>1, <3>2, GoOnKeeps DEF Reload, AtEntry, AtWork
  <2>2. CASE Conclude(x, "RECOVERY_ENTRY_INVALID")
    BY <1>3, <1>7, <2>2 DEF Reload, Dispositions, ReviewDispositions
  <2> QED
    BY <1>7, <2>1, <2>2 DEF Reload
<1>8. CASE Stat(x)
  <2>1. CASE Goto(x, "act") /\ UNCHANGED <<file, record, held, acted, unseen>>
    <3>1. /\ file[Current(x)] = "post" \/ unseen[x]
          /\ Kind[Current(x)] = "REPLACE_TEXT" => held[x] = "pre"
      BY <1>1, <1>8 DEF Informed, Stat
    <3> QED
      BY <1>4, <1>8, <2>1, <3>1, GoOnKeeps DEF Stat, AtEntry, AtWork
  <2>2. CASE Conclude(x, "RESTORE_FAILED")
    BY <1>3, <1>8, <2>2 DEF Stat, Dispositions
  <2> QED
    BY <1>8, <2>1, <2>2 DEF Stat
<1>9. CASE Act(x)
  BY <1>9, ActKeeps
<1>10. CASE Sync(x)
  BY <1>4, <1>10, GoOnKeeps DEF Sync, AtEntry, AtWork
<1>11. CASE ActFault(x)
  BY <1>11, ConcludeKeeps DEF ActFault, AtEntry, Dispositions
<1>12. CASE Prove(x)
  <2>1. Current(x) \in acted[x]
    BY <1>1, <1>12 DEF Prove, Accountable, AtWork
  <2> QED
    BY <1>12, <2>1, ConcludeKeeps DEF Prove, AtEntry, Dispositions
<1> QED
  BY <1>5, <1>6, <1>7, <1>8, <1>9, <1>10, <1>11, <1>12

\* An execution begins with an empty record, on a review that is complete.
LEMMA ExecuteKeeps ==
  ASSUME ReviewInv, ExecInv, NEW x \in Executions, NEW r \in Reviews, Execute(x, r)
  PROVE  ExecInv'
<1>1. Tables /\ Recording(x) /\ Accountable(x)
  BY DEF ExecInv
<1>2. PICK l \in {"observe", "refused"} : Goto(x, l)
  BY DEF Execute
<1>3. /\ pc[x] = "idle" /\ review[r] = "ready" /\ spent' \subseteq Reviews
      /\ under' = [under EXCEPT ![x] = r]
      /\ UNCHANGED <<file, shown, record, held, acted, unseen>>
  BY <1>1 DEF Execute, Tables, reviewVars
<1>4. /\ pc'[x] = l /\ \A y \in Executions \ {x} : pc'[y] = pc[y] /\ under'[y] = under[y]
      /\ pc' \in [Executions -> Locations] /\ under'[x] = r
      /\ under' \in [Executions -> Reviews \cup {None}]
  BY <1>1, <1>2, <1>3 DEF Goto, Tables, Locations, AtEntry
<1>5. Tables'
  BY <1>1, <1>3, <1>4 DEF Tables
<1>6. record[x] = <<>> /\ Len(record[x]) = 0 /\ DOMAIN record[x] = {} /\ acted[x] = {}
  BY <1>1, <1>3, EmptySeq, LenProperties DEF Recording, Accountable, AtWork
<1>7. Recording(x)'
  BY <1>1, <1>3, <1>4, <1>6, EntriesAre DEF Recording, Current, AtEntry, ReviewInv
<1>8. Accountable(x)' /\ Informed(x)'
  BY <1>3, <1>4, <1>6 DEF Accountable, Informed, AtWork
<1>9. ASSUME NEW y \in Executions \ {x} PROVE Recording(y)' /\ Accountable(y)' /\ Informed(y)'
  <2>1. /\ y \in Executions /\ pc'[y] = pc[y] /\ under'[y] = under[y] /\ record'[y] = record[y]
        /\ held'[y] = held[y] /\ acted'[y] = acted[y] /\ unseen'[y] = unseen[y]
        /\ file'[Current(y)] = file[Current(y)]
        /\ \A q \in Reviews : shown'[q] = shown[q]
    BY <1>3, <1>4
  <2> QED
    BY <2>1, OtherKeeps
<1> QED
  BY <1>5, <1>7, <1>8, <1>9 DEF ExecInv

\* Every step keeps what executions know and have recorded.
LEMMA ExecKeeps ==
  ASSUME ReviewInv, ExecInv, [Next]_vars
  PROVE  ExecInv'
<1>1. ASSUME UNCHANGED <<file, execVars, unseen, shown>> PROVE ExecInv'
  BY <1>1, QuietKeeps
<1>2. CASE Capture \/ WriteBlob \/ WriteManifest \/ StoreFault \/ ReadBack \/ Recheck \/ PublishRefused \/ SessionDies
  BY <1>1, <1>2 DEF Capture, WriteBlob, WriteManifest, StoreFault, ReadBack, Recheck, PublishRefused,
     SessionDies, SessionStep, reviewVars
<1>3. CASE Publish
  <2>1. PICK i \in Entries : Change(i, "post", None)
    BY <1>3 DEF Publish
  <2> QED
    BY <1>3, <2>1, ChangeKeeps DEF Publish, SessionStep, reviewVars, Contents
<1>4. ASSUME NEW i \in Entries, NEW content \in Contents, OutsideChange(i, content) PROVE ExecInv'
  BY <1>4, ChangeKeeps DEF OutsideChange, reviewVars
<1>5. ASSUME NEW b \in Blobs, DamageBlob(b) PROVE ExecInv'
  BY <1>1, <1>5 DEF DamageBlob, reviewVars
<1>6. ASSUME NEW r \in Reviews, BeginReview(r) \/ Authorize(r) PROVE ExecInv'
  BY <1>1, <1>6 DEF BeginReview, Authorize, ReviewStep
<1>7. ASSUME NEW r \in Reviews, ReviewEntry(r) PROVE ExecInv'
  <2>1. Len(shown[r]) # Len(Kind)
    BY <1>7, EntriesAre, LenProperties DEF ReviewEntry, ReviewInv
  <2>2. \A q \in Reviews \ {r} : shown'[q] = shown[q]
    BY <1>7 DEF ReviewEntry, ReviewInv
  <2> QED
    BY <1>7, <2>1, <2>2, QuietKeeps DEF ReviewEntry, ReviewStep
<1>8. CASE HostDies
  <2>1. Tables'
    BY <1>8 DEF HostDies, ExecInv, Tables, Locations, AtEntry
  <2>2. ASSUME NEW x \in Executions PROVE Recording(x)' /\ Accountable(x)' /\ Informed(x)'
    <3>1. pc'[x] = pc[x] \/ (pc'[x] = "dead" /\ pc[x] \in AtEntry)
      BY <1>8 DEF HostDies
    <3>2. /\ under'[x] = under[x] /\ record'[x] = record[x] /\ held'[x] = held[x]
          /\ acted'[x] = acted[x] /\ unseen'[x] = unseen[x] /\ file' = file
          /\ \A r \in Reviews : shown'[r] = shown[r]
      BY <1>8 DEF HostDies
    <3> QED
      BY <3>1, <3>2, OtherKeeps
  <2> QED
    BY <2>1, <2>2 DEF ExecInv
<1>9. CASE UNCHANGED vars
  BY <1>1, <1>9 DEF vars, reviewVars
<1> QED
  BY <1>2, <1>3, <1>4, <1>5, <1>6, <1>7, <1>8, <1>9, StepsKeep, ExecuteKeeps DEF Next, SessionNext, HostNext

\* Both hold for ever.
LEMMA ExecAlways == Spec => [](ReviewInv /\ ExecInv)
<1>1. ReviewInv /\ ExecInv /\ [Next]_vars => (ReviewInv /\ ExecInv)'
  BY ReviewKeeps, ExecKeeps
<1> QED
  BY <1>1, ReviewInit, ExecInit, PTL DEF Spec

\* Every variable of recovery keeps its type, for any checkpoint.
THEOREM TypeCorrect == Spec => []TypeOK
<1>1. SessionInv /\ BudgetInv /\ ReviewInv /\ ExecInv => TypeOK
  BY DEF SessionInv, BudgetInv, ReviewInv, ExecInv, Tables, Recording, Locations, TypeOK
<1>2. SessionInv /\ BudgetInv /\ [Next]_vars => (SessionInv /\ BudgetInv)'
  BY SessionKeeps, BudgetKeeps
<1> QED
  BY <1>1, <1>2, SessionInit, BudgetInit, ExecAlways, PTL DEF Spec

\* The record an execution leaves (execute.ts) accounts for everything it
\* changed, and COMPLETE means that every approved entry was restored.
THEOREM RecordTruthfulAlways == Spec => []RecordTruthful
<1>1. ExecInv => RecordTruthful
  <2> SUFFICES ASSUME ExecInv, NEW x \in Executions
               PROVE  /\ \A i \in DOMAIN record[x] :
                           /\ i \in acted[x] => record[x][i] \in
                                {"RESTORED", "RESTORE_FAILED", "RESTORE_OUTCOME_UNCONFIRMED"}
                           /\ record[x][i] = "RESTORED" => i \in acted[x]
                      /\ pc[x] = "done" /\ RecoveryDisposition(x) = "RECOVERY_COMPLETE" =>
                           chosen[under[x]] \subseteq acted[x]
    BY DEF RecordTruthful
  <2>1. Accountable(x)
    BY DEF ExecInv
  <2>2. Restored(x) \subseteq acted[x]
    BY <2>1 DEF Restored, Accountable
  <2>3. RecoveryDisposition(x) = "RECOVERY_COMPLETE" => Restored(x) = chosen[under[x]]
    BY DEF RecoveryDisposition
  <2> QED
    BY <2>1, <2>2, <2>3 DEF Accountable
<1> QED
  BY <1>1, ExecAlways, PTL

\* Only the rename or unlink counts as a change by an execution.
LEMMA OnlyActs ==
  ASSUME [Next]_vars, ~UNCHANGED acted
  PROVE  \E x \in Executions : Act(x)
<1>1. ASSUME NEW x \in Executions,
             PassOver(x) \/ Observe(x) \/ Reload(x) \/ Stat(x) \/ Sync(x) \/ ActFault(x) \/ Prove(x)
      PROVE  UNCHANGED acted
  BY <1>1 DEF PassOver, Observe, Reload, Stat, Sync, ActFault, Prove, Conclude
<1>2. ASSUME NEW x \in Executions, NEW r \in Reviews, Execute(x, r) PROVE UNCHANGED acted
  BY <1>2 DEF Execute
<1>3. CASE HostDies
  BY <1>3 DEF HostDies
<1> QED
  BY <1>1, <1>2, <1>3, OthersKeepExecutions DEF Next, HostNext, execVars

\* Only the session's bytes, or what arrived after the fresh observation of
\* an entry, are ever overwritten (execute.ts, restoreEntry), and only with
\* the captured state.
THEOREM OverwritesWhatItSawAlways == Spec => OverwritesWhatItSaw
<1>1. ExecInv /\ [Next]_vars =>
        [\A x \in Executions : \A i \in acted'[x] \ acted[x] :
           (file[i] = "post" \/ unseen[x]) /\ file'[i] = Pre(i)]_vars
  <2> SUFFICES ASSUME ExecInv, [Next]_vars, NEW x \in Executions, NEW i \in acted'[x] \ acted[x]
               PROVE  (file[i] = "post" \/ unseen[x]) /\ file'[i] = Pre(i)
    OBVIOUS
  <2>1. PICK y \in Executions : Act(y)
    BY OnlyActs
  <2>2. Tables /\ Recording(y) /\ Informed(y) /\ pc[y] = "act"
    BY <2>1 DEF ExecInv, Act
  <2>3. ~Conclude(y, "RESTORE_FAILED")
    BY <2>1 DEF Conclude
  <2>4. /\ Change(Current(y), IF Kind[Current(y)] = "REPLACE_TEXT" THEN held[y] ELSE "absent", y)
        /\ acted' = [acted EXCEPT ![y] = @ \cup {Current(y)}]
    BY <2>1, <2>3 DEF Act
  <2>5. x = y /\ i = Current(y)
    BY <2>2, <2>4 DEF Tables
  <2>6. i \in Entries /\ Kind[i] \in {"REPLACE_TEXT", "CREATE_TEXT"}
    BY <2>2, <2>5, RecoveryAssumption, EntriesAre, ElementOfSeq DEF Recording, AtEntry
  <2>7. file'[i] = IF Kind[i] = "REPLACE_TEXT" THEN held[y] ELSE "absent"
    BY <2>2, <2>4, <2>5, <2>6 DEF Change, Tables
  <2> QED
    BY <2>2, <2>5, <2>7 DEF Informed, Pre
<1> QED
  BY <1>1, ExecAlways, PTL DEF Spec, OverwritesWhatItSaw

------------------------------------------------------------------------------
(* An undisturbed recovery.                                                 *)

Quiet == outside = 0 /\ damage = 0 /\ faults = 0

\* A review rests on a manifest, a settled one on a session that ended, and an
\* execution on an authorization and, when it is done, on a full record.
LifeInv ==
  /\ \A r \in Reviews : review[r] = "idle" => shown[r] = <<>>
  /\ \A r \in Reviews : review[r] # "idle" => manifest
  /\ settled # {} => session \in Ended
  /\ \A x \in Executions : pc[x] = "done" => Len(record[x]) = Len(Kind)
  /\ \A x \in Executions : pc[x] \notin {"idle", "refused"} => chosen[under[x]] # {}
  /\ damage = 0 => damaged = {}

\* Left alone, a file is as captured or as the session wrote it.
Original == \A i \in Entries : file[i] \in {Pre(i), "post"}

\* What a settled review did not find eligible is as captured.
Settled(r) ==
  \A i \in DOMAIN shown[r] : shown[r][i] = "ELIGIBLE_RESTORE" \/ file[i] = Pre(i)

\* So is what an execution under a settled review has dealt with.
Undone(x) ==
  pc[x] \notin {"idle", "refused"} /\ under[x] \in settled =>
    /\ \A i \in DOMAIN record[x] : i \in chosen[under[x]] => file[i] = Pre(i)
    /\ pc[x] \in AtWork => file[Current(x)] = Pre(Current(x))
    /\ pc[x] = "reload" => Kind[Current(x)] = "REPLACE_TEXT"

AsCaptured ==
  /\ Original
  /\ \A r \in settled : Settled(r)
  /\ \A x \in Executions : Undone(x)

UndoInv == LifeInv /\ (Quiet => AsCaptured)

RestInv == SessionInv /\ BudgetInv /\ ReviewInv /\ ExecInv

\* At the start nothing was reviewed.
LEMMA UndoInit == Init => UndoInv
<1> SUFFICES ASSUME Init PROVE UndoInv
  OBVIOUS
<1>1. LifeInv
  BY DEF Init, LifeInv
<1>2. AsCaptured
  BY DEF Init, AsCaptured, Original, Undone
<1> QED
  BY <1>1, <1>2 DEF UndoInv

\* A failing call, a damaged blob or another program's change ends the quiet,
\* and nothing restores it.
LEMMA QuietEnds ==
  ASSUME BudgetInv, [Next]_vars, Quiet'
  PROVE  /\ Quiet /\ ~Fault
         /\ \A i \in Entries, content \in Contents : ~OutsideChange(i, content)
         /\ \A b \in Blobs : ~DamageBlob(b)
<1>1. outside \in Nat /\ damage \in Nat /\ faults \in Nat
  BY RecoveryAssumption DEF BudgetInv
<1>2. ~Fault
  BY <1>1 DEF Fault, Quiet
<1>3. ASSUME NEW i \in Entries, NEW content \in Contents PROVE ~OutsideChange(i, content)
  BY <1>1 DEF OutsideChange, Quiet
<1>4. ASSUME NEW b \in Blobs PROVE ~DamageBlob(b)
  BY <1>1 DEF DamageBlob, Quiet
<1>5. ASSUME NEW x \in Executions,
             PassOver(x) \/ Observe(x) \/ Reload(x) \/ Stat(x) \/ Act(x) \/ Sync(x) \/ ActFault(x) \/ Prove(x)
      PROVE  UNCHANGED budget
  BY <1>2, <1>5 DEF PassOver, Observe, Reload, Stat, Act, Sync, ActFault, Prove
<1>6. ASSUME SessionNext PROVE UNCHANGED budget
  BY <1>2, <1>6 DEF SessionNext, Capture, WriteBlob, WriteManifest, StoreFault, ReadBack, Recheck, Publish,
     PublishRefused, SessionDies, budget
<1>7. ASSUME NEW r \in Reviews, BeginReview(r) \/ ReviewEntry(r) \/ Authorize(r) PROVE UNCHANGED budget
  BY <1>2, <1>7 DEF BeginReview, ReviewEntry, Authorize
<1>8. ASSUME NEW x \in Executions, NEW r \in Reviews, Execute(x, r) PROVE UNCHANGED budget
  BY <1>8 DEF Execute
<1>9. ASSUME HostDies PROVE UNCHANGED budget
  BY <1>9 DEF HostDies
<1>10. ASSUME UNCHANGED vars PROVE UNCHANGED budget
  BY <1>10 DEF vars
<1>11. Quiet
  BY <1>3, <1>4, <1>5, <1>6, <1>7, <1>8, <1>9, <1>10 DEF Next, HostNext, budget, Quiet
<1> QED
  BY <1>2, <1>3, <1>4, <1>11

\* An ended session does nothing more.
LEMMA EndedIsEnded ==
  ASSUME [Next]_vars, session \in Ended
  PROVE  ~SessionNext /\ UNCHANGED sessionVars
<1>1. ~SessionNext
  BY DEF SessionNext, Capture, WriteBlob, WriteManifest, StoreFault, ReadBack, Recheck, Publish,
     PublishRefused, SessionDies, Ended
<1>2. ASSUME NEW r \in Reviews, BeginReview(r) \/ ReviewEntry(r) \/ Authorize(r) PROVE UNCHANGED sessionVars
  BY <1>2 DEF BeginReview, ReviewEntry, Authorize, ReviewStep
<1>3. ASSUME NEW x \in Executions, NEW r \in Reviews, Execute(x, r) PROVE UNCHANGED sessionVars
  BY <1>3 DEF Execute
<1>4. ASSUME NEW i \in Entries, NEW content \in Contents, OutsideChange(i, content) PROVE UNCHANGED sessionVars
  BY <1>4 DEF OutsideChange
<1>5. ASSUME NEW b \in Blobs, DamageBlob(b) PROVE UNCHANGED sessionVars
  BY <1>5 DEF DamageBlob
<1> QED
  BY <1>1, <1>2, <1>3, <1>4, <1>5, ExecMoves DEF Next, HostNext, HostDies, vars

\* A manifest stays, and blobs are damaged only by damage.
LEMMA StoreStays ==
  ASSUME BudgetInv, [Next]_vars
  PROVE  /\ manifest => manifest'
         /\ damage' = 0 => damage = 0 /\ damaged' = damaged
<1>1. CASE SessionNext
  BY <1>1 DEF SessionNext, Capture, WriteBlob, WriteManifest, StoreFault, ReadBack, Recheck, Publish,
     PublishRefused, SessionDies, SessionStep, budget, Fault
<1>2. ASSUME NEW r \in Reviews, BeginReview(r) \/ ReviewEntry(r) \/ Authorize(r)
      PROVE  manifest' = manifest /\ damage' = damage /\ damaged' = damaged
  BY <1>2 DEF BeginReview, ReviewEntry, Authorize, ReviewStep, sessionVars, budget, Fault
<1>3. ASSUME NEW x \in Executions, NEW r \in Reviews, Execute(x, r)
      PROVE  manifest' = manifest /\ damage' = damage /\ damaged' = damaged
  BY <1>3 DEF Execute, sessionVars, budget
<1>4. ASSUME NEW i \in Entries, NEW content \in Contents, OutsideChange(i, content)
      PROVE  manifest' = manifest /\ damage' = damage /\ damaged' = damaged
  BY <1>4 DEF OutsideChange, sessionVars
<1>5. ASSUME NEW b \in Blobs, DamageBlob(b) PROVE manifest' = manifest /\ damage' # 0
  BY <1>5, RecoveryAssumption DEF DamageBlob, sessionVars, BudgetInv
<1>6. ASSUME NEW x \in Executions,
             PassOver(x) \/ Observe(x) \/ Reload(x) \/ Stat(x) \/ Act(x) \/ Sync(x) \/ ActFault(x) \/ Prove(x)
      PROVE  manifest' = manifest /\ damage' = damage /\ damaged' = damaged
  BY <1>6 DEF PassOver, Observe, Reload, Stat, Act, Sync, ActFault, Prove, ExecStep, sessionVars, budget, Fault
<1>7. CASE HostDies
  BY <1>7 DEF HostDies, sessionVars, budget
<1>8. CASE UNCHANGED vars
  BY <1>8 DEF vars, sessionVars, budget
<1> QED
  BY <1>1, <1>2, <1>3, <1>4, <1>5, <1>6, <1>7, <1>8 DEF Next, HostNext

\* Where an execution stands after a step of its own.
LEMMA ConcludesOrGoesOn ==
  ASSUME NEW x \in Executions, Tables, Recording(x),
         PassOver(x) \/ Observe(x) \/ Reload(x) \/ Stat(x) \/ Act(x) \/ Sync(x) \/ ActFault(x) \/ Prove(x)
  PROVE  /\ pc[x] \in AtEntry /\ Current(x) \in Entries
         /\ \A y \in Executions \ {x} : pc'[y] = pc[y] /\ record'[y] = record[y]
         /\ \/ pc'[x] \in AtEntry /\ record'[x] = record[x]
            \/ /\ pc'[x] = (IF Current(x) = Len(Kind) THEN "done" ELSE "observe")
               /\ \E d : record'[x] = Append(record[x], d)
               /\ Len(record'[x]) = Current(x) /\ DOMAIN record'[x] = 1 .. Current(x)
               /\ UNCHANGED file
<1>1. pc[x] \in AtEntry
  BY DEF PassOver, Observe, Reload, Stat, Act, Sync, ActFault, Prove, AtEntry
<1>2. Current(x) \in Entries /\ DOMAIN record[x] = 1 .. Len(record[x]) /\ Len(record[x]) \in Nat
  BY <1>1, LenProperties DEF Recording
<1> DEFINE
  Keeps == \A y \in Executions \ {x} : pc'[y] = pc[y] /\ record'[y] = record[y]
  Concludes ==
    /\ pc'[x] = (IF Current(x) = Len(Kind) THEN "done" ELSE "observe")
    /\ \E d : record'[x] = Append(record[x], d)
    /\ Len(record'[x]) = Current(x) /\ DOMAIN record'[x] = 1 .. Current(x)
    /\ UNCHANGED file
<1>3. ASSUME NEW d, Conclude(x, d) PROVE Keeps /\ Concludes
  <2>1. record'[x] = Append(record[x], d)
    BY <1>3 DEF Conclude, Tables
  <2>2. Len(record'[x]) = Current(x) /\ DOMAIN record'[x] = 1 .. Current(x)
    BY <1>2, <2>1 DEF Current, Recording
  <2> QED
    BY <1>1, <1>3, <2>1, <2>2 DEF Conclude, Goto, Tables
<1>4. ASSUME NEW l \in AtEntry, Goto(x, l), UNCHANGED record PROVE Keeps /\ pc'[x] \in AtEntry
  BY <1>4 DEF Goto, Tables
<1> HIDE DEF Keeps, Concludes
<1> DEFINE Either == Keeps /\ (Concludes \/ (pc'[x] \in AtEntry /\ UNCHANGED record))
<1>5. ASSUME Observe(x) PROVE Either
  BY <1>3, <1>4, <1>5 DEF Observe, AtEntry
<1>6. ASSUME Reload(x) PROVE Either
  BY <1>3, <1>4, <1>6 DEF Reload, AtEntry
<1>7. ASSUME Stat(x) PROVE Either
  BY <1>3, <1>4, <1>7 DEF Stat, AtEntry
<1>8. ASSUME Act(x) PROVE Either
  BY <1>3, <1>4, <1>8 DEF Act, AtEntry
<1>9. ASSUME PassOver(x) \/ Sync(x) \/ ActFault(x) \/ Prove(x) PROVE Either
  BY <1>3, <1>4, <1>9 DEF PassOver, Sync, ActFault, Prove, AtEntry
<1>10. Either
  BY <1>5, <1>6, <1>7, <1>8, <1>9
<1> QED
  BY <1>1, <1>2, <1>10 DEF Keeps, Concludes

\* Every step keeps what a review and an execution rest on.
LEMMA LifeKeeps ==
  ASSUME RestInv, LifeInv, [Next]_vars
  PROVE  LifeInv'
<1> USE DEF RestInv
<1>1. (damage = 0 => damaged = {})' /\ (manifest => manifest')
  BY StoreStays DEF LifeInv
<1>2. settled # {} => session' \in Ended
  BY EndedIsEnded DEF LifeInv, sessionVars
<1> DEFINE
  Reviewed == \A r \in Reviews : (review[r] = "idle" => shown[r] = <<>>) /\ (review[r] # "idle" => manifest)
  Executed == \A x \in Executions : /\ pc[x] = "done" => Len(record[x]) = Len(Kind)
                                    /\ pc[x] \notin {"idle", "refused"} => chosen[under[x]] # {}
<1>3. Reviewed /\ Executed
  BY DEF LifeInv
<1>4. ASSUME Reviewed', settled' = settled, Executed' PROVE LifeInv'
  BY <1>1, <1>2, <1>4 DEF LifeInv
<1>5. ASSUME UNCHANGED <<reviewVars, execVars>> PROVE LifeInv'
  BY <1>1, <1>3, <1>4, <1>5 DEF reviewVars, execVars
<1>6. CASE SessionNext \/ UNCHANGED vars
  <2>1. UNCHANGED <<reviewVars, execVars>>
    BY <1>6 DEF SessionNext, Capture, WriteBlob, WriteManifest, StoreFault, ReadBack, Recheck, Publish,
       PublishRefused, SessionDies, SessionStep, vars
  <2> QED
    BY <1>5, <2>1
<1>7. ASSUME NEW i \in Entries, NEW content \in Contents, OutsideChange(i, content) PROVE LifeInv'
  BY <1>5, <1>7 DEF OutsideChange
<1>8. ASSUME NEW b \in Blobs, DamageBlob(b) PROVE LifeInv'
  BY <1>5, <1>8 DEF DamageBlob
<1>9. ASSUME NEW r \in Reviews, BeginReview(r) PROVE LifeInv'
  <2>1. manifest /\ UNCHANGED <<shown, chosen, sessionVars, execVars>>
    BY <1>9 DEF BeginReview, ReviewStep
  <2>2. review' = [review EXCEPT ![r] = "reviewing"]
    BY <1>9 DEF BeginReview
  <2>3. settled' # {} => session' \in Ended
    BY <1>2, <1>9, <2>1 DEF BeginReview, sessionVars
  <2>4. Reviewed'
    BY <1>1, <1>3, <2>1, <2>2 DEF ReviewInv
  <2>5. Executed'
    BY <1>3, <2>1 DEF execVars
  <2> QED
    BY <1>1, <2>3, <2>4, <2>5 DEF LifeInv
<1>10. ASSUME NEW r \in Reviews, ReviewEntry(r) PROVE LifeInv'
  <2>1. UNCHANGED <<chosen, settled, sessionVars, execVars>>
    BY <1>10 DEF ReviewEntry, ReviewStep
  <2>2. /\ review[r] = "reviewing"
        /\ \E s \in {"ready", "reviewing"} : review' = [review EXCEPT ![r] = s]
        /\ \A q \in Reviews \ {r} : shown'[q] = shown[q]
    BY <1>10 DEF ReviewEntry, ReviewInv
  <2>3. Reviewed'
    BY <1>1, <1>3, <2>2 DEF ReviewInv
  <2>4. Executed'
    BY <1>3, <2>1 DEF execVars
  <2> QED
    BY <1>4, <2>1, <2>3, <2>4
<1>11. ASSUME NEW r \in Reviews, Authorize(r) PROVE LifeInv'
  <2>1. UNCHANGED <<review, shown, settled, sessionVars, execVars>>
    BY <1>11 DEF Authorize, ReviewStep
  <2>2. chosen[r] = {} /\ \E S : chosen' = [chosen EXCEPT ![r] = S]
    BY <1>11 DEF Authorize
  <2>3. \A q \in Reviews : chosen[q] # {} => chosen'[q] # {}
    BY <2>2 DEF ReviewInv
  <2>4. \A x \in Executions : pc[x] \notin {"idle", "refused"} => under[x] \in Reviews
    BY DEF ExecInv, Recording
  <2> QED
    BY <1>1, <1>3, <1>4, <2>1, <2>3, <2>4 DEF execVars
<1>12. ASSUME NEW x \in Executions, NEW r \in Reviews, Execute(x, r) PROVE LifeInv'
  <2>1. UNCHANGED <<reviewVars, sessionVars, record>> /\ chosen[r] # {}
    BY <1>12 DEF Execute
  <2>2. /\ under'[x] = r /\ pc'[x] \in {"observe", "refused"}
        /\ \A y \in Executions \ {x} : pc'[y] = pc[y] /\ under'[y] = under[y]
    BY <1>12 DEF Execute, Goto, ExecInv, Tables
  <2> QED
    BY <1>1, <1>3, <1>4, <2>1, <2>2 DEF reviewVars
<1>13. ASSUME NEW x \in Executions,
              PassOver(x) \/ Observe(x) \/ Reload(x) \/ Stat(x) \/ Act(x) \/ Sync(x) \/ ActFault(x) \/ Prove(x)
       PROVE  LifeInv'
  <2>1. UNCHANGED <<reviewVars, under>>
    BY <1>13, ExecMoves
  <2>2. Tables /\ Recording(x)
    BY DEF ExecInv
  <2>3. pc[x] \in AtEntry /\ \A y \in Executions \ {x} : pc'[y] = pc[y] /\ record'[y] = record[y]
    BY <1>13, <2>2, ConcludesOrGoesOn
  <2>4. pc'[x] = "done" => Len(record'[x]) = Len(Kind)
    BY <1>13, <2>2, ConcludesOrGoesOn DEF AtEntry
  <2>5. Executed'
    BY <1>3, <2>1, <2>3, <2>4 DEF reviewVars, AtEntry
  <2> QED
    BY <1>1, <1>3, <1>4, <2>1, <2>5 DEF reviewVars
<1>14. CASE HostDies
  <2>1. UNCHANGED <<shown, chosen, settled, under, record>>
    BY <1>14 DEF HostDies
  <2>2. \A r \in Reviews : review'[r] = "idle" <=> review[r] = "idle"
    BY <1>14 DEF HostDies
  <2>3. \A x \in Executions : pc'[x] = pc[x] \/ (pc'[x] = "dead" /\ pc[x] \in AtEntry)
    BY <1>14 DEF HostDies
  <2> QED
    BY <1>1, <1>3, <1>4, <2>1, <2>2, <2>3 DEF AtEntry
<1> QED
  BY <1>6, <1>7, <1>8, <1>9, <1>10, <1>11, <1>12, <1>13, <1>14 DEF Next, HostNext

\* Entries are replacements or creations.
LEMMA KindOf == ASSUME NEW i \in Entries PROVE Kind[i] \in {"REPLACE_TEXT", "CREATE_TEXT"}
  BY RecoveryAssumption, EntriesAre, ElementOfSeq

\* Left alone, only the session writes its bytes, and only a restore the
\* captured ones.
LEMMA FileSteps ==
  ASSUME RestInv, [Next]_vars, Quiet'
  PROVE  \/ file' = file
         \/ \E i \in Entries : file' = [file EXCEPT ![i] = "post"] /\ session \notin Ended
         \/ \E x \in Executions : Act(x) /\ file' = [file EXCEPT ![Current(x)] = Pre(Current(x))]
<1> USE DEF RestInv
<1>1. ~Fault /\ (\A i \in Entries, content \in Contents : ~OutsideChange(i, content))
  BY QuietEnds
<1>2. ASSUME SessionNext
      PROVE  file' = file \/ \E i \in Entries : file' = [file EXCEPT ![i] = "post"] /\ session \notin Ended
  BY <1>2 DEF SessionNext, Capture, WriteBlob, WriteManifest, StoreFault, ReadBack, Recheck, Publish,
     PublishRefused, SessionDies, Change, Ended
<1>3. ASSUME NEW x \in Executions, Act(x), file' # file
      PROVE  file' = [file EXCEPT ![Current(x)] = Pre(Current(x))]
  <2>1. Recording(x) /\ Informed(x) /\ pc[x] = "act"
    BY <1>3 DEF ExecInv, Act
  <2>2. Current(x) \in Entries
    BY <2>1 DEF Recording, AtEntry
  <2> QED
    BY <1>3, <2>1, <2>2, KindOf DEF Act, Conclude, Change, Informed, Pre
<1>4. ASSUME NEW x \in Executions,
             PassOver(x) \/ Observe(x) \/ Reload(x) \/ Stat(x) \/ Sync(x) \/ ActFault(x) \/ Prove(x)
      PROVE  file' = file
  BY <1>4 DEF PassOver, Observe, Reload, Stat, Sync, ActFault, Prove, Conclude
<1>5. ASSUME NEW x \in Executions, NEW r \in Reviews, Execute(x, r) PROVE file' = file
  BY <1>5 DEF Execute
<1>6. ASSUME NEW r \in Reviews, BeginReview(r) \/ ReviewEntry(r) \/ Authorize(r) PROVE file' = file
  BY <1>6 DEF BeginReview, ReviewEntry, Authorize, ReviewStep
<1>7. ASSUME HostDies \/ UNCHANGED vars \/ \E b \in Blobs : DamageBlob(b) PROVE file' = file
  BY <1>7 DEF HostDies, vars, DamageBlob
<1> QED
  BY <1>1, <1>2, <1>3, <1>4, <1>5, <1>6, <1>7 DEF Next, HostNext

\* After the session, what is as captured stays so.
LEMMA CapturedStays ==
  ASSUME RestInv, LifeInv, Original, [Next]_vars, Quiet'
  PROVE  /\ Original'
         /\ settled # {} => \A i \in Entries : file[i] = Pre(i) => file'[i] = Pre(i)
<1>1. file \in [Entries -> Contents]
  BY DEF RestInv, ExecInv, Tables
<1>2. settled # {} => session \in Ended
  BY DEF LifeInv
<1>3. CASE file' = file
  BY <1>3 DEF Original, Pre
<1>4. ASSUME NEW i \in Entries, file' = [file EXCEPT ![i] = "post"], session \notin Ended
      PROVE  Original' /\ settled = {}
  BY <1>1, <1>2, <1>4 DEF Original, Pre
<1>5. ASSUME NEW x \in Executions, Act(x), file' = [file EXCEPT ![Current(x)] = Pre(Current(x))]
      PROVE  Original' /\ \A i \in Entries : file[i] = Pre(i) => file'[i] = Pre(i)
  BY <1>1, <1>5 DEF Original, Pre
<1> QED
  BY <1>3, <1>4, <1>5, FileSteps

\* While all is quiet every blob a review or a restore needs is sound.
LEMMA BlobsSound ==
  ASSUME RestInv, LifeInv, Quiet, NEW r \in Reviews, review[r] # "idle" \/ Len(shown[r]) > 0
  PROVE  \A b \in Blobs : Sound(b)
<1>1. review[r] # "idle"
  BY EmptySeq DEF LifeInv
<1> QED
  BY <1>1 DEF LifeInv, RestInv, SessionInv, Quiet, Sound

\* What a settled review has classified and not found eligible is as captured.
LEMMA ReviewsTrue ==
  ASSUME RestInv, LifeInv, AsCaptured, [Next]_vars, Quiet', NEW r \in settled'
  PROVE  Settled(r)'
<1> USE DEF RestInv
<1>1. Quiet /\ ~Fault
  BY QuietEnds
<1>2. Original /\ Original' /\ (settled # {} => \A i \in Entries : file[i] = Pre(i) => file'[i] = Pre(i))
  BY CapturedStays DEF AsCaptured
<1>3. \A q \in Reviews : DOMAIN shown[q] = 1 .. Len(shown[q]) /\ Len(shown[q]) \in Nat
  BY LenProperties DEF ReviewInv
<1>4. \A q \in Reviews : DOMAIN shown[q] \subseteq Entries
  BY <1>3, EntriesAre DEF ReviewInv
<1>5. ASSUME r \in settled, shown'[r] = shown[r] PROVE Settled(r)'
  BY <1>2, <1>4, <1>5 DEF AsCaptured, Settled, Pre, ReviewInv
<1>6. ASSUME UNCHANGED <<shown, settled>> PROVE Settled(r)'
  BY <1>5, <1>6
<1>7. ASSUME NEW q \in Reviews, BeginReview(q) PROVE Settled(r)'
  <2>1. CASE r \in settled
    BY <1>5, <1>7, <2>1 DEF BeginReview
  <2>2. CASE r \notin settled
    <3>1. shown'[r] = <<>>
      BY <1>7, <2>2 DEF BeginReview, LifeInv
    <3> QED
      BY <3>1 DEF Settled
  <2> QED
    BY <2>1, <2>2
<1>8. ASSUME NEW q \in Reviews, ReviewEntry(q) PROVE Settled(r)'
  <2> DEFINE i == Len(shown[q]) + 1
  <2>1. settled' = settled /\ i \in Entries /\ review[q] = "reviewing" /\ file' = file
    BY <1>8 DEF ReviewEntry, ReviewStep
  <2>2. CASE r # q
    BY <1>5, <1>8, <2>1, <2>2 DEF ReviewEntry, ReviewInv
  <2>3. CASE r = q
    <3>1. \A b \in Blobs : Sound(b)
      BY <1>1, <2>1, BlobsSound
    <3>2. shown' = [shown EXCEPT ![q] = Append(@, Classify(i))]
      BY <1>1, <1>8, <3>1 DEF ReviewEntry
    <3>3. shown'[r] = Append(shown[r], Classify(i))
      BY <2>3, <3>2 DEF ReviewInv
    <3>4. Classify(i) = "ELIGIBLE_RESTORE" \/ file[i] = Pre(i)
      BY <1>2, <2>1, KindOf DEF Classify, Original, Pre
    <3>5. /\ DOMAIN shown'[r] = 1 .. i
          /\ shown'[r][i] = Classify(i)
          /\ \A j \in 1 .. Len(shown[r]) : shown'[r][j] = shown[r][j]
      <4>1. Classify(i) \in ReviewDispositions
        BY DEF Classify, ReviewDispositions
      <4>2. shown[r] \in Seq(ReviewDispositions)
        BY <2>3 DEF ReviewInv
      <4> QED
        BY <2>3, <3>3, <4>1, <4>2, AppendProperties, LenProperties
    <3>6. Settled(r)
      BY <2>1 DEF AsCaptured
    <3> QED
      BY <1>3, <2>1, <2>3, <3>4, <3>5, <3>6 DEF Settled, Pre
  <2> QED
    BY <2>2, <2>3
<1>9. ASSUME NEW q \in Reviews, Authorize(q) PROVE UNCHANGED <<shown, settled>>
  BY <1>9 DEF Authorize
<1>10. ASSUME NEW x \in Executions, NEW q \in Reviews, Execute(x, q) PROVE UNCHANGED <<shown, settled>>
  BY <1>10 DEF Execute, reviewVars
<1>11. ASSUME SessionNext \/ UNCHANGED vars PROVE UNCHANGED <<shown, settled>>
  BY <1>11 DEF SessionNext, Capture, WriteBlob, WriteManifest, StoreFault, ReadBack, Recheck, Publish,
     PublishRefused, SessionDies, SessionStep, vars, reviewVars
<1>12. ASSUME HostDies PROVE UNCHANGED <<shown, settled>>
  BY <1>12 DEF HostDies
<1> QED
  BY <1>6, <1>7, <1>8, <1>9, <1>10, <1>11, <1>12, QuietEnds, ExecMoves DEF Next, HostNext, reviewVars

Steps(x) ==
  PassOver(x) \/ Observe(x) \/ Reload(x) \/ Stat(x) \/ Act(x) \/ Sync(x) \/ ActFault(x) \/ Prove(x)

\* An execution that does not move keeps what it has dealt with.
LEMMA BystanderKeeps ==
  ASSUME RestInv, LifeInv, AsCaptured, [Next]_vars, Quiet', NEW x \in Executions,
         pc'[x] = pc[x] \/ (pc'[x] = "dead" /\ pc[x] \in AtEntry),
         under'[x] = under[x], record'[x] = record[x],
         under[x] \in settled' => under[x] \in settled,
         chosen[under[x]] # {} => chosen'[under[x]] = chosen[under[x]]
  PROVE  Undone(x)'
<1> SUFFICES ASSUME pc'[x] \notin {"idle", "refused"}, under'[x] \in settled'
             PROVE  Undone(x)'
  BY DEF Undone
<1>1. /\ pc[x] \notin {"idle", "refused"} /\ under[x] \in settled /\ Undone(x)
      /\ chosen'[under[x]] = chosen[under[x]]
  BY DEF AtEntry, LifeInv, AsCaptured
<1>2. \A i \in Entries : file[i] = Pre(i) => file'[i] = Pre(i)
  BY <1>1, CapturedStays DEF AsCaptured
<1>3. Recording(x)
  BY DEF RestInv, ExecInv
<1>4. DOMAIN record[x] \subseteq Entries
  BY <1>3, EntriesAre, LenProperties DEF Recording
<1>5. pc[x] \in AtWork => Current(x) \in Entries
  BY <1>3 DEF Recording, AtWork, AtEntry
<1>6. pc'[x] \in AtWork \cup {"reload"} => pc'[x] = pc[x]
  BY DEF AtWork
<1> QED
  BY <1>1, <1>2, <1>4, <1>5, <1>6 DEF Undone, Current, Pre

\* An execution that moves records an authorized entry, and leaves the restore,
\* only with the captured state in place.
LEMMA StepUndoes ==
  ASSUME RestInv, LifeInv, AsCaptured, [Next]_vars, Quiet', NEW x \in Executions, Steps(x)
  PROVE  Undone(x)'
<1> USE DEF RestInv
<1>1. Quiet /\ ~Fault
  BY QuietEnds
<1>2. Tables /\ Recording(x) /\ Informed(x)
  BY DEF ExecInv
<1>3. /\ pc[x] \in AtEntry /\ Current(x) \in Entries
      /\ \/ pc'[x] \in AtEntry /\ record'[x] = record[x]
         \/ /\ pc'[x] \in {"done", "observe"}
            /\ Len(record'[x]) = Current(x) /\ DOMAIN record'[x] = 1 .. Current(x)
            /\ UNCHANGED file
  BY <1>2, ConcludesOrGoesOn DEF Steps
<1>4. UNCHANGED <<under, chosen, settled>>
  BY ExecMoves DEF Steps, reviewVars
<1> SUFFICES ASSUME under[x] \in settled PROVE Undone(x)'
  BY <1>4 DEF Undone
<1>5. /\ Original
      /\ \A i \in DOMAIN record[x] : i \in chosen[under[x]] => file[i] = Pre(i)
      /\ pc[x] \in AtWork => file[Current(x)] = Pre(Current(x))
      /\ pc[x] = "reload" => Kind[Current(x)] = "REPLACE_TEXT"
  BY <1>3 DEF AsCaptured, Undone, AtEntry
<1>6. \A i \in Entries : file[i] = Pre(i) => file'[i] = Pre(i)
  BY CapturedStays DEF AsCaptured
<1>7. \A b \in Blobs : Sound(b)
  <2>1. under[x] \in Reviews /\ Len(shown[under[x]]) > 0
    BY <1>2, <1>3, EntriesAre DEF Recording, AtEntry
  <2> QED
    BY <1>1, <2>1, BlobsSound
<1>8. DOMAIN record[x] = 1 .. Len(record[x]) /\ Len(record[x]) \in Nat
      /\ Current(x) = Len(record[x]) + 1
  BY <1>2, LenProperties DEF Recording, Current
<1> DEFINE Justified == Current(x) \in chosen[under[x]] => file[Current(x)] = Pre(Current(x))
<1>9. ASSUME NEW d, Conclude(x, d), Justified PROVE Undone(x)'
  <2>1. /\ record'[x] = Append(record[x], d) /\ pc'[x] \in {"done", "observe"} /\ file' = file
    BY <1>2, <1>9 DEF Conclude, Goto, Tables
  <2>2. DOMAIN record'[x] = 1 .. Current(x)
    BY <1>2, <1>8, <2>1 DEF Recording
  <2> QED
    BY <1>4, <1>5, <1>8, <1>9, <2>1, <2>2 DEF Undone, AtWork, Pre
<1>10. ASSUME NEW l \in AtEntry, Goto(x, l), record' = record,
              l \in AtWork => file'[Current(x)] = Pre(Current(x)),
              l = "reload" => Kind[Current(x)] = "REPLACE_TEXT"
       PROVE  Undone(x)'
  <2>1. pc'[x] = l /\ record'[x] = record[x]
    BY <1>2, <1>10 DEF Goto, Tables
  <2>2. DOMAIN record[x] \subseteq Entries
    BY <1>2, <1>8, EntriesAre DEF Recording
  <2> QED
    BY <1>4, <1>5, <1>6, <1>10, <2>1, <2>2 DEF Undone, Pre, Current
<1>11. Kind[Current(x)] \in {"REPLACE_TEXT", "CREATE_TEXT"}
  BY <1>3, KindOf
<1>12. CASE PassOver(x)
  BY <1>9, <1>12 DEF PassOver
<1>13. CASE Observe(x)
  <2>1. CASE /\ file[Current(x)] = "post"
             /\ Goto(x, IF Kind[Current(x)] = "REPLACE_TEXT" THEN "reload" ELSE "stat")
             /\ record' = record
    BY <1>10, <1>11, <2>1 DEF AtEntry, AtWork
  <2>2. CASE file[Current(x)] # "post" /\ \E d : Conclude(x, d)
    BY <1>3, <1>5, <1>9, <2>2 DEF Original
  <2> QED
    BY <1>1, <1>13, <2>1, <2>2 DEF Observe
<1>14. CASE Reload(x)
  <2>1. <<Current(x), 2>> \in Blobs
    BY <1>3, <1>5, <1>14 DEF Reload, Blobs
  <2> QED
    BY <1>1, <1>7, <1>10, <1>14, <2>1 DEF Reload, AtEntry, AtWork
<1>15. CASE Stat(x)
  <2>1. CASE file[Current(x)] = "absent" /\ Conclude(x, "RESTORE_FAILED")
    BY <1>3, <1>5, <1>9, <2>1 DEF Original
  <2> QED
    BY <1>10, <1>15, <2>1 DEF Stat, AtEntry, AtWork
<1>16. CASE Act(x)
  <2>1. CASE file[Current(x)] = "absent" /\ Conclude(x, "RESTORE_FAILED")
    BY <1>3, <1>5, <1>9, <2>1 DEF Original
  <2>2. CASE /\ Change(Current(x), IF Kind[Current(x)] = "REPLACE_TEXT" THEN held[x] ELSE "absent", x)
             /\ Goto(x, "sync") /\ record' = record
    <3>1. file'[Current(x)] = Pre(Current(x))
      BY <1>2, <1>3, <1>16, <2>2 DEF Act, Change, Informed, Pre, Tables
    <3> QED
      BY <1>10, <2>2, <3>1 DEF AtEntry
  <2> QED
    BY <1>16, <2>1, <2>2 DEF Act
<1>17. CASE Sync(x)
  BY <1>5, <1>10, <1>17 DEF Sync, AtEntry, AtWork, Pre
<1>18. CASE ActFault(x)
  BY <1>1, <1>18 DEF ActFault
<1>19. CASE Prove(x)
  BY <1>1, <1>5, <1>9, <1>19 DEF Prove, AtWork
<1> QED
  BY <1>12, <1>13, <1>14, <1>15, <1>16, <1>17, <1>18, <1>19 DEF Steps

\* Every step keeps files as captured, as far as reviews and executions say so.
LEMMA UndoKeeps ==
  ASSUME RestInv, UndoInv, [Next]_vars
  PROVE  UndoInv'
<1> USE DEF RestInv
<1>1. LifeInv /\ LifeInv'
  BY LifeKeeps DEF UndoInv
<1> SUFFICES ASSUME Quiet' PROVE AsCaptured'
  BY <1>1 DEF UndoInv
<1>2. Quiet
  BY QuietEnds
<1>3. AsCaptured
  BY <1>2 DEF UndoInv
<1>4. Original' /\ \A r \in settled' : Settled(r)'
  BY <1>1, <1>3, CapturedStays, ReviewsTrue DEF AsCaptured
<1> SUFFICES ASSUME NEW x \in Executions PROVE Undone(x)'
  BY <1>4 DEF AsCaptured
<1>5. Tables /\ Recording(x)
  BY DEF ExecInv
<1>6. ASSUME UNCHANGED <<execVars, settled, chosen>> PROVE Undone(x)'
  BY <1>1, <1>3, <1>6, BystanderKeeps DEF execVars
<1>7. CASE SessionNext \/ UNCHANGED vars
  BY <1>6, <1>7 DEF SessionNext, Capture, WriteBlob, WriteManifest, StoreFault, ReadBack, Recheck, Publish,
     PublishRefused, SessionDies, SessionStep, vars, reviewVars
<1>8. ASSUME NEW r \in Reviews, BeginReview(r) PROVE Undone(x)'
  <2>1. under[x] # r \/ pc[x] = "idle"
    <3>1. shown[r] = <<>> /\ Len(shown[r]) # Len(Kind)
      BY <1>1, <1>8, EntriesAre, EmptySeq DEF BeginReview, LifeInv
    <3> QED
      BY <1>5, <3>1 DEF Recording
  <2>2. UNCHANGED <<execVars, chosen>> /\ settled' \subseteq settled \cup {r}
    BY <1>8 DEF BeginReview, ReviewStep
  <2>3. CASE pc[x] = "idle"
    BY <2>2, <2>3 DEF Undone, execVars
  <2>4. CASE under[x] # r
    BY <1>1, <1>3, <2>2, <2>4, BystanderKeeps DEF execVars
  <2> QED
    BY <2>1, <2>3, <2>4
<1>9. ASSUME NEW r \in Reviews, ReviewEntry(r) PROVE Undone(x)'
  BY <1>6, <1>9 DEF ReviewEntry, ReviewStep
<1>10. ASSUME NEW r \in Reviews, Authorize(r) PROVE Undone(x)'
  <2>1. UNCHANGED <<execVars, settled>>
    BY <1>10 DEF Authorize, ReviewStep
  <2>2. chosen[r] = {} /\ \E S : chosen' = [chosen EXCEPT ![r] = S]
    BY <1>10 DEF Authorize
  <2>3. chosen[under[x]] # {} => chosen'[under[x]] = chosen[under[x]]
    BY <2>2 DEF ReviewInv
  <2> QED
    BY <1>1, <1>3, <2>1, <2>3, BystanderKeeps DEF execVars
<1>11. ASSUME NEW y \in Executions, NEW r \in Reviews, Execute(y, r) PROVE Undone(x)'
  <2>1. UNCHANGED <<settled, chosen, record>>
    BY <1>11 DEF Execute, reviewVars
  <2>2. CASE x = y
    <3>1. pc'[x] \in {"observe", "refused"} /\ record'[x] = <<>>
      BY <1>5, <1>11, <2>1, <2>2 DEF Execute, Goto, Tables, Recording
    <3> QED
      BY <3>1 DEF Undone, AtWork
  <2>3. CASE x # y
    <3>1. pc'[x] = pc[x] /\ under'[x] = under[x]
      BY <1>5, <1>11, <2>3 DEF Execute, Goto, Tables
    <3> QED
      BY <1>1, <1>3, <2>1, <3>1, BystanderKeeps
  <2> QED
    BY <2>2, <2>3
<1>12. ASSUME NEW y \in Executions, Steps(y) PROVE Undone(x)'
  <2>1. UNCHANGED <<settled, chosen, under>>
    BY <1>12, ExecMoves DEF Steps, reviewVars
  <2>2. CASE x = y
    BY <1>1, <1>3, <1>12, <2>2, StepUndoes
  <2>3. CASE x # y
    <3>1. pc'[x] = pc[x] /\ record'[x] = record[x]
      <4>1. Tables /\ Recording(y)
        BY DEF ExecInv
      <4> QED
        BY <1>12, <2>3, <4>1, ConcludesOrGoesOn DEF Steps
    <3> QED
      BY <1>1, <1>3, <2>1, <3>1, BystanderKeeps
  <2> QED
    BY <2>2, <2>3
<1>13. CASE HostDies
  <2>1. UNCHANGED <<settled, chosen, under, record>>
    BY <1>13 DEF HostDies
  <2>2. pc'[x] = pc[x] \/ (pc'[x] = "dead" /\ pc[x] \in AtEntry)
    BY <1>13 DEF HostDies
  <2> QED
    BY <1>1, <1>3, <2>1, <2>2, BystanderKeeps
<1> QED
  BY <1>7, <1>8, <1>9, <1>10, <1>11, <1>12, <1>13, QuietEnds DEF Next, HostNext, Steps

\* Wherever the session died, one undisturbed recovery of everything eligible
\* (review.ts, execute.ts) puts every file back as it was captured, for any
\* checkpoint and beside any number of other reviews and executions.
THEOREM UndisturbedRecoveryUndoesAlways == Spec => []UndisturbedRecoveryUndoes
<1>1. RestInv /\ UndoInv => UndisturbedRecoveryUndoes
  <2> SUFFICES ASSUME RestInv, UndoInv, Quiet, NEW x \in Executions, pc[x] = "done",
                      under[x] \in settled, chosen[under[x]] = Eligible(under[x]), NEW i \in Entries
               PROVE  file[i] = Pre(i)
    BY DEF UndisturbedRecoveryUndoes, Quiet
  <2>1. /\ Settled(under[x])
        /\ \A j \in DOMAIN record[x] : j \in chosen[under[x]] => file[j] = Pre(j)
    BY DEF UndoInv, AsCaptured, Undone
  <2>2. Recording(x) /\ Len(record[x]) = Len(Kind)
    BY DEF RestInv, ExecInv, UndoInv, LifeInv
  <2>3. /\ i \in DOMAIN record[x]
        /\ i \in DOMAIN shown[under[x]]
    BY <2>2, EntriesAre, LenProperties DEF Recording, RestInv, ReviewInv
  <2> QED
    BY <2>1, <2>3 DEF Settled, Eligible
<1>2. RestInv /\ UndoInv /\ [Next]_vars => (RestInv /\ UndoInv)'
  BY SessionKeeps, BudgetKeeps, ReviewKeeps, ExecKeeps, UndoKeeps DEF RestInv
<1>3. Init => RestInv /\ UndoInv
  BY SessionInit, BudgetInit, ReviewInit, ExecInit, UndoInit DEF RestInv
<1> QED
  BY <1>1, <1>2, <1>3, PTL DEF Spec

=============================================================================
