------------------------------ MODULE Recovery ------------------------------
(***************************************************************************)
(* Recovery (src/recovery, and the apply step of src/orchestrator/mutation *)
(* that calls it).  A session stores a checkpoint of what it is about to   *)
(* change, proves it, and then changes the files; it may die at any moment.*)
(* A recovery host loads the checkpoint, reviews every entry against the   *)
(* live file, is authorized for some of them, and restores those.  Nothing *)
(* locks the files: other programs, the session and several executions     *)
(* interleave with every await.                                            *)
(*                                                                         *)
(* An entry stands for its path.  Its file holds "pre" (what was captured),*)
(* "post" (what the session writes), "other", "bad" (a damaged blob) or    *)
(* "absent", which is the captured state of a creation.                    *)
(***************************************************************************)
EXTENDS Naturals, Sequences, FiniteSets

CONSTANTS
  Kind,        \* the checkpoint's entries: a sequence of kinds
  Reviews, Executions,
  None,
  MaxOutside,  \* bound: changes by other programs
  MaxDamage,   \* bound: blobs damaged or lost in the store
  MaxFaults    \* bound: failing I/O calls

Entries == DOMAIN Kind

ASSUME RecoveryAssumption ==
  /\ Kind \in Seq({"REPLACE_TEXT", "CREATE_TEXT"})
  /\ Kind # <<>>
  /\ None \notin Executions \cup Reviews
  /\ {MaxOutside, MaxDamage, MaxFaults} \subseteq Nat

VARIABLES
  file,       \* entry -> content of its path
  stored,     \* blobs in the store
  damaged,    \* blobs that no longer match their digest
  manifest,   \* the manifest is in the store
  session,    \* how far the session is
  captured,   \* entries captured so far
  applied,    \* entries whose edit was published
  review,     \* review -> "idle", "reviewing", "ready", "dead"
  shown,      \* review -> its dispositions so far
  chosen,     \* review -> the entries authorized under it
  spent,      \* reviews whose authorization has been consumed
  pc,         \* execution -> its next step
  under,      \* execution -> its review
  record,     \* execution -> dispositions recorded so far
  held,       \* execution -> the pre-state bytes it loaded
  outside, damage, faults,
  acted,      \* history: execution -> entries it changed
  unseen,     \* history: execution -> its entry changed after it was observed
  settled     \* history: reviews begun when the session had ended

sessionVars == <<stored, manifest, session, captured, applied>>
reviewVars == <<review, shown, chosen, settled>>
execVars == <<spent, pc, under, record, held, acted>>
budget == <<outside, damage, faults>>
vars == <<file, damaged, sessionVars, reviewVars, execVars, budget, unseen>>

Contents == {"pre", "post", "other", "bad", "absent"}
Pre(i) == IF Kind[i] = "REPLACE_TEXT" THEN "pre" ELSE "absent"

\* A blob with the intended bytes for every entry, one with the captured
\* bytes for a replacement, written in this order.
Blobs == {<<i, 1>> : i \in Entries} \cup {<<i, 2>> : i \in {j \in Entries : Kind[j] = "REPLACE_TEXT"}}
Precedes(b, c) == b[1] < c[1] \/ (b[1] = c[1] /\ b[2] < c[2])

Sound(b) == b \in stored \ damaged

ReviewDispositions == {"ELIGIBLE_RESTORE", "ALREADY_PRE_STATE", "NOT_APPLIED",
                       "RECOVERY_CONFLICT", "RECOVERY_ENTRY_INVALID"}
Dispositions == (ReviewDispositions \ {"ELIGIBLE_RESTORE"}) \cup
                {"SKIPPED_NOT_AUTHORIZED", "RESTORED", "RESTORE_FAILED",
                 "RESTORE_OUTCOME_UNCONFIRMED"}
Ended == {"applied", "stopped", "refused", "dead"}
AtEntry == {"observe", "reload", "stat", "act", "sync", "prove"}

TypeOK ==
  /\ file \in [Entries -> Contents]
  /\ stored \subseteq Blobs /\ damaged \subseteq Blobs /\ manifest \in BOOLEAN
  /\ session \in {"capture", "persist", "apply", "checked"} \cup Ended
  /\ captured \subseteq Entries /\ applied \subseteq captured
  /\ review \in [Reviews -> {"idle", "reviewing", "ready", "dead"}]
  /\ shown \in [Reviews -> Seq(ReviewDispositions)]
  /\ \A r \in Reviews : Len(shown[r]) <= Len(Kind)
  /\ chosen \in [Reviews -> SUBSET Entries]
  /\ spent \subseteq Reviews /\ settled \subseteq Reviews
  /\ pc \in [Executions -> {"idle", "done", "refused", "dead"} \cup AtEntry]
  /\ under \in [Executions -> Reviews \cup {None}]
  /\ record \in [Executions -> Seq(Dispositions)]
  /\ \A x \in Executions : Len(record[x]) <= Len(Kind)
  /\ held \in [Executions -> Contents \cup {None}]
  /\ acted \in [Executions -> SUBSET Entries]
  /\ unseen \in [Executions -> BOOLEAN]
  /\ outside \in 0 .. MaxOutside /\ damage \in 0 .. MaxDamage /\ faults \in 0 .. MaxFaults

Init ==
  /\ file = [i \in Entries |-> Pre(i)]
  /\ stored = {} /\ damaged = {} /\ manifest = FALSE
  /\ session = "capture" /\ captured = {} /\ applied = {}
  /\ review = [r \in Reviews |-> "idle"]
  /\ shown = [r \in Reviews |-> <<>>]
  /\ chosen = [r \in Reviews |-> {}]
  /\ spent = {} /\ settled = {}
  /\ pc = [x \in Executions |-> "idle"]
  /\ under = [x \in Executions |-> None]
  /\ record = [x \in Executions |-> <<>>]
  /\ held = [x \in Executions |-> None]
  /\ outside = 0 /\ damage = 0 /\ faults = 0
  /\ acted = [x \in Executions |-> {}]
  /\ unseen = [x \in Executions |-> FALSE]

------------------------------------------------------------------------------
(* Files and faults.                                                        *)

Current(x) == Len(record[x]) + 1

\* Whoever changes a path makes what others observed of it stale.
Change(i, content, by) ==
  /\ file' = [file EXCEPT ![i] = content]
  /\ unseen' = [x \in Executions |->
       unseen[x] \/ (x # by /\ pc[x] \in AtEntry \ {"observe"} /\ Current(x) = i)]

Fault == faults < MaxFaults /\ faults' = faults + 1 /\ UNCHANGED <<outside, damage>>

OutsideChange(i, content) ==
  /\ outside < MaxOutside /\ outside' = outside + 1
  /\ content \notin {file[i], "bad"}
  /\ Change(i, content, None)
  /\ UNCHANGED <<damaged, sessionVars, reviewVars, execVars, damage, faults>>

DamageBlob(b) ==
  /\ damage < MaxDamage /\ damage' = damage + 1
  /\ Sound(b)
  /\ damaged' = damaged \cup {b}
  /\ UNCHANGED <<file, sessionVars, reviewVars, execVars, outside, faults, unseen>>

------------------------------------------------------------------------------
(* The session: checkpoint, then mutation (one edit after another).         *)

SessionStep == UNCHANGED <<damaged, reviewVars, execVars>>

\* The entry that follows those done: both loops go through them in order.
IsNext(i, done) == i \notin done /\ \A j \in Entries \ done : i <= j

Capture ==
  /\ session = "capture"
  /\ \E i \in Entries :
       /\ IsNext(i, captured)
       /\ \/ /\ file[i] = Pre(i)
             /\ captured' = captured \cup {i}
             /\ session' = IF captured' = Entries THEN "persist" ELSE "capture"
             /\ UNCHANGED budget
          \/ /\ file[i] # Pre(i)
             /\ session' = "refused"
             /\ UNCHANGED <<captured, budget>>
          \/ Fault /\ session' = "refused" /\ UNCHANGED captured
  /\ UNCHANGED <<file, stored, manifest, applied, unseen>> /\ SessionStep

\* writeFileAtomic: written and synced under another name, then renamed.
WriteBlob ==
  /\ session = "persist"
  /\ \E b \in Blobs \ stored :
       /\ \A c \in Blobs \ stored : c = b \/ Precedes(b, c)
       /\ stored' = stored \cup {b}
  /\ UNCHANGED <<file, manifest, session, captured, applied, budget, unseen>> /\ SessionStep

\* Mutant: the manifest goes first.
WriteManifestEarly ==
  /\ session = "persist" /\ ~manifest
  /\ manifest' = TRUE
  /\ UNCHANGED <<file, stored, session, captured, applied, budget, unseen>> /\ SessionStep

WriteManifest ==
  /\ session = "persist" /\ ~manifest
  /\ stored = Blobs
  /\ manifest' = TRUE
  /\ UNCHANGED <<file, stored, session, captured, applied, budget, unseen>> /\ SessionStep

StoreFault ==
  /\ session = "persist"
  /\ Fault
  /\ session' = "refused"
  /\ UNCHANGED <<file, stored, manifest, captured, applied, unseen>> /\ SessionStep

\* persistCheckpoint reads the manifest and every blob back.
ReadBack ==
  /\ session = "persist" /\ manifest
  /\ session' = IF \A b \in Blobs : Sound(b) THEN "apply" ELSE "refused"
  /\ UNCHANGED <<file, stored, manifest, captured, applied, budget, unseen>> /\ SessionStep

\* The edit's last look at its target; a refusal or failure ends the plan.
Recheck ==
  /\ session = "apply"
  /\ \/ \E i \in Entries : IsNext(i, applied) /\ file[i] = Pre(i) /\ session' = "checked"
     \/ session' = "stopped"
  /\ UNCHANGED <<file, stored, manifest, captured, applied, budget, unseen>> /\ SessionStep

\* The edit's commit point: a creation never replaces a file.
Publish ==
  /\ session = "checked"
  /\ \E i \in Entries :
       /\ IsNext(i, applied)
       /\ Kind[i] = "CREATE_TEXT" => file[i] = "absent"
       /\ Change(i, "post", None)
       /\ applied' = applied \cup {i}
  /\ session' \in {IF applied' = Entries THEN "applied" ELSE "apply", "stopped"}
  /\ UNCHANGED <<stored, manifest, captured, budget>> /\ SessionStep

PublishRefused ==
  /\ session = "checked"
  /\ session' = "stopped"
  /\ UNCHANGED <<file, stored, manifest, captured, applied, budget, unseen>> /\ SessionStep

SessionDies ==
  /\ session \notin Ended
  /\ session' = "dead"
  /\ UNCHANGED <<file, stored, manifest, captured, applied, budget, unseen>> /\ SessionStep

------------------------------------------------------------------------------
(* Review and authorization.                                                *)

ReviewStep == UNCHANGED <<file, damaged, sessionVars, execVars, unseen>>

\* loadCheckpoint and prepareRecoveryReview: no manifest, no review.
BeginReview(r) ==
  /\ review[r] = "idle" /\ manifest
  /\ review' = [review EXCEPT ![r] = "reviewing"]
  /\ settled' = IF session \in Ended THEN settled \cup {r} ELSE settled
  /\ UNCHANGED <<shown, chosen, budget>> /\ ReviewStep

Classify(i) ==
  CASE file[i] = "post" -> "ELIGIBLE_RESTORE"
    [] Kind[i] = "REPLACE_TEXT" /\ file[i] = "pre" -> "ALREADY_PRE_STATE"
    [] Kind[i] = "CREATE_TEXT" /\ file[i] = "absent" -> "NOT_APPLIED"
    [] OTHER -> "RECOVERY_CONFLICT"

ReviewEntry(r) ==
  LET i == Len(shown[r]) + 1 IN
  /\ review[r] = "reviewing" /\ i \in Entries
  /\ \/ /\ \A b \in Blobs : b[1] = i => Sound(b)
        /\ shown' = [shown EXCEPT ![r] = Append(@, Classify(i))]
        /\ UNCHANGED budget
     \/ /\ \E b \in Blobs : b[1] = i /\ ~Sound(b)
        /\ shown' = [shown EXCEPT ![r] = Append(@, "RECOVERY_ENTRY_INVALID")]
        /\ UNCHANGED budget
     \/ /\ Fault
        /\ shown' = [shown EXCEPT ![r] = Append(@, "RECOVERY_ENTRY_INVALID")]
  /\ review' = [review EXCEPT ![r] = IF i = Len(Kind) THEN "ready" ELSE "reviewing"]
  /\ UNCHANGED <<chosen, settled>> /\ ReviewStep

Eligible(r) == {i \in DOMAIN shown[r] : shown[r][i] = "ELIGIBLE_RESTORE"}

\* One authorization per review here; each selects some eligible entries.
Authorize(r) ==
  /\ review[r] = "ready" /\ chosen[r] = {}
  /\ \E S \in SUBSET Eligible(r) \ {{}} : chosen' = [chosen EXCEPT ![r] = S]
  /\ UNCHANGED <<review, shown, settled, budget>> /\ ReviewStep

------------------------------------------------------------------------------
(* Execution.                                                               *)

ExecStep == UNCHANGED <<damaged, sessionVars, reviewVars, spent, under>>
Goto(x, step) == pc' = [pc EXCEPT ![x] = step]

CarryReviewDisposition(d) == IF d = "ELIGIBLE_RESTORE" THEN "SKIPPED_NOT_AUTHORIZED" ELSE d

\* Mutant: an authorization is never used up.
SpendableAgain(r) == TRUE

\* Executions that share an authorization: the first consumes it.
Spendable(r) == r \notin spent

Execute(x, r) ==
  /\ pc[x] = "idle" /\ review[r] = "ready" /\ chosen[r] # {}
  /\ under' = [under EXCEPT ![x] = r]
  /\ IF Spendable(r) THEN Goto(x, "observe") /\ spent' = spent \cup {r}
                     ELSE Goto(x, "refused") /\ UNCHANGED spent
  /\ UNCHANGED <<file, damaged, sessionVars, reviewVars, record, held, acted, budget, unseen>>

\* Mutant: the loop ends with the first entry that was restored.
ConcludeFirst(x, disposition) ==
  /\ record' = [record EXCEPT ![x] = Append(@, disposition)]
  /\ Goto(x, IF Current(x) = Len(Kind) \/ disposition = "RESTORED" THEN "done" ELSE "observe")
  /\ held' = [held EXCEPT ![x] = None]
  /\ unseen' = [unseen EXCEPT ![x] = FALSE]
  /\ UNCHANGED <<file, acted>>

\* Record the current entry and go on to the next.
Conclude(x, disposition) ==
  /\ record' = [record EXCEPT ![x] = Append(@, disposition)]
  /\ Goto(x, IF Current(x) = Len(Kind) THEN "done" ELSE "observe")
  /\ held' = [held EXCEPT ![x] = None]
  /\ unseen' = [unseen EXCEPT ![x] = FALSE]
  /\ UNCHANGED <<file, acted>>

PassOver(x) ==
  /\ pc[x] = "observe" /\ Current(x) \notin chosen[under[x]]
  /\ Conclude(x, CarryReviewDisposition(shown[under[x]][Current(x)]))
  /\ UNCHANGED budget /\ ExecStep

\* Mutant: what the review saw is still true.
ObserveTrusting(x) ==
  LET i == Current(x) IN
  /\ pc[x] = "observe" /\ i \in chosen[under[x]]
  /\ Goto(x, IF Kind[i] = "REPLACE_TEXT" THEN "reload" ELSE "stat")
  /\ UNCHANGED <<file, record, held, acted, budget, unseen>>
  /\ ExecStep

\* The fresh observation.
Observe(x) ==
  LET i == Current(x) IN
  /\ pc[x] = "observe" /\ i \in chosen[under[x]]
  /\ \/ /\ file[i] = "post"
        /\ Goto(x, IF Kind[i] = "REPLACE_TEXT" THEN "reload" ELSE "stat")
        /\ UNCHANGED <<file, record, held, acted, budget, unseen>>
     \/ /\ file[i] = "absent" /\ Kind[i] = "CREATE_TEXT"
        /\ Conclude(x, "NOT_APPLIED") /\ UNCHANGED budget
     \/ /\ file[i] # "post" /\ ~(file[i] = "absent" /\ Kind[i] = "CREATE_TEXT")
        /\ Conclude(x, "RECOVERY_CONFLICT") /\ UNCHANGED budget
     \/ Fault /\ Conclude(x, "RECOVERY_ENTRY_INVALID")
  /\ ExecStep

\* The pre-state is loaded again and must match its digest.
Reload(x) ==
  LET b == <<Current(x), 2>> IN
  /\ pc[x] = "reload"
  /\ \/ /\ Sound(b)
        /\ held' = [held EXCEPT ![x] = "pre"] /\ Goto(x, "stat")
        /\ UNCHANGED <<file, record, acted, budget, unseen>>
     \/ ~Sound(b) /\ Conclude(x, "RECOVERY_ENTRY_INVALID") /\ UNCHANGED budget
     \/ Fault /\ Conclude(x, "RECOVERY_ENTRY_INVALID")
  /\ ExecStep

\* lstat of the target: there must be a file.
Stat(x) ==
  /\ pc[x] = "stat"
  /\ IF file[Current(x)] = "absent"
     THEN Conclude(x, "RESTORE_FAILED")
     ELSE Goto(x, "act") /\ UNCHANGED <<file, record, held, acted, unseen>>
  /\ UNCHANGED budget /\ ExecStep

\* rename of a verified candidate, or unlink, which fails on no file.
Act(x) ==
  LET i == Current(x) IN
  /\ pc[x] = "act"
  /\ IF Kind[i] = "CREATE_TEXT" /\ file[i] = "absent"
     THEN Conclude(x, "RESTORE_FAILED")
     ELSE /\ Change(i, IF Kind[i] = "REPLACE_TEXT" THEN held[x] ELSE "absent", x)
          /\ acted' = [acted EXCEPT ![x] = @ \cup {i}]
          /\ Goto(x, "sync")
          /\ UNCHANGED <<record, held>>
  /\ UNCHANGED budget /\ ExecStep

Sync(x) ==
  /\ pc[x] = "sync"
  /\ Goto(x, "prove")
  /\ UNCHANGED <<file, record, held, acted, budget, unseen>> /\ ExecStep

\* Mutant: a failing call is taken for an unusable entry.
ActFaultInvalid(x) ==
  /\ pc[x] \in {"stat", "act", "sync"}
  /\ Fault
  /\ Conclude(x, "RECOVERY_ENTRY_INVALID") /\ ExecStep

\* Any call between the observation and the proof may fail.
ActFault(x) ==
  /\ pc[x] \in {"stat", "act", "sync"}
  /\ Fault
  /\ Conclude(x, "RESTORE_FAILED") /\ ExecStep

Prove(x) ==
  /\ pc[x] = "prove"
  /\ \/ file[Current(x)] = Pre(Current(x)) /\ Conclude(x, "RESTORED") /\ UNCHANGED budget
     \/ /\ file[Current(x)] # Pre(Current(x))
        /\ Conclude(x, "RESTORE_OUTCOME_UNCONFIRMED") /\ UNCHANGED budget
     \/ Fault /\ Conclude(x, "RESTORE_OUTCOME_UNCONFIRMED")
  /\ ExecStep

Restored(x) == {i \in DOMAIN record[x] : record[x][i] = "RESTORED"}

RecoveryDisposition(x) ==
  CASE Restored(x) = chosen[under[x]] -> "RECOVERY_COMPLETE"
    [] Restored(x) = {} -> "RECOVERY_NONE"
    [] OTHER -> "RECOVERY_PARTIAL"

\* Reviews and authorizations are in memory.
HostDies ==
  /\ review' = [r \in Reviews |-> IF review[r] = "idle" THEN "idle" ELSE "dead"]
  /\ pc' = [x \in Executions |-> IF pc[x] \in AtEntry THEN "dead" ELSE pc[x]]
  /\ UNCHANGED <<file, damaged, sessionVars, shown, chosen, settled,
                 spent, under, record, held, acted, budget, unseen>>

SessionNext ==
  Capture \/ WriteBlob \/ WriteManifest \/ StoreFault \/ ReadBack \/ Recheck
  \/ Publish \/ PublishRefused \/ SessionDies

HostNext ==
  \/ \E r \in Reviews : BeginReview(r) \/ ReviewEntry(r) \/ Authorize(r)
  \/ \E x \in Executions :
       \/ \E r \in Reviews : Execute(x, r)
       \/ PassOver(x) \/ Observe(x) \/ Reload(x) \/ Stat(x) \/ Act(x)
       \/ Sync(x) \/ ActFault(x) \/ Prove(x)
  \/ HostDies

Next ==
  \/ SessionNext \/ HostNext
  \/ \E i \in Entries, content \in Contents : OutsideChange(i, content)
  \/ \E b \in Blobs : DamageBlob(b)

Spec == Init /\ [][Next]_vars

------------------------------------------------------------------------------
(* Properties.                                                              *)

\* No file is changed before the checkpoint that could undo it is on disk, and
\* a manifest on disk implies that every blob it names was published before,
\* at whatever step the process died.
MutationIsCovered ==
  /\ applied # {} => manifest
  /\ manifest => Blobs \subseteq stored

\* One authorization carries at most one execution, however often and however
\* concurrently it is presented.
OneExecutionPerAuthorization ==
  \A x, y \in Executions :
    pc[x] \notin {"idle", "refused"} /\ pc[y] \notin {"idle", "refused"} /\ under[x] = under[y]
      => x = y

\* Recovery destroys bytes other than the session's only when they arrived
\* after its fresh observation of the entry; and what it puts there is the
\* captured state: a blob damaged between the review and the restore never
\* reaches the workspace.
OverwritesWhatItSaw ==
  [][\A x \in Executions : \A i \in acted'[x] \ acted[x] :
       (file[i] = "post" \/ unseen[x]) /\ file'[i] = Pre(i)]_vars

\* execute.ts: a change that lands between review and execution becomes a
\* conflict rather than a silent overwrite.
NoSilentOverwrite ==
  [][\A x \in Executions : \A i \in acted'[x] \ acted[x] : file[i] = "post"]_vars

\* The point of it all: wherever the session died, one undisturbed recovery
\* of everything eligible leaves every file as it was captured.
UndisturbedRecoveryUndoes ==
  outside = 0 /\ damage = 0 /\ faults = 0 =>
    \A x \in Executions :
      pc[x] = "done" /\ under[x] \in settled /\ chosen[under[x]] = Eligible(under[x])
        => \A i \in Entries : file[i] = Pre(i)

\* An entry that changed under an execution is accounted for in its record as
\* restored, failed or unconfirmed; only entries it changed are called
\* restored; and COMPLETE means that every approved entry was.
RecordTruthful ==
  \A x \in Executions :
    /\ \A i \in DOMAIN record[x] :
         /\ i \in acted[x] =>
              record[x][i] \in {"RESTORED", "RESTORE_FAILED", "RESTORE_OUTCOME_UNCONFIRMED"}
         /\ record[x][i] = "RESTORED" => i \in acted[x]
    /\ pc[x] = "done" /\ RecoveryDisposition(x) = "RECOVERY_COMPLETE" =>
         chosen[under[x]] \subseteq acted[x]

==============================================================================
