-------------------------- MODULE MutationSession --------------------------
(***************************************************************************)
(* One authorized mutation session (src/orchestrator/mutation/session.ts): *)
(* propose, apply and validate, each at most once, over state that every   *)
(* call of the session shares, with close() at any moment.  Calls          *)
(* interleave at every await.  Any number of calls of any method may be    *)
(* made; a refused one also writes to the shared state (failCall).         *)
(*                                                                         *)
(* The targets are written one after another by the owners that            *)
(* EditContract and MultiFileEdit describe; here one of them publishes the *)
(* approved bytes or does not, and reports it truthfully or throws.        *)
(***************************************************************************)
EXTENDS Naturals, FiniteSets

CONSTANTS
  Calls,              \* calls that callers make on the session
  N,                  \* number of changes in the review
  MaxOutside,         \* bound: changes by other programs
  None

ASSUME SessionAssumption ==
  /\ N \in Nat \ {0}
  /\ MaxOutside \in Nat

VARIABLES
  recoveryProtection,  \* "REQUIRED" or "NONE", fixed when the session is opened
  phase, busy, stopRequested,
  proposeConsumed, applyConsumed, validateConsumed,
  mutation, reobservation, validation,  \* the three dispositions
  label,
  checkpoint,  \* whether a recovery checkpoint was established
  catalog,     \* the reference catalog the session owns: "none", "open"
  pc,          \* call -> where it awaits
  at,          \* call -> targets written, or compared, so far
  record,      \* call -> what it returned
  file,        \* target -> "before", "after" (the approved bytes) or "other"
  outside,     \* changes by other programs so far
  wrote,       \* history: targets the session published
  writers,     \* history: calls that dispatched the mutation
  late,        \* history: calls made after close()
  drifted      \* history: targets others changed after they were compared

flags == <<proposeConsumed, applyConsumed, validateConsumed>>
results == <<reobservation, validation>>
history == <<wrote, writers, late, drifted>>
vars == <<recoveryProtection, phase, busy, stopRequested, flags, mutation, results, label, checkpoint,
          catalog, pc, at, record, file, outside, history>>

Targets == 1 .. N
Contents == {"before", "after", "other"}
Phases == {"READY", "PROPOSING", "AWAITING_EDIT_AUTHORIZATION", "APPLYING", "REOBSERVING",
           "AWAITING_VALIDATION_AUTHORIZATION", "VALIDATING", "FINALIZED"}
Touched == {"ALL_APPLIED", "PARTIAL", "COMMITTED_FAILURE", "WRITE_OUTCOME_UNCONFIRMED"}
Mutations == Touched \cup {"NOT_DISPATCHED", "REFUSED"}
Unproven == "MUTATION_APPLIED_VALIDATION_NOT_ESTABLISHED"
Accepted == "MUTATION_APPLIED_AND_CONFIGURED_VALIDATION_ACCEPTED"
Labels == {"PROPOSAL_ONLY", "MUTATION_NOT_DISPATCHED", "MUTATION_PARTIAL_OR_FAILED",
           Unproven, Accepted}
Applying == {"gate", "checkpoint", "write", "published"}
InFlight == Applying \cup {"propose", "reobserve", "validate"}

TypeOK ==
  /\ recoveryProtection \in {"REQUIRED", "NONE"}
  /\ phase \in Phases
  /\ busy \in BOOLEAN /\ stopRequested \in BOOLEAN
  /\ proposeConsumed \in BOOLEAN /\ applyConsumed \in BOOLEAN /\ validateConsumed \in BOOLEAN
  /\ mutation \in Mutations
  /\ reobservation \in {"NOT_RUN", "SUCCEEDED", "FAILED"}
  /\ validation \in {"NOT_AUTHORIZED", "NOT_RUN", "INTERRUPTED", "FAILED",
                    "ACCEPTED", "NOT_ACCEPTED"}
  /\ label \in Labels
  /\ checkpoint \in BOOLEAN
  /\ catalog \in {"none", "open"}
  /\ pc \in [Calls -> InFlight \cup {"idle", "done"}]
  /\ at \in [Calls -> 0 .. N]
  /\ record \in [Calls -> [mutation : Mutations, label : Labels] \cup {None}]
  /\ file \in [Targets -> Contents]
  /\ outside \in 0 .. MaxOutside
  /\ wrote \subseteq Targets /\ writers \subseteq Calls /\ late \subseteq Calls
  /\ drifted \subseteq Targets

Init ==
  /\ recoveryProtection \in {"REQUIRED", "NONE"}
  /\ phase = "READY" /\ busy = FALSE /\ stopRequested = FALSE
  /\ proposeConsumed = FALSE /\ applyConsumed = FALSE /\ validateConsumed = FALSE
  /\ mutation = "NOT_DISPATCHED" /\ reobservation = "NOT_RUN"
  /\ validation = "NOT_AUTHORIZED" /\ label = "PROPOSAL_ONLY"
  /\ checkpoint = FALSE /\ catalog = "none"
  /\ pc = [c \in Calls |-> "idle"] /\ at = [c \in Calls |-> 0]
  /\ record = [c \in Calls |-> None]
  /\ file = [t \in Targets |-> "before"] /\ outside = 0
  /\ wrote = {} /\ writers = {} /\ late = {} /\ drifted = {}

----------------------------------------------------------------------------
\* Returning: every ending of a call builds a record of the shared state.

Goto(c, l) == pc' = [pc EXCEPT ![c] = l]

Settle(c, m, l) ==
  /\ mutation' = m /\ label' = l
  /\ record' = [record EXCEPT ![c] = [mutation |-> m, label |-> l]]
  /\ Goto(c, "done")

LabelRaised(m, l) == IF m \in Touched /\ l = "PROPOSAL_ONLY" THEN Unproven ELSE l

\* failCall: the session is over, whoever failed.
FailCall(c, m, l) ==
  /\ phase' = "FINALIZED"
  /\ Settle(c, m, LabelRaised(m, l))

RefuseReleasing(c) ==
  /\ pc[c] = "idle"
  /\ busy' = FALSE
  /\ FailCall(c, mutation, label)
  /\ UNCHANGED <<stopRequested, flags, results, checkpoint, catalog, at, file, outside, history>>

\* A refused call: busy, closed, out of order, already consumed, or presented
\* with an invalid task, review or authorization.  All end the same way.
Refuse(c) ==
  /\ pc[c] = "idle"
  /\ FailCall(c, mutation, label)
  /\ UNCHANGED <<busy, stopRequested, flags, results, checkpoint, catalog, at, file, outside, history>>

\* Reserve the session, synchronously with the checks before it.
Reserve(c, p, l) ==
  /\ busy' = TRUE /\ phase' = p /\ Goto(c, l)
  /\ late' = IF stopRequested THEN late \cup {c} ELSE late
  /\ UNCHANGED <<stopRequested, mutation, reobservation, label, checkpoint, catalog, at,
                 record, file, outside, wrote, writers, drifted>>

----------------------------------------------------------------------------
\* propose

BeginPropose(c) ==
  /\ pc[c] = "idle" /\ ~busy
  /\ ~stopRequested /\ ~proposeConsumed /\ phase = "READY"
  /\ proposeConsumed' = TRUE
  /\ Reserve(c, "PROPOSING", "propose")
  /\ UNCHANGED <<applyConsumed, validateConsumed, validation>>

\* The brain answered and the changes were prepared, or something failed.
EndPropose(c) ==
  /\ pc[c] = "propose"
  /\ busy' = FALSE
  /\ \/ phase' = "AWAITING_EDIT_AUTHORIZATION" /\ Settle(c, mutation, "PROPOSAL_ONLY")
     \/ FailCall(c, mutation, label)
  /\ UNCHANGED <<stopRequested, flags, results, checkpoint, catalog, at, file, outside, history>>

----------------------------------------------------------------------------
\* apply

MayApply == ~busy /\ ~applyConsumed /\ phase = "AWAITING_EDIT_AUTHORIZATION"

StopUnseen == FALSE

StopSeen == stopRequested

BeginApplyUnreserved(c) ==
  /\ pc[c] = "idle" /\ MayApply /\ ~StopSeen
  /\ Goto(c, "gate")
  /\ UNCHANGED <<phase, busy, stopRequested, flags, mutation, results, label, checkpoint,
                 catalog, at, record, file, outside, history>>

BeginApply(c) ==
  /\ pc[c] = "idle" /\ MayApply /\ ~StopSeen
  /\ applyConsumed' = TRUE
  /\ Reserve(c, "APPLYING", "gate")
  /\ UNCHANGED <<proposeConsumed, validateConsumed, validation>>

\* The check after the reservation finds that the session was closed.
ApplyAfterClose(c) ==
  /\ pc[c] = "idle" /\ MayApply /\ StopSeen
  /\ applyConsumed' = TRUE
  /\ late' = late \cup {c}
  /\ FailCall(c, "NOT_DISPATCHED", label)
  /\ UNCHANGED <<busy, stopRequested, proposeConsumed, validateConsumed, results, checkpoint,
                 catalog, at, file, outside, wrote, writers, drifted>>

\* A call that ends releases the session (finally).
ApplyFails(c, m, l) ==
  /\ busy' = FALSE
  /\ FailCall(c, m, l)
  /\ UNCHANGED <<stopRequested, flags, results, checkpoint, catalog, at, file, outside, history>>

\* From here on the mutation is dispatched; stopRequested is not read again
\* until every target has been attempted.
Dispatch(c) ==
  /\ Goto(c, "write")
  /\ writers' = writers \cup {c}
  /\ UNCHANGED <<phase, busy, stopRequested, flags, mutation, results, label, catalog, at,
                 record, file, outside, wrote, late, drifted>>

AfterGateUnprotected(c) == Dispatch(c) /\ UNCHANGED checkpoint

AfterGate(c) ==
  IF recoveryProtection = "NONE" THEN Dispatch(c) /\ UNCHANGED checkpoint
  ELSE /\ Goto(c, "checkpoint")
       /\ UNCHANGED <<phase, busy, stopRequested, flags, mutation, results, label, checkpoint,
                      catalog, at, record, file, outside, history>>

\* Applicability of the bound reasoning (Gate 1).
Gate(c) ==
  /\ pc[c] = "gate"
  /\ AfterGate(c) \/ ApplyFails(c, "NOT_DISPATCHED", label)

\* establishRecoveryCheckpoint: only of files that are still as prepared.
Checkpoint(c) ==
  /\ pc[c] = "checkpoint"
  /\ \/ /\ \A t \in Targets : file[t] = "before"
        /\ checkpoint' = TRUE
        /\ Dispatch(c)
     \/ ApplyFails(c, "NOT_DISPATCHED", "MUTATION_NOT_DISPATCHED")

\* The owner of the next target passes its commit point.
Publish(c) ==
  LET t == at[c] + 1 IN
  /\ pc[c] = "write"
  /\ file' = [file EXCEPT ![t] = "after"]
  /\ wrote' = wrote \cup {t}
  /\ Goto(c, "published")
  /\ UNCHANGED <<phase, busy, stopRequested, flags, mutation, results, label, checkpoint,
                 catalog, at, record, outside, writers, late, drifted>>

\* The target is reported applied and it was not the last.
NextTarget(c) ==
  /\ pc[c] = "published" /\ at[c] + 1 < N
  /\ at' = [at EXCEPT ![c] = @ + 1]
  /\ Goto(c, "write")
  /\ UNCHANGED <<phase, busy, stopRequested, flags, mutation, results, label, checkpoint,
                 catalog, record, file, outside, history>>

\* The last target is reported applied: compare what is on disk, unless a
\* stop came meanwhile.
AllApplied(c) ==
  /\ pc[c] = "published" /\ at[c] + 1 = N
  /\ \/ stopRequested /\ ApplyFails(c, "ALL_APPLIED", Unproven)
     \/ /\ ~stopRequested
        /\ mutation' = "ALL_APPLIED" /\ phase' = "REOBSERVING"
        /\ at' = [at EXCEPT ![c] = 0]
        /\ Goto(c, "reobserve")
        /\ UNCHANGED <<busy, stopRequested, flags, results, label, checkpoint, catalog,
                       record, file, outside, history>>

NotPublishedHere(c) == "REFUSED"

\* A target is refused or fails before its commit point.
NotPublished(c) == IF N > 1 /\ at[c] > 0 THEN "PARTIAL" ELSE "REFUSED"

TargetNotApplied(c) ==
  /\ pc[c] = "write"
  /\ ApplyFails(c, NotPublished(c),
       IF at[c] > 0 THEN "MUTATION_PARTIAL_OR_FAILED" ELSE "MUTATION_NOT_DISPATCHED")

\* createMultiFilePlan refuses the entries: the label stays.
PlanRefused(c) ==
  /\ pc[c] = "write" /\ N > 1 /\ at[c] = 0
  /\ ApplyFails(c, "REFUSED", label)

\* A target fails after its commit point.
CommittedFailure(c) ==
  /\ pc[c] = "published"
  /\ ApplyFails(c, IF N > 1 THEN "PARTIAL" ELSE "COMMITTED_FAILURE", "MUTATION_PARTIAL_OR_FAILED")

\* The dispatch throws.
Throws(c) ==
  /\ pc[c] \in {"write", "published"}
  /\ ApplyFails(c, "WRITE_OUTCOME_UNCONFIRMED", "MUTATION_PARTIAL_OR_FAILED")

AsApprovedAnyway(c, t) == TRUE

AsApproved(c, t) == file[t] = "after"

\* reobserveAfterApply reads the targets one after another.
Compare(c) ==
  /\ pc[c] = "reobserve" /\ at[c] < N
  /\ AsApproved(c, at[c] + 1)
  /\ at' = [at EXCEPT ![c] = @ + 1]
  /\ UNCHANGED <<phase, busy, stopRequested, flags, mutation, results, label, checkpoint,
                 catalog, pc, record, file, outside, history>>

\* A mismatch, or anything else that fails: a catalog already built is disposed.
ReobservationFails(c) ==
  /\ pc[c] = "reobserve"
  /\ reobservation' = "FAILED" /\ validation' = "NOT_RUN"
  /\ busy' = FALSE
  /\ FailCall(c, mutation, Unproven)
  /\ UNCHANGED <<stopRequested, flags, checkpoint, catalog, at, file, outside, history>>

Reobserved(c) ==
  /\ pc[c] = "reobserve" /\ at[c] = N
  /\ reobservation' = "SUCCEEDED" /\ validation' = "NOT_AUTHORIZED"
  /\ catalog' = "open"
  /\ phase' = "AWAITING_VALIDATION_AUTHORIZATION" /\ busy' = FALSE
  /\ Settle(c, mutation, Unproven)
  /\ UNCHANGED <<stopRequested, flags, checkpoint, at, file, outside, history>>

----------------------------------------------------------------------------
\* validate

BeginValidate(c) ==
  /\ pc[c] = "idle" /\ ~busy
  /\ ~validateConsumed /\ phase = "AWAITING_VALIDATION_AUTHORIZATION" /\ ~stopRequested
  /\ validateConsumed' = TRUE /\ validation' = "NOT_RUN"
  /\ Reserve(c, "VALIDATING", "validate")
  /\ UNCHANGED <<proposeConsumed, applyConsumed>>

\* The caller aborts, or the claim requirements, the cycle's opening or its run
\* fail; only the last assigns the label, which Reobserved had set to the same.
ValidationFails(c) ==
  /\ pc[c] = "validate"
  /\ validation' \in {"INTERRUPTED", "FAILED"} /\ busy' = FALSE
  /\ FailCall(c, mutation, Unproven)
  /\ UNCHANGED <<stopRequested, flags, reobservation, checkpoint, catalog, at, file, outside, history>>

IsAcceptedUnlessRefuted(substantiated) ==
  substantiated /\ mutation = "ALL_APPLIED" /\ reobservation = "SUCCEEDED"

IsAccepted(substantiated) ==
  substantiated /\ mutation = "ALL_APPLIED" /\ reobservation = "SUCCEEDED" /\ ~stopRequested

\* The cycle returned a record, SUBSTANTIATED or not.
EndValidate(c) ==
  /\ pc[c] = "validate"
  /\ busy' = FALSE /\ phase' = "FINALIZED"
  /\ \E substantiated \in BOOLEAN :
       IF IsAccepted(substantiated)
       THEN validation' = "ACCEPTED" /\ Settle(c, mutation, Accepted)
       ELSE validation' = "NOT_ACCEPTED" /\ Settle(c, mutation, Unproven)
  /\ UNCHANGED <<stopRequested, flags, reobservation, checkpoint, catalog, at, file, outside, history>>

----------------------------------------------------------------------------
\* close(), at any time and any number of times.
Close ==
  /\ stopRequested' = TRUE /\ catalog' = "none"
  /\ phase' = IF phase \in {"APPLYING", "VALIDATING", "REOBSERVING"} THEN phase ELSE "FINALIZED"
  /\ UNCHANGED <<busy, flags, mutation, results, label, checkpoint, pc, at, record, file,
                 outside, history>>

OutsideChange(t, b) ==
  /\ outside < MaxOutside /\ file[t] # b
  /\ file' = [file EXCEPT ![t] = b]
  /\ outside' = outside + 1
  /\ drifted' = IF reobservation = "SUCCEEDED" \/ \E c \in Calls : pc[c] = "reobserve" /\ t <= at[c]
                THEN drifted \cup {t} ELSE drifted
  /\ UNCHANGED <<phase, busy, stopRequested, flags, mutation, results, label, checkpoint,
                 catalog, pc, at, record, wrote, writers, late>>

ProposeStep(c) == BeginPropose(c) \/ EndPropose(c)
ApplyStep(c) ==
  \/ BeginApply(c) \/ ApplyAfterClose(c) \/ Gate(c) \/ Checkpoint(c)
  \/ Publish(c) \/ NextTarget(c) \/ AllApplied(c)
  \/ TargetNotApplied(c) \/ PlanRefused(c) \/ CommittedFailure(c) \/ Throws(c)
  \/ Compare(c) \/ ReobservationFails(c) \/ Reobserved(c)
ValidateStep(c) == BeginValidate(c) \/ ValidationFails(c) \/ EndValidate(c)

Next ==
  /\ UNCHANGED recoveryProtection
  /\ \/ \E c \in Calls : Refuse(c) \/ ProposeStep(c) \/ ApplyStep(c) \/ ValidateStep(c)
     \/ Close
     \/ \E t \in Targets, b \in {"before", "other"} : OutsideChange(t, b)

Spec == Init /\ [][Next]_vars

----------------------------------------------------------------------------
\* The calls of a session exclude each other although each yields at every
\* await and a refused call finalizes the session under the one in flight.
SoleOwner ==
  /\ \A c, d \in Calls : pc[c] \in InFlight /\ pc[d] \in InFlight => c = d
  /\ busy <=> \E c \in Calls : pc[c] \in InFlight

\* One approval, one dispatch: however many apply calls are made, at most one
\* of them reaches the owners of the files.
OneDispatch == \A c, d \in writers : c = d

\* Report M24: an apply made after close() writes nothing, also when close()
\* came while the proposal was being made and the proposal then succeeded.
ClosedMeansNoWrite == writers \cap late = {}

\* Report, mutation policy: with no apply under way the disposition says what
\* the session did to the disk.
DispositionTruthful ==
  (\A c \in Calls : pc[c] \notin Applying) =>
    /\ mutation \in {"NOT_DISPATCHED", "REFUSED"} => wrote = {}
    /\ mutation = "ALL_APPLIED" => wrote = Targets
    /\ mutation \in {"PARTIAL", "COMMITTED_FAILURE"} => wrote # {}

\* Where protection is required nothing is written before the checkpoint
\* stands, and the checkpoint never appears once something was written.
ProtectedWrites ==
  [][/\ wrote' # wrote /\ recoveryProtection = "REQUIRED" => checkpoint
     /\ checkpoint' # checkpoint => wrote = {}]_vars

\* Report, mutation policy: the strong label only if everything was applied
\* and found as approved, and nobody asked the session to stop.
StrongLabelEarned ==
  [][label' = Accepted /\ label # Accepted =>
       ~stopRequested /\ wrote = Targets /\ reobservation = "SUCCEEDED"]_vars

\* Nobody is offered a validation of bytes that differ from the approved ones,
\* unless they changed after they were compared.
ValidatesApprovedBytes ==
  reobservation = "SUCCEEDED" => \A t \in Targets : file[t] = "after" \/ t \in drifted
=============================================================================
