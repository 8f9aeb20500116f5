----------------------- MODULE MutationSessionProofs -----------------------
(***************************************************************************)
(* Theorems about MutationSession for every set of calls, every number of  *)
(* targets and either recovery protection.                                 *)
(***************************************************************************)
EXTENDS MutationSession, TLAPS

\* The part of the typing the arguments below rest on.
Typed ==
  /\ pc \in [Calls -> InFlight \cup {"idle", "done"}]
  /\ at \in [Calls -> 0 .. N]
  /\ busy \in BOOLEAN /\ applyConsumed \in BOOLEAN /\ stopRequested \in BOOLEAN
  /\ writers \subseteq Calls /\ late \subseteq Calls /\ wrote \subseteq Targets
  /\ \A c \in Calls : pc[c] \in {"write", "published"} => at[c] < N

\* The reservation is never taken back: before it is made nothing has been
\* dispatched, and a call between its reservation and its dispatch is alone.
Reserved ==
  /\ ~applyConsumed => writers = {}
  /\ \A c \in Calls : pc[c] \in Applying => applyConsumed
  /\ \A c \in Calls : pc[c] \in {"gate", "checkpoint"} => writers = {}
  /\ \A c \in writers : pc[c] # "idle"

\* A call made after close() has ended, without having dispatched.
OnTime == \A c \in late : pc[c] = "done" /\ c \notin writers

\* How far the writing call is, and what the disposition says meanwhile.
Progress ==
  /\ ~applyConsumed => mutation = "NOT_DISPATCHED" /\ wrote = {}
  /\ \A c \in Calls :
       /\ pc[c] \in Applying => mutation = "NOT_DISPATCHED"
       /\ pc[c] \in {"idle", "gate", "checkpoint"} => at[c] = 0
       /\ pc[c] \in {"gate", "checkpoint"} => wrote = {}
       /\ pc[c] = "write" => wrote = 1 .. at[c]
       /\ pc[c] = "published" => wrote = 1 .. (at[c] + 1)

IInv == Typed /\ SoleOwner /\ OneDispatch /\ Reserved /\ OnTime /\ Progress /\ DispositionTruthful

USE DEF InFlight, Applying, Targets

\* A fresh session has no call in flight and has written nothing.
LEMMA InitIInv == Init => IInv
<1> SUFFICES ASSUME Init PROVE IInv
  OBVIOUS
<1>1. Typed
  <2>1. at \in [Calls -> 0 .. N] /\ \A c \in Calls : at[c] = 0
    BY SessionAssumption DEF Init
  <2>2. pc \in [Calls -> InFlight \cup {"idle", "done"}] /\ \A c \in Calls : pc[c] = "idle"
    BY DEF Init
  <2> QED
    BY <2>1, <2>2 DEF Init, Typed
<1>2. SoleOwner /\ OneDispatch /\ Reserved /\ OnTime
  BY DEF Init, SoleOwner, OneDispatch, Reserved, OnTime
<1>3. Progress /\ DispositionTruthful
  BY DEF Init, Progress, DispositionTruthful
<1> QED
  BY <1>1, <1>2, <1>3 DEF IInv

\* Where each kind of step leaves the calls.
LEMMA GotoPc ==
  ASSUME Typed, NEW c \in Calls, NEW l \in InFlight \cup {"idle", "done"}, Goto(c, l)
  PROVE  /\ pc' \in [Calls -> InFlight \cup {"idle", "done"}]
         /\ pc'[c] = l
         /\ \A d \in Calls : d # c => pc'[d] = pc[d]
  BY DEF Typed, Goto

\* A call that ends leaves a session without a call in flight, and a truthful
\* disposition if the one it assigns is.
LEMMA EndingKeepsIInv ==
  ASSUME IInv, NEW c \in Calls, NEW m, NEW l,
         pc[c] \in InFlight, Settle(c, m, l), busy' = FALSE,
         UNCHANGED <<stopRequested, flags, at, history>>,
         m \in {"NOT_DISPATCHED", "REFUSED"} => wrote = {},
         m = "ALL_APPLIED" => wrote = Targets,
         m \in {"PARTIAL", "COMMITTED_FAILURE"} => wrote # {},
         ~applyConsumed => m = "NOT_DISPATCHED"
  PROVE  IInv'
<1>1. /\ pc' \in [Calls -> InFlight \cup {"idle", "done"}]
      /\ pc'[c] = "done"
      /\ \A d \in Calls : d # c => pc'[d] = pc[d]
  BY GotoPc DEF Settle, IInv
<1>2. \A d \in Calls : pc'[d] \notin InFlight
  BY <1>1 DEF IInv, SoleOwner
<1>3. Typed'
  BY <1>1 DEF IInv, Typed, flags, history
<1>4. SoleOwner' /\ OneDispatch' /\ Reserved'
  BY <1>1, <1>2 DEF IInv, Typed, SoleOwner, OneDispatch, Reserved, flags, history
<1>5. OnTime'
  BY <1>1, <1>2 DEF IInv, Typed, OnTime, history
<1>6. Progress'
  BY <1>1, <1>2 DEF IInv, Progress, Settle, flags, history
<1>7. DispositionTruthful'
  BY DEF DispositionTruthful, Settle, history
<1> QED
  BY <1>3, <1>4, <1>5, <1>6, <1>7 DEF IInv

\* A refused call changes the phase and the label under the call in flight,
\* and nothing the invariant reads.
LEMMA RefuseKeepsIInv ==
  ASSUME IInv, NEW c \in Calls, Refuse(c)
  PROVE  IInv'
<1>1. /\ pc' \in [Calls -> InFlight \cup {"idle", "done"}]
      /\ pc'[c] = "done"
      /\ \A d \in Calls : d # c => pc'[d] = pc[d]
  BY GotoPc DEF Refuse, FailCall, Settle, IInv
<1>2. /\ mutation' = mutation /\ pc[c] = "idle"
      /\ UNCHANGED <<busy, stopRequested, flags, at, history>>
  BY DEF Refuse, FailCall, Settle
<1>3. Typed'
  BY <1>1, <1>2 DEF IInv, Typed, flags, history
<1>4. SoleOwner' /\ OneDispatch' /\ Reserved'
  BY <1>1, <1>2 DEF IInv, Typed, SoleOwner, OneDispatch, Reserved, flags, history
<1>5. OnTime'
  BY <1>1, <1>2 DEF IInv, Typed, OnTime, history
<1>6. Progress'
  BY <1>1, <1>2 DEF IInv, Progress, flags, history
<1>7. DispositionTruthful'
  BY <1>1, <1>2 DEF IInv, DispositionTruthful, history
<1> QED
  BY <1>3, <1>4, <1>5, <1>6, <1>7 DEF IInv

\* A reservation is made when no call is in flight.
LEMMA ReserveKeepsIInv ==
  ASSUME IInv, NEW c \in Calls, BeginPropose(c) \/ BeginApply(c) \/ BeginValidate(c)
  PROVE  IInv'
<1>1. PICK l \in {"propose", "gate", "validate"},
           p \in {"PROPOSING", "APPLYING", "VALIDATING"} : Reserve(c, p, l)
  BY DEF BeginPropose, BeginApply, BeginValidate
<1>2. /\ pc[c] = "idle" /\ ~busy /\ ~stopRequested
      /\ applyConsumed' \in BOOLEAN /\ (applyConsumed => applyConsumed')
      /\ l = "gate" => ~applyConsumed /\ applyConsumed'
      /\ l # "gate" => applyConsumed' = applyConsumed
      /\ UNCHANGED <<stopRequested, mutation, at, wrote, writers, late>>
      /\ busy' = TRUE
  <2>1. Goto(c, l) /\ pc[c] = "idle" /\ ~busy /\ ~stopRequested /\ busy' = TRUE
    BY <1>1 DEF BeginPropose, BeginApply, BeginValidate, Reserve, MayApply, StopSeen
  <2>2. CASE BeginPropose(c)
    <3>1. l = "propose"
      BY <2>1, <2>2 DEF BeginPropose, Reserve, Goto, IInv, Typed
    <3> QED
      BY <1>1, <2>1, <2>2, <3>1 DEF BeginPropose, Reserve, IInv, Typed
  <2>3. CASE BeginApply(c)
    <3>1. l = "gate"
      BY <2>1, <2>3 DEF BeginApply, Reserve, Goto, IInv, Typed
    <3> QED
      BY <1>1, <2>1, <2>3, <3>1 DEF BeginApply, Reserve, MayApply, IInv, Typed
  <2>4. CASE BeginValidate(c)
    <3>1. l = "validate"
      BY <2>1, <2>4 DEF BeginValidate, Reserve, Goto, IInv, Typed
    <3> QED
      BY <1>1, <2>1, <2>4, <3>1 DEF BeginValidate, Reserve, IInv, Typed
  <2> QED
    BY <2>2, <2>3, <2>4
<1>3. /\ pc' \in [Calls -> InFlight \cup {"idle", "done"}]
      /\ pc'[c] = l
      /\ \A d \in Calls : d # c => pc'[d] = pc[d]
  BY <1>1, GotoPc DEF Reserve, IInv
<1>4. \A d \in Calls : pc[d] \notin InFlight
  BY <1>2 DEF IInv, SoleOwner
<1>5. Typed'
  BY <1>2, <1>3, <1>4 DEF IInv, Typed
<1>6. SoleOwner' /\ OneDispatch'
  BY <1>2, <1>3, <1>4 DEF IInv, SoleOwner, OneDispatch
<1>7. Reserved' /\ OnTime'
  <2>1. c \notin late
    BY <1>2 DEF IInv, OnTime
  <2> QED
    BY <1>2, <1>3, <1>4, <2>1 DEF IInv, Typed, Reserved, OnTime
<1>8. Progress' /\ DispositionTruthful'
  BY <1>2, <1>3, <1>4 DEF IInv, Progress, DispositionTruthful
<1> QED
  BY <1>5, <1>6, <1>7, <1>8 DEF IInv

\* The apply that finds the session closed ends without a dispatch.
LEMMA ApplyAfterCloseKeepsIInv ==
  ASSUME IInv, NEW c \in Calls, ApplyAfterClose(c)
  PROVE  IInv'
<1>1. /\ pc' \in [Calls -> InFlight \cup {"idle", "done"}]
      /\ pc'[c] = "done"
      /\ \A d \in Calls : d # c => pc'[d] = pc[d]
  BY GotoPc DEF ApplyAfterClose, FailCall, Settle, IInv
<1>2. /\ pc[c] = "idle" /\ ~busy /\ ~applyConsumed /\ applyConsumed'
      /\ mutation' = "NOT_DISPATCHED" /\ late' = late \cup {c}
      /\ UNCHANGED <<busy, stopRequested, at, wrote, writers>>
  BY DEF ApplyAfterClose, MayApply, FailCall, Settle
<1>3. applyConsumed' \in BOOLEAN
  BY DEF ApplyAfterClose
<1>4. \A d \in Calls : pc[d] \notin InFlight
  BY <1>2 DEF IInv, SoleOwner
<1>5. Typed'
  BY <1>1, <1>2, <1>3 DEF IInv, Typed
<1>6. SoleOwner' /\ OneDispatch'
  BY <1>1, <1>2, <1>4 DEF IInv, SoleOwner, OneDispatch
<1>7. Reserved' /\ OnTime'
  BY <1>1, <1>2, <1>4 DEF IInv, Typed, Reserved, OnTime
<1>8. Progress' /\ DispositionTruthful'
  BY <1>1, <1>2, <1>4 DEF IInv, Progress, DispositionTruthful
<1> QED
  BY <1>5, <1>6, <1>7, <1>8 DEF IInv

\* The one call in flight moves on without ending.
LEMMA OwnerMoves ==
  ASSUME IInv, NEW c \in Calls, NEW l \in InFlight, pc[c] \in InFlight, Goto(c, l),
         UNCHANGED <<busy, stopRequested, flags, late>>
  PROVE  /\ pc' \in [Calls -> InFlight \cup {"idle", "done"}]
         /\ pc'[c] = l
         /\ \A d \in Calls : d # c => pc'[d] = pc[d] /\ pc'[d] \notin InFlight
         /\ SoleOwner'
<1>1. /\ pc' \in [Calls -> InFlight \cup {"idle", "done"}]
      /\ pc'[c] = l
      /\ \A d \in Calls : d # c => pc'[d] = pc[d]
  BY GotoPc DEF IInv
<1>2. \A d \in Calls : d # c => pc[d] \notin InFlight
  BY DEF IInv, SoleOwner
<1> QED
  BY <1>1, <1>2 DEF IInv, SoleOwner

\* Handing the plan to the editor.
LEMMA DispatchKeepsIInv ==
  ASSUME IInv, NEW c \in Calls, pc[c] \in {"gate", "checkpoint"}, Dispatch(c)
  PROVE  IInv'
<1>1. /\ writers = {} /\ writers' = {c} /\ at[c] = 0 /\ wrote = {} /\ applyConsumed
      /\ mutation = "NOT_DISPATCHED"
  BY DEF Dispatch, IInv, Reserved, Progress
<1>2. /\ pc' \in [Calls -> InFlight \cup {"idle", "done"}]
      /\ pc'[c] = "write"
      /\ \A d \in Calls : d # c => pc'[d] = pc[d] /\ pc'[d] \notin InFlight
      /\ SoleOwner'
  BY OwnerMoves DEF Dispatch
<1>3. UNCHANGED <<busy, stopRequested, flags, mutation, at, wrote, late>>
  BY DEF Dispatch
<1>4. Typed'
  BY <1>1, <1>2, <1>3, SessionAssumption DEF IInv, Typed, flags
<1>5. OneDispatch' /\ Reserved' /\ OnTime'
  BY <1>1, <1>2, <1>3 DEF IInv, Typed, OneDispatch, Reserved, OnTime, flags
<1>6. Progress' /\ DispositionTruthful'
  BY <1>1, <1>2, <1>3 DEF IInv, Progress, DispositionTruthful, flags
<1> QED
  BY <1>2, <1>4, <1>5, <1>6 DEF IInv

\* Publishing one target.
LEMMA PublishKeepsIInv ==
  ASSUME IInv, NEW c \in Calls, Publish(c)
  PROVE  IInv'
<1>1. /\ pc[c] = "write" /\ wrote = 1 .. at[c] /\ wrote' = wrote \cup {at[c] + 1}
      /\ at[c] \in Nat /\ at[c] < N /\ N \in Nat
      /\ UNCHANGED <<busy, stopRequested, flags, mutation, at, writers, late>>
  BY SessionAssumption DEF Publish, IInv, Typed, Progress
<1>2. wrote' = 1 .. (at[c] + 1) /\ wrote' \subseteq 1 .. N
  BY <1>1
<1>3. /\ pc' \in [Calls -> InFlight \cup {"idle", "done"}]
      /\ pc'[c] = "published"
      /\ \A d \in Calls : d # c => pc'[d] = pc[d] /\ pc'[d] \notin InFlight
      /\ SoleOwner'
  BY OwnerMoves DEF Publish
<1>4. Typed'
  BY <1>1, <1>2, <1>3 DEF IInv, Typed, flags
<1>5. OneDispatch' /\ Reserved' /\ OnTime'
  BY <1>1, <1>3 DEF IInv, Typed, OneDispatch, Reserved, OnTime, flags
<1>6. Progress' /\ DispositionTruthful'
  <2>1. applyConsumed
    BY <1>1 DEF IInv, Reserved
  <2> QED
    BY <1>1, <1>2, <1>3, <2>1 DEF IInv, Progress, DispositionTruthful, flags
<1> QED
  BY <1>3, <1>4, <1>5, <1>6 DEF IInv

\* Moving on to the next target.
LEMMA NextTargetKeepsIInv ==
  ASSUME IInv, NEW c \in Calls, NextTarget(c)
  PROVE  IInv'
<1>1. /\ pc[c] = "published" /\ wrote = 1 .. (at[c] + 1)
      /\ at[c] \in Nat /\ at[c] + 1 < N /\ N \in Nat
      /\ at' = [at EXCEPT ![c] = at[c] + 1]
      /\ UNCHANGED <<busy, stopRequested, flags, mutation, wrote, writers, late>>
  BY SessionAssumption DEF NextTarget, IInv, Typed, Progress, history
<1>2. /\ at' \in [Calls -> 0 .. N] /\ at'[c] = at[c] + 1
      /\ \A d \in Calls : d # c => at'[d] = at[d]
  BY <1>1 DEF IInv, Typed
<1>3. /\ pc' \in [Calls -> InFlight \cup {"idle", "done"}]
      /\ pc'[c] = "write"
      /\ \A d \in Calls : d # c => pc'[d] = pc[d] /\ pc'[d] \notin InFlight
      /\ SoleOwner'
  BY <1>1, OwnerMoves DEF NextTarget
<1>4. Typed'
  BY <1>1, <1>2, <1>3 DEF IInv, Typed, flags
<1>5. OneDispatch' /\ Reserved' /\ OnTime'
  BY <1>1, <1>3 DEF IInv, Typed, OneDispatch, Reserved, OnTime, flags
<1>6. Progress' /\ DispositionTruthful'
  <2>1. applyConsumed
    BY <1>1 DEF IInv, Reserved
  <2> QED
    BY <1>1, <1>2, <1>3, <2>1 DEF IInv, Progress, DispositionTruthful, flags
<1> QED
  BY <1>3, <1>4, <1>5, <1>6 DEF IInv

\* Every target was published: the re-observation starts, or the call ends.
LEMMA AllAppliedKeepsIInv ==
  ASSUME IInv, NEW c \in Calls, AllApplied(c)
  PROVE  IInv'
<1>1. /\ pc[c] = "published" /\ wrote = Targets /\ applyConsumed /\ N \in Nat /\ N > 0
  BY SessionAssumption DEF AllApplied, IInv, Reserved, Progress, Typed
<1>2. CASE ApplyFails(c, "ALL_APPLIED", Unproven)
  BY <1>1, <1>2, EndingKeepsIInv DEF ApplyFails, FailCall
<1>3. CASE ~ApplyFails(c, "ALL_APPLIED", Unproven)
  <2>1. /\ mutation' = "ALL_APPLIED" /\ at' = [at EXCEPT ![c] = 0] /\ Goto(c, "reobserve")
        /\ UNCHANGED <<busy, stopRequested, flags, wrote, writers, late>>
    BY <1>3 DEF AllApplied, history
  <2>2. /\ at' \in [Calls -> 0 .. N]
        /\ \A d \in Calls : d # c => at'[d] = at[d]
    BY <1>1, <2>1 DEF IInv, Typed
  <2>3. /\ pc' \in [Calls -> InFlight \cup {"idle", "done"}]
        /\ pc'[c] = "reobserve"
        /\ \A d \in Calls : d # c => pc'[d] = pc[d] /\ pc'[d] \notin InFlight
        /\ SoleOwner'
    BY <1>1, <2>1, OwnerMoves
  <2>4. Typed'
    BY <2>1, <2>2, <2>3 DEF IInv, Typed, flags
  <2>5. OneDispatch' /\ Reserved' /\ OnTime'
    BY <1>1, <2>1, <2>3 DEF IInv, Typed, OneDispatch, Reserved, OnTime, flags
  <2>6. Progress' /\ DispositionTruthful'
    BY <1>1, <2>1, <2>2, <2>3 DEF IInv, Progress, DispositionTruthful, flags
  <2> QED
    BY <2>3, <2>4, <2>5, <2>6 DEF IInv
<1> QED
  BY <1>2, <1>3

\* The endings of apply: each assigns the disposition its progress justifies.
LEMMA ApplyEndsKeepsIInv ==
  ASSUME IInv, NEW c \in Calls,
         TargetNotApplied(c) \/ PlanRefused(c) \/ CommittedFailure(c) \/ Throws(c)
  PROVE  IInv'
<1>1. /\ pc[c] = "write" => wrote = 1 .. at[c]
      /\ pc[c] = "published" => wrote = 1 .. (at[c] + 1)
      /\ pc[c] \in {"write", "published"} => applyConsumed
      /\ at[c] \in Nat
  BY SessionAssumption DEF IInv, Typed, Reserved, Progress
<1>2. CASE TargetNotApplied(c)
  <2>1. /\ pc[c] = "write" /\ Settle(c, NotPublished(c), label') /\ busy' = FALSE
        /\ UNCHANGED <<stopRequested, flags, at, history>>
    BY <1>2 DEF TargetNotApplied, ApplyFails, FailCall, Settle
  <2>2. CASE at[c] = 0
    <3>1. wrote = {} /\ NotPublished(c) = "REFUSED"
      BY <1>1, <2>1, <2>2 DEF NotPublished
    <3> QED
      BY <1>1, <2>1, <3>1, EndingKeepsIInv
  <2>3. CASE at[c] # 0
    <3>1. 1 \in wrote /\ at[c] > 0 /\ at[c] < N
      BY <1>1, <2>1, <2>3 DEF IInv, Typed
    <3>2. NotPublished(c) = "PARTIAL"
      BY <1>1, <3>1, SessionAssumption DEF NotPublished
    <3> QED
      BY <1>1, <2>1, <3>1, <3>2, EndingKeepsIInv
  <2> QED
    BY <2>2, <2>3
<1>3. CASE PlanRefused(c)
  <2>1. /\ pc[c] = "write" /\ at[c] = 0 /\ Settle(c, "REFUSED", label') /\ busy' = FALSE
        /\ UNCHANGED <<stopRequested, flags, at, history>>
    BY <1>3 DEF PlanRefused, ApplyFails, FailCall, Settle
  <2>2. wrote = {}
    BY <1>1, <2>1
  <2> QED
    BY <1>1, <2>1, <2>2, EndingKeepsIInv
<1>4. CASE CommittedFailure(c)
  <2>1. PICK m \in {"PARTIAL", "COMMITTED_FAILURE"} :
          /\ pc[c] = "published" /\ Settle(c, m, label') /\ busy' = FALSE
          /\ UNCHANGED <<stopRequested, flags, at, history>>
    BY <1>4 DEF CommittedFailure, ApplyFails, FailCall, Settle
  <2>2. 1 \in wrote
    BY <1>1, <2>1
  <2> QED
    BY <1>1, <2>1, <2>2, EndingKeepsIInv
<1>5. CASE Throws(c)
  <2>1. /\ pc[c] \in {"write", "published"} /\ Settle(c, "WRITE_OUTCOME_UNCONFIRMED", label')
        /\ busy' = FALSE
        /\ UNCHANGED <<stopRequested, flags, at, history>>
    BY <1>5 DEF Throws, ApplyFails, FailCall, Settle
  <2> QED
    BY <1>1, <2>1, EndingKeepsIInv
<1> QED
  BY <1>2, <1>3, <1>4, <1>5

\* The gate and the checkpoint dispatch the mutation, or end the call.
LEMMA GatesKeepIInv ==
  ASSUME IInv, NEW c \in Calls, Gate(c) \/ Checkpoint(c)
  PROVE  IInv'
<1>1. /\ pc[c] \in {"gate", "checkpoint"} /\ wrote = {} /\ applyConsumed
      /\ mutation = "NOT_DISPATCHED" /\ at[c] = 0
  BY DEF Gate, Checkpoint, IInv, Reserved, Progress
<1>2. CASE Dispatch(c)
  BY <1>1, <1>2, DispatchKeepsIInv
<1>3. ASSUME NEW l, ApplyFails(c, "NOT_DISPATCHED", l) PROVE IInv'
  BY <1>1, <1>3, EndingKeepsIInv DEF ApplyFails, FailCall
<1>4. CASE /\ Goto(c, "checkpoint")
           /\ UNCHANGED <<busy, stopRequested, flags, mutation, at, history>>
  <2>1. /\ pc' \in [Calls -> InFlight \cup {"idle", "done"}]
        /\ pc'[c] = "checkpoint"
        /\ \A d \in Calls : d # c => pc'[d] = pc[d] /\ pc'[d] \notin InFlight
        /\ SoleOwner'
    BY <1>1, <1>4, OwnerMoves DEF history
  <2>2. writers = {}
    BY <1>1 DEF IInv, Reserved
  <2>3. Typed'
    BY <1>4, <2>1 DEF IInv, Typed, flags, history
  <2>4. OneDispatch' /\ Reserved' /\ OnTime'
    BY <1>1, <1>4, <2>1, <2>2 DEF IInv, Typed, OneDispatch, Reserved, OnTime, flags, history
  <2>5. Progress' /\ DispositionTruthful'
    BY <1>1, <1>4, <2>1 DEF IInv, Progress, DispositionTruthful, flags, history
  <2> QED
    BY <2>1, <2>3, <2>4, <2>5 DEF IInv
<1> QED
  BY <1>2, <1>3, <1>4 DEF Gate, AfterGate, Checkpoint

\* Outside of apply's writing part no step touches the disposition.
LEMMA CalmKeepsIInv ==
  ASSUME IInv, NEW c \in Calls, pc[c] \in {"propose", "reobserve", "validate"},
         NEW l, Settle(c, mutation, l), busy' = FALSE,
         UNCHANGED <<stopRequested, flags, at, history>>
  PROVE  IInv'
<1>1. \A d \in Calls : pc[d] \notin Applying
  BY DEF IInv, SoleOwner
<1>2. /\ mutation \in {"NOT_DISPATCHED", "REFUSED"} => wrote = {}
      /\ mutation = "ALL_APPLIED" => wrote = Targets
      /\ mutation \in {"PARTIAL", "COMMITTED_FAILURE"} => wrote # {}
      /\ ~applyConsumed => mutation = "NOT_DISPATCHED"
  BY <1>1 DEF IInv, DispositionTruthful, Progress
<1> QED
  BY <1>2, EndingKeepsIInv

\* Reading one target back.
LEMMA CompareKeepsIInv ==
  ASSUME IInv, NEW c \in Calls, Compare(c)
  PROVE  IInv'
<1>1. /\ pc[c] = "reobserve" /\ at[c] < N /\ N \in Nat /\ at[c] \in Nat
      /\ at' = [at EXCEPT ![c] = at[c] + 1]
      /\ UNCHANGED <<busy, stopRequested, flags, mutation, pc, wrote, writers, late>>
  BY SessionAssumption DEF Compare, IInv, Typed, history
<1>2. /\ at' \in [Calls -> 0 .. N]
      /\ \A d \in Calls : pc[d] # "reobserve" => at'[d] = at[d]
  BY <1>1 DEF IInv, Typed
<1>3. Typed'
  BY <1>1, <1>2 DEF IInv, Typed, flags
<1>4. SoleOwner' /\ OneDispatch' /\ Reserved' /\ OnTime'
  BY <1>1 DEF IInv, SoleOwner, OneDispatch, Reserved, OnTime, flags
<1>5. Progress' /\ DispositionTruthful'
  BY <1>1, <1>2 DEF IInv, Progress, DispositionTruthful, flags
<1> QED
  BY <1>3, <1>4, <1>5 DEF IInv

\* Steps that change none of the variables the invariant reads.
LEMMA IdleKeepsIInv ==
  ASSUME IInv, UNCHANGED <<busy, flags, mutation, pc, at, wrote, writers, late>>,
         stopRequested' \in BOOLEAN
  PROVE  IInv'
  BY DEF IInv, Typed, SoleOwner, OneDispatch, Reserved, OnTime, Progress, DispositionTruthful, flags

\* Every step preserves the invariant.
LEMMA StepKeepsIInv == IInv /\ [Next]_vars => IInv'
<1> SUFFICES ASSUME IInv, [Next]_vars PROVE IInv'
  OBVIOUS
<1>1. ASSUME NEW c \in Calls, Refuse(c) PROVE IInv'
  BY <1>1, RefuseKeepsIInv
<1>2. ASSUME NEW c \in Calls, ProposeStep(c) PROVE IInv'
  <2>1. CASE BeginPropose(c)
    BY <2>1, ReserveKeepsIInv
  <2>2. CASE EndPropose(c)
    BY <2>2, CalmKeepsIInv DEF EndPropose, FailCall
  <2> QED
    BY <1>2, <2>1, <2>2 DEF ProposeStep
<1>3. ASSUME NEW c \in Calls, ApplyStep(c) PROVE IInv'
  <2>1. CASE BeginApply(c)
    BY <2>1, ReserveKeepsIInv
  <2>2. CASE ApplyAfterClose(c)
    BY <2>2, ApplyAfterCloseKeepsIInv
  <2>3. CASE Gate(c) \/ Checkpoint(c)
    BY <2>3, GatesKeepIInv
  <2>4. CASE Publish(c)
    BY <2>4, PublishKeepsIInv
  <2>5. CASE NextTarget(c)
    BY <2>5, NextTargetKeepsIInv
  <2>6. CASE AllApplied(c)
    BY <2>6, AllAppliedKeepsIInv
  <2>7. CASE TargetNotApplied(c) \/ PlanRefused(c) \/ CommittedFailure(c) \/ Throws(c)
    BY <2>7, ApplyEndsKeepsIInv
  <2>8. CASE Compare(c)
    BY <2>8, CompareKeepsIInv
  <2>9. CASE ReobservationFails(c)
    BY <2>9, CalmKeepsIInv DEF ReobservationFails, FailCall
  <2>10. CASE Reobserved(c)
    BY <2>10, CalmKeepsIInv DEF Reobserved
  <2> QED
    BY <1>3, <2>1, <2>2, <2>3, <2>4, <2>5, <2>6, <2>7, <2>8, <2>9, <2>10 DEF ApplyStep
<1>4. ASSUME NEW c \in Calls, ValidateStep(c) PROVE IInv'
  <2>1. CASE BeginValidate(c)
    BY <2>1, ReserveKeepsIInv
  <2>2. CASE ValidationFails(c)
    BY <2>2, CalmKeepsIInv DEF ValidationFails, FailCall
  <2>3. CASE EndValidate(c)
    <3>1. PICK l \in {Accepted, Unproven} : Settle(c, mutation, l)
      BY <2>3 DEF EndValidate
    <3> QED
      BY <2>3, <3>1, CalmKeepsIInv DEF EndValidate
  <2> QED
    BY <1>4, <2>1, <2>2, <2>3 DEF ValidateStep
<1>5. CASE Close
  BY <1>5, IdleKeepsIInv DEF Close, history
<1>6. ASSUME NEW t \in Targets, NEW b \in {"before", "other"}, OutsideChange(t, b) PROVE IInv'
  <2>1. stopRequested' \in BOOLEAN
    BY <1>6 DEF OutsideChange, IInv, Typed
  <2> QED
    BY <1>6, <2>1, IdleKeepsIInv DEF OutsideChange
<1>7. CASE UNCHANGED vars
  <2>1. stopRequested' \in BOOLEAN
    BY <1>7 DEF vars, IInv, Typed
  <2> QED
    BY <1>7, <2>1, IdleKeepsIInv DEF vars, history
<1> QED
  BY <1>1, <1>2, <1>3, <1>4, <1>5, <1>6, <1>7 DEF Next

\* The strengthening that every result below follows from.
THEOREM Inductive == Spec => []IInv
  BY InitIInv, StepKeepsIInv, PTL DEF Spec

\* Calls of one session exclude each other, whatever is refused or closed
\* under them (session.ts, busy and the finally of each method).
THEOREM SoleOwnerAlways == Spec => []SoleOwner
<1>1. IInv => SoleOwner
  BY DEF IInv
<1> QED
  BY <1>1, Inductive, PTL

\* At most one apply of a session ever reaches the owners of the files.
THEOREM OneDispatchAlways == Spec => []OneDispatch
<1>1. IInv => OneDispatch
  BY DEF IInv
<1> QED
  BY <1>1, Inductive, PTL

\* An apply made after close() writes nothing, in any order of the two with
\* a proposal under way.
THEOREM ClosedMeansNoWriteAlways == Spec => []ClosedMeansNoWrite
<1>1. IInv => ClosedMeansNoWrite
  BY DEF IInv, OnTime, ClosedMeansNoWrite
<1> QED
  BY <1>1, Inductive, PTL

\* With no apply under way, the mutation disposition of the session is true of
\* what it did to the disk, for any number of targets.
THEOREM DispositionTruthfulAlways == Spec => []DispositionTruthful
<1>1. IInv => DispositionTruthful
  BY DEF IInv
<1> QED
  BY <1>1, Inductive, PTL

----------------------------------------------------------------------------
\* What writes are protected by, what a validation is offered and what earns
\* the strong label.

Writing == {"write", "published"}

\* A call that writes has its checkpoint where one is required.
Protected == \A c \in Calls : pc[c] \in Writing /\ recoveryProtection = "REQUIRED" => checkpoint

\* What a call has compared is as approved, or drifted since; so is everything
\* once the re-observation succeeded.
Compared ==
  /\ file \in [Targets -> Contents]
  /\ \A c \in Calls : pc[c] = "reobserve" => \A t \in 1 .. at[c] : file[t] = "after" \/ t \in drifted
  /\ ValidatesApprovedBytes

EndInv == IInv /\ Protected /\ Compared

\* A call comes to write past its checkpoint, and to compare with nothing
\* compared.
LEMMA StageStep ==
  ASSUME IInv, Next, NEW c \in Calls
  PROVE  /\ pc'[c] \in Writing => pc[c] \in Writing \/ checkpoint' \/ recoveryProtection # "REQUIRED"
         /\ pc'[c] = "reobserve" =>
              \/ pc[c] = "reobserve" /\ (at'[c] = at[c] \/ Compare(c))
              \/ at'[c] = 0
<1> DEFINE Goal ==
      /\ pc'[c] \in Writing => pc[c] \in Writing \/ checkpoint' \/ recoveryProtection # "REQUIRED"
      /\ pc'[c] = "reobserve" =>
           \/ pc[c] = "reobserve" /\ (at'[c] = at[c] \/ Compare(c))
           \/ at'[c] = 0
<1> USE DEF Writing, Targets
<1>0. pc \in [Calls -> InFlight \cup {"idle", "done"}] /\ at \in [Calls -> 0 .. N]
  BY DEF IInv, Typed
<1>1. ASSUME NEW b \in Calls, NEW l, Goto(b, l), l \notin Writing \cup {"reobserve"}, UNCHANGED at
      PROVE  Goal
  BY <1>0, <1>1 DEF Goto
<1>2. ASSUME UNCHANGED <<pc, at>> PROVE Goal
  BY <1>2
<1>3. ASSUME NEW b \in Calls, NEW m, NEW l, Settle(b, m, l), UNCHANGED at PROVE Goal
  BY <1>1, <1>3 DEF Settle
<1>4. ASSUME NEW b \in Calls, NEW m, NEW l, FailCall(b, m, l), UNCHANGED at PROVE Goal
  BY <1>3, <1>4 DEF FailCall
<1>5. ASSUME NEW b \in Calls, NEW m, NEW l, ApplyFails(b, m, l) PROVE Goal
  BY <1>4, <1>5 DEF ApplyFails
<1>6. ASSUME NEW b \in Calls, Goto(b, "write"), UNCHANGED at,
             pc[b] \in Writing \/ checkpoint' \/ recoveryProtection # "REQUIRED"
      PROVE  Goal
  BY <1>0, <1>6 DEF Goto
<1>7. ASSUME NEW b \in Calls, Refuse(b) \/ ProposeStep(b) \/ ValidateStep(b) PROVE Goal
  BY <1>1, <1>3, <1>4, <1>7 DEF Refuse, ProposeStep, BeginPropose, EndPropose, ValidateStep,
     BeginValidate, ValidationFails, EndValidate, Reserve
<1>8. ASSUME NEW b \in Calls, BeginApply(b) \/ ApplyAfterClose(b) PROVE Goal
  BY <1>1, <1>4, <1>8 DEF BeginApply, ApplyAfterClose, Reserve
<1>9. ASSUME NEW b \in Calls, Gate(b) \/ Checkpoint(b) PROVE Goal
  BY <1>1, <1>5, <1>6, <1>9 DEF Gate, AfterGate, Checkpoint, Dispatch
<1>10. ASSUME NEW b \in Calls, Publish(b) PROVE Goal
  BY <1>0, <1>10 DEF Publish, Goto
<1>11. ASSUME NEW b \in Calls, NextTarget(b) PROVE Goal
  BY <1>0, <1>11 DEF NextTarget, Goto
<1>12. ASSUME NEW b \in Calls, AllApplied(b) PROVE Goal
  BY <1>0, <1>5, <1>12 DEF AllApplied, Goto
<1>13. ASSUME NEW b \in Calls, TargetNotApplied(b) \/ PlanRefused(b) \/ CommittedFailure(b) \/ Throws(b)
       PROVE  Goal
  BY <1>5, <1>13 DEF TargetNotApplied, PlanRefused, CommittedFailure, Throws
<1>14. ASSUME NEW b \in Calls, Compare(b) PROVE Goal
  BY <1>0, <1>14 DEF Compare
<1>15. ASSUME NEW b \in Calls, ReobservationFails(b) \/ Reobserved(b) PROVE Goal
  BY <1>3, <1>4, <1>15 DEF ReobservationFails, Reobserved
<1> QED
  BY <1>2, <1>7, <1>8, <1>9, <1>10, <1>11, <1>12, <1>13, <1>14, <1>15
     DEF Next, ApplyStep, Close, OutsideChange

\* Which steps change the files, what the session wrote and what drifted.
LEMMA FileStep ==
  ASSUME IInv, Next
  PROVE  \/ UNCHANGED <<file, wrote, drifted>>
         \/ \E c \in Calls : Publish(c)
         \/ \E t \in Targets, b \in {"before", "other"} : OutsideChange(t, b)
  BY DEF Next, Refuse, ProposeStep, BeginPropose, EndPropose, ValidateStep, BeginValidate,
     ValidationFails, EndValidate, Reserve, ApplyStep, BeginApply, ApplyAfterClose, Gate, AfterGate,
     Checkpoint, Dispatch, ApplyFails, NextTarget, AllApplied, TargetNotApplied, PlanRefused,
     CommittedFailure, Throws, Compare, ReobservationFails, Reobserved, Close, history

\* Which steps establish the checkpoint and the re-observation.
LEMMA EvidenceStep ==
  ASSUME IInv, Next
  PROVE  /\ checkpoint' = checkpoint \/ (checkpoint' /\ \E c \in Calls : Checkpoint(c))
         /\ \/ reobservation' = reobservation \/ reobservation' = "FAILED"
            \/ \E c \in Calls : Reobserved(c)
  BY DEF Next, Refuse, ProposeStep, BeginPropose, EndPropose, ValidateStep, BeginValidate,
     ValidationFails, EndValidate, Reserve, ApplyStep, BeginApply, ApplyAfterClose, Gate, AfterGate,
     Checkpoint, Dispatch, ApplyFails, Publish, NextTarget, AllApplied, TargetNotApplied, PlanRefused,
     CommittedFailure, Throws, Compare, ReobservationFails, Reobserved, Close, OutsideChange, results

\* What was found as approved stays so, or drifts.
LEMMA ApprovedStays ==
  ASSUME EndInv, Next, NEW t \in Targets, file[t] = "after" \/ t \in drifted,
         reobservation = "SUCCEEDED" \/ \E c \in Calls : pc[c] = "reobserve" /\ t <= at[c]
  PROVE  file'[t] = "after" \/ t \in drifted'
<1>1. file \in [Targets -> Contents]
  BY DEF EndInv, Compared
<1>2. ASSUME NEW c \in Calls, Publish(c) PROVE file'[t] = "after" \/ t \in drifted'
  BY <1>1, <1>2 DEF Publish
<1>3. ASSUME NEW u \in Targets, NEW b \in {"before", "other"}, OutsideChange(u, b)
      PROVE  file'[t] = "after" \/ t \in drifted'
  BY <1>1, <1>3 DEF OutsideChange
<1> QED
  BY <1>2, <1>3, FileStep DEF EndInv

\* Every step keeps the stronger invariant.
LEMMA EndInvStep == EndInv /\ [Next]_vars => EndInv'
<1> SUFFICES ASSUME EndInv, [Next]_vars PROVE EndInv'
  OBVIOUS
<1> USE DEF EndInv
<1>1. IInv'
  BY StepKeepsIInv
<1>2. CASE UNCHANGED vars
  BY <1>1, <1>2 DEF vars, results, history, Protected, Compared, ValidatesApprovedBytes
<1>3. CASE Next
  <2> USE <1>3
  <2>1. ASSUME NEW c \in Calls, pc'[c] \in Writing, recoveryProtection' = "REQUIRED" PROVE checkpoint'
    <3>1. recoveryProtection = "REQUIRED" /\ (checkpoint => checkpoint')
      BY <2>1, EvidenceStep DEF Next
    <3> QED
      BY <2>1, <3>1, StageStep DEF Protected
  <2>2. file' \in [Targets -> Contents]
    <3>1. file \in [Targets -> Contents]
      BY DEF Compared
    <3>2. ASSUME NEW c \in Calls, Publish(c) PROVE file' \in [Targets -> Contents]
      BY <3>1, <3>2 DEF Publish, Contents
    <3>3. ASSUME NEW u \in Targets, NEW b \in {"before", "other"}, OutsideChange(u, b)
          PROVE  file' \in [Targets -> Contents]
      BY <3>1, <3>3 DEF OutsideChange, Contents
    <3> QED
      BY <3>1, <3>2, <3>3, FileStep
  <2>3. ASSUME NEW c \in Calls, pc'[c] = "reobserve", NEW t \in 1 .. at'[c]
        PROVE  file'[t] = "after" \/ t \in drifted'
    <3>1. at[c] \in 0 .. N /\ N \in Nat /\ at' \in [Calls -> 0 .. N] /\ at \in [Calls -> 0 .. N]
      BY <1>1, SessionAssumption DEF IInv, Typed
    <3>2. t \in Targets
      BY <2>3, <3>1
    <3>3. CASE pc[c] = "reobserve" /\ at'[c] = at[c]
      <4>1. file[t] = "after" \/ t \in drifted
        BY <2>3, <3>3 DEF Compared
      <4> QED
        BY <2>3, <3>1, <3>2, <3>3, <4>1, ApprovedStays
    <3>4. CASE Compare(c)
      <4>1. /\ pc[c] = "reobserve" /\ at'[c] = at[c] + 1 /\ file[at[c] + 1] = "after"
            /\ UNCHANGED <<file, drifted>>
        BY <3>1, <3>4 DEF Compare, AsApproved, history
      <4>2. t \in 1 .. at[c] \/ t = at[c] + 1
        BY <2>3, <3>1, <4>1
      <4> QED
        BY <4>1, <4>2 DEF Compared
    <3>5. at'[c] # 0
      BY <2>3, <3>1
    <3> QED
      BY <2>3, <3>3, <3>4, <3>5, StageStep
  <2>4. ASSUME reobservation' = "SUCCEEDED", NEW t \in Targets
        PROVE  file'[t] = "after" \/ t \in drifted'
    <3>1. CASE reobservation = "SUCCEEDED"
      BY <3>1, ApprovedStays DEF Compared, ValidatesApprovedBytes
    <3>2. ASSUME NEW c \in Calls, Reobserved(c) PROVE file'[t] = "after" \/ t \in drifted'
      BY <3>2 DEF Reobserved, Compared, history
    <3> QED
      BY <2>4, <3>1, <3>2, EvidenceStep
  <2> QED
    BY <1>1, <2>1, <2>2, <2>3, <2>4 DEF Protected, Compared, ValidatesApprovedBytes
<1> QED
  BY <1>2, <1>3

\* A fresh session compared nothing and protects nothing.
LEMMA InitEndInv == Init => EndInv
<1> SUFFICES ASSUME Init PROVE EndInv
  OBVIOUS
<1>1. \A c \in Calls : pc[c] = "idle"
  BY DEF Init
<1>2. file \in [Targets -> Contents]
  BY DEF Init, Contents
<1>3. reobservation # "SUCCEEDED"
  BY DEF Init
<1> QED
  BY <1>1, <1>2, <1>3, InitIInv DEF EndInv, Protected, Compared, ValidatesApprovedBytes, Writing

\* The strengthening holds for ever.
LEMMA EndInvAlways == Spec => []EndInv
  BY InitEndInv, EndInvStep, PTL DEF Spec

\* A validation is only offered for bytes that were approved, for any number of
\* targets, unless they changed after they were compared.
THEOREM ValidatesApprovedBytesAlways == Spec => []ValidatesApprovedBytes
<1>1. EndInv => ValidatesApprovedBytes
  BY DEF EndInv, Compared
<1> QED
  BY <1>1, EndInvAlways, PTL

\* Where protection is required, the first byte is written only after the
\* checkpoint stands, and no checkpoint is made of files already written.
THEOREM ProtectedWritesAlways == Spec => ProtectedWrites
<1>1. ASSUME EndInv, [Next]_vars
      PROVE  [/\ wrote' # wrote /\ recoveryProtection = "REQUIRED" => checkpoint
              /\ checkpoint' # checkpoint => wrote = {}]_vars
  <2> SUFFICES ASSUME Next
               PROVE  /\ wrote' # wrote /\ recoveryProtection = "REQUIRED" => checkpoint
                      /\ checkpoint' # checkpoint => wrote = {}
    BY <1>1
  <2>1. ASSUME wrote' # wrote, recoveryProtection = "REQUIRED" PROVE checkpoint
    <3>1. PICK c \in Calls : Publish(c)
      BY <1>1, <2>1, FileStep DEF EndInv, OutsideChange
    <3> QED
      BY <1>1, <2>1, <3>1 DEF Publish, EndInv, Protected, Writing
  <2>2. ASSUME checkpoint' # checkpoint PROVE wrote = {}
    <3>1. PICK c \in Calls : Checkpoint(c)
      BY <1>1, <2>2, EvidenceStep DEF EndInv
    <3> QED
      BY <1>1, <3>1 DEF Checkpoint, EndInv, IInv, Progress
  <2> QED
    BY <2>1, <2>2
<1>2. EndInv /\ [Next]_vars
      => [/\ wrote' # wrote /\ recoveryProtection = "REQUIRED" => checkpoint
          /\ checkpoint' # checkpoint => wrote = {}]_vars
  BY <1>1
<1> QED
  BY <1>2, EndInvAlways, PTL DEF Spec, ProtectedWrites

\* Only the end of a validation gives the strong label.
LEMMA LabelStep ==
  ASSUME IInv, Next, label' = Accepted, label # Accepted
  PROVE  \E c \in Calls : EndValidate(c) /\ IsAccepted(TRUE)
<1> DEFINE Goal == \E c \in Calls : EndValidate(c) /\ IsAccepted(TRUE)
<1> USE DEF Accepted, Unproven
<1>1. ASSUME NEW c, NEW m, NEW l, Settle(c, m, l), l # Accepted PROVE FALSE
  BY <1>1 DEF Settle
<1>2. ASSUME NEW c, NEW m, NEW l, FailCall(c, m, l), l # Accepted PROVE FALSE
  BY <1>1, <1>2 DEF FailCall, LabelRaised
<1>3. ASSUME NEW c, NEW m, NEW l, ApplyFails(c, m, l), l # Accepted PROVE FALSE
  BY <1>2, <1>3 DEF ApplyFails
<1>4. ASSUME NEW c \in Calls, EndValidate(c) PROVE Goal
  BY <1>1, <1>4 DEF EndValidate, IsAccepted
<1>5. ASSUME UNCHANGED label PROVE FALSE
  BY <1>5
<1>6. ASSUME NEW c \in Calls, Refuse(c) \/ ProposeStep(c) \/ BeginValidate(c) \/ ValidationFails(c)
      PROVE  FALSE
  BY <1>1, <1>2, <1>6 DEF Refuse, ProposeStep, BeginPropose, EndPropose, BeginValidate,
     ValidationFails, Reserve
<1>7. ASSUME NEW c \in Calls, ApplyStep(c) PROVE FALSE
  BY <1>1, <1>2, <1>3, <1>7 DEF ApplyStep, BeginApply, ApplyAfterClose, Gate, AfterGate, Checkpoint,
     Dispatch, Reserve, Publish, NextTarget, AllApplied, TargetNotApplied, PlanRefused,
     CommittedFailure, Throws, Compare, ReobservationFails, Reobserved
<1> QED
  BY <1>4, <1>5, <1>6, <1>7 DEF Next, ValidateStep, Close, OutsideChange

\* The strong label is given only if every target was written and found as
\* approved, and nobody had asked the session to stop.
THEOREM StrongLabelEarnedAlways == Spec => StrongLabelEarned
<1>1. ASSUME EndInv, [Next]_vars
      PROVE  [label' = Accepted /\ label # Accepted =>
                ~stopRequested /\ wrote = Targets /\ reobservation = "SUCCEEDED"]_vars
  <2> SUFFICES ASSUME Next, label' = Accepted, label # Accepted
               PROVE  ~stopRequested /\ wrote = Targets /\ reobservation = "SUCCEEDED"
    BY <1>1
  <2>1. PICK c \in Calls : EndValidate(c) /\ IsAccepted(TRUE)
    BY <1>1, LabelStep DEF EndInv
  <2>2. \A d \in Calls : pc[d] \notin Applying
    BY <1>1, <2>1 DEF EndValidate, EndInv, IInv, SoleOwner
  <2> QED
    BY <1>1, <2>1, <2>2 DEF IsAccepted, EndInv, IInv, DispositionTruthful
<1>2. EndInv /\ [Next]_vars
      => [label' = Accepted /\ label # Accepted =>
            ~stopRequested /\ wrote = Targets /\ reobservation = "SUCCEEDED"]_vars
  BY <1>1
<1> QED
  BY <1>2, EndInvAlways, PTL DEF Spec, StrongLabelEarned

-----------------------------------------------------------------------------
(* Every variable keeps its type                                           *)

\* What a step assigns, besides what Typed says of the variables of the calls.
Answers == [mutation : Mutations, label : Labels] \cup {None}
Assigned ==
  /\ phase \in Phases /\ mutation \in Mutations /\ label \in Labels
  /\ reobservation \in {"NOT_RUN", "SUCCEEDED", "FAILED"}
  /\ validation \in {"NOT_AUTHORIZED", "NOT_RUN", "INTERRUPTED", "FAILED", "ACCEPTED", "NOT_ACCEPTED"}
  /\ proposeConsumed \in BOOLEAN /\ validateConsumed \in BOOLEAN
  /\ checkpoint \in BOOLEAN /\ catalog \in {"none", "open"}
  /\ record \in [Calls -> Answers]
  /\ file \in [Targets -> Contents] /\ outside \in 0 .. MaxOutside /\ drifted \subseteq Targets

\* Of a session: how it was opened never changes.
TypeInv == IInv /\ recoveryProtection \in {"REQUIRED", "NONE"} /\ Assigned

\* A call that ends returns a record of the session.
LEMMA SettleTyped ==
  ASSUME Assigned, NEW c \in Calls, NEW m \in Mutations, NEW l \in Labels, Settle(c, m, l)
  PROVE  mutation' \in Mutations /\ label' \in Labels /\ record' \in [Calls -> Answers]
  BY DEF Settle, Assigned, Answers

LEMMA FailCallTyped ==
  ASSUME Assigned, NEW c \in Calls, NEW m \in Mutations, NEW l \in Labels, FailCall(c, m, l)
  PROVE  phase' \in Phases /\ mutation' \in Mutations /\ label' \in Labels /\ record' \in [Calls -> Answers]
<1>1. LabelRaised(m, l) \in Labels
  BY DEF LabelRaised, Labels, Unproven
<1> QED
  BY <1>1, SettleTyped DEF FailCall, Phases

LEMMA ApplyFailsTyped ==
  ASSUME Assigned, NEW c \in Calls, NEW m \in Mutations, NEW l \in Labels, ApplyFails(c, m, l)
  PROVE  Assigned'
<1>1. FailCall(c, m, l)
  BY DEF ApplyFails
<1>2. phase' \in Phases /\ mutation' \in Mutations /\ label' \in Labels /\ record' \in [Calls -> Answers]
  BY <1>1, FailCallTyped
<1> QED
  BY <1>2 DEF ApplyFails, Assigned, flags, results, history

\* Every step of a call, a close and a change by another program.
LEMMA StepTyped ==
  ASSUME IInv, Assigned, Next
  PROVE  Assigned'
<1> USE DEF flags, results, history
<1>l. /\ label \in Labels /\ mutation \in Mutations /\ Unproven \in Labels /\ Accepted \in Labels
      /\ {"PROPOSAL_ONLY", "MUTATION_NOT_DISPATCHED", "MUTATION_PARTIAL_OR_FAILED"} \subseteq Labels
      /\ {"NOT_DISPATCHED", "REFUSED", "PARTIAL", "ALL_APPLIED", "COMMITTED_FAILURE",
          "WRITE_OUTCOME_UNCONFIRMED"} \subseteq Mutations
  BY DEF Assigned, Labels, Mutations, Touched
<1>1. ASSUME NEW c \in Calls, Refuse(c) PROVE Assigned'
  <2>1. phase' \in Phases /\ mutation' \in Mutations /\ label' \in Labels /\ record' \in [Calls -> Answers]
    BY <1>1, <1>l, FailCallTyped DEF Refuse
  <2> QED
    BY <1>1, <2>1 DEF Refuse, Assigned
<1>2. ASSUME NEW c \in Calls, BeginPropose(c) \/ BeginApply(c) \/ BeginValidate(c) PROVE Assigned'
  BY <1>2 DEF BeginPropose, BeginApply, BeginValidate, Reserve, Assigned, Phases
<1>3. ASSUME NEW c \in Calls, EndPropose(c) PROVE Assigned'
  <2>1. phase' \in Phases /\ mutation' \in Mutations /\ label' \in Labels /\ record' \in [Calls -> Answers]
    BY <1>3, <1>l, FailCallTyped, SettleTyped DEF EndPropose, Phases
  <2> QED
    BY <1>3, <2>1 DEF EndPropose, Assigned
<1>4. ASSUME NEW c \in Calls, ApplyAfterClose(c) PROVE Assigned'
  <2>1. phase' \in Phases /\ mutation' \in Mutations /\ label' \in Labels /\ record' \in [Calls -> Answers]
    BY <1>4, <1>l, FailCallTyped DEF ApplyAfterClose
  <2> QED
    BY <1>4, <2>1 DEF ApplyAfterClose, Assigned
<1>5. ASSUME NEW c \in Calls, Dispatch(c), checkpoint' \in BOOLEAN PROVE Assigned'
  BY <1>5 DEF Dispatch, Assigned
<1>6. ASSUME NEW c \in Calls, Gate(c) PROVE Assigned'
  <2>1. CASE ApplyFails(c, "NOT_DISPATCHED", label)
    BY <1>l, <2>1, ApplyFailsTyped
  <2>2. CASE AfterGate(c)
    BY <1>5, <2>2 DEF AfterGate, Assigned
  <2> QED
    BY <1>6, <2>1, <2>2 DEF Gate
<1>7. ASSUME NEW c \in Calls, Checkpoint(c) PROVE Assigned'
  <2>1. CASE ApplyFails(c, "NOT_DISPATCHED", "MUTATION_NOT_DISPATCHED")
    BY <1>l, <2>1, ApplyFailsTyped
  <2>2. CASE checkpoint' = TRUE /\ Dispatch(c)
    BY <1>5, <2>2
  <2> QED
    BY <1>7, <2>1, <2>2 DEF Checkpoint
<1>8. ASSUME NEW c \in Calls, Publish(c) PROVE Assigned'
  BY <1>8 DEF Publish, Assigned, Contents
<1>9. ASSUME NEW c \in Calls, NextTarget(c) \/ Compare(c) PROVE Assigned'
  BY <1>9 DEF NextTarget, Compare, Assigned
<1>10. ASSUME NEW c \in Calls, AllApplied(c) PROVE Assigned'
  <2>1. CASE ApplyFails(c, "ALL_APPLIED", Unproven)
    BY <1>l, <2>1, ApplyFailsTyped
  <2>2. CASE ~ApplyFails(c, "ALL_APPLIED", Unproven)
    BY <1>l, <1>10, <2>2 DEF AllApplied, Assigned, Phases
  <2> QED
    BY <2>1, <2>2
<1>11. ASSUME NEW c \in Calls, TargetNotApplied(c) \/ PlanRefused(c) \/ CommittedFailure(c) \/ Throws(c)
       PROVE  Assigned'
  <2>1. \E m \in Mutations, l \in Labels : ApplyFails(c, m, l)
    <3>1. CASE TargetNotApplied(c)
      BY <1>l, <3>1 DEF TargetNotApplied, NotPublished
    <3>2. CASE PlanRefused(c)
      BY <1>l, <3>2 DEF PlanRefused
    <3>3. CASE CommittedFailure(c)
      BY <1>l, <3>3 DEF CommittedFailure
    <3>4. CASE Throws(c)
      BY <1>l, <3>4 DEF Throws
    <3> QED
      BY <1>11, <3>1, <3>2, <3>3, <3>4
  <2> QED
    BY <2>1, ApplyFailsTyped
<1>12. ASSUME NEW c \in Calls, ReobservationFails(c) PROVE Assigned'
  <2>1. phase' \in Phases /\ mutation' \in Mutations /\ label' \in Labels /\ record' \in [Calls -> Answers]
    BY <1>12, <1>l, FailCallTyped DEF ReobservationFails
  <2> QED
    BY <1>12, <2>1 DEF ReobservationFails, Assigned
<1>13. ASSUME NEW c \in Calls, Reobserved(c) PROVE Assigned'
  <2>1. mutation' \in Mutations /\ label' \in Labels /\ record' \in [Calls -> Answers]
    BY <1>13, <1>l, SettleTyped DEF Reobserved
  <2> QED
    BY <1>13, <2>1 DEF Reobserved, Assigned, Phases
<1>14. ASSUME NEW c \in Calls, ValidationFails(c) PROVE Assigned'
  <2>1. phase' \in Phases /\ mutation' \in Mutations /\ label' \in Labels /\ record' \in [Calls -> Answers]
    BY <1>14, <1>l, FailCallTyped DEF ValidationFails
  <2> QED
    BY <1>14, <2>1 DEF ValidationFails, Assigned
<1>15. ASSUME NEW c \in Calls, EndValidate(c) PROVE Assigned'
  <2>1. mutation' \in Mutations /\ label' \in Labels /\ record' \in [Calls -> Answers]
    BY <1>15, <1>l, SettleTyped DEF EndValidate
  <2> QED
    BY <1>15, <2>1 DEF EndValidate, Assigned, Phases
<1>16. CASE Close
  BY <1>16 DEF Close, Assigned, Phases
<1>17. ASSUME NEW t \in Targets, NEW b \in {"before", "other"}, OutsideChange(t, b) PROVE Assigned'
  <2>1. outside' \in 0 .. MaxOutside
    BY <1>17, SessionAssumption DEF OutsideChange, Assigned
  <2> QED
    BY <1>17, <2>1 DEF OutsideChange, Assigned, Contents
<1> QED
  BY <1>1, <1>2, <1>3, <1>4, <1>6, <1>7, <1>8, <1>9, <1>10, <1>11, <1>12, <1>13, <1>14, <1>15, <1>16, <1>17
  DEF Next, ProposeStep, ApplyStep, ValidateStep

\* Every variable of the session keeps its type (TypeOK), whatever calls are
\* made, in whatever order their steps come.
THEOREM TypeCorrect == Spec => []TypeOK
<1>1. Init => recoveryProtection \in {"REQUIRED", "NONE"} /\ Assigned
  <2> SUFFICES ASSUME Init PROVE recoveryProtection \in {"REQUIRED", "NONE"} /\ Assigned
    OBVIOUS
  <2>1. outside \in 0 .. MaxOutside /\ drifted \subseteq Targets
    BY SessionAssumption DEF Init
  <2>2. record \in [Calls -> Answers] /\ file \in [Targets -> Contents]
    BY DEF Init, Answers, Contents
  <2> QED
    BY <2>1, <2>2 DEF Init, Assigned, Phases, Mutations, Touched, Labels
<1>2. TypeInv /\ [Next]_vars => (recoveryProtection \in {"REQUIRED", "NONE"} /\ Assigned)'
  <2>1. ASSUME TypeInv, Next PROVE (recoveryProtection \in {"REQUIRED", "NONE"} /\ Assigned)'
    BY <2>1, StepTyped DEF TypeInv, Next
  <2>2. ASSUME TypeInv, UNCHANGED vars PROVE (recoveryProtection \in {"REQUIRED", "NONE"} /\ Assigned)'
    BY <2>2 DEF TypeInv, Assigned, vars, flags, results, history
  <2> QED
    BY <2>1, <2>2
<1>3. TypeInv => TypeOK
  BY DEF TypeInv, IInv, Typed, Assigned, Answers, TypeOK
<1>4. TypeInv <=> IInv /\ recoveryProtection \in {"REQUIRED", "NONE"} /\ Assigned
  BY DEF TypeInv
<1> QED
  BY <1>1, <1>2, <1>3, <1>4, Inductive, PTL DEF Spec
=============================================================================
