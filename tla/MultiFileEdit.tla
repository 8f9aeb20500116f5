--------------------------- MODULE MultiFileEdit ---------------------------
(***************************************************************************)
(* Multi-file plans (src/editing/multi-file-*.ts): admission, a read-only  *)
(* preflight of every entry, then the entries one after another, stopping  *)
(* at the first that is not applied.  Each entry's edit is a call of       *)
(* EditContract, which SafeEdit implements; it is named by its execution   *)
(* and its position.  Several executions, of the same plan or of plans     *)
(* that share changes and authorizations, may be under way at once.        *)
(***************************************************************************)
EXTENDS EditContract, Naturals, Sequences, FiniteSets

CONSTANTS
  Executions,
  Auths,
  For,        \* Auths -> Changes: the change an authorization was issued for
  Before,     \* Changes -> Contents: what the preparation observed
  Size,       \* Changes -> Nat: length of the proposed bytes
  Offered,    \* the entry sequences callers offer as plans
  MinFiles, MaxFiles, MaxFileBytes, MaxTotalBytes,
  MaxOutside  \* bound: changes by other programs

Kinds == {"APPLIED", "REFUSED_PRECOMMIT", "FAILED_PRECOMMIT", "COMMITTED_FAILURE",
          "NOT_ATTEMPTED", "PREFLIGHT_FAILED", "PREFLIGHT_READY_BUT_PLAN_REFUSED"}
Statuses == {"ALL_APPLIED", "REFUSED_AT_PREFLIGHT", "STOPPED_BEFORE_ANY_COMMIT",
             "PARTIALLY_COMMITTED"}
Terminal == {"SUCCESS", "REFUSED_PRECOMMIT", "FAILED_PRECOMMIT", "COMMITTED_FAILURE"}

ASSUME PlanAssumption ==
  /\ Action \in [Changes -> {"modify", "create"}]
  /\ Target \in [Changes -> Paths]
  /\ After \in [Changes -> Bytes]
  /\ None \notin Statuses
  /\ For \in [Auths -> Changes]
  /\ Before \in [Changes -> Contents]
  /\ Size \in [Changes -> Nat]
  /\ Offered \subseteq Seq([change : Changes, auth : Auths])
  /\ MinFiles \in Nat /\ MaxFiles \in Nat /\ MaxOutside \in Nat
  /\ Executions \X (1 .. MaxFiles) \subseteq Calls

VARIABLES
  spent,      \* consumed authorizations
  phase,      \* execution -> "idle", "preflight", "running", "done", "dead"
  plan,       \* execution -> its entries
  checks,     \* execution -> what preflight found for each entry so far
  outcomes,   \* execution -> outcome kinds of its entries so far
  status,     \* execution -> the plan status it returned
  outside,    \* changes by other programs so far
  published   \* history: calls that passed their commit point

planVars == <<spent, phase, plan, checks, outcomes, status>>
allVars == <<vars, planVars, outside, published>>

PlanTypeOK ==
  /\ file \in [Paths -> Contents] /\ saved \in [Paths -> Contents]
  /\ goal \in [Calls -> Changes \cup {None}]
  /\ standing \in [Calls -> Terminal \cup {"idle", "working", "published", "settled", "dead"}]
  /\ spent \subseteq Auths
  /\ phase \in [Executions -> {"idle", "preflight", "running", "done", "dead"}]
  /\ plan \in [Executions -> Offered \cup {<<>>}]
  /\ checks \in [Executions -> Seq(BOOLEAN)]
  /\ outcomes \in [Executions -> Seq(Kinds)]
  /\ status \in [Executions -> Statuses \cup {None}]
  /\ outside \in 0 .. MaxOutside
  /\ published \subseteq Calls

PlanInit ==
  /\ Init
  /\ spent = {}
  /\ phase = [e \in Executions |-> "idle"]
  /\ plan = [e \in Executions |-> <<>>]
  /\ checks = [e \in Executions |-> <<>>]
  /\ outcomes = [e \in Executions |-> <<>>]
  /\ status = [e \in Executions |-> None]
  /\ outside = 0
  /\ published = {}

------------------------------------------------------------------------------
(* Admission.                                                               *)

TotalSize(entries) ==
  LET sum[n \in 0 .. Len(entries)] ==
        IF n = 0 THEN 0 ELSE sum[n - 1] + Size[entries[n].change]
  IN  sum[Len(entries)]

\* createMultiFilePlan.
Admissible(entries) ==
  /\ Len(entries) \in MinFiles .. MaxFiles
  /\ \A i, j \in DOMAIN entries : i # j => /\ entries[i].change # entries[j].change
                                           /\ entries[i].auth # entries[j].auth
  /\ \A i \in DOMAIN entries : Size[entries[i].change] <= MaxFileBytes
  /\ TotalSize(entries) <= MaxTotalBytes

Execute(e, entries) ==
  /\ phase[e] = "idle"
  /\ Admissible(entries)
  /\ plan' = [plan EXCEPT ![e] = entries]
  /\ phase' = [phase EXCEPT ![e] = "preflight"]
  /\ UNCHANGED <<vars, spent, checks, outcomes, status, outside, published>>

------------------------------------------------------------------------------
(* Preflight: one entry after another, each behind several awaits.          *)

TargetOf(entry) == Target[entry.change]

\* Another entry has the same file for its target, whichever kind either is.
Colliding(entries, i) ==
  \E j \in DOMAIN entries \ {i} : TargetOf(entries[j]) = TargetOf(entries[i])

Usable(entry) == entry.auth \notin spent /\ For[entry.auth] = entry.change

AsPrepared(ch) == file[Target[ch]] = Before[ch]

\* One look at an entry.  One that passes may still fail: denied, unmerged,
\* hard linked...
Inspect(e) ==
  LET i == Len(checks[e]) + 1 IN
  /\ phase[e] = "preflight"
  /\ i <= Len(plan[e])
  /\ \E ready \in BOOLEAN :
       /\ ready => /\ ~Colliding(plan[e], i)
                   /\ Usable(plan[e][i])
                   /\ AsPrepared(plan[e][i].change)
       /\ checks' = [checks EXCEPT ![e] = Append(@, ready)]
  /\ UNCHANGED <<vars, spent, phase, plan, outcomes, status, outside, published>>

AllReady(e) == \A i \in DOMAIN checks[e] : checks[e][i]

Return(e, kinds, result) ==
  /\ outcomes' = [outcomes EXCEPT ![e] = kinds]
  /\ status' = [status EXCEPT ![e] = result]
  /\ phase' = [phase EXCEPT ![e] = "done"]

\* The configuration could not be reloaded: no entry is looked at.
RefuseUnread(e) ==
  /\ phase[e] = "preflight" /\ checks[e] = <<>>
  /\ Return(e, [i \in DOMAIN plan[e] |-> "PREFLIGHT_FAILED"], "REFUSED_AT_PREFLIGHT")
  /\ UNCHANGED <<vars, spent, plan, checks, outside, published>>

Decide(e) ==
  /\ phase[e] = "preflight"
  /\ Len(checks[e]) = Len(plan[e])
  /\ IF AllReady(e)
     THEN phase' = [phase EXCEPT ![e] = "running"] /\ UNCHANGED <<outcomes, status>>
     ELSE Return(e, [i \in DOMAIN plan[e] |-> IF checks[e][i]
                                              THEN "PREFLIGHT_READY_BUT_PLAN_REFUSED"
                                              ELSE "PREFLIGHT_FAILED"],
                 "REFUSED_AT_PREFLIGHT")
  /\ UNCHANGED <<vars, spent, plan, checks, outside, published>>

------------------------------------------------------------------------------
(* Execution: the nested calls, one at a time.                              *)

Position(e) == Len(outcomes[e]) + 1
CallOf(e) == <<e, Position(e)>>

Stopped(e) == \E i \in DOMAIN outcomes[e] : outcomes[e][i] # "APPLIED"

\* Mutant: what preflight found still counts when the entry's turn comes.
AttemptUnchecked(e) ==
  LET entry == plan[e][Position(e)] IN
  /\ phase[e] = "running"
  /\ Position(e) <= Len(plan[e]) /\ ~Stopped(e)
  /\ Begin(CallOf(e), entry.change)
  /\ spent' = spent \cup {entry.auth} /\ standing'[CallOf(e)] = "working"
  /\ UNCHANGED <<phase, plan, checks, outcomes, status, outside, published>>

\* The nested call consumes its authorization, or is refused, at once.
Attempt(e) ==
  LET entry == plan[e][Position(e)] IN
  /\ phase[e] = "running"
  /\ Position(e) <= Len(plan[e]) /\ ~Stopped(e)
  /\ Begin(CallOf(e), entry.change)
  /\ IF Usable(entry)
     THEN spent' = spent \cup {entry.auth} /\ standing'[CallOf(e)] = "working"
     ELSE UNCHANGED spent /\ standing'[CallOf(e)] = "REFUSED_PRECOMMIT"
  /\ UNCHANGED <<phase, plan, checks, outcomes, status, outside, published>>

\* replaceExistingFile, createFile: the steps EditContract promises.
Nested(c) ==
  /\ \/ Publish(c) /\ published' = published \cup {c}
     \/ (Settle(c) \/ End(c)) /\ UNCHANGED published
  /\ UNCHANGED <<planVars, outside>>

\* mapNestedOutcome.
KindOf(result) == IF result = "SUCCESS" THEN "APPLIED" ELSE result

Collect(e) ==
  /\ phase[e] = "running"
  /\ Position(e) <= Len(plan[e]) /\ ~Stopped(e)
  /\ standing[CallOf(e)] \in Terminal
  /\ outcomes' = [outcomes EXCEPT ![e] = Append(@, KindOf(standing[CallOf(e)]))]
  /\ UNCHANGED <<vars, spent, phase, plan, checks, status, outside, published>>

\* Mutant: a commit that could not be confirmed does not count.
CommittedConfirmed(kind) == kind = "APPLIED"

\* hasCommittedMutation and derivePlanStatus.
Committed(kind) == kind \in {"APPLIED", "COMMITTED_FAILURE"}

PlanStatus(kinds) ==
  IF \A i \in DOMAIN kinds : kinds[i] = "APPLIED" THEN "ALL_APPLIED"
  ELSE IF \E i \in DOMAIN kinds : Committed(kinds[i]) THEN "PARTIALLY_COMMITTED"
  ELSE "STOPPED_BEFORE_ANY_COMMIT"

Finish(e) ==
  LET kinds == [i \in DOMAIN plan[e] |-> IF i < Position(e) THEN outcomes[e][i]
                                                            ELSE "NOT_ATTEMPTED"]
  IN
  /\ phase[e] = "running"
  /\ Stopped(e) \/ Position(e) > Len(plan[e])
  /\ Return(e, kinds, PlanStatus(kinds))
  /\ UNCHANGED <<vars, spent, plan, checks, outside, published>>

------------------------------------------------------------------------------

OutsideChange(p, b) ==
  /\ outside < MaxOutside
  /\ outside' = outside + 1
  /\ Outside(p, b)
  /\ UNCHANGED <<planVars, published>>

\* Plans and the authorization registry live in memory only.
Die ==
  /\ Crash
  /\ phase' = [e \in Executions |-> IF phase[e] \in {"preflight", "running"} THEN "dead"
                                                                        ELSE phase[e]]
  /\ spent' = Auths
  /\ UNCHANGED <<plan, checks, outcomes, status, outside, published>>

PlanNext ==
  \/ \E e \in Executions : \/ \E entries \in Offered : Execute(e, entries)
                           \/ Inspect(e) \/ RefuseUnread(e) \/ Decide(e)
                           \/ Attempt(e) \/ Collect(e) \/ Finish(e)
  \/ \E c \in Calls : Nested(c)
  \/ \E p \in Paths, b \in Contents : OutsideChange(p, b)
  \/ Die

PlanSpec == PlanInit /\ [][PlanNext]_allVars

------------------------------------------------------------------------------
(* Properties.                                                              *)

EntryOf(c) == plan[c[1]][c[2]]

CallsOf(e) == {c \in published : c[1] = e}

\* The status a caller sees says what happened to the files: everything
\* published, something published, or nothing at all.  A refused plan has not
\* even consumed an approval it was given.
StatusTruthful ==
  \A e \in Executions :
    /\ status[e] = "ALL_APPLIED" => Cardinality(CallsOf(e)) = Len(plan[e])
    /\ status[e] = "PARTIALLY_COMMITTED" => CallsOf(e) # {}
    /\ status[e] \in {"REFUSED_AT_PREFLIGHT", "STOPPED_BEFORE_ANY_COMMIT"} => CallsOf(e) = {}
    /\ status[e] = "REFUSED_AT_PREFLIGHT" =>
         \A i \in 1 .. MaxFiles : standing[<<e, i>>] = "idle"

\* However often a plan, or its authorizations in another plan, is executed,
\* and however the executions interleave, an approval puts its change on disk
\* at most once; and one execution never publishes two changes to one path, so
\* no entry can destroy what an earlier entry of its own plan wrote.
ApprovalPublishedOnce ==
  \A c, d \in published :
    (\/ EntryOf(c).auth = EntryOf(d).auth
     \/ c[1] = d[1] /\ Target[goal[c]] = Target[goal[d]]) => c = d

==============================================================================
