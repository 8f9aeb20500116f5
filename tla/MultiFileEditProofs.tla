------------------------ MODULE MultiFileEditProofs ------------------------
(***************************************************************************)
(* Proofs about MultiFileEdit: for any number of executions and any plans  *)
(* that share changes and authorizations.                                  *)
(***************************************************************************)
EXTENDS MultiFileEdit, FiniteSetTheorems, SequenceTheorems, TLAPS

Live == {"working", "published", "settled"}

\* Every call that began is the call of one entry of a plan that passed its
\* preflight, none of whose entries collide.
Clear(entries) == \A i \in DOMAIN entries : ~Colliding(entries, i)

Belongs ==
  \A c \in Calls : standing[c] # "idle" =>
    /\ c[1] \in Executions /\ c[2] \in DOMAIN plan[c[1]] /\ c = <<c[1], c[2]>>
    /\ phase[c[1]] \in {"running", "done", "dead"}
    /\ goal[c] = EntryOf(c).change
    /\ Clear(plan[c[1]])

\* What the preflight has found so far holds of the plan whatever happens, and
\* a plan that runs has passed it.
Screened ==
  \A e \in Executions :
    /\ Len(plan[e]) <= MaxFiles
    /\ phase[e] = "idle" => checks[e] = <<>> /\ plan[e] = <<>>
    /\ phase[e] \in {"idle", "preflight"} => outcomes[e] = <<>>
    /\ phase[e] = "preflight" =>
         /\ Len(checks[e]) <= Len(plan[e])
         /\ \A i \in DOMAIN checks[e] : checks[e][i] => ~Colliding(plan[e], i)
    /\ phase[e] = "running" => Clear(plan[e]) /\ Len(outcomes[e]) <= Len(plan[e])
    /\ status[e] # None => phase[e] = "done"

\* The history agrees with where each call stands.
Committing == {"published", "settled", "SUCCESS", "COMMITTED_FAILURE"}

Marked ==
  \A c \in Calls :
    /\ standing[c] \in Committing => c \in published
    /\ c \in published => standing[c] \in Committing \cup {"dead"}

\* A call that may still publish, or has, holds an authorization no other does.
Holding(c) == standing[c] \in Live \/ c \in published

Exclusive ==
  \A c \in Calls : Holding(c) =>
    /\ EntryOf(c).auth \in spent
    /\ \A d \in Calls : Holding(d) /\ EntryOf(d).auth = EntryOf(c).auth => d = c

\* An execution has one entry under way, everything before it is over and
\* recorded as it ended, and nothing after it has begun.
Sequential ==
  \A e \in Executions :
    /\ phase[e] = "running" =>
         /\ \A i \in DOMAIN outcomes[e] : /\ standing[<<e, i>>] \in Terminal
                                          /\ outcomes[e][i] = KindOf(standing[<<e, i>>])
         /\ \A i \in DOMAIN plan[e] :
              i > Position(e) \/ (i = Position(e) /\ Stopped(e)) => standing[<<e, i>>] = "idle"
    /\ phase[e] = "done" =>
         \A i \in DOMAIN plan[e] : standing[<<e, i>>] \in Terminal \cup {"idle"}

\* The status of a plan that is over.
TellsOf(e) ==
  /\ status[e] = "ALL_APPLIED" => \A i \in DOMAIN plan[e] : <<e, i>> \in published
  /\ status[e] = "PARTIALLY_COMMITTED" => \E i \in DOMAIN plan[e] : <<e, i>> \in published
  /\ status[e] \in {"REFUSED_AT_PREFLIGHT", "STOPPED_BEFORE_ANY_COMMIT"} =>
       \A i \in DOMAIN plan[e] : <<e, i>> \notin published
  /\ status[e] = "REFUSED_AT_PREFLIGHT" =>
       \A i \in DOMAIN plan[e] : standing[<<e, i>>] = "idle"

Told == \A e \in Executions : TellsOf(e)

PlanInv == PlanTypeOK /\ Belongs /\ Screened /\ Marked /\ Exclusive /\ Sequential /\ Told

-----------------------------------------------------------------------------
\* The entries of a plan have a change and an authorization, and its calls are
\* calls.
LEMMA EntryFacts ==
  ASSUME PlanTypeOK, Screened, NEW e \in Executions
  PROVE  /\ plan[e] \in Seq([change : Changes, auth : Auths])
         /\ DOMAIN plan[e] = 1 .. Len(plan[e])
         /\ Len(plan[e]) \in Nat
         /\ \A i \in DOMAIN plan[e] : /\ i \in Nat /\ i >= 1
                                      /\ plan[e][i].change \in Changes
                                      /\ plan[e][i].auth \in Auths
                                      /\ <<e, i>> \in Calls
  <1>1. plan[e] \in Offered \cup {<<>>}
    BY DEF PlanTypeOK
  <1>2. plan[e] \in Seq([change : Changes, auth : Auths])
    <2>1. <<>> \in Seq([change : Changes, auth : Auths])
      OBVIOUS
    <2>2. Offered \subseteq Seq([change : Changes, auth : Auths])
      BY PlanAssumption DEF PlanAssumption
    <2> QED BY <1>1, <2>1, <2>2
  <1>3. DOMAIN plan[e] = 1 .. Len(plan[e]) /\ Len(plan[e]) \in Nat
    BY <1>2
  <1>4. Len(plan[e]) <= MaxFiles
    BY DEF Screened
  <1>5. ASSUME NEW i \in DOMAIN plan[e]
        PROVE  /\ i \in Nat /\ i >= 1
               /\ plan[e][i].change \in Changes /\ plan[e][i].auth \in Auths
               /\ <<e, i>> \in Calls
    <2>1. plan[e][i] \in [change : Changes, auth : Auths]
      BY <1>2, <1>3, ElementOfSeq, Zenon
    <2>2. i \in 1 .. MaxFiles
      BY <1>3, <1>4, PlanAssumption DEF PlanAssumption
    <2>3. <<e, i>> \in Executions \X (1 .. MaxFiles)
      BY <2>2
    <2> QED BY <2>1, <2>2, <2>3, PlanAssumption DEF PlanAssumption
  <1> QED BY <1>2, <1>3, <1>5

\* Nothing has happened when the program starts.
LEMMA InitInv == PlanInit => PlanInv
  <1> SUFFICES ASSUME PlanInit PROVE PlanInv
    OBVIOUS
  <1> USE DEF PlanInit, Init
  <1>1. PlanTypeOK
    <2>1. MaxOutside \in Nat
      BY PlanAssumption DEF PlanAssumption
    <2>2. checks \in [Executions -> Seq(BOOLEAN)] /\ outcomes \in [Executions -> Seq(Kinds)]
      OBVIOUS
    <2> QED BY <2>1, <2>2 DEF PlanTypeOK, Contents
  <1>2. Belongs /\ Marked /\ Exclusive
    BY DEF Belongs, Marked, Exclusive, Holding, Committing, Live
  <1>3. Screened
    BY PlanAssumption DEF Screened, PlanAssumption
  <1>4. Sequential /\ Told
    BY PlanAssumption DEF Sequential, Told, TellsOf, PlanAssumption, Statuses
  <1> QED BY <1>1, <1>2, <1>3, <1>4 DEF PlanInv

\* A plan that is admitted is read, and nothing else changes.
LEMMA ExecuteKeeps ==
  ASSUME PlanInv, NEW e \in Executions, NEW entries \in Offered, Execute(e, entries)
  PROVE  PlanInv'
  <1> USE DEF Execute, vars
  <1>1. PlanTypeOK'
    BY DEF PlanInv, PlanTypeOK
  <1>2. plan' = [plan EXCEPT ![e] = entries] /\ phase' = [phase EXCEPT ![e] = "preflight"]
    OBVIOUS
  <1>3. plan \in [Executions -> Offered \cup {<<>>}] /\ DOMAIN phase = Executions
    BY DEF PlanInv, PlanTypeOK
  <1>4. \A c \in Calls : standing[c] # "idle" => c[1] \in Executions /\ c[1] # e
    BY DEF PlanInv, Belongs
  <1>5. \A c \in Calls : Holding(c) => standing[c] # "idle"
    BY DEF PlanInv, Marked, Holding, Live, Committing
  <1>6. \A c \in Calls : standing[c] # "idle" => EntryOf(c)' = EntryOf(c) /\ plan'[c[1]] = plan[c[1]]
    BY <1>2, <1>3, <1>4 DEF EntryOf
  <1>7. Belongs'
    BY <1>2, <1>3, <1>4, <1>6 DEF PlanInv, Belongs, Clear, Colliding, TargetOf
  <1>8. Screened'
    <2>1. Len(entries) <= MaxFiles /\ Len(entries) \in Nat
      <3>1. Len(entries) \in MinFiles .. MaxFiles
        BY DEF Admissible
      <3> QED BY <3>1, PlanAssumption DEF PlanAssumption
    <2>2. checks[e] = <<>> /\ outcomes[e] = <<>> /\ status[e] = None
      BY DEF PlanInv, Screened
    <2> QED BY <1>2, <1>3, <2>1, <2>2 DEF PlanInv, Screened, Clear, Colliding, TargetOf
  <1>9. Marked' /\ Exclusive'
    <2>1. Marked'
      BY DEF PlanInv, Marked
    <2>2. \A c \in Calls : Holding(c)' = Holding(c)
      BY DEF Holding
    <2>3. Exclusive'
      BY <1>5, <1>6, <2>2 DEF PlanInv, Exclusive
    <2> QED BY <2>1, <2>3
  <1>10. Sequential'
    BY <1>2, <1>3 DEF PlanInv, Sequential, Stopped, Position
  <1>11. Told'
    <2>1. status[e] = None
      BY DEF PlanInv, Screened
    <2> QED BY <1>2, <1>3, <2>1, PlanAssumption DEF PlanInv, Told, TellsOf, PlanAssumption, Statuses
  <1> QED BY <1>1, <1>7, <1>8, <1>9, <1>10, <1>11 DEF PlanInv

\* A look at an entry changes what the preflight knows, and it passes only an
\* entry that collides with no other.
LEMMA InspectKeeps ==
  ASSUME PlanInv, NEW e \in Executions, Inspect(e)
  PROVE  PlanInv'
  <1> USE DEF Inspect, vars
  <1>1. PICK ready \in BOOLEAN :
          /\ ready => ~Colliding(plan[e], Len(checks[e]) + 1)
          /\ checks' = [checks EXCEPT ![e] = Append(@, ready)]
    OBVIOUS
  <1>2. checks[e] \in Seq(BOOLEAN) /\ checks \in [Executions -> Seq(BOOLEAN)]
    BY DEF PlanInv, PlanTypeOK
  <1>3. PlanTypeOK'
    BY <1>1, <1>2 DEF PlanInv, PlanTypeOK
  <1>4. Belongs' /\ Marked' /\ Exclusive' /\ Sequential' /\ Told'
    BY DEF PlanInv, Belongs, Marked, Exclusive, Sequential, Told, TellsOf, EntryOf, Clear, Colliding,
           TargetOf, Holding, Stopped, Position
  <1>5. Screened'
    <2>1. Len(checks'[e]) = Len(checks[e]) + 1
      BY <1>1, <1>2
    <2>2. \A i \in DOMAIN checks'[e] : checks'[e][i] => ~Colliding(plan[e], i)
      BY <1>1, <1>2 DEF PlanInv, Screened
    <2>3. \A f \in Executions : f # e => checks'[f] = checks[f]
      BY <1>1, <1>2
    <2>4. Len(checks'[e]) <= Len(plan[e])
      BY <2>1
    <2> QED BY <2>2, <2>3, <2>4 DEF PlanInv, Screened, Clear, Colliding, TargetOf
  <1> QED BY <1>3, <1>4, <1>5 DEF PlanInv

\* A plan refused in its preflight has begun no call.
LEMMA RefusalKeeps ==
  ASSUME PlanInv, NEW e \in Executions, phase[e] = "preflight",
         NEW kinds \in Seq(Kinds), Return(e, kinds, "REFUSED_AT_PREFLIGHT"),
         UNCHANGED <<vars, spent, plan, checks, outside, published>>
  PROVE  PlanInv'
  <1> USE DEF Return, vars
  <1>1. PlanTypeOK'
    BY DEF PlanInv, PlanTypeOK, Statuses
  <1>2. \A i \in DOMAIN plan[e] : <<e, i>> \in Calls
    BY EntryFacts DEF PlanInv
  <1>3. \A i \in DOMAIN plan[e] : standing[<<e, i>>] = "idle"
    BY <1>2 DEF PlanInv, Belongs
  <1>4. \A i \in DOMAIN plan[e] : <<e, i>> \notin published
    BY <1>2, <1>3 DEF PlanInv, Marked, Committing
  <1>5. /\ \A f \in Executions : f # e => /\ phase'[f] = phase[f] /\ status'[f] = status[f]
                                          /\ outcomes'[f] = outcomes[f]
        /\ phase'[e] = "done" /\ status'[e] = "REFUSED_AT_PREFLIGHT"
    BY DEF PlanInv, PlanTypeOK
  <1>6. Belongs' /\ Marked' /\ Exclusive'
    <2>1. Belongs'
      BY <1>5 DEF PlanInv, Belongs, EntryOf, Clear, Colliding, TargetOf
    <2>2. Marked' /\ Exclusive'
      BY DEF PlanInv, Marked, Exclusive, EntryOf, Holding
    <2> QED BY <2>1, <2>2
  <1>7. Screened'
    BY <1>5 DEF PlanInv, Screened, Clear, Colliding, TargetOf
  <1>8. Sequential'
    BY <1>3, <1>5 DEF PlanInv, Sequential, Stopped, Position
  <1>9. Told'
    <2>1. plan' = plan /\ standing' = standing /\ published' = published
      OBVIOUS
    <2> SUFFICES ASSUME NEW f \in Executions
                 PROVE  TellsOf(f)'
      BY DEF Told
    <2>2. CASE f = e
      BY <1>3, <1>4, <1>5, <2>1, <2>2 DEF TellsOf
    <2>3. CASE f # e
      <3>1. TellsOf(f) /\ status'[f] = status[f]
        BY <1>5, <2>3 DEF PlanInv, Told
      <3> QED BY <2>1, <3>1 DEF TellsOf
    <2> QED BY <2>2, <2>3
  <1> QED BY <1>1, <1>6, <1>7, <1>8, <1>9 DEF PlanInv

\* The end of the preflight: the plan runs if every entry passed.
LEMMA DecideKeeps ==
  ASSUME PlanInv, NEW e \in Executions, Decide(e)
  PROVE  PlanInv'
  <1>1. CASE AllReady(e)
    <2> USE DEF Decide, vars
    <2>1. PlanTypeOK'
      BY <1>1 DEF PlanInv, PlanTypeOK
    <2>2. /\ \A f \in Executions : f # e => phase'[f] = phase[f]
          /\ phase'[e] = "running" /\ UNCHANGED <<outcomes, status>>
      BY <1>1 DEF PlanInv, PlanTypeOK
    <2>3. /\ \A i \in DOMAIN plan[e] : <<e, i>> \in Calls
          /\ DOMAIN plan[e] = 1 .. Len(plan[e]) /\ Len(plan[e]) \in Nat
      BY EntryFacts DEF PlanInv
    <2>4. \A i \in DOMAIN plan[e] : standing[<<e, i>>] = "idle"
      BY <2>3 DEF PlanInv, Belongs
    <2>5. Clear(plan[e])
      <3>1. checks[e] \in Seq(BOOLEAN) /\ Len(checks[e]) = Len(plan[e])
        BY DEF PlanInv, PlanTypeOK
      <3>2. \A i \in DOMAIN plan[e] : i \in DOMAIN checks[e] /\ checks[e][i]
        BY <1>1, <2>3, <3>1 DEF AllReady
      <3> QED BY <3>2 DEF PlanInv, Screened, Clear
    <2>6. outcomes[e] = <<>> /\ status[e] = None
      BY DEF PlanInv, Screened
    <2>7. Belongs' /\ Marked' /\ Exclusive' /\ Told'
      BY <2>2 DEF PlanInv, Belongs, Marked, Exclusive, Told, TellsOf, EntryOf, Clear, Colliding, TargetOf,
                  Holding
    <2>8. Screened'
      BY <2>2, <2>3, <2>5, <2>6 DEF PlanInv, Screened, Clear, Colliding, TargetOf
    <2>9. Sequential'
      BY <2>2, <2>4, <2>6 DEF PlanInv, Sequential, Stopped, Position
    <2> QED BY <2>1, <2>7, <2>8, <2>9 DEF PlanInv
  <1>2. CASE ~AllReady(e)
    <2> DEFINE kinds == [i \in DOMAIN plan[e] |-> IF checks[e][i]
                                                 THEN "PREFLIGHT_READY_BUT_PLAN_REFUSED"
                                                 ELSE "PREFLIGHT_FAILED"]
    <2>1. kinds \in Seq(Kinds)
      BY EntryFacts DEF PlanInv, Kinds
    <2>2. Return(e, kinds, "REFUSED_AT_PREFLIGHT") /\ phase[e] = "preflight"
      BY <1>2 DEF Decide
    <2> QED BY <2>1, <2>2, RefusalKeeps DEF Decide
  <1> QED BY <1>1, <1>2

\* Nor has a plan whose configuration could not be read.
LEMMA UnreadKeeps ==
  ASSUME PlanInv, NEW e \in Executions, RefuseUnread(e)
  PROVE  PlanInv'
  <1> DEFINE kinds == [i \in DOMAIN plan[e] |-> "PREFLIGHT_FAILED"]
  <1>1. kinds \in Seq(Kinds)
    BY EntryFacts DEF PlanInv, Kinds
  <1>2. Return(e, kinds, "REFUSED_AT_PREFLIGHT") /\ phase[e] = "preflight"
    BY DEF RefuseUnread
  <1> QED BY <1>1, <1>2, RefusalKeeps DEF RefuseUnread

\* The next entry's call begins, with an authorization nobody holds, or is
\* turned away.
LEMMA AttemptKeeps ==
  ASSUME PlanInv, NEW e \in Executions, Attempt(e)
  PROVE  PlanInv'
  <1>0. PICK n : n = Position(e)
    OBVIOUS
  <1> DEFINE c0 == <<e, n>>
             entry == plan[e][n]
  <1>1. /\ n \in DOMAIN plan[e] /\ n \in Nat
        /\ c0 \in Calls /\ entry.change \in Changes /\ entry.auth \in Auths
    <2>1. outcomes[e] \in Seq(Kinds)
      BY DEF PlanInv, PlanTypeOK
    <2>2. n \in Nat /\ n >= 1 /\ n <= Len(plan[e])
      BY <1>0, <2>1 DEF Position, Attempt
    <2>3. n \in DOMAIN plan[e]
      BY <2>2, EntryFacts DEF PlanInv
    <2> QED BY <2>2, <2>3, EntryFacts DEF PlanInv
  <1>2. /\ phase[e] = "running" /\ ~Stopped(e)
        /\ UNCHANGED <<phase, plan, checks, outcomes, status, outside, published, file, saved>>
        /\ standing[c0] = "idle"
        /\ goal' = [goal EXCEPT ![c0] = entry.change]
    BY <1>0 DEF Attempt, CallOf, Begin
  <1>3. PICK s \in {"working", "REFUSED_PRECOMMIT"} : standing' = [standing EXCEPT ![c0] = s]
    BY <1>0 DEF Attempt, CallOf, Begin, Becomes
  <1>4. standing \in [Calls -> Terminal \cup {"idle", "working", "published", "settled", "dead"}]
        /\ goal \in [Calls -> Changes \cup {None}]
    BY DEF PlanInv, PlanTypeOK
  <1>5. IF Usable(entry) THEN spent' = spent \cup {entry.auth} /\ s = "working"
                         ELSE spent' = spent /\ s = "REFUSED_PRECOMMIT"
    BY <1>0, <1>1, <1>3, <1>4 DEF Attempt, CallOf
  <1>6. /\ standing'[c0] = s /\ goal'[c0] = entry.change
        /\ \A c \in Calls : c # c0 => standing'[c] = standing[c] /\ goal'[c] = goal[c]
    BY <1>1, <1>2, <1>3, <1>4
  <1>7. c0 \notin published /\ c0[1] = e /\ c0[2] = n /\ EntryOf(c0) = entry
    BY <1>1, <1>2 DEF PlanInv, Marked, EntryOf, Committing
  <1> HIDE DEF c0, entry
  <1>8. PlanTypeOK'
    <2>1. standing' \in [Calls -> Terminal \cup {"idle", "working", "published", "settled", "dead"}]
      BY <1>1, <1>3, <1>4 DEF Terminal
    <2>2. goal' \in [Calls -> Changes \cup {None}]
      BY <1>1, <1>2, <1>4
    <2>3. spent' \subseteq Auths
      BY <1>1, <1>5 DEF PlanInv, PlanTypeOK
    <2> QED BY <1>2, <2>1, <2>2, <2>3 DEF PlanInv, PlanTypeOK
  <1>9. Belongs'
    <2>1. Clear(plan[e])
      BY <1>2 DEF PlanInv, Screened
    <2>2. c0 = <<c0[1], c0[2]>>
      BY <1>7 DEF c0
    <2> SUFFICES ASSUME NEW c \in Calls, standing'[c] # "idle"
                 PROVE  /\ c[1] \in Executions /\ c[2] \in DOMAIN plan[c[1]] /\ c = <<c[1], c[2]>>
                        /\ phase[c[1]] \in {"running", "done", "dead"}
                        /\ goal'[c] = EntryOf(c).change
                        /\ Clear(plan[c[1]])
      BY <1>2 DEF Belongs, EntryOf, Clear, Colliding, TargetOf
    <2>3. CASE c = c0
      BY <1>1, <1>2, <1>6, <1>7, <2>1, <2>2, <2>3
    <2>4. CASE c # c0
      BY <1>6, <2>4 DEF PlanInv, Belongs
    <2> QED BY <2>3, <2>4
  <1>10. Screened'
    BY <1>2 DEF PlanInv, Screened, Clear, Colliding, TargetOf
  <1>11. Marked'
    <2> SUFFICES ASSUME NEW c \in Calls
                 PROVE  /\ standing'[c] \in Committing => c \in published
                        /\ c \in published => standing'[c] \in Committing \cup {"dead"}
      BY <1>2 DEF Marked
    <2>1. CASE c = c0
      BY <1>6, <1>7, <2>1 DEF Committing
    <2>2. CASE c # c0
      BY <1>6, <2>2 DEF PlanInv, Marked
    <2> QED BY <2>1, <2>2
  <1>12. Exclusive'
    <2>1. \A c \in Calls : c # c0 => Holding(c)' = Holding(c)
      BY <1>2, <1>6 DEF Holding
    <2>2. \A c : EntryOf(c)' = EntryOf(c)
      BY <1>2 DEF EntryOf
    <2>3. CASE Usable(entry)
      <3>1. entry.auth \notin spent /\ spent' = spent \cup {entry.auth}
        BY <1>5, <2>3 DEF Usable
      <3>2. \A c \in Calls : c # c0 /\ Holding(c)' => EntryOf(c).auth \in spent
        BY <2>1 DEF PlanInv, Exclusive
      <3>3. \A c, d \in Calls :
              c # c0 /\ d # c0 /\ Holding(c)' /\ Holding(d)' /\ EntryOf(c).auth = EntryOf(d).auth
                => c = d
        BY <2>1 DEF PlanInv, Exclusive
      <3> QED BY <1>7, <2>2, <3>1, <3>2, <3>3 DEF Exclusive
    <2>4. CASE ~Usable(entry)
      <3>1. ~Holding(c0)' /\ spent' = spent
        BY <1>2, <1>5, <1>6, <1>7, <2>4 DEF Holding, Live
      <3> QED BY <2>1, <2>2, <3>1 DEF PlanInv, Exclusive
    <2> QED BY <2>3, <2>4
  <1>13. Sequential'
    <2>1. \A f : Position(f)' = Position(f) /\ Stopped(f)' = Stopped(f)
      BY <1>2 DEF Position, Stopped
    <2>2. \A f \in Executions : \A i \in DOMAIN plan[f] : <<f, i>> \in Calls
      BY EntryFacts DEF PlanInv
    <2>3. \A f, i : <<f, i>> = c0 <=> f = e /\ i = n
      BY DEF c0
    <2>4. \A f \in Executions : \A i \in DOMAIN plan[f] :
            (f # e \/ i # n) => standing'[<<f, i>>] = standing[<<f, i>>]
      BY <1>6, <2>2, <2>3
    <2>5. \A f \in Executions : phase[f] = "running" =>
            \A i \in DOMAIN outcomes[f] : i \in DOMAIN plan[f] /\ i < Position(f)
      <3> SUFFICES ASSUME NEW f \in Executions, phase[f] = "running", NEW i \in DOMAIN outcomes[f]
                   PROVE  i \in DOMAIN plan[f] /\ i < Position(f)
        OBVIOUS
      <3>1. outcomes[f] \in Seq(Kinds) /\ Len(outcomes[f]) <= Len(plan[f])
        BY DEF PlanInv, PlanTypeOK, Screened
      <3> QED BY <3>1, EntryFacts DEF PlanInv, Position
    <2>6. ASSUME NEW f \in Executions, phase[f] = "running"
          PROVE  /\ \A i \in DOMAIN outcomes[f] : /\ standing'[<<f, i>>] \in Terminal
                                                   /\ outcomes[f][i] = KindOf(standing'[<<f, i>>])
                 /\ \A i \in DOMAIN plan[f] :
                      i > Position(f) \/ (i = Position(f) /\ Stopped(f)) => standing'[<<f, i>>] = "idle"
      <3>1. ASSUME NEW i \in DOMAIN outcomes[f]
            PROVE  standing'[<<f, i>>] \in Terminal /\ outcomes[f][i] = KindOf(standing'[<<f, i>>])
        <4>1. f # e \/ i # n
          BY <1>0, <1>1, <2>5, <2>6, <3>1
        <4> QED BY <4>1, <2>4, <2>5, <2>6 DEF PlanInv, Sequential
      <3>0. \A i \in DOMAIN plan[f] : i \in Nat
        BY EntryFacts DEF PlanInv
      <3>2. ASSUME NEW i \in DOMAIN plan[f], i > Position(f) \/ (i = Position(f) /\ Stopped(f))
            PROVE  standing'[<<f, i>>] = "idle"
        <4>1. f # e \/ i # n
          BY <1>0, <1>1, <1>2, <3>0, <3>2
        <4> QED BY <4>1, <2>4, <2>6, <3>2 DEF PlanInv, Sequential
      <3> QED BY <3>1, <3>2
    <2>7. \A f \in Executions : phase[f] = "done" =>
            \A i \in DOMAIN plan[f] : standing'[<<f, i>>] \in Terminal \cup {"idle"}
      BY <1>2, <2>4 DEF PlanInv, Sequential
    <2> QED BY <1>2, <2>1, <2>6, <2>7 DEF Sequential
  <1>14. Told'
    <2> SUFFICES ASSUME NEW f \in Executions
                 PROVE  TellsOf(f)'
      BY DEF Told
    <2>1. CASE f = e
      BY <1>2, <2>1, PlanAssumption DEF PlanInv, Screened, TellsOf, PlanAssumption, Statuses
    <2>2. CASE f # e
      <3>1. \A i \in DOMAIN plan[f] : standing'[<<f, i>>] = standing[<<f, i>>]
        BY <1>6, <2>2, EntryFacts DEF PlanInv, c0
      <3>2. TellsOf(f)
        BY DEF PlanInv, Told
      <3> QED BY <1>2, <3>1, <3>2 DEF TellsOf
    <2> QED BY <2>1, <2>2
  <1> QED BY <1>8, <1>9, <1>10, <1>11, <1>12, <1>13, <1>14 DEF PlanInv

\* The entry that ended is recorded as it ended.
LEMMA CollectKeeps ==
  ASSUME PlanInv, NEW e \in Executions, Collect(e)
  PROVE  PlanInv'
  <1> USE DEF vars
  <1>0. PICK n : n = Position(e)
    OBVIOUS
  <1> DEFINE kind == KindOf(standing[<<e, n>>])
  <1>1. /\ phase[e] = "running" /\ ~Stopped(e) /\ n <= Len(plan[e])
        /\ standing[<<e, n>>] \in Terminal
        /\ outcomes' = [outcomes EXCEPT ![e] = Append(@, kind)]
        /\ UNCHANGED <<file, saved, goal, standing, spent, phase, plan, checks, status, outside, published>>
    BY <1>0 DEF Collect, CallOf
  <1>2. outcomes \in [Executions -> Seq(Kinds)] /\ outcomes[e] \in Seq(Kinds)
    BY DEF PlanInv, PlanTypeOK
  <1>3. kind \in Kinds
    BY <1>1 DEF KindOf, Kinds, Terminal
  <1> HIDE DEF kind
  <1>4. /\ outcomes'[e] = Append(outcomes[e], kind)
        /\ \A f \in Executions : f # e => outcomes'[f] = outcomes[f]
    BY <1>1, <1>2
  <1>5. n \in Nat /\ n = Len(outcomes[e]) + 1 /\ Len(outcomes'[e]) = n
    BY <1>0, <1>2, <1>4 DEF Position
  <1>6. PlanTypeOK'
    BY <1>1, <1>2, <1>3 DEF PlanInv, PlanTypeOK
  <1>7. Belongs' /\ Marked' /\ Exclusive' /\ Told'
    BY <1>1 DEF PlanInv, Belongs, Marked, Exclusive, Told, TellsOf, EntryOf, Clear, Colliding,
                TargetOf, Holding
  <1>8. Screened'
    BY <1>1, <1>4, <1>5 DEF PlanInv, Screened, Clear, Colliding, TargetOf
  <1>9. Sequential'
    <2>1. ASSUME NEW f \in Executions, f # e
          PROVE  Position(f)' = Position(f) /\ Stopped(f)' = Stopped(f)
      BY <1>4, <2>1 DEF Position, Stopped
    <2>2. \A i \in DOMAIN outcomes'[e] : /\ standing[<<e, i>>] \in Terminal
                                        /\ outcomes'[e][i] = KindOf(standing[<<e, i>>])
      <3> SUFFICES ASSUME NEW i \in DOMAIN outcomes'[e]
                   PROVE  standing[<<e, i>>] \in Terminal /\ outcomes'[e][i] = KindOf(standing[<<e, i>>])
        OBVIOUS
      <3>1. CASE i = n
        BY <1>1, <1>2, <1>4, <1>5, <3>1 DEF kind
      <3>2. CASE i # n
        <4>1. i \in DOMAIN outcomes[e] /\ outcomes'[e][i] = outcomes[e][i]
          BY <1>2, <1>3, <1>4, <1>5, <3>2
        <4> QED BY <1>1, <4>1 DEF PlanInv, Sequential
      <3> QED BY <3>1, <3>2
    <2>3. \A i \in DOMAIN plan[e] : i >= Position(e)' => standing[<<e, i>>] = "idle"
      <3>1. Position(e)' = n + 1
        BY <1>5 DEF Position
      <3>2. \A i \in DOMAIN plan[e] : i \in Nat
        BY EntryFacts DEF PlanInv
      <3>3. \A i \in DOMAIN plan[e] : i > n => standing[<<e, i>>] = "idle"
        BY <1>0, <1>1 DEF PlanInv, Sequential
      <3>4. \A i \in DOMAIN plan[e] : i >= n + 1 => i > n
        BY <1>5, <3>2
      <3> QED BY <3>1, <3>3, <3>4
    <2>4. \A i \in DOMAIN plan[e] :
            i > Position(e)' \/ (i = Position(e)' /\ Stopped(e)') => standing[<<e, i>>] = "idle"
      <3>1. \A i \in DOMAIN plan[e] : i \in Nat
        BY EntryFacts DEF PlanInv
      <3>2. Position(e)' \in Nat
        BY <1>5 DEF Position
      <3> QED BY <2>3, <3>1, <3>2
    <2> QED BY <1>1, <1>4, <2>1, <2>2, <2>4 DEF PlanInv, Sequential
  <1> QED BY <1>6, <1>7, <1>8, <1>9 DEF PlanInv

\* The status that is returned is that of the entries as they ended.
LEMMA FinishKeeps ==
  ASSUME PlanInv, NEW e \in Executions, Finish(e)
  PROVE  PlanInv'
  <1> USE DEF vars
  <1>0. PICK n : n = Position(e)
    OBVIOUS
  <1> DEFINE kinds == [i \in DOMAIN plan[e] |-> IF i < n THEN outcomes[e][i] ELSE "NOT_ATTEMPTED"]
  <1>1. /\ phase[e] = "running"
        /\ Stopped(e) \/ n > Len(plan[e])
        /\ outcomes' = [outcomes EXCEPT ![e] = kinds]
        /\ status' = [status EXCEPT ![e] = PlanStatus(kinds)]
        /\ phase' = [phase EXCEPT ![e] = "done"]
        /\ UNCHANGED <<file, saved, goal, standing, spent, plan, checks, outside, published>>
    BY <1>0 DEF Finish, Return
  <1>2. outcomes[e] \in Seq(Kinds) /\ n = Len(outcomes[e]) + 1 /\ n \in Nat
    BY <1>0 DEF PlanInv, PlanTypeOK, Position
  <1>3. /\ \A i \in DOMAIN plan[e] : i \in Nat /\ i >= 1 /\ <<e, i>> \in Calls
        /\ DOMAIN plan[e] = 1 .. Len(plan[e]) /\ Len(plan[e]) \in Nat
    BY EntryFacts DEF PlanInv
  <1>4. kinds \in Seq(Kinds)
    <2>1. \A i \in 1 .. Len(plan[e]) : kinds[i] \in Kinds
      <3> SUFFICES ASSUME NEW i \in 1 .. Len(plan[e])
                   PROVE  kinds[i] \in Kinds
        OBVIOUS
      <3>1. CASE i < n
        <4>1. i \in 1 .. Len(outcomes[e])
          BY <1>2, <1>3, <3>1
        <4> QED BY <1>2, <1>3, <3>1, <4>1
      <3>2. CASE ~(i < n)
        BY <1>3, <3>2 DEF Kinds
      <3> QED BY <3>1, <3>2
    <2>2. kinds \in [1 .. Len(plan[e]) -> Kinds]
      BY <1>3, <2>1
    <2> HIDE DEF kinds
    <2> QED BY <1>3, <2>2
  <1>5. \A i \in DOMAIN plan[e] :
          \/ i < n /\ standing[<<e, i>>] \in Terminal /\ kinds[i] = KindOf(standing[<<e, i>>])
          \/ standing[<<e, i>>] = "idle" /\ kinds[i] = "NOT_ATTEMPTED"
    <2> SUFFICES ASSUME NEW i \in DOMAIN plan[e]
                 PROVE  \/ i < n /\ standing[<<e, i>>] \in Terminal /\ kinds[i] = KindOf(standing[<<e, i>>])
                        \/ standing[<<e, i>>] = "idle" /\ kinds[i] = "NOT_ATTEMPTED"
      OBVIOUS
    <2>1. CASE i < n
      <3>1. i \in DOMAIN outcomes[e]
        BY <1>2, <1>3, <2>1
      <3> QED BY <1>1, <2>1, <3>1 DEF PlanInv, Sequential
    <2>2. CASE ~(i < n)
      <3>1. i > n \/ (i = n /\ Stopped(e))
        BY <1>1, <1>2, <1>3, <2>2
      <3> QED BY <1>0, <1>1, <2>2, <3>1 DEF PlanInv, Sequential
    <2> QED BY <2>1, <2>2
  <1>6. \A i \in DOMAIN plan[e] : Committed(kinds[i]) <=> <<e, i>> \in published
    <2> SUFFICES ASSUME NEW i \in DOMAIN plan[e]
                 PROVE  Committed(kinds[i]) <=> <<e, i>> \in published
      OBVIOUS
    <2>1. <<e, i>> \in published <=> standing[<<e, i>>] \in {"SUCCESS", "COMMITTED_FAILURE"}
      BY <1>3, <1>5 DEF PlanInv, Marked, Committing, Terminal
    <2> QED BY <1>5, <2>1 DEF Committed, KindOf, Terminal
  <1>7. DOMAIN kinds = DOMAIN plan[e] /\ PlanStatus(kinds) \in Statuses
    BY DEF PlanStatus, Statuses
  <1> HIDE DEF kinds
  <1>8. /\ phase'[e] = "done" /\ status'[e] = PlanStatus(kinds)
        /\ \A f \in Executions : f # e => /\ phase'[f] = phase[f] /\ status'[f] = status[f]
                                          /\ outcomes'[f] = outcomes[f]
    BY <1>1 DEF PlanInv, PlanTypeOK
  <1>9. PlanTypeOK'
    BY <1>1, <1>4, <1>7 DEF PlanInv, PlanTypeOK
  <1>10. Belongs'
    BY <1>1, <1>8 DEF PlanInv, Belongs, EntryOf, Clear, Colliding, TargetOf
  <1>11. Screened'
    BY <1>1, <1>8 DEF PlanInv, Screened, Clear, Colliding, TargetOf
  <1>12. Marked' /\ Exclusive'
    BY <1>1 DEF PlanInv, Marked, Exclusive, EntryOf, Holding
  <1>13. Sequential'
    <2>1. \A i \in DOMAIN plan[e] : standing[<<e, i>>] \in Terminal \cup {"idle"}
      BY <1>5
    <2> QED BY <1>1, <1>8, <2>1 DEF PlanInv, Sequential, Stopped, Position
  <1>14. Told'
    <2> SUFFICES ASSUME NEW f \in Executions
                 PROVE  TellsOf(f)'
      BY DEF Told
    <2>1. CASE f = e
      <3>1. PlanStatus(kinds) = "ALL_APPLIED" => \A i \in DOMAIN plan[e] : <<e, i>> \in published
        BY <1>6, <1>7 DEF PlanStatus, Committed
      <3>2. PlanStatus(kinds) = "PARTIALLY_COMMITTED" => \E i \in DOMAIN plan[e] : <<e, i>> \in published
        BY <1>6, <1>7 DEF PlanStatus
      <3>3. PlanStatus(kinds) = "STOPPED_BEFORE_ANY_COMMIT" =>
              \A i \in DOMAIN plan[e] : <<e, i>> \notin published
        BY <1>6, <1>7 DEF PlanStatus
      <3>4. PlanStatus(kinds) # "REFUSED_AT_PREFLIGHT"
        BY DEF PlanStatus
      <3> QED BY <1>1, <1>8, <2>1, <3>1, <3>2, <3>3, <3>4 DEF TellsOf
    <2>2. CASE f # e
      <3>1. TellsOf(f) /\ status'[f] = status[f]
        BY <1>8, <2>2 DEF PlanInv, Told
      <3> QED BY <1>1, <3>1 DEF TellsOf
    <2> QED BY <2>1, <2>2
  <1> QED BY <1>9, <1>10, <1>11, <1>12, <1>13, <1>14 DEF PlanInv

\* A call moves on; what it holds, and what it may still do, only shrinks.
LEMMA NestedKeeps ==
  ASSUME PlanInv, NEW c \in Calls, Nested(c)
  PROVE  PlanInv'
  <1> USE DEF vars, planVars
  <1>1. PICK s \in {"published", "settled"} \cup Terminal :
          /\ standing' = [standing EXCEPT ![c] = s]
          /\ published' = IF s = "published" THEN published \cup {c} ELSE published
          /\ standing[c] \in Live
          /\ s \in Committing => s = "published" \/ standing[c] \in {"published", "settled"}
          /\ s \notin Committing => standing[c] = "working"
    <2>1. CASE Publish(c) /\ published' = published \cup {c}
      BY <2>1 DEF Publish, Becomes, Live, Committing
    <2>2. CASE Settle(c) /\ UNCHANGED published
      BY <2>2 DEF Settle, Becomes, Live, Committing
    <2>3. CASE End(c) /\ UNCHANGED published
      BY <2>3 DEF End, Becomes, Live, Terminal, Committing
    <2> QED BY <2>1, <2>2, <2>3 DEF Nested
  <1>2. /\ c[1] \in Executions /\ c[2] \in DOMAIN plan[c[1]] /\ c = <<c[1], c[2]>>
        /\ phase[c[1]] \in {"running", "done", "dead"}
        /\ goal[c] = EntryOf(c).change
    BY <1>1 DEF PlanInv, Belongs, Live
  <1>3. goal[c] \in Changes
    BY <1>2, EntryFacts DEF PlanInv, EntryOf
  <1>4. UNCHANGED <<goal, planVars, outside>>
    BY DEF Nested, Publish, Settle, End
  <1>5. standing \in [Calls -> Terminal \cup {"idle", "working", "published", "settled", "dead"}]
    BY DEF PlanInv, PlanTypeOK
  <1>6. standing'[c] = s /\ \A d \in Calls : d # c => standing'[d] = standing[d]
    BY <1>1, <1>5
  <1>7. PlanTypeOK'
    <2>1. file' \in [Paths -> Contents] /\ saved' \in [Paths -> Contents]
      <3>1. After[goal[c]] \in Contents
        BY <1>3, PlanAssumption DEF PlanAssumption, Contents
      <3> QED BY <3>1 DEF PlanInv, PlanTypeOK, Nested, Publish, Settle, End
    <2>2. standing' \in [Calls -> Terminal \cup {"idle", "working", "published", "settled", "dead"}]
      BY <1>1, <1>5
    <2>3. published' \subseteq Calls
      BY <1>1 DEF PlanInv, PlanTypeOK
    <2> QED BY <1>4, <2>1, <2>2, <2>3 DEF PlanInv, PlanTypeOK
  <1>8. Belongs'
    BY <1>1, <1>4, <1>6 DEF PlanInv, Belongs, EntryOf, Clear, Colliding, TargetOf, Live
  <1>9. Screened'
    BY <1>4 DEF PlanInv, Screened, Clear, Colliding, TargetOf
  <1>10. Marked'
    <2> SUFFICES ASSUME NEW d \in Calls
                 PROVE  /\ standing'[d] \in Committing => d \in published'
                        /\ d \in published' => standing'[d] \in Committing \cup {"dead"}
      BY DEF Marked
    <2>1. CASE d = c
      BY <1>1, <1>6, <2>1 DEF PlanInv, Marked, Committing
    <2>2. CASE d # c
      BY <1>1, <1>6, <2>2 DEF PlanInv, Marked
    <2> QED BY <2>1, <2>2
  <1>11. Exclusive'
    <2>1. \A d \in Calls : Holding(d)' => Holding(d)
      BY <1>1, <1>6 DEF Holding, Live
    <2>2. \A d : EntryOf(d)' = EntryOf(d)
      BY <1>4 DEF EntryOf
    <2> QED BY <1>4, <2>1, <2>2 DEF PlanInv, Exclusive
  <1>12. phase[c[1]] # "done"
    <2>1. standing[c] \notin Terminal \cup {"idle"}
      BY <1>1 DEF Live, Terminal
    <2> QED BY <1>2, <2>1 DEF PlanInv, Sequential
  <1>13. \A e \in Executions : \A i \in DOMAIN plan[e] :
           standing[<<e, i>>] \in Terminal \cup {"idle"} => standing'[<<e, i>>] = standing[<<e, i>>]
    <2>1. standing[c] \notin Terminal \cup {"idle"}
      BY <1>1 DEF Live, Terminal
    <2> QED BY <1>6, <2>1, EntryFacts DEF PlanInv
  <1>14. Sequential'
    <2>1. \A e : Position(e)' = Position(e) /\ Stopped(e)' = Stopped(e)
      BY <1>4 DEF Position, Stopped
    <2>2. \A e \in Executions : phase[e] = "running" =>
            \A i \in DOMAIN outcomes[e] : i \in DOMAIN plan[e]
      <3> SUFFICES ASSUME NEW e \in Executions, phase[e] = "running", NEW i \in DOMAIN outcomes[e]
                   PROVE  i \in DOMAIN plan[e]
        OBVIOUS
      <3>1. outcomes[e] \in Seq(Kinds) /\ Len(outcomes[e]) <= Len(plan[e])
        BY DEF PlanInv, PlanTypeOK, Screened
      <3> QED BY <3>1, EntryFacts DEF PlanInv
    <2>3. ASSUME NEW e \in Executions, phase[e] = "running"
          PROVE  /\ \A i \in DOMAIN outcomes[e] : /\ standing'[<<e, i>>] \in Terminal
                                                   /\ outcomes[e][i] = KindOf(standing'[<<e, i>>])
                 /\ \A i \in DOMAIN plan[e] :
                      i > Position(e) \/ (i = Position(e) /\ Stopped(e)) => standing'[<<e, i>>] = "idle"
      BY <1>13, <2>2, <2>3 DEF PlanInv, Sequential
    <2>4. \A e \in Executions : phase[e] = "done" =>
            \A i \in DOMAIN plan[e] : standing'[<<e, i>>] \in Terminal \cup {"idle"}
      BY <1>13 DEF PlanInv, Sequential
    <2> QED BY <1>4, <2>1, <2>3, <2>4 DEF Sequential
  <1>15. Told'
    <2> SUFFICES ASSUME NEW e \in Executions
                 PROVE  TellsOf(e)'
      BY DEF Told
    <2>1. CASE e = c[1]
      <3>1. status[e] = None
        BY <1>12, <2>1 DEF PlanInv, Screened
      <3> QED BY <1>4, <3>1, PlanAssumption DEF TellsOf, PlanAssumption, Statuses
    <2>2. CASE e # c[1]
      <3>1. \A i : <<e, i>> # c
        BY <2>2
      <3>2. \A i \in DOMAIN plan[e] : <<e, i>> \in published' <=> <<e, i>> \in published
        BY <1>1, <3>1
      <3>3. \A i \in DOMAIN plan[e] : standing'[<<e, i>>] = standing[<<e, i>>]
        BY <1>6, <3>1, EntryFacts DEF PlanInv
      <3>4. TellsOf(e)
        BY DEF PlanInv, Told
      <3> QED BY <1>4, <3>2, <3>3, <3>4 DEF TellsOf
    <2> QED BY <2>1, <2>2
  <1> QED BY <1>7, <1>8, <1>9, <1>10, <1>11, <1>14, <1>15 DEF PlanInv

\* Another program's change touches no call.
LEMMA OutsideKeeps ==
  ASSUME PlanInv, NEW p \in Paths, NEW b \in Contents, OutsideChange(p, b)
  PROVE  PlanInv'
  <1> USE DEF OutsideChange, Outside, planVars
  <1>1. PlanTypeOK'
    <2>1. outside' \in 0 .. MaxOutside
      BY PlanAssumption DEF PlanAssumption, PlanInv, PlanTypeOK
    <2> QED BY <2>1 DEF PlanInv, PlanTypeOK, Contents
  <1>2. UNCHANGED <<goal, standing, planVars, published>>
    OBVIOUS
  <1>3. Belongs' /\ Screened'
    BY <1>2 DEF PlanInv, Belongs, Screened, EntryOf, Clear, Colliding, TargetOf
  <1>4. Marked' /\ Exclusive'
    BY <1>2 DEF PlanInv, Marked, Exclusive, EntryOf, Holding
  <1>5. Sequential' /\ Told'
    BY <1>2 DEF PlanInv, Sequential, Told, TellsOf, Stopped, Position
  <1> QED BY <1>1, <1>3, <1>4, <1>5 DEF PlanInv

\* A crash ends what is under way and spends every authorization.
LEMMA DieKeeps ==
  ASSUME PlanInv, Die
  PROVE  PlanInv'
  <1> USE DEF Die
  <1>1. standing' = [c \in Calls |-> IF standing[c] \in Live THEN "dead" ELSE standing[c]]
    BY DEF Crash, Live
  <1>2. UNCHANGED <<goal, plan, checks, outcomes, status, outside, published>> /\ spent' = Auths
    BY DEF Crash
  <1>3. \A e \in Executions :
          phase'[e] = IF phase[e] \in {"preflight", "running"} THEN "dead" ELSE phase[e]
    OBVIOUS
  <1>4. PlanTypeOK'
    <2>1. file' \in [Paths -> Contents] /\ saved' \in [Paths -> Contents]
      BY DEF Crash, PlanInv, PlanTypeOK
    <2>2. standing' \in [Calls -> Terminal \cup {"idle", "working", "published", "settled", "dead"}]
      BY <1>1 DEF PlanInv, PlanTypeOK
    <2>3. phase' \in [Executions -> {"idle", "preflight", "running", "done", "dead"}]
      BY DEF PlanInv, PlanTypeOK
    <2> QED BY <1>2, <2>1, <2>2, <2>3 DEF PlanInv, PlanTypeOK
  <1>5. Belongs'
    <2>1. \A c \in Calls : standing'[c] # "idle" => standing[c] # "idle"
      BY <1>1 DEF Live
    <2> QED BY <1>2, <1>3, <2>1 DEF PlanInv, Belongs, EntryOf, Clear, Colliding, TargetOf
  <1>6. Screened'
    BY <1>2, <1>3 DEF PlanInv, Screened, Clear, Colliding, TargetOf
  <1>7. Marked'
    BY <1>1, <1>2 DEF PlanInv, Marked, Committing, Live
  <1>8. Exclusive'
    <2>1. \A c \in Calls : Holding(c)' => Holding(c) /\ standing[c] # "idle"
      BY <1>1, <1>2 DEF PlanInv, Marked, Holding, Committing, Live
    <2>2. \A c \in Calls : standing[c] # "idle" => EntryOf(c).auth \in Auths
      BY EntryFacts DEF PlanInv, Belongs, EntryOf
    <2>3. \A c : EntryOf(c)' = EntryOf(c)
      BY <1>2 DEF EntryOf
    <2> QED BY <1>2, <2>1, <2>2, <2>3 DEF PlanInv, Exclusive
  <1>9. Sequential'
    <2>1. \A e \in Executions : phase'[e] # "running" /\ (phase'[e] = "done" => phase[e] = "done")
      BY <1>3
    <2>2. \A e \in Executions : \A i \in DOMAIN plan[e] :
            standing[<<e, i>>] \in Terminal \cup {"idle"} => standing'[<<e, i>>] = standing[<<e, i>>]
      BY <1>1, EntryFacts DEF PlanInv, Live, Terminal
    <2> QED BY <1>2, <2>1, <2>2 DEF PlanInv, Sequential
  <1>10. Told'
    <2>1. \A e \in Executions : \A i \in DOMAIN plan[e] :
            standing[<<e, i>>] = "idle" => standing'[<<e, i>>] = "idle"
      BY <1>1, EntryFacts DEF PlanInv, Live
    <2> QED BY <1>2, <2>1 DEF PlanInv, Told, TellsOf
  <1> QED BY <1>4, <1>5, <1>6, <1>7, <1>8, <1>9, <1>10 DEF PlanInv

-----------------------------------------------------------------------------
\* Every step of every execution, call and program keeps the invariant.
LEMMA NextInv == PlanInv /\ [PlanNext]_allVars => PlanInv'
  <1> SUFFICES ASSUME PlanInv, [PlanNext]_allVars PROVE PlanInv'
    OBVIOUS
  <1>1. ASSUME NEW e \in Executions, NEW entries \in Offered, Execute(e, entries) PROVE PlanInv'
    BY <1>1, ExecuteKeeps
  <1>2. ASSUME NEW e \in Executions, Inspect(e) PROVE PlanInv'
    BY <1>2, InspectKeeps
  <1>3. ASSUME NEW e \in Executions, RefuseUnread(e) PROVE PlanInv'
    BY <1>3, UnreadKeeps
  <1>4. ASSUME NEW e \in Executions, Decide(e) PROVE PlanInv'
    BY <1>4, DecideKeeps
  <1>5. ASSUME NEW e \in Executions, Attempt(e) PROVE PlanInv'
    BY <1>5, AttemptKeeps
  <1>6. ASSUME NEW e \in Executions, Collect(e) PROVE PlanInv'
    BY <1>6, CollectKeeps
  <1>7. ASSUME NEW e \in Executions, Finish(e) PROVE PlanInv'
    BY <1>7, FinishKeeps
  <1>8. ASSUME NEW c \in Calls, Nested(c) PROVE PlanInv'
    BY <1>8, NestedKeeps
  <1>9. ASSUME NEW p \in Paths, NEW b \in Contents, OutsideChange(p, b) PROVE PlanInv'
    BY <1>9, OutsideKeeps
  <1>10. CASE Die
    BY <1>10, DieKeeps
  <1>11. CASE UNCHANGED allVars
    <2> USE <1>11 DEF allVars, vars, planVars
    <2>1. PlanTypeOK' /\ Belongs' /\ Screened'
      BY DEF PlanInv, PlanTypeOK, Belongs, Screened, EntryOf, Clear, Colliding, TargetOf, Contents
    <2>2. Marked' /\ Exclusive'
      BY DEF PlanInv, Marked, Exclusive, EntryOf, Holding
    <2>3. Sequential' /\ Told'
      BY DEF PlanInv, Sequential, Told, TellsOf, Stopped, Position
    <2> QED BY <2>1, <2>2, <2>3 DEF PlanInv
  <1> QED BY <1>1, <1>2, <1>3, <1>4, <1>5, <1>6, <1>7, <1>8, <1>9, <1>10, <1>11 DEF PlanNext

\* The invariant holds in every reachable state.
LEMMA Invariant == PlanSpec => []PlanInv
  BY InitInv, NextInv, PTL DEF PlanSpec

\* Files, calls, plans and outcomes keep their types (MultiFileEdit.PlanTypeOK).
THEOREM TypeCorrect == PlanSpec => []PlanTypeOK
  <1>1. PlanInv => PlanTypeOK
    BY DEF PlanInv
  <1> QED BY <1>1, Invariant, PTL

-----------------------------------------------------------------------------
\* Two entries of one plan that passed its preflight have different targets.
LEMMA OnePathOneEntry ==
  ASSUME PlanInv, NEW c \in published, NEW d \in published,
         c[1] = d[1], Target[goal[c]] = Target[goal[d]]
  PROVE  c = d
  <1>1. c \in Calls /\ d \in Calls
    BY DEF PlanInv, PlanTypeOK
  <1>2. standing[c] # "idle" /\ standing[d] # "idle"
    BY <1>1 DEF PlanInv, Marked, Committing
  <1>3. /\ c[2] \in DOMAIN plan[c[1]] /\ c = <<c[1], c[2]>> /\ goal[c] = plan[c[1]][c[2]].change
        /\ d[2] \in DOMAIN plan[d[1]] /\ d = <<d[1], d[2]>> /\ goal[d] = plan[d[1]][d[2]].change
        /\ Clear(plan[c[1]])
    BY <1>1, <1>2 DEF PlanInv, Belongs, EntryOf
  <1>4. c[2] = d[2]
    BY <1>3 DEF Clear, Colliding, TargetOf
  <1> QED BY <1>3, <1>4

\* However executions that share plans, changes and authorizations interleave,
\* an approval publishes its change at most once, and one execution publishes
\* one change to a path (executeMultiFilePlan over consumeAuthorization).
THEOREM ApprovalPublishedOnceAlways == PlanSpec => []ApprovalPublishedOnce
  <1>1. PlanInv => ApprovalPublishedOnce
    <2> SUFFICES ASSUME PlanInv, NEW c \in published, NEW d \in published,
                        \/ EntryOf(c).auth = EntryOf(d).auth
                        \/ c[1] = d[1] /\ Target[goal[c]] = Target[goal[d]]
                 PROVE  c = d
      BY DEF ApprovalPublishedOnce
    <2>1. CASE EntryOf(c).auth = EntryOf(d).auth
      BY <2>1 DEF PlanInv, PlanTypeOK, Exclusive, Holding
    <2>2. CASE c[1] = d[1] /\ Target[goal[c]] = Target[goal[d]]
      BY <2>2, OnePathOneEntry
    <2> QED BY <2>1, <2>2
  <1> QED BY <1>1, Invariant, PTL

\* The positions of a plan of n entries, as calls of one execution, are n.
LEMMA PositionsOfPlan ==
  ASSUME NEW e, NEW n \in Nat
  PROVE  Cardinality({<<e, i>> : i \in 1 .. n}) = n
  <1> DEFINE f == [i \in 1 .. n |-> <<e, i>>]
             T == {<<e, i>> : i \in 1 .. n}
  <1>1. IsFiniteSet(1 .. n) /\ Cardinality(1 .. n) = n
    BY FS_Interval
  <1>2. f \in Bijection(1 .. n, T)
    BY DEF Bijection, Injection, Surjection, IsInjective
  <1> QED BY <1>1, <1>2, FS_Bijection DEF ExistsBijection

\* The status an execution returns says what happened to the files
\* (derivePlanStatus): for plans of any length and calls that fail anywhere.
THEOREM StatusTruthfulAlways == PlanSpec => []StatusTruthful
  <1>1. PlanInv => StatusTruthful
    <2> SUFFICES ASSUME PlanInv, NEW e \in Executions
                 PROVE  /\ status[e] = "ALL_APPLIED" => Cardinality(CallsOf(e)) = Len(plan[e])
                        /\ status[e] = "PARTIALLY_COMMITTED" => CallsOf(e) # {}
                        /\ status[e] \in {"REFUSED_AT_PREFLIGHT", "STOPPED_BEFORE_ANY_COMMIT"} =>
                             CallsOf(e) = {}
                        /\ status[e] = "REFUSED_AT_PREFLIGHT" =>
                             \A i \in 1 .. MaxFiles : standing[<<e, i>>] = "idle"
      BY DEF StatusTruthful
    <2>1. TellsOf(e)
      BY DEF PlanInv, Told
    <2>2. DOMAIN plan[e] = 1 .. Len(plan[e]) /\ Len(plan[e]) \in Nat
      BY EntryFacts DEF PlanInv
    <2>3. \A c \in CallsOf(e) : c[2] \in DOMAIN plan[e] /\ c = <<e, c[2]>>
      BY DEF CallsOf, PlanInv, PlanTypeOK, Marked, Committing, Belongs
    <2>4. \A i \in DOMAIN plan[e] : <<e, i>> \in CallsOf(e) <=> <<e, i>> \in published
      BY DEF CallsOf
    <2>5. ASSUME status[e] = "ALL_APPLIED"
          PROVE  Cardinality(CallsOf(e)) = Len(plan[e])
      <3>1. CallsOf(e) = {<<e, i>> : i \in 1 .. Len(plan[e])}
        BY <2>1, <2>2, <2>3, <2>4, <2>5 DEF TellsOf
      <3> QED BY <2>2, <3>1, PositionsOfPlan
    <2>6. ASSUME status[e] = "PARTIALLY_COMMITTED"
          PROVE  CallsOf(e) # {}
      BY <2>1, <2>4, <2>6 DEF TellsOf
    <2>7. ASSUME status[e] \in {"REFUSED_AT_PREFLIGHT", "STOPPED_BEFORE_ANY_COMMIT"}
          PROVE  CallsOf(e) = {}
      BY <2>1, <2>3, <2>4, <2>7 DEF TellsOf
    <2>8. ASSUME status[e] = "REFUSED_AT_PREFLIGHT", NEW i \in 1 .. MaxFiles
          PROVE  standing[<<e, i>>] = "idle"
      <3>1. <<e, i>> \in Executions \X (1 .. MaxFiles)
        BY <2>8
      <3>2. <<e, i>> \in Calls
        BY <3>1, PlanAssumption DEF PlanAssumption
      <3>3. standing[<<e, i>>] # "idle" => i \in DOMAIN plan[e]
        BY <3>2 DEF PlanInv, Belongs
      <3> QED BY <2>1, <2>8, <3>3 DEF TellsOf
    <2> QED BY <2>5, <2>6, <2>7, <2>8
  <1> QED BY <1>1, Invariant, PTL

=============================================================================
