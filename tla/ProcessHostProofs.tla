-------------------------- MODULE ProcessHostProofs --------------------------
(***************************************************************************)
(* What an observation of a process says is true, for any number of        *)
(* descendants, any output and any limit.                                  *)
(***************************************************************************)
EXTENDS ProcessHost, TLAPS

\* Every byte written is in the pipe, captured or discarded.
Accounted == captured + discarded + pipe = written

\* A leader that ended, or never was, is not alive, and an event that says so
\* came afterwards.
LeaderGone ==
  /\ how # None => Leader \notin alive
  /\ exitSeen => how # None
  /\ how = "unspawned" => alive = {} /\ pipe = 0 /\ written = 0 /\ (exitSeen => closeSeen)

\* The output is only called ended or closed when nobody can add to it.
EndIsEnd == closeSeen \/ endSeen => Drained

\* What a resolved observation relied on stays as it was.
Settled ==
  outcome # None =>
    /\ timers = {}
    /\ complete => Drained /\ discarded = 0
    /\ outcome \in {"EXITED", "SIGNALED", "TIMED_OUT", "OUTPUT_OVERFLOW"} =>
         Drained /\ Leader \notin alive
    /\ outcome = "EXITED" => how = "code" /\ requested = None
    /\ outcome = "SIGNALED" => how = "signal" /\ requested = None

HostInv == TypeOK /\ Accounted /\ LeaderGone /\ EndIsEnd /\ Settled

USE HostAssumption DEF Outcomes, Procs

\* At the start nothing was seen or written.
LEMMA InitHostInv == Init => HostInv
<1> SUFFICES ASSUME Init PROVE HostInv
  OBVIOUS
<1>1. TypeOK
  <2>1. /\ alive \subseteq Procs /\ forked = alive /\ holders = alive
        /\ how \in {None, "code", "signal", "unspawned"}
    BY DEF Init
  <2>2. written \in 0 .. MaxWritten /\ pipe \in 0 .. written /\ captured \in 0 .. Limit
        /\ discarded \in 0 .. MaxWritten
    BY DEF Init
  <2>3. stubborn \subseteq Procs /\ stuck \subseteq Procs /\ apart \subseteq Descendants
    BY DEF Init
  <2> QED
    BY <2>1, <2>2, <2>3 DEF Init, TypeOK
<1>2. Accounted /\ EndIsEnd /\ Settled
  BY DEF Init, Accounted, EndIsEnd, Settled
<1>3. LeaderGone
  BY DEF Init, LeaderGone
<1> QED
  BY <1>1, <1>2, <1>3 DEF HostInv

\* The processes' own steps: they write, close and end, and tell nobody.
LEMMA ProcessStep ==
  ASSUME HostInv,
         \/ \E d \in Descendants : Fork(d)
         \/ \E p \in Procs : WriteOutput(p) \/ CloseOutput(p) \/ Exit(p) \/ Killed(p) \/ Succumb(p)
  PROVE  HostInv'
<1> USE DEF HostInv
<1>1. ASSUME NEW d \in Descendants, Fork(d) PROVE HostInv'
  <2> USE <1>1 DEF Fork, traits, output, host, seen, capture, result
  <2>1. TypeOK' /\ Accounted'
    BY DEF TypeOK, Accounted
  <2>2. LeaderGone'
    BY DEF LeaderGone
  <2>3. EndIsEnd' /\ Settled'
    BY DEF EndIsEnd, Settled, Drained, TypeOK
  <2> QED
    BY <2>1, <2>2, <2>3
<1>2. ASSUME NEW p \in Procs, WriteOutput(p) PROVE HostInv'
  <2> USE <1>2 DEF WriteOutput, traits, processes, host, seen, capture, result
  <2>1. TypeOK' /\ Accounted'
    BY DEF TypeOK, Accounted
  <2>2. LeaderGone'
    BY DEF LeaderGone, TypeOK
  <2>3. EndIsEnd' /\ Settled'
    BY DEF EndIsEnd, Settled, Drained, TypeOK
  <2> QED
    BY <2>1, <2>2, <2>3
<1>3. ASSUME NEW p \in Procs, CloseOutput(p) PROVE HostInv'
  <2> USE <1>3 DEF CloseOutput, traits, output, host, seen, capture, result
  <2>1. TypeOK' /\ Accounted' /\ LeaderGone'
    BY DEF TypeOK, Accounted, LeaderGone
  <2>2. EndIsEnd' /\ Settled'
    BY DEF EndIsEnd, Settled, Drained
  <2> QED
    BY <2>1, <2>2
<1>4. ASSUME NEW p \in Procs, NEW m \in {"code", "signal"}, Ends(p, m) PROVE HostInv'
  <2> USE <1>4 DEF Ends, traits, output, host, seen, capture, result
  <2>1. TypeOK' /\ Accounted'
    BY DEF TypeOK, Accounted
  <2>2. LeaderGone'
    BY DEF LeaderGone
  <2>3. EndIsEnd'
    BY DEF EndIsEnd, Drained
  <2>4. Settled'
    BY DEF Settled, Drained, LeaderGone
  <2> QED
    BY <2>1, <2>2, <2>3, <2>4
<1> QED
  BY <1>1, <1>2, <1>3, <1>4 DEF Exit, Killed, Succumb

\* An observation is resolved on what is settled by then.
LEMMA ResolveSettles ==
  ASSUME HostInv, outcome = None,
         NEW o \in Outcomes, NEW exited \in BOOLEAN, NEW closed \in BOOLEAN,
         Resolve(o, exited, closed),
         UNCHANGED <<processes, output, requested, capture>>,
         closed \/ endSeen => Drained,
         o \in {"EXITED", "SIGNALED", "TIMED_OUT", "OUTPUT_OVERFLOW"} =>
           Drained /\ Leader \notin alive,
         o = "EXITED" => how = "code" /\ requested = None,
         o = "SIGNALED" => how = "signal" /\ requested = None
  PROVE  Settled'
  BY DEF Resolve, Settled, Drained, processes, output, capture

\* Whatever it is resolved to is an observation.
LEMMA ResolveTyped ==
  ASSUME TypeOK, NEW o \in Outcomes, NEW exited \in BOOLEAN, NEW closed \in BOOLEAN,
         Resolve(o, exited, closed)
  PROVE  /\ timers' \subseteq {"duration", "grace", "cleanup"}
         /\ outcome' \in Outcomes /\ descendantMayRemainAlive' \in BOOLEAN /\ complete' \in BOOLEAN
  BY DEF Resolve, TypeOK

\* The exit and the close of the child, whichever completes the other.
LEMMA FinishSettles ==
  ASSUME HostInv, NEW exited \in BOOLEAN, NEW closed \in BOOLEAN,
         MaybeFinish(exited, closed),
         UNCHANGED <<processes, traits, doomed, output, endSeen, requested, capture>>,
         exited => how \in {"code", "signal"},
         closed => Drained
  PROVE  /\ Settled'
         /\ timers' \subseteq {"duration", "grace", "cleanup"}
         /\ outcome' \in Outcomes \cup {None}
         /\ descendantMayRemainAlive' \in BOOLEAN /\ complete' \in BOOLEAN
<1>1. CASE outcome = None /\ Ready(exited, closed)
  <2>1. Resolve(OutcomeOf, exited, closed) /\ exited /\ closed
    BY <1>1 DEF MaybeFinish, Ready
  <2>2. requested \in {None, "timeout", "overflow"} /\ Drained /\ Leader \notin alive
    BY <2>1 DEF HostInv, TypeOK, LeaderGone
  <2>3. /\ OutcomeOf \in {"EXITED", "SIGNALED", "TIMED_OUT", "OUTPUT_OVERFLOW"}
        /\ OutcomeOf = "EXITED" => how = "code" /\ requested = None
        /\ OutcomeOf = "SIGNALED" => how = "signal" /\ requested = None
    BY <2>1, <2>2 DEF OutcomeOf
  <2>4. OutcomeOf \in Outcomes /\ (closed \/ endSeen => Drained)
    BY <2>2, <2>3
  <2>5. Settled'
    BY <1>1, <2>1, <2>2, <2>3, <2>4, ResolveSettles
  <2>6. TypeOK
    BY DEF HostInv
  <2> QED
    BY <2>1, <2>4, <2>5, <2>6, ResolveTyped
<1>2. CASE ~(outcome = None /\ Ready(exited, closed))
  BY <1>2 DEF MaybeFinish, result, Settled, Drained, processes, output, capture, HostInv, TypeOK
<1> QED
  BY <1>1, <1>2

\* The host's steps.
LEMMA HostKeeps ==
  ASSUME HostInv, HostStep
  PROVE  HostInv'
<1> USE DEF HostInv
<1>1. CASE OnExit
  <2> USE <1>1 DEF OnExit
  <2>1. closeSeen => Drained
    BY DEF EndIsEnd
  <2>2. /\ Settled'
        /\ timers' \subseteq {"duration", "grace", "cleanup"}
        /\ outcome' \in Outcomes \cup {None}
        /\ descendantMayRemainAlive' \in BOOLEAN /\ complete' \in BOOLEAN
    BY <2>1, FinishSettles DEF TypeOK
  <2>3. TypeOK' /\ Accounted'
    BY <2>2 DEF TypeOK, Accounted, processes, traits, output, capture
  <2>4. LeaderGone' /\ EndIsEnd'
    BY DEF LeaderGone, EndIsEnd, Drained, processes, output
  <2> QED
    BY <2>2, <2>3, <2>4
<1>2. CASE OnEnd
  <2> USE <1>2 DEF OnEnd, processes, traits, output, capture, result
  <2>1. TypeOK' /\ Accounted' /\ LeaderGone'
    BY DEF TypeOK, Accounted, LeaderGone
  <2>2. EndIsEnd' /\ Settled'
    BY DEF EndIsEnd, Settled, Drained
  <2> QED
    BY <2>1, <2>2
<1>3. CASE OnClose
  <2> USE <1>3 DEF OnClose
  <2>1. how \in {"code", "signal"}
    BY DEF LeaderGone, TypeOK
  <2>2. /\ Settled'
        /\ timers' \subseteq {"duration", "grace", "cleanup"}
        /\ outcome' \in Outcomes \cup {None}
        /\ descendantMayRemainAlive' \in BOOLEAN /\ complete' \in BOOLEAN
    BY <2>1, FinishSettles DEF TypeOK
  <2>3. TypeOK' /\ Accounted'
    BY <2>2 DEF TypeOK, Accounted, processes, traits, output, capture
  <2>4. LeaderGone' /\ EndIsEnd'
    BY DEF LeaderGone, EndIsEnd, Drained, processes, output
  <2> QED
    BY <2>2, <2>3, <2>4
<1>4. CASE OnSpawnError
  <2> USE <1>4 DEF OnSpawnError
  <2>1. Drained
    BY DEF LeaderGone, TypeOK, Drained
  <2>2. Settled'
    BY <2>1, ResolveSettles
  <2>3. TypeOK' /\ Accounted'
    BY ResolveTyped DEF TypeOK, Accounted, processes, traits, output, capture
  <2>4. LeaderGone' /\ EndIsEnd'
    BY <2>1 DEF LeaderGone, EndIsEnd, Drained, processes, output
  <2> QED
    BY <2>2, <2>3, <2>4
<1>5. CASE OnData
  <2> USE DEF processes, traits, seen, result
  <2>1. PICK n \in 1 .. pipe :
          /\ pipe' = pipe - n
          /\ captured' = captured + Kept(n)
          /\ discarded' = discarded + (n - Kept(n))
          /\ IF discarded = 0 /\ Kept(n) < n THEN BeginTermination("overflow")
             ELSE UNCHANGED <<requested, timers, doomed>>
    BY <1>5 DEF OnData
  <2>2. Kept(n) \in 0 .. n /\ captured + Kept(n) <= Limit
    BY DEF Kept, Room, TypeOK
  <2>3. /\ requested' \in {None, "timeout", "overflow"} /\ doomed' \subseteq Procs
        /\ timers' \subseteq {"duration", "grace", "cleanup"}
        /\ outcome # None => UNCHANGED <<requested, timers>>
    BY <2>1 DEF BeginTermination, SignalGroup, TypeOK
  <2>4. Accounted' /\ captured' \in 0 .. Limit /\ discarded' \in 0 .. MaxWritten /\ pipe' \in 0 .. written
    BY <1>5, <2>1, <2>2 DEF OnData, Accounted, TypeOK
  <2>5. TypeOK'
    BY <1>5, <2>3, <2>4 DEF OnData, TypeOK
  <2>6. ~Drained /\ pipe > 0
    BY <1>5 DEF OnData, Drained, TypeOK
  <2>7. LeaderGone' /\ EndIsEnd'
    BY <1>5, <2>6 DEF OnData, LeaderGone, EndIsEnd, TypeOK
  <2>8. Settled'
    BY <1>5, <2>3, <2>6 DEF OnData, Settled
  <2> QED
    BY <2>4, <2>5, <2>7, <2>8
<1>6. CASE OnDuration
  <2> USE <1>6 DEF OnDuration, processes, traits, output, seen, capture, result
  <2>1. TypeOK'
    BY DEF TypeOK, SignalGroup
  <2>2. Accounted' /\ LeaderGone' /\ EndIsEnd'
    BY DEF Accounted, LeaderGone, EndIsEnd, Drained
  <2>3. Settled'
    BY DEF Settled, Drained
  <2> QED
    BY <2>1, <2>2, <2>3
<1>7. CASE OnGrace
  <2> USE <1>7 DEF OnGrace, processes, traits, output, seen, capture, result
  <2>1. timers' \subseteq {"duration", "grace", "cleanup"} /\ doomed' \subseteq Procs
    BY DEF TypeOK, SignalGroup
  <2>4. TypeOK'
    BY <2>1 DEF TypeOK
  <2>2. Accounted' /\ LeaderGone' /\ EndIsEnd'
    BY DEF Accounted, LeaderGone, EndIsEnd, Drained
  <2>3. Settled'
    BY DEF Settled, Drained
  <2> QED
    BY <2>2, <2>3, <2>4
<1>8. CASE OnCleanup
  <2> USE <1>8 DEF OnCleanup
  <2>1. exitSeen \in BOOLEAN /\ closeSeen \in BOOLEAN /\ outcome = None
    BY DEF TypeOK, Settled
  <2>2. Settled'
    BY <2>1, ResolveSettles DEF EndIsEnd
  <2>3. TypeOK' /\ Accounted'
    BY <2>1, ResolveTyped DEF TypeOK, Accounted, processes, traits, output, seen, capture
  <2>4. LeaderGone' /\ EndIsEnd'
    BY DEF LeaderGone, EndIsEnd, Drained, processes, output, seen
  <2> QED
    BY <2>2, <2>3, <2>4
<1> QED
  BY <1>1, <1>2, <1>3, <1>4, <1>5, <1>6, <1>7, <1>8 DEF HostStep

\* The invariant holds for ever.
LEMMA HostInvAlways == Spec => []HostInv
<1>1. HostInv /\ [Next]_vars => HostInv'
  <2> SUFFICES ASSUME HostInv, [Next]_vars PROVE HostInv'
    OBVIOUS
  <2>1. CASE UNCHANGED vars
    BY <2>1 DEF vars, processes, traits, output, seen, capture, result, HostInv, TypeOK, Accounted,
       LeaderGone, EndIsEnd, Drained, Settled
  <2> QED
    BY <2>1, ProcessStep, HostKeeps DEF Next
<1> QED
  BY <1>1, InitHostInv, PTL DEF Spec

\* Every variable of the process host keeps its type (process-host.ts).
THEOREM TypeCorrect == Spec => []TypeOK
<1>1. HostInv => TypeOK
  BY DEF HostInv
<1> QED
  BY <1>1, HostInvAlways, PTL

\* The outcome that execution resolves to says how the leader ended, or why it
\* was ended, and comes when nobody can add to its output.
THEOREM OutcomeTruthfulAlways == Spec => []OutcomeTruthful
<1>1. HostInv => OutcomeTruthful
  BY DEF HostInv, TypeOK, Accounted, Settled, Drained, OutcomeTruthful
<1> QED
  BY <1>1, HostInvAlways, PTL

\* The capture keeps to its limit, accounts for every byte, and is called
\* complete only if it is all that was written.
THEOREM CaptureTruthfulAlways == Spec => []CaptureTruthful
<1>1. HostInv => CaptureTruthful
  BY DEF HostInv, TypeOK, Accounted, Settled, Drained, CaptureTruthful
<1> QED
  BY <1>1, HostInvAlways, PTL

----------------------------------------------------------------------------
\* Why the observation ends.

\* An unresolved observation is pursued: by the duration, and once termination
\* is requested by what follows it until the leader's exit is seen.
Pursued ==
  outcome = None =>
    /\ requested = None => "duration" \in timers
    /\ requested # None => "grace" \in timers \/ "cleanup" \in timers \/ exitSeen
    /\ ~(exitSeen /\ closeSeen)

\* No event and no timer is left to be delivered to the host.
NothingDue ==
  /\ how \in {"code", "signal"} => exitSeen
  /\ how = "unspawned" => outcome # None
  /\ how # "unspawned" /\ Drained => endSeen
  /\ exitSeen /\ Drained => closeSeen
  /\ pipe = 0
  /\ how # "unspawned" => timers = {}

\* The host is only left waiting, with nothing due, by a descendant that holds
\* the output of a leader whose exit was seen.
WaitsOnlyForOutput ==
  outcome = None /\ NothingDue => exitSeen /\ holders \cap Descendants # {}

\* The timers that may still run, given why termination was requested.
TimersLeft(reason, armed) ==
  (IF reason = None THEN 3 ELSE 0) + (IF "duration" \in armed THEN 1 ELSE 0)
    + (IF "grace" \in armed THEN 2 ELSE 0) + (IF "cleanup" \in armed THEN 1 ELSE 0)

EventsLeft ==
  (IF exitSeen THEN 0 ELSE 1) + (IF closeSeen THEN 0 ELSE 1) + (IF endSeen THEN 0 ELSE 1)

\* What the host still has to do at most.
WorkLeft == TimersLeft(requested, timers) + EventsLeft + 2 * (MaxWritten - written) + pipe

\* Who pursues an unresolved observation goes on to do so.
LEMMA StepKeepsPursued == HostInv /\ Pursued /\ [Next]_vars => Pursued'
<1> SUFFICES ASSUME HostInv, Pursued, [Next]_vars PROVE Pursued'
  OBVIOUS
<1> USE DEF Pursued
<1>1. ASSUME NEW d \in Descendants, Fork(d) PROVE Pursued'
  BY <1>1 DEF Fork, host, seen, result
<1>2. ASSUME NEW p \in Procs, WriteOutput(p) \/ CloseOutput(p) PROVE Pursued'
  BY <1>2 DEF WriteOutput, CloseOutput, host, processes, seen, result
<1>3. ASSUME NEW p \in Procs, Exit(p) \/ Killed(p) \/ Succumb(p) PROVE Pursued'
  <2>1. how # "unspawned" /\ UNCHANGED <<exitSeen, closeSeen, requested, timers, outcome>>
    BY <1>3 DEF Exit, Killed, Succumb, Ends, host, seen, result, HostInv, LeaderGone
  <2> QED
    BY <2>1
<1>4. ASSUME NEW exited \in BOOLEAN, NEW closed \in BOOLEAN, MaybeFinish(exited, closed),
             exitSeen' = exited, closeSeen' = closed, exitSeen => exited,
             UNCHANGED <<how, requested>>
      PROVE  Pursued'
  <2>1. CASE outcome = None /\ Ready(exited, closed)
    <3>1. OutcomeOf \in Outcomes
      BY DEF OutcomeOf
    <3> QED
      BY <1>4, <2>1, <3>1 DEF MaybeFinish, Resolve
  <2>2. CASE ~(outcome = None /\ Ready(exited, closed))
    BY <1>4, <2>2 DEF MaybeFinish, Ready, result
  <2> QED
    BY <2>1, <2>2
<1>5. CASE OnExit \/ OnClose
  <2>1. exitSeen \in BOOLEAN /\ closeSeen \in BOOLEAN
    BY DEF HostInv, TypeOK
  <2> QED
    BY <1>4, <1>5, <2>1 DEF OnExit, OnClose, processes
<1>6. CASE OnEnd
  BY <1>6 DEF OnEnd, processes, result
<1>7. CASE OnSpawnError \/ OnCleanup
  BY <1>7 DEF OnSpawnError, OnCleanup, Resolve
<1>8. CASE OnData
  <2>1. BeginTermination("overflow") \/ UNCHANGED <<requested, timers, doomed>>
    BY <1>8 DEF OnData
  <2> QED
    BY <1>8, <2>1 DEF OnData, BeginTermination, processes, seen, result
<1>9. CASE OnDuration
  BY <1>9 DEF OnDuration, processes, seen, result
<1>10. CASE OnGrace
  BY <1>10 DEF OnGrace, processes, seen, result
<1>11. CASE UNCHANGED vars
  BY <1>11 DEF vars, processes, seen, result
<1> QED
  BY <1>1, <1>2, <1>3, <1>5, <1>6, <1>7, <1>8, <1>9, <1>10, <1>11 DEF Next, HostStep

\* So somebody always does.
LEMMA PursuedAlways == Spec => []Pursued
<1>1. Init => Pursued
  BY DEF Init, Pursued
<1> QED
  BY <1>1, HostInvAlways, StepKeepsPursued, PTL DEF Spec

\* While an observation is unresolved some event or timer is still due, or a
\* descendant holds the output of a leader that is gone (process-host.ts,
\* maybeFinish waits for close): nothing else can keep it from ending.
THEOREM WaitsOnlyForOutputAlways == Spec => []WaitsOnlyForOutput
<1>1. HostInv /\ Pursued => WaitsOnlyForOutput
  <2> SUFFICES ASSUME HostInv, Pursued, outcome = None, NothingDue
               PROVE  exitSeen /\ holders \cap Descendants # {}
    BY DEF WaitsOnlyForOutput
  <2>1. exitSeen /\ ~closeSeen /\ holders # {}
    BY DEF Pursued, NothingDue, Drained
  <2>2. Leader \notin holders /\ holders \subseteq Procs
    BY <2>1 DEF HostInv, TypeOK, LeaderGone
  <2> QED
    BY <2>1, <2>2
<1> QED
  BY <1>1, HostInvAlways, PursuedAlways, PTL

\* Timers are counted in natural numbers, and none is as little as there can be.
LEMMA TimersCounted ==
  ASSUME NEW q, NEW ts
  PROVE  TimersLeft(q, ts) \in Nat /\ TimersLeft(q, {}) <= TimersLeft(q, ts)
  BY DEF TimersLeft

\* Asking for termination, at any time, leaves less for the timers to do.
LEMMA TerminationCounted ==
  ASSUME NEW reason \in {"timeout", "overflow"}, BeginTermination(reason)
  PROVE  TimersLeft(requested', timers') <= TimersLeft(requested, timers)
<1>1. CASE requested = None /\ outcome = None
  <2>1. requested' = reason /\ reason # None /\ timers' = timers \cup {"grace"}
    BY <1>1 DEF BeginTermination
  <2> QED
    BY <1>1, <2>1 DEF TimersLeft
<1>2. CASE ~(requested = None /\ outcome = None)
  <2>1. UNCHANGED <<requested, timers>>
    BY <1>2 DEF BeginTermination
  <2> QED
    BY <2>1, TimersCounted
<1> QED
  BY <1>1, <1>2

\* So does the end of an observation.
LEMMA FinishCounted ==
  ASSUME NEW exited, NEW closed, MaybeFinish(exited, closed), UNCHANGED requested
  PROVE  TimersLeft(requested', timers') <= TimersLeft(requested, timers)
<1>1. timers' = timers \/ timers' = {}
  BY DEF MaybeFinish, Resolve
<1> QED
  BY <1>1, TimersCounted

\* What is left to do is a natural number.
LEMMA WorkCounted == (HostInv => WorkLeft \in Nat) /\ (HostInv' => WorkLeft' \in Nat)
<1>1. ASSUME HostInv PROVE WorkLeft \in Nat
  <2>1. EventsLeft \in Nat /\ TimersLeft(requested, timers) \in Nat
    BY TimersCounted DEF EventsLeft
  <2>2. MaxWritten \in Nat /\ written \in 0 .. MaxWritten /\ pipe \in Nat
    BY <1>1 DEF HostInv, TypeOK
  <2> QED
    BY <2>1, <2>2 DEF WorkLeft
<1>2. ASSUME HostInv' PROVE WorkLeft' \in Nat
  <2>1. EventsLeft' \in Nat /\ TimersLeft(requested', timers') \in Nat
    BY TimersCounted DEF EventsLeft
  <2>2. MaxWritten \in Nat /\ written' \in 0 .. MaxWritten /\ pipe' \in Nat
    BY <1>2 DEF HostInv, TypeOK
  <2> QED
    BY <2>1, <2>2 DEF WorkLeft
<1> QED
  BY <1>1, <1>2

\* Every step of the host leaves it less to do, none of the processes more.
LEMMA WorkStep ==
  ASSUME HostInv, Pursued, Next
  PROVE  WorkLeft' <= WorkLeft /\ (HostStep => WorkLeft' < WorkLeft)
<1>1. /\ TimersLeft(requested, timers) \in Nat /\ TimersLeft(requested', timers') \in Nat
      /\ EventsLeft \in Nat /\ EventsLeft' \in Nat
      /\ written \in Nat /\ pipe \in Nat /\ MaxWritten \in Nat
  BY TimersCounted DEF HostInv, TypeOK, EventsLeft
<1>2. ASSUME HostStep, UNCHANGED written PROVE WorkLeft' < WorkLeft
  <2>1. CASE OnExit \/ OnClose
    <3>1. /\ TimersLeft(requested', timers') <= TimersLeft(requested, timers)
          /\ UNCHANGED <<written, pipe>>
      BY <2>1, FinishCounted DEF OnExit, OnClose, output
    <3>2. CASE OnExit
      <4>1. ~exitSeen /\ exitSeen' /\ UNCHANGED <<closeSeen, endSeen>>
        BY <3>2 DEF OnExit
      <4>2. EventsLeft' < EventsLeft
        BY <4>1 DEF EventsLeft
      <4> QED
        BY <1>1, <3>1, <4>2 DEF WorkLeft
    <3>3. CASE OnClose
      <4>1. ~closeSeen /\ closeSeen' /\ UNCHANGED <<exitSeen, endSeen>>
        BY <3>3 DEF OnClose
      <4>2. EventsLeft' < EventsLeft
        BY <4>1 DEF EventsLeft
      <4> QED
        BY <1>1, <3>1, <4>2 DEF WorkLeft
    <3> QED
      BY <2>1, <3>2, <3>3
  <2>2. CASE OnEnd
    <3>1. EventsLeft' < EventsLeft /\ UNCHANGED <<requested, timers, written, pipe>>
      BY <2>2 DEF OnEnd, EventsLeft, output
    <3> QED
      BY <1>1, <3>1 DEF WorkLeft
  <2>3. CASE OnSpawnError
    <3>1. timers' = {} /\ UNCHANGED <<requested, written, pipe>>
      BY <2>3 DEF OnSpawnError, Resolve, output
    <3>2. EventsLeft' < EventsLeft
      <4>1. ~(exitSeen /\ closeSeen) /\ exitSeen' /\ closeSeen' /\ UNCHANGED endSeen
        BY <2>3 DEF OnSpawnError, Pursued
      <4> QED
        BY <4>1 DEF EventsLeft
    <3> QED
      BY <1>1, <3>1, <3>2, TimersCounted DEF WorkLeft
  <2>4. CASE OnData
    <3>1. TimersLeft(requested', timers') <= TimersLeft(requested, timers)
      <4>1. BeginTermination("overflow") \/ UNCHANGED <<requested, timers>>
        BY <2>4 DEF OnData
      <4> QED
        BY <1>1, <4>1, TerminationCounted
    <3>2. /\ pipe' \in Nat /\ pipe' < pipe /\ EventsLeft' = EventsLeft /\ UNCHANGED written
      BY <1>1, <2>4 DEF OnData, EventsLeft, seen
    <3> QED
      BY <1>1, <3>1, <3>2 DEF WorkLeft
  <2>5. CASE OnDuration
    <3>1. TimersLeft(requested', timers') < TimersLeft(requested, timers)
      <4>1. "timeout" # None
        OBVIOUS
      <4> QED
        BY <2>5, <4>1 DEF OnDuration, TimersLeft
    <3>2. EventsLeft' = EventsLeft /\ UNCHANGED <<written, pipe>>
      BY <2>5 DEF OnDuration, EventsLeft, seen, output
    <3> QED
      BY <1>1, <3>1, <3>2 DEF WorkLeft
  <2>6. CASE OnGrace
    <3>1. TimersLeft(requested', timers') < TimersLeft(requested, timers)
      BY <2>6 DEF OnGrace, TimersLeft
    <3>2. EventsLeft' = EventsLeft /\ UNCHANGED <<written, pipe>>
      BY <2>6 DEF OnGrace, EventsLeft, seen, output
    <3> QED
      BY <1>1, <3>1, <3>2 DEF WorkLeft
  <2>7. CASE OnCleanup
    <3>1. TimersLeft(requested', timers') < TimersLeft(requested, timers)
      BY <2>7 DEF OnCleanup, Resolve, TimersLeft
    <3>2. EventsLeft' = EventsLeft /\ UNCHANGED <<written, pipe>>
      BY <2>7 DEF OnCleanup, EventsLeft, seen, output
    <3> QED
      BY <1>1, <3>1, <3>2 DEF WorkLeft
  <2> QED
    BY <1>2, <2>1, <2>2, <2>3, <2>4, <2>5, <2>6, <2>7 DEF HostStep
<1>3. ASSUME UNCHANGED <<host, pipe, written>> PROVE WorkLeft' = WorkLeft
  BY <1>3 DEF WorkLeft, TimersLeft, EventsLeft, host, seen
<1>4. ASSUME NEW p \in Procs, WriteOutput(p) PROVE WorkLeft' <= WorkLeft
  <2>1. /\ written' = written + 1 /\ pipe' = pipe + 1
        /\ TimersLeft(requested', timers') = TimersLeft(requested, timers)
        /\ EventsLeft' = EventsLeft
    BY <1>4 DEF WriteOutput, host, seen, EventsLeft
  <2> QED
    BY <1>1, <2>1 DEF WorkLeft
<1>5. ASSUME HostStep PROVE UNCHANGED written
  BY <1>5 DEF HostStep, OnExit, OnEnd, OnClose, OnSpawnError, OnData, OnDuration, OnGrace,
     OnCleanup, output
<1>6. WorkLeft \in Nat /\ (HostStep => WorkLeft' \in Nat)
  BY WorkCounted, HostKeeps
<1>7. CASE HostStep
  BY <1>2, <1>5, <1>6, <1>7
<1>8. ASSUME NEW p \in Procs, CloseOutput(p) \/ Exit(p) \/ Killed(p) \/ Succumb(p) PROVE WorkLeft' = WorkLeft
  BY <1>3, <1>8 DEF CloseOutput, Exit, Killed, Succumb, Ends, output
<1>9. ASSUME NEW d \in Descendants, Fork(d) PROVE WorkLeft' = WorkLeft
  BY <1>3, <1>9 DEF Fork, output
<1> QED
  BY <1>2, <1>4, <1>5, <1>6, <1>7, <1>8, <1>9 DEF Next

\* The host works for a finite time: each event, timer or chunk of output that
\* it handles leaves less to handle, and no process can add to it but by the
\* output that it writes (process-host.ts: no timer is armed twice).
THEOREM HostWorkShrinks ==
  Spec => /\ [](WorkLeft \in Nat)
          /\ [][WorkLeft' <= WorkLeft /\ (HostStep => WorkLeft' < WorkLeft)]_vars
<1>1. HostInv => WorkLeft \in Nat
  BY WorkCounted
<1>2. HostInv /\ Pursued /\ [Next]_vars => [WorkLeft' <= WorkLeft /\ (HostStep => WorkLeft' < WorkLeft)]_vars
  BY WorkStep
<1> QED
  BY <1>1, <1>2, HostInvAlways, PursuedAlways, PTL DEF Spec
=============================================================================
