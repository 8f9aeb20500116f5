----------------------------- MODULE ProcessHost -----------------------------
(***************************************************************************)
(* Running one authorized local process                                    *)
(* (src/execution/internal/process-host.ts): the callbacks of the child,   *)
(* of its output and of three timers, in any order the operating system    *)
(* allows, until the observation is resolved.  The child leads a process   *)
(* group; its descendants may leave the group, outlive it, and hold the    *)
(* output pipes.  The two output streams are treated alike and are one     *)
(* here; bytes are counted, not told apart.                                *)
(***************************************************************************)
EXTENDS Naturals, FiniteSets

CONSTANTS
  Leader, Descendants, None,
  Limit,      \* maxStdoutBytes, maxStderrBytes
  MaxWritten  \* bound: bytes the processes write

Outcomes == {"EXITED", "SIGNALED", "TIMED_OUT", "OUTPUT_OVERFLOW", "SPAWN_FAILED",
             "TERMINATION_NOT_CONFIRMED"}

ASSUME HostAssumption ==
  /\ Leader \notin Descendants
  /\ None \notin {"code", "signal", "unspawned", "timeout", "overflow"} \cup Outcomes
  /\ Limit \in Nat /\ MaxWritten \in Nat

Procs == {Leader} \cup Descendants

VARIABLES
  \* the operating system
  alive, forked,
  holders,    \* processes with an end of the output pipe open
  stubborn,   \* processes that ignore SIGTERM
  stuck,      \* processes that SIGKILL does not end in time
  apart,      \* descendants that left the process group
  doomed,     \* processes that received a signal they do not ignore
  how,        \* how the leader ended; "unspawned" if it never was
  pipe, written,
  \* the host
  exitSeen, closeSeen, endSeen,
  requested,  \* why termination was requested, or None
  timers,     \* armed timers
  captured, discarded,
  outcome, descendantMayRemainAlive, complete

traits == <<stubborn, stuck, apart>>
processes == <<alive, forked, holders, how>>
output == <<pipe, written>>
seen == <<exitSeen, closeSeen, endSeen>>
capture == <<captured, discarded>>
result == <<outcome, descendantMayRemainAlive, complete>>
vars == <<processes, traits, doomed, output, seen, requested, timers, capture, result>>

TypeOK ==
  /\ alive \subseteq forked /\ holders \subseteq alive /\ forked \subseteq Procs
  /\ stubborn \subseteq Procs /\ stuck \subseteq Procs /\ apart \subseteq Descendants
  /\ doomed \subseteq Procs
  /\ how \in {None, "code", "signal", "unspawned"}
  /\ written \in 0 .. MaxWritten /\ pipe \in 0 .. written
  /\ exitSeen \in BOOLEAN /\ closeSeen \in BOOLEAN /\ endSeen \in BOOLEAN
  /\ requested \in {None, "timeout", "overflow"}
  /\ timers \subseteq {"duration", "grace", "cleanup"}
  /\ captured \in 0 .. Limit /\ discarded \in 0 .. MaxWritten
  /\ outcome \in Outcomes \cup {None}
  /\ descendantMayRemainAlive \in BOOLEAN /\ complete \in BOOLEAN

\* spawn() returned; its failure is reported by an event.
Init ==
  /\ \/ alive = {Leader} /\ how = None
     \/ alive = {} /\ how = "unspawned"
  /\ forked = alive /\ holders = alive
  /\ stubborn \in SUBSET Procs /\ stuck \in SUBSET Procs /\ apart \in SUBSET Descendants
  /\ doomed = {} /\ pipe = 0 /\ written = 0
  /\ exitSeen = FALSE /\ closeSeen = FALSE /\ endSeen = FALSE
  /\ requested = None /\ timers = {"duration"}
  /\ captured = 0 /\ discarded = 0
  /\ outcome = None /\ descendantMayRemainAlive = FALSE /\ complete = FALSE

host == <<seen, requested, timers, capture, result>>

----------------------------------------------------------------------------
\* The processes

Fork(d) ==
  /\ alive # {} /\ d \notin forked
  /\ alive' = alive \cup {d} /\ forked' = forked \cup {d}
  /\ holders' \in {holders, IF holders = {} THEN {} ELSE holders \cup {d}}
  /\ UNCHANGED <<how, traits, doomed, output, host>>

WriteOutput(p) ==
  /\ p \in holders /\ written < MaxWritten
  /\ pipe' = pipe + 1 /\ written' = written + 1
  /\ UNCHANGED <<processes, traits, doomed, host>>

CloseOutput(p) ==
  /\ p \in holders
  /\ holders' = holders \ {p}
  /\ UNCHANGED <<alive, forked, how, traits, doomed, output, host>>

Ends(p, manner) ==
  /\ p \in alive
  /\ alive' = alive \ {p} /\ holders' = holders \ {p}
  /\ how' = IF p = Leader THEN manner ELSE how
  /\ UNCHANGED <<forked, traits, doomed, output, host>>

Exit(p) == Ends(p, "code")

\* A process crashes on a signal of its own, or is killed by another program.
Killed(p) == Ends(p, "signal")

\* A signal of the host ends it.
Succumb(p) == p \in doomed \ stuck /\ Ends(p, "signal")

----------------------------------------------------------------------------
\* The host

SignalGroup(resist) == doomed' = doomed \cup ((alive \ apart) \ resist)

\* Mutant: a truncated capture may be called complete.
ResolveTruncated(o, exited, closed) ==
  LET unconfirmed == requested # None /\ ~exited IN
  /\ outcome' = IF unconfirmed THEN "TERMINATION_NOT_CONFIRMED" ELSE o
  /\ descendantMayRemainAlive' = (unconfirmed \/ ~closed)
  /\ complete' = (closed \/ endSeen)
  /\ timers' = {}

\* finalize, once; terminationObserved is that the leader's exit was seen.
Resolve(o, exited, closed) ==
  LET unconfirmed == requested # None /\ ~exited IN
  /\ outcome' = IF unconfirmed THEN "TERMINATION_NOT_CONFIRMED" ELSE o
  /\ descendantMayRemainAlive' = (unconfirmed \/ ~closed)
  /\ complete' = ((closed \/ endSeen) /\ discarded = 0)
  /\ timers' = {}

\* Mutant: the exit is enough.
ReadyOnExit(exited, closed) == exited

Ready(exited, closed) == exited /\ closed

\* Mutant: whoever died of a signal is reported as such.
OutcomeBySignal ==
  CASE requested = "overflow" -> "OUTPUT_OVERFLOW"
    [] requested # "overflow" /\ how = "signal" -> "SIGNALED"
    [] OTHER -> IF requested = "timeout" THEN "TIMED_OUT" ELSE "EXITED"

\* A death by signal is reported when the host had not asked for it.
OutcomeOf ==
  CASE requested = "overflow" -> "OUTPUT_OVERFLOW"
    [] requested = "timeout" -> "TIMED_OUT"
    [] requested = None /\ how = "signal" -> "SIGNALED"
    [] OTHER -> "EXITED"

MaybeFinish(exited, closed) ==
  IF outcome = None /\ Ready(exited, closed) THEN Resolve(OutcomeOf, exited, closed)
  ELSE UNCHANGED <<result, timers>>

OnExit ==
  /\ how \in {"code", "signal"} /\ ~exitSeen
  /\ exitSeen' = TRUE
  /\ MaybeFinish(TRUE, closeSeen)
  /\ UNCHANGED <<processes, traits, doomed, output, closeSeen, endSeen, requested, capture>>

Drained == holders = {} /\ pipe = 0

OnEnd ==
  /\ how # "unspawned" /\ Drained /\ ~endSeen
  /\ endSeen' = TRUE
  /\ UNCHANGED <<processes, traits, doomed, output, exitSeen, closeSeen, requested, timers,
                 capture, result>>

\* Node emits close after exit and after the end of both streams.
OnClose ==
  /\ exitSeen /\ Drained /\ ~closeSeen
  /\ closeSeen' = TRUE
  /\ MaybeFinish(exitSeen, TRUE)
  /\ UNCHANGED <<processes, traits, doomed, output, exitSeen, endSeen, requested, capture>>

\* The error event follows before any timer can run.
OnSpawnError ==
  /\ how = "unspawned" /\ outcome = None
  /\ exitSeen' = TRUE /\ closeSeen' = TRUE
  /\ Resolve("SPAWN_FAILED", TRUE, TRUE)
  /\ UNCHANGED <<processes, traits, doomed, output, endSeen, requested, capture>>

BeginTermination(reason) ==
  IF requested = None /\ outcome = None
  THEN /\ requested' = reason
       /\ timers' = timers \cup {"grace"}
       /\ SignalGroup(stubborn)
  ELSE UNCHANGED <<requested, timers, doomed>>

Room == Limit - captured

\* Of a chunk of n bytes, those that are kept.
Kept(n) == IF discarded > 0 THEN 0 ELSE IF n <= Room THEN n ELSE Room

OnData ==
  /\ pipe > 0
  /\ \E n \in 1 .. pipe :
       /\ pipe' = pipe - n
       /\ captured' = captured + Kept(n)
       /\ discarded' = discarded + (n - Kept(n))
       /\ IF discarded = 0 /\ Kept(n) < n THEN BeginTermination("overflow")
          ELSE UNCHANGED <<requested, timers, doomed>>
  /\ UNCHANGED <<processes, traits, written, seen, result>>

OnDuration ==
  /\ "duration" \in timers /\ how # "unspawned"
  /\ IF requested = None
     THEN /\ requested' = "timeout"
          /\ timers' = (timers \ {"duration"}) \cup {"grace"}
          /\ SignalGroup(stubborn)
     ELSE timers' = timers \ {"duration"} /\ UNCHANGED <<requested, doomed>>
  /\ UNCHANGED <<processes, traits, output, seen, capture, result>>

\* Mutant: no deadline follows SIGKILL.
OnGraceNoDeadline ==
  /\ "grace" \in timers
  /\ timers' = timers \ {"grace"}
  /\ IF exitSeen THEN UNCHANGED doomed ELSE SignalGroup({})
  /\ UNCHANGED <<processes, traits, output, seen, requested, capture, result>>

\* Nothing more is done once the leader's exit was seen.
OnGrace ==
  /\ "grace" \in timers
  /\ IF exitSeen THEN timers' = timers \ {"grace"} /\ UNCHANGED doomed
     ELSE timers' = (timers \ {"grace"}) \cup {"cleanup"} /\ SignalGroup({})
  /\ UNCHANGED <<processes, traits, output, seen, requested, capture, result>>

OnCleanup ==
  /\ "cleanup" \in timers
  /\ Resolve("TERMINATION_NOT_CONFIRMED", exitSeen, closeSeen)
  /\ UNCHANGED <<processes, traits, doomed, output, seen, requested, capture>>

HostStep ==
  OnExit \/ OnEnd \/ OnClose \/ OnSpawnError \/ OnData \/ OnDuration \/ OnGrace \/ OnCleanup

Next ==
  \/ \E d \in Descendants : Fork(d)
  \/ \E p \in Procs : WriteOutput(p) \/ CloseOutput(p) \/ Exit(p) \/ Killed(p) \/ Succumb(p)
  \/ HostStep

\* Events and timers are delivered, and the host's signals end whom they can; no
\* process owes anything else.
Fairness ==
  /\ WF_vars(OnExit) /\ WF_vars(OnEnd) /\ WF_vars(OnClose) /\ WF_vars(OnSpawnError)
  /\ WF_vars(OnData) /\ WF_vars(OnDuration) /\ WF_vars(OnGrace) /\ WF_vars(OnCleanup)
  /\ \A p \in Procs : WF_vars(Succumb(p))

Spec == Init /\ [][Next]_vars /\ Fairness

----------------------------------------------------------------------------
\* A confirmed outcome is reported when the leader is gone and nobody can add
\* to its output, and it says how the leader ended or why it was ended.
OutcomeTruthful ==
  /\ outcome \in {"EXITED", "SIGNALED", "TIMED_OUT", "OUTPUT_OVERFLOW"} =>
       Leader \notin alive /\ holders = {} /\ captured + discarded = written
  /\ outcome = "EXITED" => how = "code" /\ requested = None
  /\ outcome = "SIGNALED" => how = "signal" /\ requested = None

\* The capture never exceeds its limit, accounts for every byte, and is called
\* complete only if it is all that was ever written.
CaptureTruthful ==
  /\ captured <= Limit
  /\ captured + discarded + pipe = written
  /\ outcome # None /\ complete => captured = written

\* The observation is resolved, unless a descendant keeps the output open for
\* ever: timeout, SIGTERM, SIGKILL and the cleanup deadline follow each other.
EndsUnlessOutputHeld == <>(outcome # None) \/ <>[](holders \cap Descendants # {})

\* process-host.ts: argv fidelity and finite cleanup.
FiniteCleanup == <>(outcome # None)
=============================================================================
