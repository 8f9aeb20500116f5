---------------------------- MODULE EffectLedger ----------------------------
(***************************************************************************)
(* What a durable operation with one effect on a provider promises: intent *)
(* first, the effect requested at most once and never after its outcome    *)
(* has been waited for, a refusal only of what was never requested.  The   *)
(* effect itself may come late, whatever the ledger says by then.          *)
(***************************************************************************)
CONSTANTS
  Ops,
  MustHappen  \* of these, the operations that may only be finished once the effect happened

VARIABLES phase, effect

vars == <<phase, effect>>

Init ==
  /\ phase \in [Ops -> {"idle", "done"}]
  /\ effect = [o \in Ops |-> IF phase[o] = "done" THEN "happened" ELSE "none"]

Move(o, from, to) == phase[o] = from /\ phase' = [phase EXCEPT ![o] = to]

Request(o) == effect[o] = "none" /\ effect' = [effect EXCEPT ![o] = "requested"]

Intend(o) == Move(o, "idle", "intended") /\ UNCHANGED effect

Attempt(o) == Move(o, "intended", "attempted") /\ UNCHANGED effect

RequestAttempted(o) == phase[o] = "attempted" /\ Request(o) /\ UNCHANGED phase

RequestAndWait(o) == Move(o, "intended", "awaiting") /\ Request(o)

Wait(o) == Move(o, "attempted", "awaiting") /\ UNCHANGED effect

Finish(o) ==
  /\ o \in MustHappen => effect[o] = "happened"
  /\ Move(o, "awaiting", "done")
  /\ UNCHANGED effect

Refuse(o) == effect[o] = "none" /\ Move(o, "attempted", "refused") /\ UNCHANGED effect

Happen(o) ==
  /\ effect[o] = "requested"
  /\ effect' = [effect EXCEPT ![o] = "happened"]
  /\ UNCHANGED phase

\* One operation at a time.
Next ==
  \E o \in Ops :
    /\ phase'[o] # phase[o] \/ effect'[o] # effect[o]
    /\ \/ Intend(o) \/ Attempt(o) \/ RequestAttempted(o) \/ RequestAndWait(o)
       \/ Wait(o) \/ Finish(o) \/ Refuse(o) \/ Happen(o)

Spec == Init /\ [][Next]_vars
=============================================================================
