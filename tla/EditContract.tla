---------------------------- MODULE EditContract ----------------------------
(***************************************************************************)
(* What src/editing promises its callers, with no candidates, inodes or    *)
(* intermediate checks (outcomes of src/editing/types.ts): each call       *)
(* publishes the whole of its approved bytes in one step or nothing at all,*)
(* a creation only where no file is, and reports SUCCESS only after its    *)
(* publication has been made durable.                                      *)
(***************************************************************************)
CONSTANTS Paths, Calls, Changes, Action, Target, After, Bytes, Absent, None

VARIABLES
  file,      \* path -> its bytes, or Absent
  saved,     \* path -> the bytes a power cut cannot take away
  goal,      \* call -> the change it carries out
  standing   \* call -> how far it is, or how it ended

vars == <<file, saved, goal, standing>>

Contents == Bytes \cup {Absent}

Init ==
  /\ file \in [Paths -> Contents]
  /\ saved = file
  /\ goal = [c \in Calls |-> None]
  /\ standing = [c \in Calls |-> "idle"]

Becomes(c, s) == standing' = [standing EXCEPT ![c] = s]

\* A call is turned away at its gate, or starts to work on its change.
Begin(c, ch) ==
  /\ standing[c] = "idle"
  /\ goal' = [goal EXCEPT ![c] = ch]
  /\ Becomes(c, "working") \/ Becomes(c, "REFUSED_PRECOMMIT")
  /\ UNCHANGED <<file, saved>>

\* The commit point.
Publish(c) ==
  LET p == Target[goal[c]] IN
  /\ standing[c] = "working"
  /\ Action[goal[c]] = "create" => file[p] = Absent
  /\ file' = [file EXCEPT ![p] = After[goal[c]]]
  /\ Becomes(c, "published")
  /\ UNCHANGED <<saved, goal>>

Settle(c) ==
  /\ standing[c] = "published"
  /\ saved' = file
  /\ Becomes(c, "settled")
  /\ UNCHANGED <<file, goal>>

End(c) ==
  /\ \/ /\ standing[c] = "working"
        /\ Becomes(c, "REFUSED_PRECOMMIT") \/ Becomes(c, "FAILED_PRECOMMIT")
     \/ /\ standing[c] \in {"published", "settled"}
        /\ Becomes(c, "COMMITTED_FAILURE")
     \/ /\ standing[c] = "settled"
        /\ file[Target[goal[c]]] = After[goal[c]]
        /\ Becomes(c, "SUCCESS")
  /\ UNCHANGED <<file, saved, goal>>

\* Somebody else changes one path, durably.
Outside(p, b) ==
  /\ file' = [file EXCEPT ![p] = b]
  /\ saved' = [saved EXCEPT ![p] = b]
  /\ UNCHANGED <<goal, standing>>

\* The process dies; a power cut may also take back what is not saved.
Crash ==
  /\ standing' = [c \in Calls |->
       IF standing[c] \in {"working", "published", "settled"} THEN "dead"
       ELSE standing[c]]
  /\ \/ UNCHANGED <<file, saved>>
     \/ \E kept \in SUBSET Paths :
          /\ file' = [p \in Paths |-> IF p \in kept THEN file[p] ELSE saved[p]]
          /\ saved' = file'
  /\ UNCHANGED goal

Next ==
  \/ \E c \in Calls : \/ \E ch \in Changes : Begin(c, ch)
                      \/ Publish(c) \/ Settle(c) \/ End(c)
  \/ \E p \in Paths, b \in Contents : Outside(p, b)
  \/ Crash

Spec == Init /\ [][Next]_vars
==============================================================================
