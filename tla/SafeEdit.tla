------------------------------ MODULE SafeEdit ------------------------------
(***************************************************************************)
(* One governed edit of a workspace file, from preparation to its outcome  *)
(* (src/editing): replaceExistingFile publishes a candidate with rename,   *)
(* createFile with a no-overwrite hard link.  Every await of the two       *)
(* functions is a step of its own, so that other calls, other programs,    *)
(* faults, a crash of the process and a power cut can fall between any two *)
(* of them.                                                                *)
(*                                                                         *)
(* A call's candidate is named after the call.  Bytes stand for            *)
(* fingerprints: comparing fingerprints is comparing bytes.                *)
(***************************************************************************)
EXTENDS WorkspaceFs

CONSTANTS
  Changes,     \* prepared-change objects
  Auths,       \* EditAuthorization objects
  Action,      \* Changes -> {"modify", "create"}
  Target,      \* Changes -> Paths
  After,       \* Changes -> Bytes, the proposed bytes
  None,        \* no change, nothing observed, no outcome yet
  Outsider,    \* the author of a path no call has published
  MaxOutside   \* bound: how often other programs interfere

Calls == Temps

Outcomes == {"SUCCESS", "COMMITTED_FAILURE", "FAILED_PRECOMMIT", "REFUSED_PRECOMMIT"}

ASSUME EditAssumption ==
  /\ Action \in [Changes -> {"modify", "create"}]
  /\ Target \in [Changes -> Paths]
  /\ After \in [Changes -> Bytes]
  /\ None \notin Changes \cup Bytes \cup Entries \cup Auths \cup Outcomes
  /\ Outsider \notin Calls
  /\ MaxOutside \in Nat

VARIABLES
  config,    \* the project configuration file, for these targets
  before,    \* change -> bytes the preparation observed (Absent for a creation)
  auth,      \* authorization -> "unused", "issued", "consumed", "lost"
  bound,     \* authorization -> the change it authorizes
  pc,        \* call -> the step it awaits
  ofChange,  \* call -> its prepared change
  byAuth,    \* call -> the authorization it consumed
  cfg,       \* call -> the configuration it reloaded
  seen,      \* call -> dev/ino captured before the candidate is written
  outcome,   \* call -> the outcome it returned
  flagged,   \* calls whose outcome carries cleanupFailure
  durable,   \* calls whose directory fsync succeeded
  outside,   \* interferences so far
  author,    \* history: path -> the call that last published it
  raced      \* history: calls whose target was changed by somebody else
             \* after their last look at it and before they published

callVars == <<pc, ofChange, byAuth, cfg, seen, outcome, flagged, durable>>
vars == <<fsVars, config, before, auth, bound, callVars, outside, author, raced>>

Configs == {"allows", "denies", "unreadable"}
Committed == {"SUCCESS", "COMMITTED_FAILURE"}

Preparing == {"reload", "screen1", "observe1", "identify1"}
Candidate == {"open", "write", "sync"}
Final == {"screen2", "observe2", "identify2", "publish"}
Publishing == {"drop", "syncdir", "verify"}
PCs == {"idle"} \cup Preparing \cup Candidate \cup Final \cup Publishing
         \cup {"done", "dead"}

T(c) == Target[ofChange[c]]
Modifies(c) == Action[ofChange[c]] = "modify"
At(c, step) == pc[c] = step
Running(c) == pc[c] \notin {"idle", "done", "dead"}

TypeOK ==
  /\ FsTypeOK
  /\ config \in Configs
  /\ before \in [Changes -> Bytes \cup {Absent, None, Torn}]
  /\ auth \in [Auths -> {"unused", "issued", "consumed", "lost"}]
  /\ bound \in [Auths -> Changes \cup {None}]
  /\ pc \in [Calls -> PCs]
  /\ ofChange \in [Calls -> Changes \cup {None}]
  /\ byAuth \in [Calls -> Auths \cup {None}]
  /\ cfg \in [Calls -> Configs \cup {None}]
  /\ seen \in [Calls -> Entries \cup {None}]
  /\ outcome \in [Calls -> Outcomes \cup {None}]
  /\ flagged \in SUBSET Calls
  /\ durable \in SUBSET Calls
  /\ outside \in 0 .. MaxOutside
  /\ author \in [Paths -> Calls \cup {Outsider}]
  /\ raced \in SUBSET Calls

Init ==
  /\ FsInit
  /\ config = "allows"
  /\ before = [ch \in Changes |-> None]
  /\ auth = [a \in Auths |-> "unused"]
  /\ bound = [a \in Auths |-> None]
  /\ pc = [c \in Calls |-> "idle"]
  /\ ofChange = [c \in Calls |-> None]
  /\ byAuth = [c \in Calls |-> None]
  /\ cfg = [c \in Calls |-> None]
  /\ seen = [c \in Calls |-> None]
  /\ outcome = [c \in Calls |-> None]
  /\ flagged = {}
  /\ durable = {}
  /\ outside = 0
  /\ author = [p \in Paths |-> Outsider]
  /\ raced = {}

------------------------------------------------------------------------------
(* Preparation and authorization.                                           *)

\* prepareModifyExistingFile, prepareCreateFile.
Prepare(ch) ==
  /\ before[ch] = None
  /\ config = "allows"
  /\ IF Action[ch] = "modify"
     THEN /\ Exists(Target[ch])
          /\ before' = [before EXCEPT ![ch] = Content(Target[ch])]
     ELSE /\ ~Exists(Target[ch])
          /\ before' = [before EXCEPT ![ch] = Absent]
  /\ UNCHANGED <<fsVars, config, auth, bound, callVars, outside, author, raced>>

\* authorizePreparedChange: the configuration it consults is the one captured
\* at preparation, so today's configuration plays no part.
Authorize(a, ch) ==
  /\ auth[a] = "unused"
  /\ before[ch] # None
  /\ auth' = [auth EXCEPT ![a] = "issued"]
  /\ bound' = [bound EXCEPT ![a] = ch]
  /\ UNCHANGED <<fsVars, config, before, callVars, outside, author, raced>>

\* Mutant: an authorization that was already consumed is accepted again.
ConsumableAgain(a, ch) == auth[a] \in {"issued", "consumed"} /\ bound[a] = ch

\* consumeEditAuthorization: registered, not consumed, same prepared object.
Consumable(a, ch) == auth[a] = "issued" /\ bound[a] = ch

\* The call's synchronous part, up to its first await.
Invoke(c, a, ch) ==
  /\ At(c, "idle")
  /\ before[ch] # None
  /\ auth[a] \in {"issued", "consumed"}
  /\ ofChange' = [ofChange EXCEPT ![c] = ch]
  /\ IF Consumable(a, ch)
     THEN /\ auth' = [auth EXCEPT ![a] = "consumed"]
          /\ byAuth' = [byAuth EXCEPT ![c] = a]
          /\ pc' = [pc EXCEPT ![c] = "reload"]
          /\ UNCHANGED outcome
     ELSE /\ pc' = [pc EXCEPT ![c] = "done"]
          /\ outcome' = [outcome EXCEPT ![c] = "REFUSED_PRECOMMIT"]
          /\ UNCHANGED <<auth, byAuth>>
  /\ UNCHANGED <<fsVars, config, before, bound, cfg, seen, flagged, durable,
                 outside, author, raced>>

------------------------------------------------------------------------------
(* How a step ends.                                                         *)

requestVars == <<config, before, auth, bound, ofChange, byAuth, outside>>

Goto(c, step) ==
  /\ pc' = [pc EXCEPT ![c] = step]
  /\ UNCHANGED <<requestVars, outcome>>

Return(c, result) ==
  /\ pc' = [pc EXCEPT ![c] = "done"]
  /\ outcome' = [outcome EXCEPT ![c] = result]
  /\ UNCHANGED <<requestVars, cfg, seen, durable, author, raced>>

\* Before a candidate exists nothing has to be undone.
Refuse(c) == Return(c, "REFUSED_PRECOMMIT") /\ UNCHANGED <<fsVars, flagged>>
Fail(c) == Return(c, "FAILED_PRECOMMIT") /\ UNCHANGED <<fsVars, flagged>>

\* cleanupTemp and withCleanup: unlink the candidate, or flag that it stays.
Abort(c, result) ==
  /\ Return(c, result)
  /\ \/ Unlink(c) /\ UNCHANGED flagged
     \/ flagged' = flagged \cup {c} /\ UNCHANGED fsVars

Quiet == UNCHANGED <<fsVars, cfg, seen, flagged, durable, author, raced>>

------------------------------------------------------------------------------
(* Before the candidate.                                                    *)

\* resolveMutationConfig: one reload serves the whole call.
Reload(c) ==
  /\ At(c, "reload")
  /\ cfg' = [cfg EXCEPT ![c] = config]
  /\ IF config = "unreadable"
     THEN /\ pc' = [pc EXCEPT ![c] = "done"]
          /\ outcome' = [outcome EXCEPT ![c] = "REFUSED_PRECOMMIT"]
          /\ UNCHANGED requestVars
     ELSE Goto(c, "screen1")
  /\ UNCHANGED <<fsVars, seen, flagged, durable, author, raced>>

\* Mutant: the restrictions of the reloaded configuration are not consulted.
AdmittedUnrestricted(c) == Modifies(c) => Exists(T(c))

\* runRestrictionRechecks and the canonicalization that follows it.
Admitted(c) == cfg[c] = "allows" /\ (Modifies(c) => Exists(T(c)))

Screen1(c) ==
  /\ At(c, "screen1")
  /\ \/ /\ Admitted(c)
        /\ Goto(c, IF Modifies(c) THEN "observe1" ELSE "identify1")
        /\ Quiet
     \/ Refuse(c)

\* readBeforeState with refuseIfBeforeMismatch; proveCurrentAbsence.
AsPrepared(c) ==
  IF Modifies(c) THEN Exists(T(c)) /\ Content(T(c)) = before[ofChange[c]]
                 ELSE ~Exists(T(c))

Observe1(c) ==
  /\ At(c, "observe1")
  /\ \/ /\ AsPrepared(c)
        /\ Goto(c, IF Modifies(c) THEN "identify1" ELSE "open")
        /\ Quiet
     \/ Refuse(c)
     \/ Modifies(c) /\ Fail(c)

\* Mutant: captures the fingerprint where the identity belongs.
Identify1Content(c) ==
  /\ At(c, "identify1")
  /\ \/ /\ Modifies(c)
        /\ Exists(T(c)) /\ ~HardLinked(T(c))
        /\ seen' = [seen EXCEPT ![c] = Content(T(c))]
        /\ Goto(c, "open")
        /\ UNCHANGED <<fsVars, cfg, flagged, durable, author, raced>>
     \/ ~Modifies(c) /\ Goto(c, "observe1") /\ Quiet
     \/ Refuse(c)

\* lstatTarget with refuseIfMetadataInvalid; revalidateParent.
Identify1(c) ==
  /\ At(c, "identify1")
  /\ \/ /\ Modifies(c)
        /\ Exists(T(c)) /\ ~HardLinked(T(c))
        /\ seen' = [seen EXCEPT ![c] = dir[T(c)]]
        /\ Goto(c, "open")
        /\ UNCHANGED <<fsVars, cfg, flagged, durable, author, raced>>
     \/ ~Modifies(c) /\ Goto(c, "observe1") /\ Quiet
     \/ Refuse(c)

------------------------------------------------------------------------------
(* The candidate: prepareTempCandidate, prepareCreateCandidate.             *)

CandidateStep == UNCHANGED <<cfg, seen, flagged, durable, author, raced>>

Open(c) ==
  /\ At(c, "open")
  /\ \E i \in Inodes : OpenExclusive(c, i)
  /\ Goto(c, "write")
  /\ CandidateStep

Write(c) ==
  /\ At(c, "write")
  /\ WriteAll(c, After[ofChange[c]])
  /\ Goto(c, "sync")
  /\ CandidateStep

\* Mutant: the candidate is published without having been fsynced.
SyncSkipped(c) ==
  /\ At(c, "sync")
  /\ UNCHANGED fsVars
  /\ Goto(c, "screen2")
  /\ CandidateStep

\* fsync, ownership and mode, fsync again, read back, close.
Sync(c) ==
  /\ At(c, "sync")
  /\ FsyncFile(c)
  /\ Goto(c, "screen2")
  /\ CandidateStep

\* Any throw among those calls: the catch block cleans up and drops what
\* cleanupTemp reports.
CandidateFault(c) ==
  /\ pc[c] \in Candidate
  /\ Return(c, "FAILED_PRECOMMIT")
  /\ UNCHANGED flagged
  /\ Unlink(c) \/ UNCHANGED fsVars

------------------------------------------------------------------------------
(* The second look, and publication.                                        *)

Screen2(c) ==
  /\ At(c, "screen2")
  /\ \/ /\ Admitted(c)
        /\ Goto(c, IF Modifies(c) THEN "observe2" ELSE "identify2")
        /\ Quiet
     \/ Abort(c, "REFUSED_PRECOMMIT")

\* Mutant: the target is not read again once the candidate is ready.
Observe2Skipped(c) ==
  /\ At(c, "observe2")
  /\ Goto(c, IF Modifies(c) THEN "identify2" ELSE "publish")
  /\ Quiet

\* A replacement whose target no longer matches has failed; a creation whose
\* target now exists is refused.
Observe2(c) ==
  /\ At(c, "observe2")
  /\ \/ /\ AsPrepared(c)
        /\ Goto(c, IF Modifies(c) THEN "identify2" ELSE "publish")
        /\ Quiet
     \/ Abort(c, IF Modifies(c) THEN "FAILED_PRECOMMIT" ELSE "REFUSED_PRECOMMIT")

Identify2(c) ==
  /\ At(c, "identify2")
  /\ \/ /\ Modifies(c) => /\ Exists(T(c)) /\ ~HardLinked(T(c))
                          /\ dir[T(c)] = seen[c]
        /\ Goto(c, IF Modifies(c) THEN "publish" ELSE "observe2")
        /\ Quiet
     \/ Abort(c, "FAILED_PRECOMMIT")
     \/ /\ Modifies(c) => Exists(T(c)) /\ HardLinked(T(c))
        /\ Abort(c, "REFUSED_PRECOMMIT")

\* Calls that have looked at path p for the last time and not yet published.
\* (A creation looks again after identify2; marking it early is harmless.)
Watching(p) == {c \in Calls : pc[c] \in {"identify2", "publish"} /\ T(c) = p}

Published(c) ==
  /\ author' = [author EXCEPT ![T(c)] = c]
  /\ raced' = raced \cup (Watching(T(c)) \ {c})
  /\ UNCHANGED <<cfg, seen, flagged, durable>>

\* Mutant: a creation is published with rename as well.
PublishByRename(c) ==
  /\ At(c, "publish")
  /\ RenameOver(c, T(c))
  /\ Goto(c, "syncdir")
  /\ Published(c)

\* renameAtomic, or linkNoOverwrite, which fails with EEXIST.
Publish(c) ==
  /\ At(c, "publish")
  /\ IF Modifies(c)
     THEN RenameOver(c, T(c)) /\ Goto(c, "syncdir")
     ELSE LinkNoOverwrite(c, T(c)) /\ Goto(c, "drop")
  /\ Published(c)

PublishFault(c) ==
  /\ At(c, "publish")
  /\ \/ Abort(c, "FAILED_PRECOMMIT")
     \/ ~Modifies(c) /\ Exists(T(c)) /\ Abort(c, "REFUSED_PRECOMMIT")

------------------------------------------------------------------------------
(* After publication nothing is rolled back.                                *)

\* createFile removes the candidate's own name.
Drop(c) ==
  /\ At(c, "drop")
  /\ Goto(c, "syncdir")
  /\ \/ Unlink(c) /\ UNCHANGED flagged
     \/ flagged' = flagged \cup {c} /\ UNCHANGED fsVars
  /\ UNCHANGED <<cfg, seen, durable, author, raced>>

SyncDir(c) ==
  /\ At(c, "syncdir")
  /\ Goto(c, "verify")
  /\ \/ FsyncDirectory /\ durable' = durable \cup {c}
     \/ UNCHANGED <<fsVars, durable>>
  /\ UNCHANGED <<cfg, seen, flagged, author, raced>>

\* Mutant: a failed directory fsync does not count.
VerifiedNotDurable(c) ==
  /\ Exists(T(c)) /\ Content(T(c)) = After[ofChange[c]]
  /\ c \notin flagged

\* readRepositoryContent of the target; verifyPublishedCreation.
Verified(c) ==
  /\ Exists(T(c)) /\ Content(T(c)) = After[ofChange[c]]
  /\ c \in durable
  /\ c \notin flagged

Verify(c) ==
  /\ At(c, "verify")
  /\ \/ Verified(c) /\ Return(c, "SUCCESS")
     \/ Return(c, "COMMITTED_FAILURE")
  /\ UNCHANGED <<fsVars, flagged>>

CallStep(c) ==
  \/ Reload(c) \/ Screen1(c) \/ Observe1(c) \/ Identify1(c)
  \/ Open(c) \/ Write(c) \/ Sync(c) \/ CandidateFault(c)
  \/ Screen2(c) \/ Observe2(c) \/ Identify2(c)
  \/ Publish(c) \/ PublishFault(c)
  \/ Drop(c) \/ SyncDir(c) \/ Verify(c)

------------------------------------------------------------------------------
(* Other programs, a crash of the process, a power cut.                     *)

requestAndCalls == <<before, auth, bound, callVars>>

OutsideChange(p) ==
  /\ outside < MaxOutside
  /\ outside' = outside + 1
  /\ \/ \E b \in Bytes : OverwriteInPlace(p, b)
     \/ \E b \in Bytes, i \in Inodes : SaveAsNewFile(p, b, i)
     \/ Remove(p)
  /\ author' = [author EXCEPT ![p] = Outsider]
  /\ raced' = raced \cup Watching(p)
  /\ UNCHANGED <<requestAndCalls, config>>

OutsideLink(p) ==
  /\ outside < MaxOutside
  /\ outside' = outside + 1
  /\ AddHardLink(p)
  /\ UNCHANGED <<requestAndCalls, config, author, raced>>

Reconfigure ==
  /\ outside < MaxOutside
  /\ outside' = outside + 1
  /\ config' \in Configs \ {config}
  /\ UNCHANGED <<fsVars, requestAndCalls, author, raced>>

\* Prepared changes and the authorization registry live in memory only.
ProcessDies ==
  /\ pc' = [c \in Calls |-> IF Running(c) THEN "dead" ELSE pc[c]]
  /\ before' = [ch \in Changes |-> None]
  /\ auth' = [a \in Auths |-> IF auth[a] = "unused" THEN "unused" ELSE "lost"]
  /\ UNCHANGED <<config, bound, ofChange, byAuth, cfg, seen, outcome, flagged,
                 durable, outside, raced>>

Crash == ProcessDies /\ UNCHANGED <<fsVars, author>>

PowerLoss ==
  /\ ProcessDies
  /\ PowerCut
  /\ author' = [p \in Paths |-> IF dir'[p] = dir[p] THEN author[p] ELSE Outsider]

Next ==
  \/ \E ch \in Changes : Prepare(ch)
  \/ \E a \in Auths, ch \in Changes : Authorize(a, ch)
  \/ \E c \in Calls, a \in Auths, ch \in Changes : Invoke(c, a, ch)
  \/ \E c \in Calls : CallStep(c)
  \/ \E p \in Paths : OutsideChange(p) \/ OutsideLink(p)
  \/ Reconfigure
  \/ Crash
  \/ PowerLoss

Spec == Init /\ [][Next]_vars

------------------------------------------------------------------------------
(* Properties.                                                              *)

\* A replacement destroys exactly the bytes it was prepared against, and the
\* very file it captured, unless somebody changed the target in the window
\* between the last look and the rename (rename cannot compare and swap); and,
\* whatever was raced, a creation never replaces a file that exists.
NoBlindOverwrite ==
  [][\A c \in Calls : At(c, "publish") /\ pc'[c] \in Publishing =>
       IF Modifies(c)
       THEN pc'[c] = "syncdir" /\ c \notin raced
              => Content(T(c)) = before[ofChange[c]] /\ dir[T(c)] = seen[c]
       ELSE ~Exists(T(c))]_vars

\* One authorization lets at most one call past its gate, only for the change
\* it was issued for, however calls interleave and across a restart.
OneCallPerAuthorization ==
  \A c \in Calls : byAuth[c] # None =>
    /\ bound[byAuth[c]] = ofChange[c]
    /\ \A d \in Calls : byAuth[d] = byAuth[c] => d = c

\* A call leaves something in the workspace (a candidate or a published
\* file) only if the configuration read after its authorization was consumed
\* allowed the edit.
NothingWrittenUnlessAllowed ==
  \A c \in Calls : Exists(c) \/ c \in {author[p] : p \in Paths}
                     => cfg[c] = "allows" /\ byAuth[c] # None

\* No path ever shows, nor would show after a power cut, incomplete bytes.
NeverTorn ==
  \A p \in Paths :
    /\ Exists(p) => Content(p) \in Bytes
    /\ disk[p] # Absent => disk[p] \in synced /\ data[disk[p]] \in Bytes

\* The bytes of a call that reported SUCCESS stay at its target, across
\* crashes and power cuts, until somebody else changes that path.
DurableSuccess ==
  \A c \in Calls : outcome[c] = "SUCCESS" /\ author[T(c)] = c =>
    /\ Exists(T(c)) /\ Content(T(c)) = After[ofChange[c]]
    /\ disk[T(c)] = dir[T(c)] /\ dir[T(c)] \in synced

------------------------------------------------------------------------------
(* SafeEdit implements EditContract.                                        *)

FileOf(entry) == [p \in Paths |-> IF entry[p] = Absent THEN Absent ELSE data[entry[p]]]

Standing(c) ==
  CASE pc[c] = "done" -> outcome[c]
    [] pc[c] \in {"drop", "syncdir"} -> "published"
    [] pc[c] = "verify" -> IF c \in durable THEN "settled" ELSE "published"
    [] pc[c] \in {"idle", "dead"} -> pc[c]
    [] OTHER -> "working"

Contract == INSTANCE EditContract WITH
  Calls <- Temps,
  file <- FileOf(dir),
  saved <- FileOf(disk),
  goal <- ofChange,
  standing <- [c \in Calls |-> Standing(c)]

\* Seen from outside, a call is one atomic publication of exactly the approved
\* bytes followed by an honest outcome; only an unsaved path can fall back.
ImplementsContract == Contract!Spec

==============================================================================
