--------------------------- MODULE CandidateBytes ---------------------------
(***************************************************************************)
(* The three byte loops of src/editing/atomic-fs.ts, one system call at a  *)
(* time: writeAll into the candidate, readCandidateBytes that verifies it  *)
(* before publication, and verifyPublishedCreation that reads the          *)
(* published file.  Every call may transfer fewer bytes than it was asked  *)
(* for, as read(2) and write(2) may.  SafeEdit takes each loop as a step.  *)
(* LoopInit, LoopNext and LoopSpec are named apart from SafeEdit's, since  *)
(* one module holds the proofs about both.                                 *)
(***************************************************************************)
EXTENDS Naturals, Sequences

CONSTANTS
  Byte,        \* byte values
  MaxLen,      \* bound: length of the approved bytes
  LosesTail    \* whether storage may lose the end of a candidate

ASSUME BytesAssumption == MaxLen \in Nat /\ LosesTail \in BOOLEAN

VARIABLES
  approved,    \* the bytes the human approved
  file,        \* the bytes the candidate's inode holds
  buffer,      \* the bytes the running read loop has collected
  phase

loopVars == <<approved, file, buffer, phase>>

Phases == {"write", "readback", "accepted", "rejected", "verify",
           "confirmed", "unconfirmed"}

Contents == UNION {[1 .. n -> Byte] : n \in 0 .. MaxLen}

LoopTypeOK ==
  /\ approved \in Contents
  /\ file \in Contents
  /\ buffer \in Contents
  /\ phase \in Phases

LoopInit ==
  /\ approved \in Contents
  /\ file = <<>>
  /\ buffer = <<>>
  /\ phase = "write"

\* handle.write without a position appends at the file offset.
WriteChunk ==
  /\ phase = "write"
  /\ Len(file) < Len(approved)
  /\ \E n \in 1 .. Len(approved) - Len(file) :
       file' = file \o SubSeq(approved, Len(file) + 1, Len(file) + n)
  /\ UNCHANGED <<approved, buffer, phase>>

\* A write that makes no progress throws.
WriteStalls ==
  /\ phase = "write"
  /\ Len(file) < Len(approved)
  /\ phase' = "rejected"
  /\ UNCHANGED <<approved, file, buffer>>

WriteDone ==
  /\ phase = "write"
  /\ Len(file) = Len(approved)
  /\ phase' = "readback"
  /\ UNCHANGED <<approved, file, buffer>>

\* The fault the read-back is there to catch.
LoseTail ==
  /\ LosesTail
  /\ phase = "readback" /\ buffer = <<>>
  /\ \E n \in 0 .. Len(file) : file' = SubSeq(file, 1, n)
  /\ UNCHANGED <<approved, buffer, phase>>

\* One read of at most room bytes from a file position; empty only at the end.
Reads(position, room) ==
  LET left == Len(file) - position IN
  {SubSeq(file, position + 1, position + n) :
     n \in IF left = 0 THEN {0} ELSE {k \in 1 .. room : k <= left}}

\* Mutant: a read that returns nothing is tried again.
ReadCandidateForEver ==
  /\ phase = "readback"
  /\ Len(buffer) < Len(approved)
  /\ \E chunk \in Reads(0, Len(approved) - Len(buffer)) : buffer' = buffer \o chunk
  /\ UNCHANGED <<approved, file, phase>>

\* handle.read(buffer, offset, expectedLength - offset, 0): every read of this
\* loop starts at the beginning of the file.
ReadCandidateChunk ==
  /\ phase = "readback"
  /\ Len(buffer) < Len(approved)
  /\ \E chunk \in Reads(0, Len(approved) - Len(buffer)) :
       IF chunk = <<>> THEN phase' = "rejected" /\ UNCHANGED buffer
                       ELSE buffer' = buffer \o chunk /\ UNCHANGED phase
  /\ UNCHANGED <<approved, file>>

\* The fingerprint of what was read against the approved fingerprint.
CompareCandidate ==
  /\ phase = "readback"
  /\ Len(buffer) = Len(approved)
  /\ phase' = IF buffer = approved THEN "accepted" ELSE "rejected"
  /\ UNCHANGED <<approved, file, buffer>>

\* Published as it is; createFile then verifies it from the path.
StartVerification ==
  /\ phase = "accepted"
  /\ buffer' = <<>>
  /\ phase' = "verify"
  /\ UNCHANGED <<approved, file>>

\* Here each read starts where the previous one ended, up to stat.size.
VerifyChunk ==
  /\ phase = "verify"
  /\ Len(buffer) < Len(file)
  /\ \E chunk \in Reads(Len(buffer), Len(file) - Len(buffer)) :
       IF chunk = <<>> THEN phase' = "unconfirmed" /\ UNCHANGED buffer
                       ELSE buffer' = buffer \o chunk /\ UNCHANGED phase
  /\ UNCHANGED <<approved, file>>

\* Mutant: only the bytes that are there are compared, not their number.
CompareCreationPrefix ==
  /\ phase = "verify"
  /\ Len(buffer) = Len(file)
  /\ phase' = IF buffer = SubSeq(approved, 1, Len(buffer)) THEN "confirmed"
                                                          ELSE "unconfirmed"
  /\ UNCHANGED <<approved, file, buffer>>

\* The fingerprint and length observed against the approved ones.
CompareCreation ==
  /\ phase = "verify"
  /\ Len(buffer) = Len(file)
  /\ phase' = IF buffer = approved THEN "confirmed" ELSE "unconfirmed"
  /\ UNCHANGED <<approved, file, buffer>>

Code ==
  \/ WriteChunk \/ WriteStalls \/ WriteDone
  \/ ReadCandidateChunk \/ CompareCandidate
  \/ StartVerification \/ VerifyChunk \/ CompareCreation

LoopNext == Code \/ LoseTail

\* An I/O call returns in the end.
LoopSpec == LoopInit /\ [][LoopNext]_loopVars /\ WF_loopVars(Code)

------------------------------------------------------------------------------
\* A creation reported as verified holds the approved bytes, all of them and
\* nothing else, however the reads were split.
ConfirmedIsApproved == phase = "confirmed" => file = approved

\* No loop runs for ever: a call that transfers nothing ends it.
LoopsEnd == <>(phase \in {"rejected", "confirmed", "unconfirmed"})

==============================================================================
