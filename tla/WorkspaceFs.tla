---------------------------- MODULE WorkspaceFs ----------------------------
(***************************************************************************)
(* The file system as src/editing/atomic-fs.ts uses it: one directory of   *)
(* names, inodes with contents, and what of both has reached the disk.     *)
(* The file system itself is external code; each operator below is one     *)
(* call of the AtomicReplaceFsOps interface, or what a person, another     *)
(* program or a power cut may do to the directory between two such calls.  *)
(*                                                                         *)
(* Assumptions on the outside world, stated once:                          *)
(*   - rename, link and unlink are atomic in the running system;           *)
(*   - data not fsynced may be torn by a power cut, a directory entry not  *)
(*     fsynced may come back as it was at the last directory fsync;        *)
(*   - other programs' changes are durable at once and never touch a       *)
(*     candidate, whose name carries 128 random bits.                      *)
(***************************************************************************)
EXTENDS Naturals, FiniteSets

CONSTANTS
  Paths,    \* names of workspace files an edit may target
  Temps,    \* names of candidates (".path-code-replace-*", ".path-code-create-*")
  Alias,    \* one further name, for a hard link made by somebody else
  Inodes,
  Bytes,    \* complete file contents
  Torn,     \* incomplete or power-cut contents
  Absent    \* what a name that does not exist is bound to

ASSUME FsAssumption ==
  /\ Absent \notin Inodes
  /\ Torn \notin Bytes
  /\ Paths \cap Temps = {}
  /\ Alias \notin Paths \cup Temps

VARIABLES
  dir,      \* the directory: name -> inode or Absent
  disk,     \* the durable entry of each path
  data,     \* inode -> content
  synced    \* inodes whose content has been fsynced

fsVars == <<dir, disk, data, synced>>

Names == Paths \cup Temps \cup {Alias}
Entries == Inodes \cup {Absent}

FsTypeOK ==
  /\ dir \in [Names -> Entries]
  /\ disk \in [Paths -> Entries]
  /\ data \in [Inodes -> Bytes \cup {Torn}]
  /\ synced \in SUBSET Inodes

\* Every path either does not exist or holds complete, durable bytes.
FsInit ==
  \E held \in [Paths -> Entries] :
    /\ \A p, q \in Paths : held[p] = held[q] => p = q \/ held[p] = Absent
    /\ dir = [n \in Names |-> IF n \in Paths THEN held[n] ELSE Absent]
    /\ disk = held
    /\ synced = {held[p] : p \in Paths} \ {Absent}
    /\ data \in [Inodes -> Bytes \cup {Torn}]
    /\ \A i \in Inodes : (data[i] = Torn) <=> (i \notin synced)

Exists(n) == dir[n] # Absent
Content(n) == data[dir[n]]

\* stat.nlink > 1: another name leads to the same inode.
HardLinked(n) == \E m \in Names \ {n} : dir[m] = dir[n]

\* An inode number is given out again once no name, live or durable, has it.
Free(i) ==
  /\ \A n \in Names : dir[n] # i
  /\ \A p \in Paths : disk[p] # i

------------------------------------------------------------------------------
(* The calls of AtomicReplaceFsOps.                                         *)

OpenExclusive(t, i) ==
  /\ dir[t] = Absent
  /\ Free(i)
  /\ dir' = [dir EXCEPT ![t] = i]
  /\ data' = [data EXCEPT ![i] = Torn]
  /\ synced' = synced \ {i}
  /\ UNCHANGED disk

WriteAll(t, b) ==
  /\ data' = [data EXCEPT ![dir[t]] = b]
  /\ UNCHANGED <<dir, disk, synced>>

FsyncFile(t) ==
  /\ synced' = synced \cup {dir[t]}
  /\ UNCHANGED <<dir, disk, data>>

RenameOver(t, p) ==
  /\ dir' = [dir EXCEPT ![p] = dir[t], ![t] = Absent]
  /\ UNCHANGED <<disk, data, synced>>

LinkNoOverwrite(t, p) ==
  /\ dir[p] = Absent
  /\ dir' = [dir EXCEPT ![p] = dir[t]]
  /\ UNCHANGED <<disk, data, synced>>

Unlink(t) ==
  /\ dir' = [dir EXCEPT ![t] = Absent]
  /\ UNCHANGED <<disk, data, synced>>

FsyncDirectory ==
  /\ disk' = [p \in Paths |-> dir[p]]
  /\ UNCHANGED <<dir, data, synced>>

------------------------------------------------------------------------------
(* Everybody else.                                                          *)

OverwriteInPlace(p, b) ==
  /\ Exists(p)
  /\ data' = [data EXCEPT ![dir[p]] = b]
  /\ synced' = synced \cup {dir[p]}
  /\ disk' = [disk EXCEPT ![p] = dir[p]]
  /\ UNCHANGED dir

SaveAsNewFile(p, b, i) ==
  /\ Free(i)
  /\ dir' = [dir EXCEPT ![p] = i]
  /\ disk' = [disk EXCEPT ![p] = i]
  /\ data' = [data EXCEPT ![i] = b]
  /\ synced' = synced \cup {i}

Remove(p) ==
  /\ Exists(p)
  /\ dir' = [dir EXCEPT ![p] = Absent]
  /\ disk' = [disk EXCEPT ![p] = Absent]
  /\ UNCHANGED <<data, synced>>

AddHardLink(p) ==
  /\ Exists(p)
  /\ dir[Alias] = Absent
  /\ dir' = [dir EXCEPT ![Alias] = dir[p]]
  /\ UNCHANGED <<disk, data, synced>>

\* Each path's entry comes back as it was or as it was last made durable, a
\* candidate may be gone, and content that was never fsynced may be torn.
PowerCut ==
  \E kept \in SUBSET (Paths \cup Temps), lost \in SUBSET (Inodes \ synced) :
    /\ dir' = [n \in Names |-> IF n \in kept \cup {Alias} THEN dir[n]
                              ELSE IF n \in Paths THEN disk[n] ELSE Absent]
    /\ disk' = [p \in Paths |-> dir'[p]]
    /\ data' = [i \in Inodes |-> IF i \in lost THEN Torn ELSE data[i]]
    /\ UNCHANGED synced
==============================================================================
