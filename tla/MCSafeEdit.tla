---------------------------- MODULE MCSafeEdit ----------------------------
(***************************************************************************)
(* Small instances of SafeEdit for TLC.                                    *)
(***************************************************************************)
EXTENDS SafeEdit, TLC

CONSTANTS p1, c1, c2, modA, modB, newA, newB, a1, a2, x, y

AllActions == (modA :> "modify" @@ modB :> "modify" @@ newA :> "create" @@ newB :> "create")
AllTargets == (modA :> p1 @@ modB :> p1 @@ newA :> p1 @@ newB :> p1)
AllAfters == (modA :> x @@ modB :> y @@ newA :> x @@ newB :> y)

MCAction == [ch \in Changes |-> AllActions[ch]]
MCTarget == [ch \in Changes |-> AllTargets[ch]]
MCAfter == [ch \in Changes |-> AllAfters[ch]]

\* Inode numbers are interchangeable.
InodeSymmetry == Permutations(Inodes)

\* Two calls race by themselves; others interfere while only c1 is made.
Bounded == pc[c2] # "idle" => outside = 0
=============================================================================
