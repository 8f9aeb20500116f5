--------------------------- MODULE MCMultiFileEdit ---------------------------
(* Two executions of plans over three changes to two paths. *)
EXTENDS MultiFileEdit, TLC

CONSTANTS pX, pY, modX, newX, modY, aModX, aModX2, aNewX, aModY, old, new, exec1, exec2

MCCalls == Executions \X (1 .. MaxFiles)
MCAction == (modX :> "modify" @@ newX :> "create" @@ modY :> "modify")
MCTarget == (modX :> pX @@ newX :> pX @@ modY :> pY)
MCAfter == (modX :> new @@ newX :> new @@ modY :> new)
MCBefore == (modX :> old @@ newX :> Absent @@ modY :> old)
MCSize == (modX :> 1 @@ newX :> 1 @@ modY :> 2)
MCFor == (aModX :> modX @@ aModX2 :> modX @@ aNewX :> newX @@ aModY :> modY)

E(ch, a) == [change |-> ch, auth |-> a]

\* The same two edits in either order, a collision across kinds, one
\* authorization for two entries, a second authorization of the first change,
\* and a plan of one.
MCOffered ==
  { <<E(modX, aModX), E(modY, aModY)>>,
    <<E(modY, aModY), E(modX, aModX)>>,
    <<E(modX, aModX), E(newX, aNewX)>>,
    <<E(modX, aModX), E(modY, aModX)>>,
    <<E(modX, aModX2), E(modY, aModY)>>,
    <<E(modX, aModX)>> }

Interchangeable == Permutations(Executions)
=============================================================================
