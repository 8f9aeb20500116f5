---------------------------- MODULE MCDeployments ----------------------------
(***************************************************************************)
(* A small instance of Deployments for TLC.                                *)
(***************************************************************************)
EXTENDS Deployments, TLC

\* Calls are interchangeable, and so are unused release operations.
Interchangeable == Permutations(Calls) \cup Permutations(Releases)

\* What others change is explored with one release, two releases without; the
\* deployment that is made is prepared before the second one.
Bounded ==
  (\A r \in Releases : state[r] # "unused") => outside = 0 /\ pending \notin Deploys
=============================================================================
