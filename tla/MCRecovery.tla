----------------------------- MODULE MCRecovery -----------------------------
(* One replacement and one creation. *)
EXTENDS Recovery, TLC

CONSTANTS review1, review2, exec1, exec2

MCKind == <<"REPLACE_TEXT", "CREATE_TEXT">>

Interchangeable == Permutations(Reviews) \cup Permutations(Executions)
=============================================================================
