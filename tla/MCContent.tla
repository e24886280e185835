----------------------------- MODULE MCContent -----------------------------
(***************************************************************************)
(* Instances of Content small enough for TLC: priorities on both sides of  *)
(* either limit.                                                           *)
(***************************************************************************)
EXTENDS Content

MCPriorities == {-3, -2, 0, 2, 3}

=============================================================================
