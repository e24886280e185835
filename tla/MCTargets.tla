----------------------------- MODULE MCTargets -----------------------------
(***************************************************************************)
(* Instances of Targets small enough for TLC.                              *)
(***************************************************************************)
EXTENDS Targets

CONSTANTS x1, x2, p1

MCBoth == <<x1, p1, x2>>
MCOne  == <<x1>>

=============================================================================
