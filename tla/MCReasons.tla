----------------------------- MODULE MCReasons ------------------------------
(***************************************************************************)
(* Two runs, two change sets, two traces and one comment.  The runs are    *)
(* interchangeable: no property tells them apart.                          *)
(***************************************************************************)
EXTENDS Reasons, TLC

Symmetry == Permutations(Run)
=============================================================================
