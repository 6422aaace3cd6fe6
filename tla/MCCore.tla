------------------------------- MODULE MCCore -------------------------------
(***************************************************************************)
(* Values of Core's constants that a configuration cannot write down.      *)
(***************************************************************************)
EXTENDS Core, TLC

NoDcsrWrites == {}

\* Data values are only moved and compared.
ValSymmetry == Permutations(Vals)
=============================================================================
