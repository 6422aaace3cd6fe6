------------------------------- MODULE MCExu -------------------------------
(***************************************************************************)
(* Values of Exu's constants that a configuration cannot write down: what  *)
(* the debugger may put into dcsr.                                         *)
(***************************************************************************)
EXTENDS Exu, TLC

NoDcsrWrites == {}

AllDcsrWrites == [halt : BOOLEAN, step : BOOLEAN, ebreakm : BOOLEAN]

\* A debugger that asks for a halt or for a step, never for both at once.
DebuggerWrites == {w \in AllDcsrWrites : ~(w.halt /\ w.step)}

\* Data values are only moved and compared.
ValSymmetry == Permutations(Vals)
=============================================================================
