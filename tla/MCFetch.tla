------------------------------ MODULE MCFetch -------------------------------
(***************************************************************************)
(* A program for the fetch path: three lanes of ITCM, two of system memory *)
(* behind them, the second of which answers with an error.                 *)
(***************************************************************************)
EXTENDS Fetch

MCPC == 0 .. PC_HW - 1

\* 32-bit instructions cross the first lane's end, the ITCM's end, the end of
\* a system memory lane, and the wrap from the last address to the first; a
\* 16-bit one ends the second lane; a jump of 32 bits leads to the ITCM's end.
MCProg == [a \in MCPC |-> [rv32 |-> a \in {0, 3, 9, 11, 13, 15},
                           ofst |-> IF a = 9 THEN 2 ELSE 0]]

\* Into the middle of a lane, and to a word that crosses into the lane with
\* the error.
MCFlushPcs == {6, 13}

MCJunks == {[rv32 |-> TRUE, ofst |-> 0], [rv32 |-> FALSE, ofst |-> 0],
            [rv32 |-> FALSE, ofst |-> 4]}

MCErrLanes == {14}
=============================================================================
