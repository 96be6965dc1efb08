----------------------------- MODULE MCDispatch -----------------------------
(***************************************************************************)
(* An instance of the dispatcher for TLC: each arm in the table, and a     *)
(* window one byte too short for the last mark.                            *)
(***************************************************************************)
EXTENDS MenuDispatch

MCArm    == [m \in 1..10 |-> CASE m = 1 -> "A" [] m = 2 -> "B" [] m = 3 -> "C"
                               [] m = 10 -> "D" [] OTHER -> "unknown"]
MCModes  == {0, 1, 2, 3, 5, 10, 11}
MCFlags  == {0, 2, 4, 5}
MCHalves == {<<-1, 5>>, <<0, 0>>, <<5, 5>>}
MCCounts == {-1, 2, 300}
=============================================================================
