------------------------------- MODULE MCCard -------------------------------
(***************************************************************************)
(* A small keyboard for TLC: two rows of four glyphs, and the menu row;    *)
(* a table that ends early, and a window without room for the longest text *)
(***************************************************************************)
EXTENDS CardDriver

CONSTANTS a, b

MCGlyphs  == {a, b}
MCTable(n) == [i \in 0 .. n - 1 |-> IF i \in {0, 3, 6} THEN a ELSE b]
MCTables  == {MCTable(8), MCTable(5)}
MCOpening == {-3, 0}
=============================================================================
