------------------------------- MODULE MCMenu -------------------------------
(***************************************************************************)
(* A record in each of its shapes, and counters of a short range.          *)
(***************************************************************************)
EXTENDS MenuTick

MCAddr   == -1000
MCShapes == {{4}, {1, 2, 4}}
=============================================================================
