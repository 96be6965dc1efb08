------------------------------- MODULE MCMcd -------------------------------
(***************************************************************************)
(* Small instances of the memory card for TLC.  Versions tells apart what  *)
(* was written when; each block of a body also knows its place, so a block *)
(* read from the wrong file, version or position shows.                    *)
(***************************************************************************)
EXTENDS McdCard

CONSTANTS Versions

(* Lengths from 0 to one more than the card holds of one version, and      *)
(* bodies of one and two blocks of each.                                   *)
Body(v, n) == [i \in 1..n |-> <<v, i>>]
Usual      == CHOOSE v \in Versions : TRUE
MCBodies   == {Body(Usual, n) : n \in 0..Entries + 1}
              \cup {Body(v, n) : n \in 1..2, v \in Versions}
=============================================================================
