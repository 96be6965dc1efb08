------------------------------ MODULE McdProps ------------------------------
(***************************************************************************)
(* What the memory-card image of module Mcd must satisfy.                  *)
(***************************************************************************)
EXTENDS Mcd

(* Every chain climbs: a frame's next lies above it, or is the end mark.   *)
(* The loops of used_blocks and gt2_mcd_delete have no other bound, so     *)
(* this is what makes them terminate on any card these functions wrote,    *)
(* even after deletes in the middle of a file.                             *)
ChainsClimb == \A f \in Frames : dir[f].next > f

(* A block is taken exactly when its own directory frame is in use.        *)
(* gt2_mcd_write chooses blocks and frames by two scans that never look at *)
(* each other, and gt2_mcd_read, used_blocks and gt2_mcd_delete all assume *)
(* frame i describes block i+1.  It also says no space leaks.              *)
FrameIsBlock == Unused = {f + 1 : f \in Unset}

Firsts == {f \in Frames : dir[f].state = "FIRST"}

(* The chains of two files never meet, whatever was written into the holes *)
(* that deletes left (the picks of gt2_mcd_write against used_blocks).     *)
ChainsDisjoint == \A f, g \in Firsts : f # g => Chain(f) \cap Chain(g) = {}

(* Every frame in use belongs to the chain of a file, and that chain has   *)
(* exactly as many frames as gt2_mcd_read will ask for: no orphan entries, *)
(* no file cut short.                                                      *)
FilesWhole ==
  /\ InUse = UNION {Chain(f) : f \in Firsts}
  /\ \A f \in Firsts : Cardinality(Chain(f)) = dir[f].size

(* A call touches one file: the others keep their frames, their links and  *)
(* the blocks they hold (gt2_mcd_format aside, which clears the card).     *)
SameFile(f) ==
  /\ Chain(f)' = Chain(f)
  /\ \A g \in Chain(f) : dir'[g] = dir[g] /\ blk'[g + 1] = blk[g + 1]

OthersKept == [][\A f \in Firsts : f \in Firsts' => SameFile(f)]_vars

(* A file whose write was accepted can be read back, and reads as written: *)
(* what mcd.c:146 ("Dir frame i describes block i+1") lets gt2_mcd_read    *)
(* rely on, and what decomp/tests/test_mcd.c checks on a fresh card.       *)
WrittenReadsBack ==
  [][\A n \in Names, body \in Bodies :
       Write(n, body) /\ ret' = "OK" =>
         \E f \in Firsts' : dir'[f].name = n /\ Read(f)' = body]_vars
=============================================================================
