------------------------------ MODULE McdCard ------------------------------
(***************************************************************************)
(* The image of module Mcd implements the card of module CardStore.        *)
(***************************************************************************)
EXTENDS McdProps

(* The card as its callers see it: the body each name reads back as.       *)
FileOf(n) == {f \in Firsts : dir[f].name = n}

Card == INSTANCE CardStore WITH
  files <- [n \in Names |-> IF FileOf(n) = {} THEN << >>
                            ELSE Read(CHOOSE f \in FileOf(n) : TRUE)]

(* Each call gets the answer that is due to its own arguments: a write is  *)
(* stored or refused as the card says of that name and that body, and the  *)
(* delete of a start entry removes the file of that name.                  *)
AnswersDue ==
  /\ \A n \in Names \cup {NoName}, body \in Bodies :
       Write(n, body) => Card!Put(n, body)
  /\ \A f \in Frames : dir[f].state \notin {"MID", "LAST"} /\ Delete(f) =>
       IF f \in Firsts THEN Card!Remove(dir[f].name) ELSE Card!RemoveNone

(* A name reads back as the body last written under it.  A write is        *)
(* refused for lack of room only when the files really leave less than the *)
(* body written takes, as a duplicate only when there is a file of the     *)
(* name written, as invalid only when name or length is; the blocks of a   *)
(* deleted file are all free again (gt2_mcd_write, _read and _delete).     *)
CardSpec == Card!Spec /\ [][AnswersDue]_vars
=============================================================================
