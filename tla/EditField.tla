----------------------------- MODULE EditField -----------------------------
(***************************************************************************)
(* A one-line text field of bounded length with a cursor: what the player  *)
(* sees of the name entry that src/decomp/src/card/card.c drives.          *)
(***************************************************************************)
EXTENDS Integers, SequencesExt

CONSTANTS Glyphs, Limit

VARIABLES text, cursor,    \* the cursor stands before text[cursor + 1]
          whole            \* every glyph the player can point at exists

Init == text = << >> /\ cursor = 0 /\ whole \in BOOLEAN

Type(g) == /\ Len(text) < Limit
           /\ text' = InsertAt(text, cursor + 1, g)
           /\ cursor' = cursor + 1

Erase == /\ cursor > 0
         /\ text' = RemoveAt(text, cursor)
         /\ cursor' = cursor - 1

Move == /\ cursor' \in {cursor - 1, cursor + 1} \cap 0..Len(text)
        /\ UNCHANGED text

(* A glyph that does not exist doubles the one at the cursor.              *)
Spoil == /\ ~whole /\ cursor < Len(text) /\ Len(text) < Limit
         /\ text' = InsertAt(text, cursor + 1, text[cursor + 1])
         /\ UNCHANGED cursor

Next == UNCHANGED whole /\ (Erase \/ Spoil \/ Move \/ \E g \in Glyphs : Type(g))

Spec == Init /\ [][Next]_<<text, cursor, whole>>
=============================================================================
