----------------------------- MODULE CardDriver -----------------------------
(***************************************************************************)
(* The card status driver, src/decomp/src/card/card.c: one call is one     *)
(* frame of the name entry, a grid of glyphs whose last row holds the two  *)
(* menu buttons.  The state block's fields are variables of their own.     *)
(*                                                                         *)
(* The callees are injected.  From the way the driver uses them: c8fc4 is  *)
(* the length of the text, op3524 takes one byte out of it, ad3c measures  *)
(* its width, cfc4 moves between the rows (+0x4A), op0840 makes a sound.   *)
(***************************************************************************)
EXTENDS Integers, FiniteSets, FiniteSetsExt

CONSTANTS
  Glyphs,       \* bytes of the const table
  Nul,          \* the byte that ends a text
  Tables,       \* const tables, row by row, the short ones too
  Cols,         \* glyphs in a row (16)
  MenuRow,      \* the row of the menu buttons (0xC)
  Limit,        \* +0x1E, the longest text
  Windows,      \* lengths of data windows
  Full,         \* where the entry counter saturates (12)
  Blink, Pulse, \* the periods of the other two counters (61 and 41)
  Opening       \* values the caller may leave in the entry counter

ASSUME GridAssumption == Cols \in Nat \ {0, 1} /\ MenuRow \in Nat
ASSUME TableAssumption == \A t \in Tables : \E n \in 0 .. MenuRow * Cols : t \in [0 .. n - 1 -> Glyphs]
ASSUME TextAssumption == Limit \in Nat /\ Windows \subseteq Nat \ {0}
ASSUME NulAssumption == Nul \notin Glyphs
ASSUME CountersAssumption ==
  /\ Full \in Nat /\ Blink \in Nat \ {0} /\ Pulse \in Nat \ {0}
  /\ Opening \subseteq Int /\ \A n \in Opening : n <= Full

VARIABLES
  c14, c16, c18,  \* the entry counters
  row, col,       \* +0x1A, +0x1B: the glyph the player points at
  cnt,            \* +0x1C: the cursor
  data,           \* the data window, which holds the text
  aux,            \* the const table, the same in every call
  rc, st          \* the last call's result and status

vars == <<c14, c16, c18, row, col, cnt, data, aux, rc, st>>

Bytes == DOMAIN data
Rows  == 0 .. MenuRow
Half  == Cols \div 2          \* the first column of the right-hand button

TypeOK ==
  /\ c14 \in Int /\ c14 <= Full /\ c16 \in 0 .. Blink - 1 /\ c18 \in 0 .. Pulse - 1
  /\ row \in Rows /\ col \in 0 .. Cols - 1
  /\ cnt \in 0 .. Limit /\ aux \in Tables
  /\ \E n \in Windows : data \in [0 .. n - 1 -> Glyphs \cup {Nul}]
  /\ rc \in {-3, -2, -1, 0} /\ st \in {"OK", "OOB"}

(* The callers' blocks start cleared, except for the entry counter.        *)
Init ==
  /\ c14 \in Opening /\ c16 = 0 /\ c18 = 0
  /\ row = 0 /\ col = 0 /\ cnt = 0
  /\ aux \in Tables /\ \E n \in Windows : data = [i \in 0 .. n - 1 |-> Nul]
  /\ rc = -2 /\ st = "OK"

----------------------------------------------------------------------------
(* The callees.                                                            *)
Length(text) == Min({i \in Bytes : text[i] = Nul})

TakenOut(text, v) ==
  [i \in Bytes |-> IF v <= i /\ i < Length(text) THEN text[i + 1] ELSE text[i]]

----------------------------------------------------------------------------
(* Every call that is not turned away counts.                              *)
Bump(c, limit, reset) == IF c + 1 >= limit THEN reset ELSE c + 1

Counts == /\ c14 >= 0
          /\ c14' = Bump(c14, Full + 1, Full)
          /\ c16' = Bump(c16, Blink, 0) /\ c18' = Bump(c18, Pulse, 0)

Returns(code) == rc' = code /\ st' = "OK"

Climbed(c) == IF c = -1 THEN -1 ELSE c + 1

Climb ==
  /\ c14 < 0 /\ c14' = Climbed(c14)
  /\ Returns(-2)
  /\ UNCHANGED <<c16, c18, row, col, cnt, data>>

(* No event struct.                                                        *)
NoEvent == Counts /\ Returns(-2) /\ UNCHANGED <<row, col, cnt, data>>

(* The 0x500 lane.                                                         *)
EraseNothing ==
  Counts /\ cnt <= 0 /\ Returns(-2) /\ UNCHANGED <<row, col, cnt, data>>

(* Mutant: the byte under the cursor, not the one before it.               *)
ErasedUnder == cnt

Erased == cnt - 1

Erase ==
  /\ Counts /\ cnt > 0
  /\ cnt' = cnt - 1
  /\ data' = TakenOut(data, Erased)
  /\ Returns(-2)
  /\ UNCHANGED <<row, col>>

----------------------------------------------------------------------------
(* The 0xA00 lane: the glyph pointed at is put in at the cursor, and taken *)
(* out again if the text has become too wide.                              *)
Index == row * Cols + col

HasRoom == Length(data) < Limit

Shifted(r) == [i \in Bytes |-> IF cnt < i /\ i <= r + 1 THEN data[i - 1] ELSE data[i]]

(* Mutant: the last byte of the window is taken for a free one.            *)
OutOfWindowLate(r) == (r >= cnt /\ r + 1 > Cardinality(Bytes)) \/ cnt \notin Bytes

OutOfWindow(r) == (r >= cnt /\ r + 1 >= Cardinality(Bytes)) \/ cnt \notin Bytes

(* Mutant: the byte is taken out at the end of the text.                   *)
TypedAtEnd == [Shifted(Length(data)) EXCEPT ![Length(data)] = aux[Index]]

Typed == [Shifted(Length(data)) EXCEPT ![cnt] = aux[Index]]

Type ==
  /\ Counts /\ row # MenuRow /\ HasRoom
  /\ ~OutOfWindow(Length(data)) /\ Index \in DOMAIN aux
  /\ \/ data' = Typed /\ cnt' = cnt + 1                     \* narrow enough
     \/ data' = TakenOut(Typed, cnt) /\ UNCHANGED cnt       \* too wide
  /\ Returns(-2)
  /\ UNCHANGED <<row, col>>

TypeRefused ==
  /\ Counts /\ row # MenuRow /\ HasRoom
  /\ \/ OutOfWindow(Length(data)) /\ UNCHANGED data
     \/ /\ ~OutOfWindow(Length(data)) /\ Index \notin DOMAIN aux
        /\ data' = Shifted(Length(data))
  /\ st' = "OOB" /\ UNCHANGED <<row, col, cnt, rc>>

TypeFull ==
  Counts /\ row # MenuRow /\ ~HasRoom /\ Returns(-2) /\ UNCHANGED <<row, col, cnt, data>>

PressButton ==
  /\ Counts /\ row = MenuRow
  /\ Returns(IF col >= Half THEN 0 ELSE -1)
  /\ UNCHANGED <<row, col, cnt, data>>

----------------------------------------------------------------------------
(* The bit maze.  Bit 0x10000 jumps to the right-hand button.              *)
Jump ==
  /\ Counts /\ row' = MenuRow /\ col' = Half
  /\ Returns(-3)
  /\ UNCHANGED <<cnt, data>>

(* Bit 0x10, then bit 0x1000, which stops at the end of the text.          *)
Left(on, c)  == IF on THEN IF c - 1 < 0 THEN 0 ELSE c - 1 ELSE c

(* Mutant: the cursor is not held back at the end of the text.             *)
RightFree(on, c) == IF on THEN c + 1 ELSE c

Right(on, c) == IF on THEN Min({c + 1, Length(data)}) ELSE c

(* Bits 4 and 8 walk round the columns, or between the two buttons.  The   *)
(* row is the one cfc4 has just left in +0x4A.                             *)
Back(on, c, r)  == IF ~on THEN c ELSE IF r = MenuRow THEN Half - 1
                   ELSE IF c - 1 < 0 THEN Cols - 1 ELSE c - 1

(* Mutant: one column too many before the walk wraps.                      *)
AheadLate(on, c, r) == IF ~on THEN c ELSE IF r = MenuRow THEN Half
                       ELSE IF c + 1 > Cols THEN 0 ELSE c + 1

Ahead(on, c, r) == IF ~on THEN c ELSE IF r = MenuRow THEN Half
                   ELSE IF c + 1 >= Cols THEN 0 ELSE c + 1

Maze(left, right, back, ahead) ==
  /\ Counts
  /\ cnt' = Right(right, Left(left, cnt))
  /\ row' \in Rows
  /\ col' = Ahead(ahead, Back(back, col, row'), row')
  /\ \/ Returns(-3)                     \* any of the bits 0x101F
     \/ ~(left \/ right \/ back \/ ahead) /\ Returns(-2)
  /\ UNCHANGED data

Step == \/ Climb \/ NoEvent \/ EraseNothing \/ Erase
        \/ Type \/ TypeRefused \/ TypeFull \/ PressButton \/ Jump
        \/ \E left, right, back, ahead \in BOOLEAN : Maze(left, right, back, ahead)

Next == Step /\ UNCHANGED aux

Spec == Init /\ [][Next]_vars

----------------------------------------------------------------------------
(* What the driver must satisfy.                                           *)

Whole == DOMAIN aux = 0 .. MenuRow * Cols - 1

(* The cursor never leaves the text, which always ends inside the window:  *)
(* every lane moves the one or changes the other, and the insert trusts    *)
(* both when it shifts bytes.  With a whole table, and a window of one     *)
(* byte more than the longest text, no call is ever refused: the refusals  *)
(* of card.c:115-130 guard states the driver cannot reach on its own.      *)
CursorInText == /\ \E i \in Bytes : data[i] = Nul
                /\ cnt <= Length(data) /\ Length(data) <= Limit
                /\ Whole /\ Cardinality(Bytes) > Limit => st = "OK"

(* The lanes together are a text field: a glyph goes in at the cursor, an  *)
(* erase takes the one before it, a glyph too many or too wide changes     *)
(* nothing, and moving never changes the text.  Only a table that lacks    *)
(* the glyph spoils it: card.c:127 looks after the bytes have moved.       *)
FieldText == [i \in 1 .. Length(data) |-> data[i - 1]]
Field == INSTANCE EditField WITH text <- FieldText, cursor <- cnt, whole <- Whole

FieldSpec == Field!Spec
=============================================================================
