------------------------------- MODULE MenuTick -------------------------------
(***************************************************************************)
(* A menu record, src/decomp/src/menu/menu.c: a counter that a bump moves  *)
(* towards rest, and a tick that draws the record at the point of its fade *)
(* the counter stands for.  Counters from 0 open (0..12), counters below   *)
(* -1 close, -1 and 12 are at rest.                                        *)
(*                                                                         *)
(* The menu program that starts a record, the callee that draws the        *)
(* closing cells and the callbacks between the tick and the emitters are   *)
(* outside the source: the tick fills what a callback returns, so one that *)
(* is refused hands it a packet of its own, in no list.  The order of      *)
(* bumps and ticks is the menu program's and is left open.                 *)
(***************************************************************************)
EXTENDS RenderArena

CONSTANTS
  MaxSets,            \* bound: how often others write a counter
  Half,               \* a counter is in -Half..Half-1; 2^15
  B8s, H2s, X12s,     \* blend base, blend source, scale of a record
  Stanzas,            \* stanza bits of b0, subsets of {1, 2, 4}
  Sides,              \* bits 0x60 of b0: 1, -1 or 0 halves of the width
  ListAddr,           \* the list block's guest address as an s32
  H4, H6, H8, S4, S6, \* the list block's halves and the record's place
  S7                  \* the draw-mode bits of b0, moved to 0x60

ASSUME MenuAssumption ==
  /\ Half \in Nat /\ Half > 13 /\ MaxSets \in Nat /\ ListAddr \notin -Half..(Half - 1)
  /\ B8s \subseteq 0..255 /\ H2s \subseteq Int
  /\ 128 \in X12s /\ X12s \subseteq Nat /\ \A x \in X12s : x < 65536
  /\ Stanzas \subseteq SUBSET {1, 2, 4} /\ Sides \subseteq {-1, 0, 1}
  /\ H4 \in Int /\ H6 \in Int /\ S4 \in Int /\ S6 \in Int
  /\ S7 \in {0, 32, 64, 96} /\ H8 \in Nat

VARIABLES arena,      \* see RenderArena
          rec,        \* [cnt, b8, h2, x12, bits, side]
          cells,      \* the closing cells the last tick handed out
          sets        \* counters others have written

vars == <<arena, rec, cells, sets>>

Counters == -Half..(Half - 1)
Records  == [cnt : Counters, b8 : B8s, h2 : H2s, x12 : X12s,
             bits : Stanzas, side : Sides]

-----------------------------------------------------------------------------
(* The multiply-high idiom: the upper 32 bits of x * 0x2AAAAAAB, taken in  *)
(* halves of 16 bits, shifted by one and made to round towards zero.       *)
MulHi(x)    == (x * 10922 + ((x * 43691) \div 65536)) \div 65536
Div(x)      == (MulHi(x) \div 2) + IF x < 0 THEN 1 ELSE 0

Opening(r) == r.cnt \in 0..11
Faded(r) == IF Opening(r) THEN Div(r.b8 * r.cnt) ELSE r.b8
Apart(r) == IF Opening(r) THEN Div(r.h2 * (12 - r.cnt)) ELSE 1
Rest(r)  == IF Opening(r) THEN r.b8 - Faded(r) ELSE 0
(* The scale is read back as a signed half.                                *)
Scale(r) == IF r.x12 < 32768 THEN r.x12 ELSE r.x12 - 65536
Lit(r)   == (Faded(r) * Scale(r)) \div 128
HalfLit(r) == (Faded(r) * Scale(r)) \div 256
At(r)    == S4 + r.side * (H4 \div 2)

(* The mask of compose.                                                    *)
Byte(light) == light % 256
A(light, top, x) == [kind  |-> "A", flags |-> [v |-> Byte(light), top |-> top],
                     fill  |-> <<x - H4 \div 2, S6 - H6 \div 2>>]
B(f) == [kind |-> "B", flags |-> [v |-> f, top |-> FALSE], fill |-> <<0, 0>>]
(* H8 with the bits of s in 0x60: the code's or.                           *)
Mode(s) ==
  LET m == (H8 \div 32) % 4
      n == s \div 32
      or == IF n = 0 \/ m = n THEN m ELSE IF m = 0 THEN n ELSE 3
  IN  H8 + 32 * (or - m)

FirstPair(r) ==
  IF Opening(r) /\ 4 \in r.bits
  THEN <<A(Rest(r), TRUE, At(r) - Apart(r)), A(Rest(r), TRUE, At(r) + Apart(r)),
         B(Mode(S7))>>
  ELSE << >>
Gate(r, t4) == IF t4 THEN <<A(0, TRUE, At(r)), B(H8)>> ELSE << >>
Second(r, t4) ==
  IF 1 \in r.bits
  THEN Gate(r, t4) \o <<A(IF t4 THEN Lit(r) ELSE HalfLit(r), TRUE, At(r)),
                        B(Mode(64))>>
  ELSE << >>
Stanza(r, t4) ==
  IF 2 \in r.bits THEN <<A(Lit(r), TRUE, At(r)), B(Mode(S7))>> \o Second(r, t4)
                  ELSE <<A(Lit(r), FALSE, At(r))>>
(* Broken on purpose: the tail is left to the stanza that has one.         *)
OpenNoTail(r, t4) == FirstPair(r) \o Stanza(r, t4)
Open(r, t4) == FirstPair(r) \o Stanza(r, t4) \o <<B(Mode(S7))>>

(* The closing cells: two halves that shrink and dim.                      *)
(* Broken on purpose: the light is counted from the wrong end.             *)
ClosingLightUp(r) == Div(2 * r.b8 * (r.cnt + 13))
ClosingLight(r) ==
  LET light == 2 * (r.b8 + Div(-r.b8 * (r.cnt + 13)))
  IN  IF light < 193 THEN light ELSE 192
CloseHeight(r) == 2 * ((H6 \div 2) - Div((H6 \div 2) * (r.cnt + 13)))
Wide(r)  == Div(H4 * (r.cnt + 13))
Slid(r)  == Div(r.h2 * (r.cnt + 13))
Cells(r) ==
  LET first == [x |-> At(r) - H4 \div 2 + Wide(r), y |-> S6 - CloseHeight(r) \div 2,
                w |-> 2 * (H4 \div 2) + Slid(r) - Wide(r), h |-> CloseHeight(r),
                w18 |-> 0, w1c |-> ClosingLight(r)]
  IN  <<first, [first EXCEPT !.x = At(r) - H4 \div 2 - Slid(r),
                             !.w18 = ClosingLight(r), !.w1c = 0]>>

Rests(r) == r.cnt = ListAddr \/ r.cnt = -1
Shape(r, t4) == IF Rests(r) THEN << >>
                ELSE IF r.cnt < -1 THEN <<B(32)>> ELSE Open(r, t4)
-----------------------------------------------------------------------------
Init ==
  /\ arena = Empty /\ cells = << >> /\ sets = 0
  /\ rec \in {r \in Records : r.cnt = -1 /\ r.x12 = 128}

(* record_init parks the counter; the rest of the record is kept.          *)
RecordInit ==
  /\ \E b \in B8s, h \in H2s, bits \in Stanzas, side \in Sides :
       rec' = [cnt |-> -1, b8 |-> b, h2 |-> h, x12 |-> 128,
               bits |-> bits, side |-> side]
  /\ UNCHANGED <<arena, cells, sets>>

(* The menu program starts a fade, or writes any counter or scale.         *)
Others ==
  /\ sets < MaxSets /\ sets' = sets + 1
  /\ \E c \in Counters, x \in X12s : rec' = [rec EXCEPT !.cnt = c, !.x12 = x]
  /\ UNCHANGED <<arena, cells>>

(* Broken on purpose: no wrap, no clamp.                                   *)
BumpedNoWrap(c) == IF c = -1 THEN c ELSE c + 1
(* Broken on purpose: a full counter starts again.                         *)
BumpedAround(c) == IF c < 0 THEN IF c < -1 THEN c + 1 ELSE c ELSE (c + 1) % 12
Bumped(c) ==
  IF c < 0 THEN IF c < -1 THEN c + 1 ELSE c
  ELSE LET n == IF c + 1 = Half THEN -Half ELSE c + 1     \* s16
       IN  IF n < 12 THEN n ELSE 12

CounterBump == /\ rec' = [rec EXCEPT !.cnt = Bumped(rec.cnt)]
               /\ UNCHANGED <<arena, cells, sets>>

EmitTick ==
  /\ \E t4 \in BOOLEAN : arena' = FoldLeft(Emit, arena, Shape(rec, t4))
  /\ cells' = IF rec.cnt < -1 THEN Cells(rec) ELSE << >>
  /\ UNCHANGED <<rec, sets>>

NewFrame == arena' = Empty /\ UNCHANGED <<rec, cells, sets>>

Next == RecordInit \/ Others \/ CounterBump \/ EmitTick \/ NewFrame

(* The bump runs about once a frame in menu flows (src/decomp/include/gt2/ *)
(* menu.h:12).                                                             *)
Spec == Init /\ [][Next]_vars /\ WF_vars(CounterBump)

-----------------------------------------------------------------------------
TypeOK ==
  /\ rec \in Records /\ arena.top % 4 = 0 /\ arena.head < arena.top
  /\ Len(cells) \in {0, 2} /\ sets \in 0..MaxSets

(* A record that is left alone (others write no counter for ever) comes to *)
(* rest, from any 16-bit counter.                                          *)
Settles == <>[](rec.cnt \in {-1, 12})

(* While a record opens, the bytes of light its packets carry (menu.c:78)  *)
(* never fall from one bump to the next, the last step to the unfaded      *)
(* light included, and the rest of the first pair's never rises: as long   *)
(* as the scale lets the full light fit its byte, as record_init's 0x80    *)
(* does; any other may flash.  While it closes, the light handed out never *)
(* rises and the height does not grow.                                     *)
FitsByte(r) == 0 <= r.b8 * Scale(r) /\ r.b8 * Scale(r) < 32768
FadesOneWay ==
  [][CounterBump =>
       /\ Opening(rec) /\ FitsByte(rec) =>
            /\ Byte(Lit(rec')) >= Byte(Lit(rec))
            /\ Byte(HalfLit(rec')) >= Byte(HalfLit(rec))
            /\ Byte(Rest(rec')) <= Byte(Rest(rec))
       /\ rec.cnt < -2 => ClosingLight(rec') <= ClosingLight(rec)
       /\ rec.cnt \in -13..-3 => CloseHeight(rec') <= CloseHeight(rec)]_vars

(* Only a header is measured against the arena (render.c:56), so a fill    *)
(* may lie behind it: that of the newest packet alone, and in the 12 bytes *)
(* behind the arena at most, however many ticks draw into a full arena.    *)
Overhang ==
  \A o \in DOMAIN arena.mem :
    o + 4 > ArenaLen => /\ o \in {arena.head + 8, arena.head + 12, arena.head + 16}
                        /\ o + 4 <= ArenaLen + 12

(* What a tick draws is put in front of what the frame already holds, with *)
(* a draw mode first unless the arena ran out, and the fills of one packet *)
(* never run into the next.                                                *)
TickList == INSTANCE DrawList WITH
  list <- Walk(arena),
  full <- arena.full,
  Packets <- [kind  : {"A"}, flags : [v : 0..255, top : BOOLEAN],
              fill  : (Int \X {S6 - H6 \div 2}) \X {<<"w0">>} \X {<<"w4">>}]
             \cup [kind : {"B"}, fill : {<< >>},
                   flags : [v : {32, H8, Mode(64), Mode(S7)}, top : {FALSE}]]
TickListSpec == TickList!Spec
=============================================================================
