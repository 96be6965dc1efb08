----------------------------- MODULE RenderArena -----------------------------
(***************************************************************************)
(* The GPU packet emitters, src/decomp/src/render/render.c.  A packet is   *)
(* put at the top of an arena and in front of the frame's list: its first  *)
(* word takes the link that the head held, and the head takes its address. *)
(* An A packet leaves 12 bytes that the caller fills through the pointer   *)
(* it gets back; a B packet leaves none.  An emitter refuses when the 8    *)
(* bytes of a header do not fit; the fill is not counted.                  *)
(*                                                                         *)
(* Memory is a map from the offsets of 4-byte words to what they hold; the *)
(* arena and the head are word aligned, as the game's heap is.  The arena  *)
(* is a record [mem, top, head, full], `full' once a packet of the frame   *)
(* was refused, and a call a record [kind, flags, fill]; the callers are   *)
(* in module MenuTick.                                                     *)
(***************************************************************************)
EXTENDS Integers, Sequences, SequencesExt

CONSTANT ArenaLen      \* bytes in the arena

ASSUME ArenaAssumption == ArenaLen \in Nat

Nil   == -1            \* the link that ends a list
Empty == [mem |-> << >>, top |-> 0, head |-> Nil, full |-> FALSE]

Tag(kind)  == IF kind = "A" THEN 4 ELSE 1
Bump(kind) == IF kind = "A" THEN 20 ELSE 8
HeaderWords(a, c) ==
  [o \in {a.top, a.top + 4} |-> IF o = a.top THEN <<Tag(c.kind), a.head>> ELSE c.flags]
(* The point of the cell and the first two words of the list block.        *)
FillWords(a, c) ==
  IF c.kind # "A" THEN << >>
  ELSE [o \in {a.top + 8, a.top + 12, a.top + 16} |->
          IF o = a.top + 8 THEN c.fill ELSE IF o = a.top + 12 THEN <<"w0">> ELSE <<"w4">>]
Over(f, g) ==
  [o \in DOMAIN f \cup DOMAIN g |-> IF o \in DOMAIN f THEN f[o] ELSE g[o]]

(* Broken on purpose: room for the first word of the header alone.         *)
RoomForWord(a) == a.top + 4 <= ArenaLen
Room(a) == a.top + 8 <= ArenaLen

(* One emitter call and the caller's fill.                                 *)
Emit(a, c) ==
  IF ~Room(a) THEN [a EXCEPT !.full = TRUE]
  ELSE [mem   |-> Over(HeaderWords(a, c), Over(FillWords(a, c), a.mem)),
        top   |-> a.top + Bump(c.kind),
        head  |-> a.top,
        full  |-> a.full]

-----------------------------------------------------------------------------
(* The list as the GPU reads it: from the head along the links, each of    *)
(* which leads to an earlier packet; where one does not, the list is torn. *)
Packet(a, o) ==
  LET tag == a.mem[o][1] IN
  [kind  |-> IF tag = 4 THEN "A" ELSE "B",
   flags |-> a.mem[o + 4],
   fill  |-> IF tag = 4 THEN [k \in 1..3 |-> a.mem[o + 4 + 4 * k]] ELSE << >>]
Walk(a) ==
  LET from[o \in Nil..a.top] ==
        IF o \notin DOMAIN a.mem \/ a.mem[o][2] \notin Nil..(o - 1) THEN << >>
        ELSE <<Packet(a, o)>> \o from[a.mem[o][2]]
  IN  from[a.head]
=============================================================================
