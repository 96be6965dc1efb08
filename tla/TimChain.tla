------------------------------- MODULE TimChain -------------------------------
(***************************************************************************)
(* Images in unpacked bytes: src/decomp/src/tim/tim.c.                     *)
(*                                                                         *)
(* Data is [len, heads]: its length and, at the offsets where the magic    *)
(* word is, what the header says there: [flag, clen, cw, ch, ilen, w, h],  *)
(* the lengths and dimensions of its colour and its image block.           *)
(***************************************************************************)
EXTENDS Integers, Sequences, FiniteSetsExt

ImageMax      == 16777216
NoImage(e)    == [st |-> e, total |-> 0]
HasClut(h)    == h.flag >= 8 /\ h.flag < 16
Mode(h)       == h.flag % 8
ClutBytes(h)  == IF HasClut(h) THEN h.clen ELSE 0
(* Broken on purpose: an image is as long as its own block.                *)
ImageOnly(h)  == 8 + h.ilen
ImageBytes(h) == 8 + ClutBytes(h) + h.ilen
Colours(h)    == IF HasClut(h) THEN (h.clen - 12) \div 2 ELSE 0

BadClut(h, p, len) == p + 12 > len \/ h.clen < 12 \/ p + h.clen > len
OddClut(h)  == \/ h.cw \notin 1..256 \/ h.ch \notin 1..256
               \/ Colours(h) \notin 1..256
OddImage(h) == h.w \notin 1..1024 \/ h.h \notin 1..1024

(* tim_extent: the image at o.  A logo may declare bytes behind the end.   *)
Extent(d, o, overshoot) ==
  LET h == d.heads[o]
      p == o + 8 + ClutBytes(h)
  IN  IF o + 8 > d.len THEN NoImage("TRUNCATED")
      ELSE IF o \notin DOMAIN d.heads THEN NoImage("MAGIC")
      ELSE IF h.flag > 15 \/ Mode(h) > 3 THEN NoImage("MODE")
      ELSE IF HasClut(h) /\ BadClut(h, o + 8, d.len) THEN NoImage("TRUNCATED")
      ELSE IF HasClut(h) /\ OddClut(h) THEN NoImage("MODE")
      ELSE IF p + 12 > d.len \/ h.ilen < 12 THEN NoImage("TRUNCATED")
      ELSE IF OddImage(h) THEN NoImage("MODE")
      ELSE IF ~overshoot /\ p + h.ilen > d.len THEN NoImage("TRUNCATED")
      ELSE IF h.ilen > ImageMax THEN NoImage("TRUNCATED")
      ELSE [st |-> "OK", off |-> o, total |-> ImageBytes(h), mode |-> Mode(h),
            clut |-> HasClut(h), colours |-> Colours(h), clutAt |-> o + 20,
            cw |-> h.cw, ch |-> h.ch,
            pix |-> p + 12, pixLen |-> h.ilen - 12, w |-> h.w, h |-> h.h]

(* With all of its bytes, or with its head alone.                          *)
ImageAt(d, o) == Extent(d, o, FALSE)
HeadAt(d, o)  == Extent(d, o, TRUE)

(* gt2_tim_count: the images one behind the other, up to what is none.     *)
Images(d) ==
  LET from[o \in Nat] ==
        LET e == ImageAt(d, o) IN
        IF o >= d.len \/ e.st # "OK" THEN << >> ELSE <<e>> \o from[o + e.total]
  IN  from[0]

(* gt2_tim_info, by a walk of its own.                                     *)
Info(d, k) ==
  LET walk[i \in 0 .. k] ==
        IF i = 0 THEN ImageAt(d, 0)
        ELSE IF walk[i - 1].st # "OK" THEN walk[i - 1]
        ELSE ImageAt(d, walk[i - 1].off + walk[i - 1].total)
  IN  IF walk[k].st = "OK" THEN walk[k] ELSE NoImage("NOT_FOUND")

(* gt2_tim_decode: the pixel bytes that it reads.                          *)
PixW(e) == CASE e.mode = 0 -> 4 * e.w [] e.mode = 1 -> 2 * e.w [] OTHER -> e.w
Need(e) == CASE e.mode = 0 -> (PixW(e) * e.h) \div 2
             [] e.mode = 1 -> PixW(e) * e.h
             [] e.mode = 2 -> 2 * PixW(e) * e.h
             [] OTHER      -> 3 * PixW(e) * e.h
Decode(d, k) ==
  LET e == Info(d, k) IN
  IF e.st # "OK" THEN e
  ELSE IF PixW(e) > 4096 \/ e.h > 4096 THEN NoImage("MODE")
  ELSE IF e.pix + Need(e) > d.len \/ (e.clut /\ e.clutAt + 2 * e.colours > d.len)
       THEN NoImage("TRUNCATED")
  ELSE e

(* gt2_tim_encode: the head of what it writes for e.                       *)
Encode(e) ==
  [flag |-> e.mode + (IF e.clut THEN 8 ELSE 0),
   clen |-> IF e.clut THEN 12 + 2 * e.colours ELSE 0, cw |-> e.cw, ch |-> e.ch,
   ilen |-> 12 + e.pixLen, w |-> e.w, h |-> e.h]

(* gt2_logo_find_tim: the first image with colours at a multiple of 4.     *)
LogoFind(d) ==
  LET hits == {o \in DOMAIN d.heads :
                 /\ o % 4 = 0 /\ o + 20 <= d.len
                 /\ HeadAt(d, o).st = "OK" /\ HeadAt(d, o).clut}
  IN  IF hits = {} THEN -1 ELSE Min(hits)

-----------------------------------------------------------------------------
(* gt2_txd_count and gt2_txd_get: a text is a sequence of 0 for a NUL and 1*)
(* for a byte of a string; the strings are [from, len].                    *)
Strings(text) ==
  LET n == Len(text)
      from[p \in Nat] ==
        LET q == Min({n} \cup {i \in p .. n - 1 : text[i + 1] # 0})
            j == Min({n} \cup {i \in q .. n - 1 : text[i + 1] = 0})
        IN  IF q >= n THEN << >> ELSE <<[from |-> q, len |-> j - q]>> \o from[j + 1]
  IN  from[0]
=============================================================================
