------------------------------- MODULE DrawList -------------------------------
(***************************************************************************)
(* What the packet emitters promise (src/decomp/include/gt2/render.h): the *)
(* frame's list, read from its head, is what was drawn, newest first, each *)
(* packet with its flags and with the words its caller filled in.          *)
(***************************************************************************)
EXTENDS Integers, Sequences

CONSTANT Packets               \* [kind, flags, fill]
VARIABLES list,
          full                 \* a packet of the frame was refused

Init == list = << >> /\ full = FALSE

(* One call draws a few packets; the last drawn is the first of the list.  *)
(* A B packet sets the draw mode of what the GPU reads after it: a call    *)
(* that drew all its packets ends with one.  Nothing follows a refusal.    *)
Draw ==
  /\ ~full /\ full' \in BOOLEAN
  /\ \E n \in 0..Len(list') :
       /\ SubSeq(list', n + 1, Len(list')) = list
       /\ \A k \in 1..n : list'[k] \in Packets
       /\ n > 0 /\ ~full' => list'[1].kind = "B"

NewFrame == list' = << >> /\ full' = FALSE

Next == Draw \/ NewFrame
vars == <<list, full>>
Spec == Init /\ [][Next]_vars
=============================================================================
