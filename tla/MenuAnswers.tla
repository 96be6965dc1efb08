---------------------------- MODULE MenuAnswers ----------------------------
(***************************************************************************)
(* What a run of the menu dispatcher answers and does to the menu, as a    *)
(* function of the mode byte it was called with, the flag that the sub-    *)
(* object has left in the end, the two halves, the count and the window:   *)
(* the contract of src/decomp/src/dispatch/dispatch.c.  Nothing of it says *)
(* what is polled when, or how often.                                      *)
(***************************************************************************)
EXTENDS Integers

CONSTANTS Arm,      \* mode -> the arm its table entry points at
          TaskLen,  \* bytes in the task window
          T2,       \* where the menu's block begins in it
          HandOver  \* the mode that arm C leaves the menu in (11)

VARIABLES busy,     \* a call is running
          enabled,  \* obj+0x5D0
          flag,     \* obj+0x408, the sub-object's answer
          halves,   \* T2+0x582 and T2+0x584
          count,    \* obj+0x5D4
          mode,     \* the mode byte, T2+0xA
          before,   \* obj+0x5D8, the mode that was handed over
          pick,     \* T2+0x58, what the tail copies
          tailed,   \* obj+0x5D1, the tail has run
          stamped,  \* the stamps of the last hand-over
          rc, st    \* result and status of the last call

asked == <<enabled, halves, count>>
menu  == <<mode, before, pick, tailed, stamped>>
vars  == <<busy, asked, flag, menu, rc, st>>

Init == ~busy

Begin == ~busy /\ busy' /\ UNCHANGED <<asked, flag, menu, rc, st>>

(* The sub-object's flag is all that moves while a call waits.             *)
Listens == busy /\ busy' /\ UNCHANGED <<asked, menu, rc, st>>

Ends     == busy /\ ~busy' /\ UNCHANGED <<asked, flag>>
Gives(n) == Ends /\ rc' = n /\ st' = "OK"
Refuses  == Ends /\ rc' = rc /\ st' = "OOB"

Selected == enabled /\ mode \in 1..10
Runs(a)  == Selected /\ Arm[mode] = a

ElevenDue == Runs("A") /\ flag = 0
SevenDue  == \/ (Runs("A") \/ Runs("C")) /\ flag = 2
             \/ Runs("B") /\ flag \in {0, 2}
FourDue   == Runs("C") /\ flag \in {0, 4}
NineDue   == \/ ~Selected \/ Runs("D")
             \/ (Runs("A") \/ Runs("B") \/ Runs("C")) /\ ~ElevenDue /\ ~SevenDue /\ ~FourDue

Eleven == ElevenDue /\ Gives(11) /\ UNCHANGED menu
Seven  == SevenDue /\ Gives(7) /\ UNCHANGED menu

(* 4, from arm C alone: the menu is in the new mode and knows the old one, *)
(* and either all stamps asked for are set, or the first that does not fit *)
(* the window has ended the call, after the mode was changed.              *)
StampAt(k) == T2 + 232 + 208 * k
Four ==
  /\ FourDue /\ mode' = HandOver /\ before' = mode /\ UNCHANGED <<pick, tailed>>
  /\ \/ /\ Gives(4) /\ stamped' = 0 .. count - 1
        /\ count > 0 => StampAt(count - 1) < TaskLen
     \/ /\ Refuses
        /\ \E n \in 0 .. count - 1 : /\ stamped' = 0 .. n - 1 /\ StampAt(n) >= TaskLen
                                     /\ n > 0 => StampAt(n - 1) < TaskLen

(* 9, from the tail: the mark that the two halves select, if both do, is   *)
(* copied.  A mark that reaches over the window's end changes nothing.     *)
MarkAt == 15476 + 16424 * halves[1] + 164 * halves[2] + 166
Picks  == halves[1] >= 0 /\ halves[2] >= 0
Nine ==
  /\ NineDue /\ tailed' /\ Gives(9) /\ UNCHANGED <<mode, before, stamped>>
  /\ \/ Picks /\ MarkAt + 1 < TaskLen /\ pick' = halves
     \/ ~Picks /\ pick' = pick
Outside == NineDue /\ Picks /\ MarkAt + 1 >= TaskLen /\ Refuses /\ UNCHANGED menu

(* A mode whose table entry is no arm.                                     *)
Unknown == /\ ~busy /\ ~busy' /\ Runs("unknown") /\ st' = "UNKNOWN_ARM"
           /\ UNCHANGED <<asked, flag, menu, rc>>

(* The rest of the program, between two calls.                             *)
Others == /\ ~busy /\ ~busy' /\ mode' \in Nat /\ ~tailed'
          /\ UNCHANGED <<flag, before, pick, stamped, rc, st>>

Next == \/ Begin \/ Listens \/ Eleven \/ Seven \/ Four \/ Nine \/ Outside
        \/ Unknown \/ Others
Spec == Init /\ [][Next]_vars
=============================================================================
