---------------------------- MODULE MenuDispatch ----------------------------
(***************************************************************************)
(* The menu dispatcher, src/decomp/src/dispatch/dispatch.c.  A call picks  *)
(* an arm by the mode byte; the arm polls two objects until they answer 0  *)
(* or 1, and branches on a flag the second one leaves behind.              *)
(*                                                                         *)
(* The polled objects, their worker and the rest of the menu program are   *)
(* outside the source.  Addresses are offsets in the task window.          *)
(***************************************************************************)
EXTENDS Integers

CONSTANTS
  Arm,        \* TABLE1: mode 1..10 -> "A", "B", "C", "D" or "unknown"
  TaskLen,    \* bytes in the task window
  Modes,      \* values others put in the mode byte
  Flags,      \* values the sub-object leaves in obj+0x408
  Halves,     \* pairs of values of the two halves, T2+0x582 and T2+0x584
  Counts      \* values of the stamp count, obj+0x5D4

T2      == 49020                    \* GT2_DISPATCH_T2, 0xBF7C
TaskMin == 49152                    \* GT2_DISPATCH_TASK_MIN, 0xC000

ASSUME TableAssumption == Arm \in [1..10 -> {"A", "B", "C", "D", "unknown"}]
ASSUME WindowAssumption == TaskLen \in Nat /\ TaskLen >= TaskMin
ASSUME ValuesAssumption == Modes \subseteq 0..255 /\ Flags \subseteq 0..255
                           /\ Halves \subseteq Int \X Int /\ Counts \subseteq Int

VARIABLES
  pc,                   \* where the call is
  arm,                  \* the arm it runs
  enabled,              \* obj+0x5D0
  flag,                 \* obj+0x408
  gate,                 \* obj+0x38B: which of the two waits polls
  halves, count,        \* T2+0x582, T2+0x584 and obj+0x5D4
  mode, before, pick, tailed, stamped,   \* see MenuAnswers
  rc, st                \* result and status of the last call

menu == <<mode, before, pick, tailed, stamped>>
vars == <<pc, arm, enabled, flag, gate, halves, count, menu, rc, st>>

NoPick == <<-1, -1>>               \* a mark is known by where it stands

TypeOK ==
  /\ pc \in {"idle", "wait0", "work", "sub", "route", "wait1", "tail"}
  /\ arm \in {"A", "B", "C", "D", "none"} /\ enabled \in BOOLEAN
  /\ flag \in Flags /\ gate \in 0..1 /\ count \in Counts
  /\ halves \in Halves /\ mode \in 0..255 /\ before \in 0..255
  /\ pick \in Halves \cup {NoPick} /\ tailed \in BOOLEAN /\ stamped \subseteq Nat
  /\ rc \in {0, 4, 7, 9, 11}
  /\ st \in {"OK", "UNKNOWN_ARM", "OOB"}

Init ==
  /\ pc = "idle" /\ arm = "none" /\ enabled \in BOOLEAN /\ flag \in Flags
  /\ gate = 0 /\ halves \in Halves /\ count \in Counts
  /\ mode \in Modes /\ before = 0 /\ pick = NoPick /\ tailed = FALSE
  /\ stamped = {} /\ rc = 0 /\ st = "OK"

(* Between two calls the menu program sets what it likes.                  *)
Others ==
  /\ pc = "idle"
  /\ \/ mode' \in Modes /\ UNCHANGED <<halves, count, enabled>>
     \/ halves' \in Halves /\ UNCHANGED <<mode, count, enabled>>
     \/ count' \in Counts /\ UNCHANGED <<mode, halves, enabled>>
     \/ enabled' \in BOOLEAN /\ UNCHANGED <<mode, halves, count>>
  /\ tailed' = FALSE
  /\ UNCHANGED <<pc, arm, flag, gate, before, pick, stamped, rc, st>>

----------------------------------------------------------------------------
(* gt2_dispatch_select and gt2_dispatch_arm_locate.                        *)

(* Mutant: the mode of the second table's last entry is let through too.   *)
SelectsToo == enabled /\ mode \in 1..11

Selects == enabled /\ mode \in 1..10

(* A mode past the table would run whatever the next word points at.       *)
ArmAt(md) == IF md \in DOMAIN Arm THEN Arm[md] ELSE "A"

GuardFails ==
  /\ pc = "idle" /\ ~Selects
  /\ pc' = "tail" /\ arm' = "none"
  /\ UNCHANGED <<enabled, flag, gate, halves, count, menu, rc, st>>

Unknown ==
  /\ pc = "idle" /\ Selects /\ ArmAt(mode) = "unknown"
  /\ st' = "UNKNOWN_ARM"
  /\ UNCHANGED <<pc, arm, enabled, flag, gate, halves, count, menu, rc>>

EntersArm ==
  /\ pc = "idle" /\ Selects
  /\ arm' = ArmAt(mode)
  /\ arm' # "unknown"
  /\ IF arm' = "D" THEN pc' = "wait1" /\ gate' = 1 ELSE pc' = "wait0" /\ gate' = 0
  /\ UNCHANGED <<enabled, flag, halves, count, menu, rc, st>>

----------------------------------------------------------------------------
(* gt2_dispatch_wait and gt2_dispatch_sub_entry: the poll loops.           *)
Waits == {"wait0", "sub", "wait1"}
(* A poll of the sub-object may change its flag.  The loop goes round on   *)
(* any answer but 0 and 1.                                                 *)
Polled == pc \in Waits /\ flag' \in (IF pc = "sub" THEN Flags ELSE {flag})

Spin ==
  /\ Polled
  /\ UNCHANGED <<pc, arm, enabled, gate, halves, count, menu, rc, st>>

(* Mutant: the worker is started again until it leaves another flag.       *)
AfterAsksAgain == [wait0 |-> "work",
                   sub   |-> IF flag = 4 THEN "work" ELSE "route",
                   wait1 |-> IF arm = "A" THEN "route" ELSE "tail"]

(* Arm A waits again before it looks at the flag, the others after.        *)
After == [wait0 |-> "work",
          sub   |-> IF arm = "A" THEN "wait1" ELSE "route",
          wait1 |-> IF arm = "A" THEN "route" ELSE "tail"]

Pass ==
  /\ Polled
  /\ pc' = After[pc] /\ gate' = IF pc' = "wait1" THEN 1 ELSE gate
  /\ UNCHANGED <<arm, enabled, halves, count, menu, rc, st>>

Work ==
  /\ pc = "work" /\ flag' \in Flags /\ pc' = "sub"
  /\ UNCHANGED <<arm, enabled, gate, halves, count, menu, rc, st>>

----------------------------------------------------------------------------
Returns(code) == pc' = "idle" /\ rc' = code /\ st' = "OK"

(* Mutant: a refusal hands back a result too.                              *)
RefusesMinusOne == pc' = "idle" /\ st' = "OOB" /\ rc' = -1

Refuses == pc' = "idle" /\ st' = "OOB" /\ UNCHANGED rc

(* The early answers of the arms: 11 from A on 0, 7 on 2, 7 from B on 0.   *)
Early == [A |-> {0, 2}, B |-> {0, 2}, C |-> {2}]

AnswerEarly ==
  /\ pc = "route" /\ flag \in Early[arm]
  /\ Returns(IF arm = "A" /\ flag = 0 THEN 11 ELSE 7)
  /\ UNCHANGED <<arm, enabled, flag, gate, halves, count, menu>>

(* gt2_dispatch_sync0(mode, 11): the mode byte is set before the stamps,   *)
(* which stop at the first one outside the window.                         *)
StampEnd(k) == T2 + 232 + 208 * k + 1
Stamps      == {k \in 0 .. count - 1 : StampEnd(k) <= TaskLen}

HandsOver ==
  /\ pc = "route" /\ arm = "C" /\ flag \in {0, 4}
  /\ before' = mode /\ mode' = 11 /\ stamped' = Stamps
  /\ IF Stamps = 0 .. count - 1 THEN Returns(4) ELSE Refuses
  /\ UNCHANGED <<arm, enabled, flag, gate, halves, count, pick, tailed>>

GoesOn ==
  /\ pc = "route" /\ flag \notin Early[arm] /\ ~(arm = "C" /\ flag \in {0, 4})
  /\ IF arm = "A" THEN pc' = "tail" /\ UNCHANGED gate ELSE pc' = "wait1" /\ gate' = 1
  /\ UNCHANGED <<arm, enabled, flag, halves, count, menu, rc, st>>

----------------------------------------------------------------------------
(* gt2_dispatch_tail.                                                      *)
MarkEnd == halves[1] * 16424 + 15476 + halves[2] * 164 + 168

(* Mutant: one half at or above zero is enough.                            *)
CopiesEither == halves[1] >= 0 \/ halves[2] >= 0

Copies == halves[1] >= 0 /\ halves[2] >= 0

MarkFits == MarkEnd <= TaskLen

TailCopies ==
  /\ pc = "tail" /\ Copies /\ MarkFits
  /\ pick' = halves /\ tailed' = TRUE
  /\ Returns(9)
  /\ UNCHANGED <<arm, enabled, flag, gate, halves, count, mode, before, stamped>>

TailKeeps ==
  /\ pc = "tail" /\ ~Copies
  /\ tailed' = TRUE /\ Returns(9)
  /\ UNCHANGED <<arm, enabled, flag, gate, halves, count, mode, before, pick, stamped>>

TailRefuses ==
  /\ pc = "tail" /\ Copies /\ ~MarkFits
  /\ Refuses
  /\ UNCHANGED <<arm, enabled, flag, gate, halves, count, menu>>

Step == \/ Pass \/ Work \/ AnswerEarly \/ HandsOver \/ GoesOn
        \/ TailCopies \/ TailKeeps \/ TailRefuses
Next == Others \/ GuardFails \/ Unknown \/ EntersArm \/ Spin \/ Step

(* The caller's thread runs, and an object polled again and again answers  *)
(* 0 or 1 in the end: the loops of dispatch.c have no other way out.       *)
Spec == Init /\ [][Next]_vars /\ WF_vars(Step) /\ SF_vars(Pass)

----------------------------------------------------------------------------
(* A run answers as the mode byte it was called with, the flag that was    *)
(* polled last, the halves, the count and the window say (dispatch.h:80-   *)
(* 98): which of 4, 7, 9 and 11 it hands back or which status, whether the *)
(* menu has moved, which mark and which stamps were stored.  A refusal     *)
(* leaves the caller's result alone; a mark that ends one byte behind the  *)
(* window changes nothing, a stamp that does finds the menu moved.         *)
Answers == INSTANCE MenuAnswers WITH busy <- pc # "idle", HandOver <- 11

AnswersSpec == Answers!Spec

(* While an arm runs, the mode byte still selects it: arm C, which reads   *)
(* the byte again for the hand-over, hands over the mode it was picked by, *)
(* and the mode it leaves, 11, picks no arm (dispatch.c:60-72, 236-243).   *)
(* The polled objects write no more than their own block.                  *)
ArmHoldsMode == pc # "idle" /\ arm # "none" => mode \in 1..10 /\ Arm[mode] = arm

(* A call whose polled objects answer comes back.                          *)
RunsReturn == (pc # "idle") ~> (pc = "idle")
=============================================================================
