---------------------------- MODULE DispatchProofs ----------------------------
(***************************************************************************)
(* Proofs about the menu dispatcher, for every table of arms, window,      *)
(* modes, flags, halves and counts: the types, that an arm keeps the mode  *)
(* it was picked by, and that every call answers as MenuAnswers says.      *)
(***************************************************************************)
EXTENDS MenuDispatch, TLAPS

(* Where a wait leads: never out of the call.                              *)
LEMMA AfterWaits ==
  ASSUME pc \in Waits
  PROVE  After[pc] \in {"work", "sub", "route", "wait1", "tail"}
<1>1. CASE pc = "wait0"
  BY <1>1 DEF After
<1>2. CASE pc = "sub"
  BY <1>2 DEF After
<1>3. CASE pc = "wait1"
  BY <1>3 DEF After
<1> QED BY <1>1, <1>2, <1>3 DEF Waits

(* The table answers for the modes that are let through.                   *)
LEMMA ArmKnown ==
  ASSUME NEW m \in 1..10
  PROVE  ArmAt(m) = Arm[m] /\ Arm[m] \in {"A", "B", "C", "D", "unknown"}
  BY TableAssumption DEF ArmAt

(* Each step keeps the types.                                              *)
LEMMA DispatchTypeStep == TypeOK /\ [Next]_vars => TypeOK'
<1> SUFFICES ASSUME TypeOK, [Next]_vars PROVE TypeOK'
  OBVIOUS
<1> USE ValuesAssumption DEF TypeOK, menu
<1>1. CASE Others
  <2>1. mode' \in 0..255 /\ halves' \in Halves /\ count' \in Counts
    BY <1>1 DEF Others
  <2>2. enabled' \in BOOLEAN
    BY <1>1, Zenon DEF Others
  <2>3. UNCHANGED <<pc, arm, flag, gate, before, pick, stamped, rc, st>> /\ tailed' = FALSE
    BY <1>1 DEF Others
  <2> QED BY <2>1, <2>2, <2>3
<1>2. CASE GuardFails
  BY <1>2 DEF GuardFails
<1>3. CASE Unknown
  BY <1>3 DEF Unknown
<1>4. CASE EntersArm
  <2>1. ArmAt(mode) \in {"A", "B", "C", "D", "unknown"}
    BY <1>4, ArmKnown DEF EntersArm, Selects
  <2> QED BY <1>4, <2>1 DEF EntersArm
<1>5. CASE Spin
  BY <1>5 DEF Spin, Polled
<1>6. CASE Pass
  <2>1. pc' \in {"work", "sub", "route", "wait1", "tail"}
    BY <1>6, AfterWaits DEF Pass, Polled
  <2>2. flag' \in Flags
    BY <1>6 DEF Pass, Polled
  <2> QED BY <1>6, <2>1, <2>2 DEF Pass
<1>7. CASE Work
  BY <1>7 DEF Work
<1>8. CASE AnswerEarly
  BY <1>8 DEF AnswerEarly, Returns
<1>9. CASE HandsOver
  <2>1. count \in Int
    BY <1>9 DEF HandsOver
  <2>2. stamped' \subseteq Nat
    BY <1>9, <2>1 DEF HandsOver, Stamps
  <2> QED BY <1>9, <2>2 DEF HandsOver, Returns, Refuses
<1>10. CASE GoesOn
  BY <1>10 DEF GoesOn
<1>11. CASE TailCopies
  BY <1>11 DEF TailCopies, Returns
<1>12. CASE TailKeeps
  BY <1>12 DEF TailKeeps, Returns
<1>13. CASE TailRefuses
  BY <1>13 DEF TailRefuses, Refuses
<1>14. CASE UNCHANGED vars
  BY <1>14 DEF vars
<1> QED BY <1>1, <1>2, <1>3, <1>4, <1>5, <1>6, <1>7, <1>8, <1>9, <1>10,
           <1>11, <1>12, <1>13, <1>14 DEF Next, Step

(* Every call leaves the dispatcher's record well typed (dispatch.c).      *)
THEOREM DispatchTypeCorrect == Spec => []TypeOK
<1>1. Init => TypeOK
  <2> SUFFICES ASSUME Init PROVE TypeOK
    OBVIOUS
  <2>1. enabled \in BOOLEAN /\ tailed \in BOOLEAN
    BY Zenon DEF Init
  <2>2. mode \in 0..255 /\ before \in 0..255 /\ gate \in 0..1 /\ rc \in {0, 4, 7, 9, 11}
    BY ValuesAssumption, SMT DEF Init
  <2>3. /\ pc = "idle" /\ arm = "none" /\ st = "OK" /\ pick = NoPick
        /\ stamped = {} /\ flag \in Flags /\ count \in Counts /\ halves \in Halves
    BY Zenon DEF Init
  <2> QED BY <2>1, <2>2, <2>3 DEF TypeOK
<1> QED BY <1>1, DispatchTypeStep, PTL DEF Spec

----------------------------------------------------------------------------
(* The mode byte is written where a call ends, and by others between two.  *)
LEMMA ArmStep == TypeOK /\ ArmHoldsMode /\ [Next]_vars => ArmHoldsMode'
<1> SUFFICES ASSUME TypeOK, ArmHoldsMode, [Next]_vars PROVE ArmHoldsMode'
  OBVIOUS
<1> USE DEF ArmHoldsMode, menu
<1>1. CASE Others
  BY <1>1 DEF Others
<1>2. CASE GuardFails
  BY <1>2 DEF GuardFails
<1>3. CASE Unknown
  BY <1>3 DEF Unknown
<1>4. CASE EntersArm
  BY <1>4, ArmKnown DEF EntersArm, Selects
<1>5. CASE Spin
  <2>1. pc # "idle"
    BY <1>5 DEF Spin, Polled, Waits
  <2> QED BY <1>5, <2>1 DEF Spin
<1>6. CASE Pass
  <2>1. pc # "idle"
    BY <1>6 DEF Pass, Polled, Waits
  <2> QED BY <1>6, <2>1 DEF Pass
<1>7. CASE Work
  BY <1>7 DEF Work
<1>8. CASE AnswerEarly
  BY <1>8 DEF AnswerEarly, Returns
<1>9. CASE HandsOver
  BY <1>9 DEF HandsOver, Returns, Refuses
<1>10. CASE GoesOn
  BY <1>10 DEF GoesOn
<1>11. CASE TailCopies
  BY <1>11 DEF TailCopies, Returns
<1>12. CASE TailKeeps
  BY <1>12 DEF TailKeeps, Returns
<1>13. CASE TailRefuses
  BY <1>13 DEF TailRefuses, Refuses
<1>14. CASE UNCHANGED vars
  BY <1>14 DEF vars
<1> QED BY <1>1, <1>2, <1>3, <1>4, <1>5, <1>6, <1>7, <1>8, <1>9, <1>10,
           <1>11, <1>12, <1>13, <1>14 DEF Next, Step

(* Whatever is polled, and however long, the byte that arm C reads again   *)
(* for the hand-over is the one it was picked by (dispatch.c:236-243).     *)
THEOREM ArmKeeps == Spec => []ArmHoldsMode
<1>1. Init => ArmHoldsMode
  BY DEF Init, ArmHoldsMode
<1> QED BY <1>1, ArmStep, DispatchTypeCorrect, PTL DEF Spec

----------------------------------------------------------------------------
(* What is known of a call by where it is: the selection it was let        *)
(* through by, and that past the branch the flag is none of those that end *)
(* the arm.                                                                *)
Ended == [A |-> {0, 2}, B |-> {0, 2}, C |-> {0, 2, 4}, D |-> {}, none |-> {}]
Routed ==
  /\ pc # "idle" => enabled \/ arm = "none"
  /\ pc # "idle" /\ arm = "none" => ~Selects /\ pc = "tail"
  /\ pc \in {"wait0", "work", "sub", "route"} => arm \in {"A", "B", "C"}
  /\ (pc = "wait1" /\ arm # "A") \/ pc = "tail" => flag \notin Ended[arm]

LEMMA RoutedStep ==
  TypeOK /\ ArmHoldsMode /\ Routed /\ [Next]_vars => Routed'
<1> SUFFICES ASSUME TypeOK, ArmHoldsMode, Routed, [Next]_vars PROVE Routed'
  OBVIOUS
<1> USE DEF Routed, Ended, menu, Selects
<1>1. CASE Others
  BY <1>1 DEF Others
<1>2. CASE GuardFails
  BY <1>2 DEF GuardFails
<1>3. CASE Unknown
  BY <1>3 DEF Unknown
<1>4. CASE EntersArm
  <2>1. ArmAt(mode) \in {"A", "B", "C", "D", "unknown"}
    BY <1>4, ArmKnown DEF EntersArm
  <2> QED BY <1>4, <2>1 DEF EntersArm
<1>5. CASE Spin
  BY <1>5 DEF Spin, Polled, Waits
<1>6. CASE Pass
  <2>1. CASE pc = "wait0"
    BY <1>6, <2>1 DEF Pass, Polled, After
  <2>2. CASE pc = "sub"
    BY <1>6, <2>2 DEF Pass, Polled, After
  <2>3. CASE pc = "wait1"
    BY <1>6, <2>3 DEF Pass, Polled, After, TypeOK
  <2> QED BY <1>6, <2>1, <2>2, <2>3 DEF Pass, Polled, Waits
<1>7. CASE Work
  BY <1>7 DEF Work
<1>8. CASE AnswerEarly
  BY <1>8 DEF AnswerEarly, Returns
<1>9. CASE HandsOver
  BY <1>9 DEF HandsOver, Returns, Refuses
<1>10. CASE GoesOn
  <2>1. arm \in {"A", "B", "C"}
    BY <1>10 DEF GoesOn
  <2>2. flag \notin Ended[arm]
    BY <1>10, <2>1 DEF GoesOn, Early
  <2> QED BY <1>10, <2>1, <2>2 DEF GoesOn
<1>11. CASE TailCopies
  BY <1>11 DEF TailCopies, Returns
<1>12. CASE TailKeeps
  BY <1>12 DEF TailKeeps, Returns
<1>13. CASE TailRefuses
  BY <1>13 DEF TailRefuses, Refuses
<1>14. CASE UNCHANGED vars
  BY <1>14 DEF vars
<1> QED BY <1>1, <1>2, <1>3, <1>4, <1>5, <1>6, <1>7, <1>8, <1>9, <1>10,
           <1>11, <1>12, <1>13, <1>14 DEF Next, Step

LEMMA RoutedAlways == Spec => []Routed
<1>1. Init => Routed
  BY DEF Init, Routed
<1> QED BY <1>1, RoutedStep, DispatchTypeCorrect, ArmKeeps, PTL DEF Spec

(* A running arm is the one that the contract reads off the mode byte ...  *)
LEMMA ArmRuns ==
  ASSUME TypeOK, ArmHoldsMode, Routed, pc # "idle", arm # "none",
         NEW a \in {"A", "B", "C", "D", "unknown"}
  PROVE  Answers!Selected /\ (Answers!Runs(a) <=> arm = a)
  BY DEF ArmHoldsMode, Routed, Answers!Selected, Answers!Runs

(* ... and where the tail runs, 9 is due.                                  *)
LEMMA TailDue ==
  ASSUME TypeOK, ArmHoldsMode, Routed, pc = "tail"
  PROVE  Answers!NineDue
<1>1. CASE arm = "none"
  BY <1>1 DEF Routed, Selects, Answers!NineDue, Answers!Selected
<1>2. CASE arm # "none"
  <2>1. arm \in {"A", "B", "C", "D"} /\ flag \notin Ended[arm]
    BY <1>2 DEF Routed, TypeOK
  <2>2. /\ Answers!Runs("A") <=> arm = "A"
        /\ Answers!Runs("B") <=> arm = "B"
        /\ Answers!Runs("C") <=> arm = "C"
        /\ Answers!Runs("D") <=> arm = "D"
    BY <1>2, ArmRuns
  <2> QED BY <2>1, <2>2 DEF Ended, Answers!NineDue, Answers!ElevenDue,
                            Answers!SevenDue, Answers!FourDue
<1> QED BY <1>1, <1>2

(* The first stamp that does not fit ends a hand-over, and all before it   *)
(* are set.                                                                *)
LEMMA StampsCut ==
  ASSUME count \in Int, Stamps # 0 .. count - 1
  PROVE  \E n \in 0 .. count - 1 :
           /\ Stamps = 0 .. n - 1 /\ Answers!StampAt(n) >= TaskLen
           /\ n > 0 => Answers!StampAt(n - 1) < TaskLen
<1> DEFINE n == (TaskLen - 49253) \div 208 + 1
<1>1. T2 = 49020 /\ TaskLen \in Nat /\ TaskLen >= 49152
  BY WindowAssumption DEF T2, TaskMin
<1>2. n \in Nat /\ 208 * (n - 1) <= TaskLen - 49253 /\ TaskLen - 49253 < 208 * n
  BY <1>1
<1>3. \A k \in Int : StampEnd(k) <= TaskLen <=> k < n
  BY <1>1, <1>2 DEF StampEnd
<1> HIDE DEF n
<1>4. Stamps = {k \in 0 .. count - 1 : k < n}
  BY <1>3 DEF Stamps
<1>5. n \in 0 .. count - 1
  BY <1>2, <1>4
<1>6. Stamps = 0 .. n - 1
  BY <1>2, <1>4, <1>5
<1>7. Answers!StampAt(n) >= TaskLen /\ (n > 0 => Answers!StampAt(n - 1) < TaskLen)
  BY <1>1, <1>2 DEF Answers!StampAt
<1> QED BY <1>5, <1>6, <1>7

LEMMA StampsFit ==
  ASSUME count \in Int, Stamps = 0 .. count - 1, count > 0
  PROVE  Answers!StampAt(count - 1) < TaskLen
<1>1. count - 1 \in Stamps /\ T2 = 49020 /\ TaskLen \in Nat
  BY WindowAssumption DEF T2
<1> QED BY <1>1 DEF Stamps, StampEnd, Answers!StampAt

(* Each step is a step of the contract, or changes nothing it speaks of.   *)
LEMMA AnswersStep ==
  TypeOK /\ ArmHoldsMode /\ Routed /\ [Next]_vars => [Answers!Next]_(Answers!vars)
<1> SUFFICES ASSUME TypeOK, ArmHoldsMode, Routed, [Next]_vars
             PROVE  Answers!Next \/ UNCHANGED Answers!vars
  OBVIOUS
<1> USE DEF Answers!vars, Answers!menu, Answers!asked, menu
<1>1. CASE Others
  <2>1. TypeOK'
    BY DispatchTypeStep
  <2>2. mode' \in Nat
    BY <2>1 DEF TypeOK
  <2> QED BY <1>1, <2>2 DEF Others, Answers!Others, Answers!Next
<1>2. CASE GuardFails
  BY <1>2 DEF GuardFails, Answers!Begin, Answers!Next
<1>3. CASE Unknown
  <2>1. Answers!Runs("unknown")
    BY <1>3, ArmKnown DEF Unknown, Selects, Answers!Runs, Answers!Selected
  <2> QED BY <1>3, <2>1 DEF Unknown, Answers!Unknown, Answers!Next
<1>4. CASE EntersArm
  BY <1>4 DEF EntersArm, Answers!Begin, Answers!Next
<1>5. CASE Spin
  <2>1. pc # "idle" /\ pc' = pc
    BY <1>5 DEF Spin, Polled, Waits
  <2> QED BY <1>5, <2>1 DEF Spin, Answers!Listens, Answers!Next
<1>6. CASE Pass
  <2>1. pc # "idle" /\ pc' # "idle"
    BY <1>6, AfterWaits DEF Pass, Polled, Waits
  <2> QED BY <1>6, <2>1 DEF Pass, Answers!Listens, Answers!Next
<1>7. CASE Work
  BY <1>7 DEF Work, Answers!Listens, Answers!Next
<1>8. CASE AnswerEarly
  <2>1. arm \in {"A", "B", "C"} /\ pc # "idle" /\ pc' = "idle"
    BY <1>8 DEF AnswerEarly, Returns, Routed
  <2>2. /\ Answers!Runs("A") <=> arm = "A"
        /\ Answers!Runs("B") <=> arm = "B"
        /\ Answers!Runs("C") <=> arm = "C"
    BY <2>1, ArmRuns
  <2>3. flag \in Early[arm] /\ Returns(IF arm = "A" /\ flag = 0 THEN 11 ELSE 7)
    BY <1>8 DEF AnswerEarly
  <2>4. UNCHANGED <<enabled, flag, halves, count, mode, before, pick, tailed, stamped>>
    BY <1>8 DEF AnswerEarly
  <2>5. CASE arm = "A" /\ flag = 0
    BY <2>1, <2>2, <2>3, <2>4, <2>5
       DEF Returns, Answers!Eleven, Answers!ElevenDue, Answers!Gives, Answers!Ends, Answers!Next
  <2>6. CASE ~(arm = "A" /\ flag = 0)
    <3>1. Answers!SevenDue
      BY <2>1, <2>2, <2>3, <2>6 DEF Early, Answers!SevenDue
    <3> QED BY <2>1, <2>3, <2>4, <2>6, <3>1
        DEF Returns, Answers!Seven, Answers!Gives, Answers!Ends, Answers!Next
  <2> QED BY <2>5, <2>6
<1>9. CASE HandsOver
  <2>1. arm = "C" /\ flag \in {0, 4} /\ pc # "idle"
    BY <1>9 DEF HandsOver
  <2>2. Answers!FourDue
    BY <2>1, ArmRuns DEF Answers!FourDue
  <2>3. count \in Int
    BY ValuesAssumption DEF TypeOK
  <2>4. /\ before' = mode /\ mode' = 11 /\ stamped' = Stamps
        /\ UNCHANGED <<enabled, flag, halves, count, pick, tailed>>
    BY <1>9 DEF HandsOver
  <2>5. CASE Stamps = 0 .. count - 1
    <3>1. Returns(4) /\ (count > 0 => Answers!StampAt(count - 1) < TaskLen)
      BY <1>9, <2>3, <2>5, StampsFit DEF HandsOver
    <3> QED BY <2>1, <2>2, <2>4, <2>5, <3>1
        DEF Returns, Answers!Four, Answers!Gives, Answers!Ends, Answers!Next
  <2>6. CASE Stamps # 0 .. count - 1
    <3>1. Refuses
      BY <1>9, <2>6 DEF HandsOver
    <3>2. \E n \in 0 .. count - 1 :
            /\ stamped' = 0 .. n - 1 /\ Answers!StampAt(n) >= TaskLen
            /\ n > 0 => Answers!StampAt(n - 1) < TaskLen
      BY <2>3, <2>4, <2>6, StampsCut
    <3>3. Answers!Refuses
      BY <2>1, <2>4, <3>1 DEF Refuses, Answers!Refuses, Answers!Ends
    <3>4. Answers!Four
      BY <2>2, <2>4, <3>2, <3>3 DEF Answers!Four
    <3> QED BY <3>4 DEF Answers!Next
  <2> QED BY <2>5, <2>6
<1>10. CASE GoesOn
  BY <1>10 DEF GoesOn, Answers!Listens, Answers!Next
<1>11. CASE TailCopies \/ TailKeeps \/ TailRefuses
  <2>1. pc = "tail" /\ pc' = "idle"
    BY <1>11 DEF TailCopies, TailKeeps, TailRefuses, Returns, Refuses
  <2>2. Answers!NineDue
    BY <2>1, TailDue
  <2>3. halves[1] \in Int /\ halves[2] \in Int /\ TaskLen \in Nat
    BY ValuesAssumption, WindowAssumption DEF TypeOK
  <2>4. /\ Copies <=> Answers!Picks
        /\ MarkFits <=> Answers!MarkAt + 1 < TaskLen
        /\ ~MarkFits <=> Answers!MarkAt + 1 >= TaskLen
    BY <2>3 DEF Copies, Answers!Picks, MarkFits, MarkEnd, Answers!MarkAt
  <2>5. CASE TailCopies
    BY <2>1, <2>2, <2>4, <2>5
       DEF TailCopies, Returns, Answers!Nine, Answers!Gives, Answers!Ends, Answers!Next
  <2>6. CASE TailKeeps
    BY <2>1, <2>2, <2>4, <2>6
       DEF TailKeeps, Returns, Answers!Nine, Answers!Gives, Answers!Ends, Answers!Next
  <2>7. CASE TailRefuses
    BY <2>1, <2>2, <2>4, <2>7
       DEF TailRefuses, Refuses, Answers!Outside, Answers!Refuses, Answers!Ends, Answers!Next
  <2> QED BY <1>11, <2>5, <2>6, <2>7
<1>12. CASE UNCHANGED vars
  BY <1>12 DEF vars
<1> QED BY <1>1, <1>2, <1>3, <1>4, <1>5, <1>6, <1>7, <1>8, <1>9, <1>10,
           <1>11, <1>12 DEF Next, Step

(* The answer of a call, its status and what it does to the menu are those *)
(* of its mode byte, the last flag, the halves, the count and the window,  *)
(* whatever is polled, for any table and window (dispatch.h:80-98).        *)
THEOREM AnswersOnce == Spec => AnswersSpec
<1>1. Init => Answers!Init
  BY DEF Init, Answers!Init
<1> QED BY <1>1, AnswersStep, DispatchTypeCorrect, ArmKeeps, RoutedAlways, PTL
        DEF Spec, AnswersSpec, Answers!Spec
=============================================================================
