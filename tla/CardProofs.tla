------------------------------ MODULE CardProofs ------------------------------
(***************************************************************************)
(* Proofs about the card status driver, for any keyboard, any window and   *)
(* any longest text: the types, and that the cursor stays in a text that   *)
(* ends inside its window.                                                 *)
(***************************************************************************)
EXTENDS CardDriver, FiniteSetTheorems, SequenceTheorems, TLAPS

(* The text of a window ends at its first Nul; the invariant names that    *)
(* place, since Length is a choice among all of them.                      *)
Ends(text, n) == /\ n \in DOMAIN text /\ text[n] = Nul
                 /\ \A i \in DOMAIN text : i < n => text[i] # Nul

Window(n) == [0 .. n - 1 -> Glyphs \cup {Nul}]

Counting == /\ c14 \in Int /\ c14 <= Full /\ c16 \in 0 .. Blink - 1
            /\ c18 \in 0 .. Pulse - 1
Pointing == row \in Rows /\ col \in 0 .. Cols - 1
Answered == rc \in {-3, -2, -1, 0} /\ st \in {"OK", "OOB"} /\ aux \in Tables
Texts    == \E n \in Windows : data \in Window(n)
Cursor   == /\ cnt \in Nat
            /\ \E n \in Nat : Ends(data, n) /\ cnt <= n /\ n <= Limit
Served   == Whole /\ Cardinality(Bytes) > Limit => st = "OK"

CardInv == Counting /\ Pointing /\ Answered /\ Texts /\ Cursor /\ Served

(* The first Nul of a window, of any.                                      *)
LEMMA FirstNul ==
  ASSUME NEW n \in Nat, NEW text \in Window(n), NEW m \in Nat, Ends(text, m)
  PROVE  Min({i \in 0 .. n - 1 : text[i] = Nul}) = m
<1> DEFINE S == {i \in 0 .. n - 1 : text[i] = Nul}
<1>1. m \in S /\ \A y \in S : m <= y
  BY DEF Ends, Window
<1>2. \A x \in S : (\A y \in S : x <= y) => x = m
  BY <1>1
<1> HIDE DEF S
<1>3. Min(S) = m
  BY <1>1, <1>2 DEF Min
<1> QED BY <1>3 DEF S

(* A window's size is one more than its last place.                        *)
LEMMA WindowSize ==
  ASSUME NEW n \in Windows, data \in Window(n)
  PROVE  Cardinality(Bytes) = n /\ n \in Nat \ {0} /\ Bytes = 0 .. n - 1
<1>1. n \in Nat \ {0} BY TextAssumption
<1>2. Bytes = 0 .. n - 1 BY DEF Window, Bytes
<1>3. Cardinality(0 .. n - 1) = n BY <1>1, FS_Interval
<1> QED BY <1>1, <1>2, <1>3

(* Length is where the text ends.                                          *)
LEMMA LengthEnds ==
  ASSUME NEW n \in Windows, data \in Window(n), NEW text \in Window(n),
         NEW m \in Nat, Ends(text, m)
  PROVE  Length(text) = m
<1>1. n \in Nat /\ Bytes = 0 .. n - 1 BY WindowSize
<1> QED BY <1>1, FirstNul DEF Length

-----------------------------------------------------------------------------
(* A byte taken out of the text makes it one shorter.                      *)
LEMMA TakenOutEnds ==
  ASSUME NEW n \in Windows, data \in Window(n), NEW text \in Window(n),
         NEW m \in Nat, Ends(text, m), NEW v \in Nat, v < m
  PROVE  TakenOut(text, v) \in Window(n) /\ Ends(TakenOut(text, v), m - 1)
<1>1. Length(text) = m BY LengthEnds
<1>2. Bytes = 0 .. n - 1 /\ n \in Nat BY WindowSize
<1>3. m \in 0 .. n - 1 /\ text[m] = Nul /\ \A i \in 0 .. m - 1 : text[i] # Nul
  BY <1>2 DEF Ends, Window
<1>4. TakenOut(text, v) =
        [i \in 0 .. n - 1 |-> IF v <= i /\ i < m THEN text[i + 1] ELSE text[i]]
  BY <1>1, <1>2 DEF TakenOut
<1>5. TakenOut(text, v) \in Window(n)
  BY <1>2, <1>3, <1>4 DEF Window
<1>6. Ends(TakenOut(text, v), m - 1)
  BY <1>2, <1>3, <1>4 DEF Ends
<1> QED BY <1>5, <1>6

(* Bytes moved up by one leave a text one longer; only one that is moved   *)
(* up from its end on stays as it was.                                     *)
LEMMA ShiftedEnds ==
  ASSUME NEW n \in Windows, data \in Window(n), NEW m \in Nat, Ends(data, m),
         cnt \in Nat, cnt <= m, m + 1 < n
  PROVE  /\ Shifted(m) \in Window(n)
         /\ Ends(Shifted(m), IF cnt < m THEN m + 1 ELSE m)
         /\ \A g \in Glyphs : /\ [Shifted(m) EXCEPT ![cnt] = g] \in Window(n)
                              /\ Ends([Shifted(m) EXCEPT ![cnt] = g], m + 1)
<1>1. Bytes = 0 .. n - 1 /\ n \in Nat BY WindowSize
<1>2. data[m] = Nul /\ \A i \in 0 .. m - 1 : data[i] # Nul
  BY <1>1 DEF Ends, Window
<1>3. Shifted(m) = [i \in 0 .. n - 1 |->
                      IF cnt < i /\ i <= m + 1 THEN data[i - 1] ELSE data[i]]
  BY <1>1 DEF Shifted
<1>4. Shifted(m) \in Window(n)
  BY <1>1, <1>3 DEF Window
<1>5. Ends(Shifted(m), IF cnt < m THEN m + 1 ELSE m)
  BY <1>1, <1>2, <1>3 DEF Ends
<1>6. ASSUME NEW g \in Glyphs
      PROVE  /\ [Shifted(m) EXCEPT ![cnt] = g] \in Window(n)
             /\ Ends([Shifted(m) EXCEPT ![cnt] = g], m + 1)
  <2>1. g # Nul BY NulAssumption
  <2> DEFINE T == [Shifted(m) EXCEPT ![cnt] = g]
  <2>2. T = [i \in 0 .. n - 1 |-> IF i = cnt THEN g
               ELSE IF cnt < i /\ i <= m + 1 THEN data[i - 1] ELSE data[i]]
    BY <1>1, <1>3
  <2> HIDE DEF T
  <2>3. T \in Window(n)
    BY <1>1, <2>2 DEF Window
  <2>4. Ends(T, m + 1)
    BY <1>1, <1>2, <2>1, <2>2 DEF Ends
  <2> QED BY <2>3, <2>4 DEF T
<1> QED BY <1>4, <1>5, <1>6

(* Every glyph above the menu row is in a whole table.                     *)
LEMMA IndexInTable ==
  ASSUME Pointing, row # MenuRow, Whole
  PROVE  Index \in DOMAIN aux
<1>1. Cols \in Nat /\ MenuRow \in Nat /\ row \in 0 .. MenuRow - 1 /\ col \in 0 .. Cols - 1
  BY GridAssumption DEF Pointing, Rows
<1>2. row * Cols \in Nat /\ (row + 1) * Cols = row * Cols + Cols
  BY <1>1
<1>3. ASSUME NEW a \in Nat, NEW b \in Nat, NEW c \in Nat, a <= b
      PROVE  a * c <= b * c
  BY <1>3
<1>4. (row + 1) * Cols <= MenuRow * Cols
  BY <1>1, <1>3
<1> QED BY <1>1, <1>2, <1>4 DEF Index, Whole

-----------------------------------------------------------------------------
LEMMA CardInitInv == Init => CardInv
<1> SUFFICES ASSUME Init PROVE CardInv
  OBVIOUS
<1>1. Counting
  BY CountersAssumption DEF Init, Counting
<1>2. Pointing
  BY GridAssumption DEF Init, Pointing, Rows
<1>3. Answered /\ Served
  BY DEF Init, Answered, Served
<1>4. PICK n \in Windows : data = [i \in 0 .. n - 1 |-> Nul]
  BY DEF Init
<1>5. n \in Nat \ {0} BY TextAssumption
<1>6. Texts
  BY <1>4, <1>5 DEF Texts, Window
<1>7. cnt = 0 /\ Ends(data, 0)
  BY <1>4, <1>5 DEF Init, Ends
<1>8. Cursor
  BY <1>7, TextAssumption DEF Cursor
<1> QED BY <1>1, <1>2, <1>3, <1>6, <1>8 DEF CardInv

LEMMA CountingStep ==
  ASSUME CardInv, [Next]_vars
  PROVE  Counting'
<1>1. CASE Climb
  BY <1>1, CountersAssumption DEF CardInv, Counting, Climb, Climbed
<1>2. CASE Counts
  BY <1>2, CountersAssumption DEF CardInv, Counting, Counts, Bump
<1>3. CASE UNCHANGED vars
  BY <1>3 DEF CardInv, Counting, vars
<1> QED BY <1>1, <1>2, <1>3 DEF Next, Step, NoEvent, EraseNothing, Erase, Type,
     TypeRefused, TypeFull, PressButton, Jump, Maze

LEMMA PointingStep ==
  ASSUME CardInv, [Next]_vars
  PROVE  Pointing'
<1>1. CASE Jump
  BY <1>1, GridAssumption DEF CardInv, Pointing, Jump, Rows, Half
<1>2. ASSUME NEW l \in BOOLEAN, NEW r \in BOOLEAN, NEW b \in BOOLEAN, NEW a \in BOOLEAN,
             Maze(l, r, b, a)
      PROVE  Pointing'
  <2>1. row' \in Rows /\ col \in 0 .. Cols - 1 /\ Cols \in Nat /\ Cols > 1
    BY <1>2, GridAssumption DEF CardInv, Pointing, Maze
  <2>2. Half \in 1 .. Cols - 1
    BY <2>1 DEF Half
  <2>3. Back(b, col, row') \in 0 .. Cols - 1
    BY <2>1, <2>2 DEF Back
  <2>4. Ahead(a, Back(b, col, row'), row') \in 0 .. Cols - 1
    BY <2>1, <2>2, <2>3 DEF Ahead
  <2> QED BY <1>2, <2>1, <2>4 DEF Maze, Pointing
<1>3. CASE UNCHANGED <<row, col>>
  BY <1>3 DEF CardInv, Pointing
<1> QED BY <1>1, <1>2, <1>3 DEF Next, Step, Climb, NoEvent, EraseNothing, Erase, Type,
     TypeRefused, TypeFull, PressButton, vars

LEMMA AnsweredStep ==
  ASSUME CardInv, [Next]_vars
  PROVE  Answered'
<1>1. aux' = aux
  BY DEF Next, vars
<1>2. rc' \in {-3, -2, -1, 0} /\ st' \in {"OK", "OOB"}
  BY DEF CardInv, Answered, Next, Step, Climb, NoEvent, EraseNothing, Erase, Type,
     TypeRefused, TypeFull, PressButton, Jump, Maze, Returns, vars
<1> QED BY <1>1, <1>2 DEF CardInv, Answered

(* The text and its cursor, lane by lane.                                  *)
LEMMA CursorStep ==
  ASSUME CardInv, [Next]_vars
  PROVE  Texts' /\ Cursor'
<1>1. PICK n \in Windows : data \in Window(n)
  BY DEF CardInv, Texts
<1>2. PICK m \in Nat : Ends(data, m) /\ cnt <= m /\ m <= Limit
  BY DEF CardInv, Cursor
<1>3. cnt \in Nat /\ n \in Nat /\ Limit \in Nat
  BY <1>1, WindowSize, TextAssumption DEF CardInv, Cursor
<1>4. Length(data) = m
  BY <1>1, <1>2, LengthEnds
<1>5. Cardinality(Bytes) = n /\ Bytes = 0 .. n - 1 /\ m \in 0 .. n - 1
  <2>1. Cardinality(Bytes) = n /\ Bytes = 0 .. n - 1
    BY <1>1, WindowSize
  <2>2. m \in Bytes
    BY <1>2 DEF Ends, Bytes
  <2> QED BY <2>1, <2>2
<1> USE DEF Cursor, Texts
<1>6. ASSUME UNCHANGED data, cnt' \in 0 .. m
      PROVE  Texts' /\ Cursor'
  <2>1. Ends(data, m)'
    BY <1>2, <1>6 DEF Ends
  <2>2. data' \in Window(n)
    BY <1>1, <1>6
  <2>3. Texts'
    BY <2>2 DEF Window
  <2> QED BY <1>2, <1>3, <1>6, <2>1, <2>3
<1>7. ASSUME NEW k \in Nat, Ends(data', k), data' \in Window(n), cnt' \in 0 .. k, k <= Limit
      PROVE  Texts' /\ Cursor'
  <2>1. Ends(data, k)'
    BY <1>7 DEF Ends
  <2>2. Texts'
    BY <1>7 DEF Window
  <2> QED BY <1>7, <2>1, <2>2
<1>8. CASE Erase
  <2>1. cnt > 0 /\ cnt' = cnt - 1 /\ data' = TakenOut(data, cnt - 1)
    BY <1>8 DEF Erase, Erased
  <2>2. cnt - 1 \in Nat /\ cnt - 1 < m
    BY <1>2, <1>3, <2>1
  <2>3. data' \in Window(n) /\ Ends(data', m - 1)
    BY <1>1, <1>2, <2>1, <2>2, TakenOutEnds
  <2> QED BY <1>2, <1>3, <1>7, <2>1, <2>2, <2>3
<1>9. CASE Type
  <2>1. m < Limit /\ m + 1 < n /\ Index \in DOMAIN aux
    BY <1>2, <1>3, <1>4, <1>5, <1>9 DEF Type, HasRoom, OutOfWindow
  <2>2. aux[Index] \in Glyphs
    BY <2>1, TableAssumption DEF CardInv, Answered
  <2>3. Typed = [Shifted(m) EXCEPT ![cnt] = aux[Index]]
    BY <1>4 DEF Typed
  <2>4. Typed \in Window(n) /\ Ends(Typed, m + 1)
    BY <1>1, <1>2, <1>3, <2>1, <2>2, <2>3, ShiftedEnds
  <2>5. cnt < m + 1
    BY <1>2, <1>3
  <2>6. TakenOut(Typed, cnt) \in Window(n) /\ Ends(TakenOut(Typed, cnt), m + 1 - 1)
    BY <1>1, <1>3, <2>4, <2>5, TakenOutEnds
  <2>7. CASE data' = Typed /\ cnt' = cnt + 1
    BY <1>2, <1>3, <1>7, <2>1, <2>4, <2>7
  <2>8. CASE data' = TakenOut(Typed, cnt) /\ cnt' = cnt
    BY <1>2, <1>3, <1>7, <2>6, <2>8
  <2> QED BY <1>9, <2>7, <2>8 DEF Type
<1>10. CASE TypeRefused
  <2>1. cnt' = cnt /\ m < Limit
    BY <1>4, <1>10, <1>2, <1>3 DEF TypeRefused, HasRoom
  <2>2. CASE UNCHANGED data
    BY <1>2, <1>3, <1>6, <2>1, <2>2
  <2>3. CASE ~OutOfWindow(Length(data)) /\ data' = Shifted(Length(data))
    <3>1. m + 1 < n
      BY <1>2, <1>3, <1>4, <1>5, <2>3 DEF OutOfWindow
    <3>2. data' \in Window(n) /\ Ends(data', IF cnt < m THEN m + 1 ELSE m)
      BY <1>1, <1>2, <1>3, <1>4, <2>3, <3>1, ShiftedEnds
    <3> QED BY <1>2, <1>3, <1>7, <2>1, <3>2
  <2> QED BY <1>10, <2>2, <2>3 DEF TypeRefused
<1>11. ASSUME NEW l \in BOOLEAN, NEW r \in BOOLEAN, NEW b \in BOOLEAN, NEW a \in BOOLEAN,
              Maze(l, r, b, a)
       PROVE  Texts' /\ Cursor'
  <2>1. Left(l, cnt) \in 0 .. m
    BY <1>2, <1>3 DEF Left
  <2>2. \A c \in Nat : c <= m => Min({c + 1, m}) \in 0 .. m
    BY <1>2 DEF Min
  <2>3. Right(r, Left(l, cnt)) \in 0 .. m
    BY <1>4, <2>1, <2>2 DEF Right
  <2> QED BY <1>6, <1>11, <2>3 DEF Maze
<1>12. CASE UNCHANGED <<cnt, data>>
  BY <1>2, <1>3, <1>6, <1>12
<1> QED BY <1>8, <1>9, <1>10, <1>11, <1>12 DEF Next, Step, Climb, NoEvent, EraseNothing,
     TypeFull, PressButton, Jump, vars

(* With a whole table and room for the longest text nothing is refused.    *)
LEMMA ServedStep ==
  ASSUME CardInv, [Next]_vars
  PROVE  Served'
<1>1. PICK n \in Windows : data \in Window(n)
  BY DEF CardInv, Texts
<1>2. PICK m \in Nat : Ends(data, m) /\ cnt <= m /\ m <= Limit
  BY DEF CardInv, Cursor
<1>3. cnt \in Nat /\ n \in Nat /\ Limit \in Nat
  BY <1>1, WindowSize, TextAssumption DEF CardInv, Cursor
<1>4. Length(data) = m /\ Cardinality(Bytes) = n /\ Bytes = 0 .. n - 1
  BY <1>1, <1>2, LengthEnds, WindowSize
<1>5. DOMAIN data' = DOMAIN data
  BY <1>1 DEF Next, Step, Climb, NoEvent, EraseNothing, Erase, Type, TypeRefused,
     TypeFull, PressButton, Jump, Maze, vars, TakenOut, Typed, Shifted, Bytes
<1>6. Whole' = Whole /\ Bytes' = Bytes
  BY <1>5 DEF Whole, Bytes, Next, vars
<1>7. CASE st' = "OK"
  BY <1>7 DEF Served
<1>8. CASE TypeRefused
  <2>1. SUFFICES ASSUME Whole, n > Limit PROVE FALSE
    BY <1>4, <1>6 DEF Served
  <2>2. Index \in DOMAIN aux
    BY <1>8, <2>1, IndexInTable DEF CardInv, TypeRefused
  <2>3. m < Limit /\ OutOfWindow(m)
    BY <1>2, <1>3, <1>4, <1>8, <2>2 DEF TypeRefused, HasRoom
  <2> QED BY <1>2, <1>3, <1>4, <2>1, <2>3 DEF OutOfWindow
<1>9. CASE UNCHANGED vars
  BY <1>6, <1>9 DEF CardInv, Served, vars
<1> QED BY <1>7, <1>8, <1>9 DEF Next, Step, Climb, NoEvent, EraseNothing, Erase, Type,
     TypeFull, PressButton, Jump, Maze, Returns

LEMMA CardStep == CardInv /\ [Next]_vars => CardInv'
BY CountingStep, PointingStep, AnsweredStep, CursorStep, ServedStep DEF CardInv

LEMMA CardTypes == CardInv => TypeOK /\ CursorInText
<1> SUFFICES ASSUME CardInv PROVE TypeOK /\ CursorInText
  OBVIOUS
<1>1. PICK n \in Windows : data \in Window(n)
  BY DEF CardInv, Texts
<1>2. PICK m \in Nat : Ends(data, m) /\ cnt <= m /\ m <= Limit
  BY DEF CardInv, Cursor
<1>3. Length(data) = m
  BY <1>1, <1>2, LengthEnds
<1>4. cnt \in 0 .. Limit
  BY <1>2, TextAssumption DEF CardInv, Cursor
<1>5. TypeOK
  BY <1>1, <1>4 DEF CardInv, Counting, Pointing, Answered, Window, TypeOK
<1>6. CursorInText
  BY <1>2, <1>3 DEF CardInv, Served, CursorInText, Ends, Bytes
<1> QED BY <1>5, <1>6

-----------------------------------------------------------------------------
(* The fields of the state block keep their ranges, for any keyboard, any  *)
(* window and any periods of the counters (gt2_card_run).                  *)
THEOREM CardTypeCorrect == Spec => []TypeOK
BY CardInitInv, CardStep, CardTypes, PTL DEF Spec

(* The cursor stays in a text that ends inside its window, and a call is   *)
(* refused only for a table or a window too short (card.c:111-173).        *)
THEOREM CursorKept == Spec => []CursorInText
BY CardInitInv, CardStep, CardTypes, PTL DEF Spec

-----------------------------------------------------------------------------
(* The driver is a text field.  First, what the field's operations give,   *)
(* letter by letter.                                                       *)
TextOf(d, n) == [k \in 1 .. n |-> d[k - 1]]

LEMMA JoinLetters ==
  ASSUME NEW S, NEW a \in Seq(S), NEW b \in Seq(S), NEW n \in Nat, Len(a) + Len(b) = n,
         NEW f \in [1 .. n -> S],
         \A k \in 1 .. n : f[k] = IF k <= Len(a) THEN a[k] ELSE b[k - Len(a)]
  PROVE  a \o b = f
<1>1. a \o b \in Seq(S) /\ Len(a \o b) = n
      /\ \A k \in 1 .. n : (a \o b)[k] = IF k <= Len(a) THEN a[k] ELSE b[k - Len(a)]
  BY ConcatProperties
<1> DEFINE c == a \o b
<1> HIDE DEF c
<1>2. c \in [1 .. n -> S] /\ \A k \in 1 .. n : c[k] = f[k]
  BY <1>1, LenProperties DEF c
<1>3. c = f
  BY <1>2
<1> QED BY <1>3 DEF c

LEMMA RemoveLetters ==
  ASSUME NEW S, NEW s \in Seq(S), NEW i \in 1 .. Len(s)
  PROVE  Field!RemoveAt(s, i) =
           [k \in 1 .. Len(s) - 1 |-> IF k < i THEN s[k] ELSE s[k + 1]]
<1> DEFINE a == SubSeq(s, 1, i - 1)
           b == SubSeq(s, i + 1, Len(s))
           f == [k \in 1 .. Len(s) - 1 |-> IF k < i THEN s[k] ELSE s[k + 1]]
<1>1. Len(s) \in Nat /\ i \in Nat /\ i >= 1 /\ i <= Len(s)
  OBVIOUS
<1>2. a \in Seq(S) /\ Len(a) = i - 1 /\ \A k \in 1 .. i - 1 : a[k] = s[k]
  BY <1>1
<1>3. b \in Seq(S) /\ Len(b) = Len(s) - i /\ \A k \in 1 .. Len(s) - i : b[k] = s[k + i]
  BY <1>1
<1>4. Field!RemoveAt(s, i) = a \o b
  BY DEF Field!RemoveAt
<1> HIDE DEF a, b
<1>5. \A k \in 1 .. Len(s) - 1 : f[k] = IF k <= Len(a) THEN a[k] ELSE b[k - Len(a)]
  BY <1>1, <1>2, <1>3
<1>6. Len(a) + Len(b) = Len(s) - 1 /\ Len(s) - 1 \in Nat
  BY <1>1, <1>2, <1>3
<1>7. f \in [1 .. Len(s) - 1 -> S]
  BY <1>1
<1> HIDE DEF f
<1>8. a \o b = f
  BY <1>2, <1>3, <1>5, <1>6, <1>7, JoinLetters
<1> QED BY <1>4, <1>8 DEF f

LEMMA InsertLetters ==
  ASSUME NEW S, NEW s \in Seq(S), NEW i \in 1 .. Len(s) + 1, NEW e \in S
  PROVE  Field!InsertAt(s, i, e) =
           [k \in 1 .. Len(s) + 1 |-> IF k < i THEN s[k] ELSE IF k = i THEN e ELSE s[k - 1]]
<1> DEFINE a == SubSeq(s, 1, i - 1)
           b == <<e>>
           c == SubSeq(s, i, Len(s))
           d == [k \in 1 .. i |-> IF k < i THEN s[k] ELSE e]
           f == [k \in 1 .. Len(s) + 1 |->
                   IF k < i THEN s[k] ELSE IF k = i THEN e ELSE s[k - 1]]
<1>1. Len(s) \in Nat /\ i \in Nat /\ i >= 1 /\ i <= Len(s) + 1
  OBVIOUS
<1>2. a \in Seq(S) /\ Len(a) = i - 1 /\ \A k \in 1 .. i - 1 : a[k] = s[k]
  BY <1>1
<1>3. b \in Seq(S) /\ Len(b) = 1 /\ b[1] = e
  OBVIOUS
<1>4. c \in Seq(S) /\ Len(c) = Len(s) - i + 1 /\ \A k \in 1 .. Len(s) - i + 1 : c[k] = s[k + i - 1]
  BY <1>1
<1>5. Field!InsertAt(s, i, e) = (a \o b) \o c
  BY DEF Field!InsertAt
<1>6. d \in Seq(S) /\ Len(d) = i /\ \A k \in 1 .. i : d[k] = IF k < i THEN s[k] ELSE e
  BY <1>1
<1>7. d \in [1 .. i -> S]
  BY <1>1
<1>8. f \in [1 .. Len(s) + 1 -> S]
  BY <1>1
<1>9. \A k \in 1 .. Len(s) + 1 :
        f[k] = IF k < i THEN s[k] ELSE IF k = i THEN e ELSE s[k - 1]
  OBVIOUS
<1> HIDE DEF a, b, c, d, f
<1>10. Len(a) + Len(b) = i
       /\ \A k \in 1 .. i : d[k] = IF k <= Len(a) THEN a[k] ELSE b[k - Len(a)]
  <2>1. Len(a) + Len(b) = i
    BY <1>1, <1>2, <1>3
  <2>2. ASSUME NEW k \in 1 .. i
        PROVE  d[k] = IF k <= Len(a) THEN a[k] ELSE b[k - Len(a)]
    <3>1. CASE k < i
      BY <1>1, <1>2, <1>6, <3>1
    <3>2. CASE k = i
      BY <1>1, <1>2, <1>3, <1>6, <3>2
    <3> QED BY <1>1, <3>1, <3>2
  <2> QED BY <2>1, <2>2
<1>11. a \o b = d
  <2>1. i \in Nat /\ Len(a) + Len(b) = i
    BY <1>1, <1>10
  <2>2. \A k \in 1 .. i : d[k] = IF k <= Len(a) THEN a[k] ELSE b[k - Len(a)]
    BY <1>10
  <2>3. a \in Seq(S) /\ b \in Seq(S)
    BY <1>2, <1>3
  <2> QED BY <1>7, <2>1, <2>2, <2>3, JoinLetters
<1>12. Len(d) + Len(c) = Len(s) + 1 /\ Len(s) + 1 \in Nat
       /\ \A k \in 1 .. Len(s) + 1 : f[k] = IF k <= Len(d) THEN d[k] ELSE c[k - Len(d)]
  <2>1. Len(d) = i /\ Len(c) = Len(s) - i + 1
    BY <1>4, <1>6
  <2>2. ASSUME NEW k \in 1 .. Len(s) + 1
        PROVE  f[k] = IF k <= Len(d) THEN d[k] ELSE c[k - Len(d)]
    <3>1. CASE k <= i
      <4>1. k \in 1 .. i
        BY <1>1, <3>1
      <4>2. d[k] = IF k < i THEN s[k] ELSE e
        BY <1>6, <4>1
      <4>3. f[k] = IF k < i THEN s[k] ELSE e
        BY <1>1, <1>9, <3>1
      <4> QED BY <2>1, <3>1, <4>2, <4>3
    <3>2. CASE k > i
      <4>1. k - i \in 1 .. Len(s) - i + 1 /\ (k - i) + i - 1 = k - 1
        BY <1>1, <3>2
      <4>2. c[k - i] = s[k - 1]
        BY <1>4, <4>1
      <4>3. f[k] = s[k - 1]
        BY <1>1, <1>9, <3>2
      <4>4. ~(k <= i)
        BY <1>1, <3>2
      <4> QED BY <2>1, <4>2, <4>3, <4>4
    <3> QED BY <1>1, <3>1, <3>2
  <2>3. Len(d) + Len(c) = Len(s) + 1 /\ Len(s) + 1 \in Nat
    BY <1>1, <2>1
  <2> QED BY <2>2, <2>3
<1>13. d \o c = f
  BY <1>4, <1>6, <1>8, <1>12, JoinLetters
<1> QED BY <1>5, <1>11, <1>13 DEF f

(* The text of a window, before and after a lane has changed it.           *)
LEMMA Letters ==
  ASSUME NEW n \in Nat, NEW d \in Window(n), NEW m \in Nat, Ends(d, m)
  PROVE  /\ TextOf(d, m) \in Seq(Glyphs) /\ Len(TextOf(d, m)) = m
         /\ \A k \in 1 .. m : TextOf(d, m)[k] = d[k - 1]
<1>1. \A k \in 1 .. m : k - 1 \in 0 .. n - 1 /\ d[k - 1] # Nul
  BY DEF Ends, Window
<1>2. \A k \in 1 .. m : d[k - 1] \in Glyphs
  BY <1>1 DEF Window
<1> QED BY <1>2 DEF TextOf

LEMMA ErasedText ==
  ASSUME NEW n \in Windows, data \in Window(n), NEW m \in Nat, Ends(data, m),
         NEW v \in Nat, v < m
  PROVE  TextOf(TakenOut(data, v), m - 1) = Field!RemoveAt(TextOf(data, m), v + 1)
<1>1. n \in Nat /\ Bytes = 0 .. n - 1 /\ Length(data) = m /\ m \in 0 .. n - 1
  BY WindowSize, LengthEnds DEF Ends, Bytes
<1> DEFINE t == TextOf(data, m)
<1>2. t \in Seq(Glyphs) /\ Len(t) = m /\ \A k \in 1 .. m : t[k] = data[k - 1]
  BY <1>1, Letters
<1> HIDE DEF t
<1>3. Field!RemoveAt(t, v + 1) =
        [k \in 1 .. m - 1 |-> IF k < v + 1 THEN t[k] ELSE t[k + 1]]
  <2>1. v + 1 \in 1 .. Len(t)
    BY <1>2
  <2> QED BY <1>2, <2>1, RemoveLetters
<1>4. TakenOut(data, v) =
        [i \in 0 .. n - 1 |-> IF v <= i /\ i < m THEN data[i + 1] ELSE data[i]]
  BY <1>1 DEF TakenOut
<1>5. \A k \in 1 .. m - 1 :
        TakenOut(data, v)[k - 1] = IF k < v + 1 THEN t[k] ELSE t[k + 1]
  BY <1>1, <1>2, <1>4
<1> QED BY <1>3, <1>5 DEF TextOf, t

LEMMA InsertedText ==
  ASSUME NEW n \in Windows, data \in Window(n), NEW m \in Nat, Ends(data, m),
         cnt \in Nat, cnt <= m, m + 1 < n
  PROVE  /\ \A g \in Glyphs :
              TextOf([Shifted(m) EXCEPT ![cnt] = g], m + 1)
                = Field!InsertAt(TextOf(data, m), cnt + 1, g)
         /\ \A g \in Glyphs :
              TextOf(TakenOut([Shifted(m) EXCEPT ![cnt] = g], cnt), m) = TextOf(data, m)
         /\ cnt < m => TextOf(Shifted(m), m + 1)
                        = Field!InsertAt(TextOf(data, m), cnt + 1, TextOf(data, m)[cnt + 1])
         /\ cnt = m => TextOf(Shifted(m), m) = TextOf(data, m)
<1>1. n \in Nat /\ Bytes = 0 .. n - 1
  BY WindowSize
<1> DEFINE t == TextOf(data, m)
<1>2. t \in Seq(Glyphs) /\ Len(t) = m /\ \A k \in 1 .. m : t[k] = data[k - 1]
  BY <1>1, Letters
<1>3. Shifted(m) = [i \in 0 .. n - 1 |->
                      IF cnt < i /\ i <= m + 1 THEN data[i - 1] ELSE data[i]]
  BY <1>1 DEF Shifted
<1> HIDE DEF t
<1>4. ASSUME NEW e \in Glyphs
      PROVE  Field!InsertAt(t, cnt + 1, e) =
        [k \in 1 .. m + 1 |-> IF k < cnt + 1 THEN t[k] ELSE IF k = cnt + 1 THEN e ELSE t[k - 1]]
  <2> DEFINE i == cnt + 1
  <2>1. i \in 1 .. Len(t) + 1
    BY <1>2
  <2> HIDE DEF i
  <2>2. Field!InsertAt(t, i, e) =
          [k \in 1 .. Len(t) + 1 |-> IF k < i THEN t[k] ELSE IF k = i THEN e ELSE t[k - 1]]
    BY <1>2, <2>1, InsertLetters
  <2>3. Len(t) + 1 = m + 1
    BY <1>2
  <2> QED BY <2>2, <2>3 DEF i
<1>5. ASSUME NEW g \in Glyphs
      PROVE  /\ TextOf([Shifted(m) EXCEPT ![cnt] = g], m + 1) = Field!InsertAt(t, cnt + 1, g)
             /\ TextOf(TakenOut([Shifted(m) EXCEPT ![cnt] = g], cnt), m) = t
  <2> DEFINE u == [Shifted(m) EXCEPT ![cnt] = g]
  <2>1. u = [i \in 0 .. n - 1 |-> IF i = cnt THEN g
               ELSE IF cnt < i /\ i <= m + 1 THEN data[i - 1] ELSE data[i]]
    BY <1>1, <1>3
  <2>2. u \in Window(n) /\ Ends(u, m + 1)
    BY ShiftedEnds
  <2> HIDE DEF u
  <2>3. \A k \in 1 .. m + 1 :
          u[k - 1] = IF k < cnt + 1 THEN t[k] ELSE IF k = cnt + 1 THEN g ELSE t[k - 1]
    BY <1>1, <1>2, <2>1
  <2>4. TextOf(u, m + 1) = Field!InsertAt(t, cnt + 1, g)
    BY <1>4, <2>3 DEF TextOf
  <2>5. Length(u) = m + 1
    BY <2>2, LengthEnds
  <2>6. TakenOut(u, cnt) = [i \in 0 .. n - 1 |-> IF cnt <= i /\ i < m + 1 THEN u[i + 1] ELSE u[i]]
    BY <1>1, <2>5 DEF TakenOut
  <2>7. ASSUME NEW k \in 1 .. m
        PROVE  TakenOut(u, cnt)[k - 1] = data[k - 1]
    <3>1. /\ k - 1 \in 0 .. n - 1 /\ k \in 0 .. n - 1 /\ k - 1 < m + 1
          /\ (k - 1) + 1 = k
      BY <1>1
    <3>2. CASE k - 1 < cnt
      <4>1. TakenOut(u, cnt)[k - 1] = u[k - 1]
        BY <1>1, <2>6, <3>1, <3>2
      <4>2. u[k - 1] = data[k - 1]
        BY <1>1, <2>1, <3>1, <3>2
      <4> QED BY <4>1, <4>2
    <3>3. CASE cnt <= k - 1
      <4>1. TakenOut(u, cnt)[k - 1] = u[k]
        BY <1>1, <2>6, <3>1, <3>3
      <4>2. cnt < k /\ k <= m + 1 /\ k # cnt
        BY <1>1, <3>1, <3>3
      <4>3. u[k] = data[k - 1]
        BY <2>1, <3>1, <4>2
      <4> QED BY <4>1, <4>3
    <3> QED BY <1>1, <3>1, <3>2, <3>3
  <2>8. TextOf(TakenOut(u, cnt), m) = t
    BY <2>7 DEF TextOf, t
  <2> QED BY <2>4, <2>8 DEF u
<1>6. ASSUME cnt < m
      PROVE  TextOf(Shifted(m), m + 1) = Field!InsertAt(t, cnt + 1, t[cnt + 1])
  <2>1. t[cnt + 1] \in Glyphs /\ t[cnt + 1] = data[cnt]
    BY <1>2, <1>6
  <2>2. \A k \in 1 .. m + 1 : Shifted(m)[k - 1] =
          IF k < cnt + 1 THEN t[k] ELSE IF k = cnt + 1 THEN t[cnt + 1] ELSE t[k - 1]
    BY <1>1, <1>2, <1>3, <1>6, <2>1
  <2> QED BY <1>4, <2>1, <2>2 DEF TextOf
<1>7. ASSUME cnt = m
      PROVE  TextOf(Shifted(m), m) = t
  <2>1. \A k \in 1 .. m : Shifted(m)[k - 1] = data[k - 1]
    BY <1>1, <1>3, <1>7
  <2> QED BY <2>1 DEF TextOf, t
<1> QED BY <1>5, <1>6, <1>7 DEF t

-----------------------------------------------------------------------------
LEMMA FieldInit == Init => Field!Init
<1> SUFFICES ASSUME Init PROVE Field!Init
  OBVIOUS
<1>1. PICK n \in Windows : data = [i \in 0 .. n - 1 |-> Nul]
  BY DEF Init
<1>2. n \in Nat \ {0} BY TextAssumption
<1>3. data \in Window(n) /\ Ends(data, 0)
  BY <1>1, <1>2 DEF Window, Ends
<1>4. Length(data) = 0
  BY <1>3, LengthEnds
<1>5. TextOf(data, 0) = << >>
  BY <1>2, <1>3, Letters, EmptySeq
<1>6. FieldText = << >>
  BY <1>4, <1>5 DEF FieldText, TextOf
<1>7. cnt = 0 /\ Whole \in BOOLEAN
  BY DEF Init, Whole
<1> QED BY <1>6, <1>7 DEF Field!Init, FieldText

LEMMA FieldStep ==
  ASSUME CardInv, [Next]_vars
  PROVE  [Field!Next]_<<FieldText, cnt, Whole>>
<1>1. PICK n \in Windows : data \in Window(n)
  BY DEF CardInv, Texts
<1>2. PICK m \in Nat : Ends(data, m) /\ cnt <= m /\ m <= Limit
  BY DEF CardInv, Cursor
<1>3. cnt \in Nat /\ n \in Nat /\ Limit \in Nat /\ Bytes = 0 .. n - 1 /\ Cardinality(Bytes) = n
  BY <1>1, WindowSize, TextAssumption DEF CardInv, Cursor
<1>4. Length(data) = m
  BY <1>1, <1>2, LengthEnds
<1>5. FieldText = TextOf(data, m) /\ Len(FieldText) = m
  BY <1>1, <1>2, <1>3, <1>4, Letters DEF FieldText, TextOf
<1>6. Whole' = Whole
  BY DEF Whole, Next, vars
<1>7. ASSUME NEW k \in Nat, data' \in Window(n), Ends(data', k)
      PROVE  FieldText' = TextOf(data', k)
  <2>1. Bytes' = 0 .. n - 1
    BY <1>7 DEF Bytes, Window
  <2>2. Length(data)' = k
    BY <1>3, <1>7, <2>1, FirstNul DEF Length
  <2> QED BY <2>2 DEF FieldText, TextOf
<1> USE DEF Field!Next
<1>8. CASE Erase
  <2>1. cnt > 0 /\ cnt' = cnt - 1 /\ data' = TakenOut(data, cnt - 1)
    BY <1>8 DEF Erase, Erased
  <2>2. cnt - 1 \in Nat /\ cnt - 1 < m /\ m - 1 \in Nat /\ cnt - 1 + 1 = cnt
    BY <1>2, <1>3, <2>1
  <2>3. data' \in Window(n) /\ Ends(data', m - 1)
    BY <1>1, <1>2, <2>1, <2>2, TakenOutEnds
  <2>4. FieldText' = Field!RemoveAt(FieldText, cnt)
    BY <1>1, <1>2, <1>5, <1>7, <2>1, <2>2, <2>3, ErasedText
  <2> QED BY <1>6, <2>1, <2>4 DEF Field!Erase, FieldText
<1>9. CASE Type
  <2>1. m < Limit /\ m + 1 < n /\ Index \in DOMAIN aux
    BY <1>2, <1>3, <1>4, <1>9 DEF Type, HasRoom, OutOfWindow
  <2>2. aux[Index] \in Glyphs
    BY <2>1, TableAssumption DEF CardInv, Answered
  <2>3. Typed = [Shifted(m) EXCEPT ![cnt] = aux[Index]]
    BY <1>4 DEF Typed
  <2>4. Typed \in Window(n) /\ Ends(Typed, m + 1)
    BY <1>1, <1>2, <1>3, <2>1, <2>2, <2>3, ShiftedEnds
  <2>5. CASE data' = Typed /\ cnt' = cnt + 1
    <3>1. FieldText' = Field!InsertAt(FieldText, cnt + 1, aux[Index])
      <4>1. TextOf(Typed, m + 1) = Field!InsertAt(TextOf(data, m), cnt + 1, aux[Index])
        BY <1>1, <1>2, <1>3, <2>1, <2>2, <2>3, InsertedText
      <4>2. FieldText' = TextOf(Typed, m + 1)
        BY <1>2, <1>7, <2>4, <2>5
      <4> QED BY <1>5, <4>1, <4>2
    <3>2. \E g \in Glyphs : Field!Type(g)
      BY <1>5, <2>1, <2>2, <2>5, <3>1 DEF Field!Type, FieldText
    <3> QED BY <1>6, <3>2
  <2>6. CASE data' = TakenOut(Typed, cnt) /\ cnt' = cnt
    <3>1. data' \in Window(n) /\ Ends(data', m)
      <4>1. cnt < m + 1 /\ m + 1 \in Nat /\ m + 1 - 1 = m
        BY <1>2, <1>3
      <4> QED BY <1>1, <1>3, <2>4, <2>6, <4>1, TakenOutEnds
    <3>2. FieldText' = FieldText
      BY <1>1, <1>2, <1>3, <1>5, <1>7, <2>1, <2>2, <2>3, <2>6, <3>1, InsertedText
    <3> QED BY <1>6, <2>6, <3>2
  <2> QED BY <1>9, <2>5, <2>6 DEF Type
<1>10. CASE TypeRefused
  <2>1. cnt' = cnt /\ m < Limit
    BY <1>4, <1>10, <1>2, <1>3 DEF TypeRefused, HasRoom
  <2>2. CASE UNCHANGED data
    BY <1>1, <1>2, <1>5, <1>6, <1>7, <2>1, <2>2
  <2>3. CASE ~OutOfWindow(m) /\ Index \notin DOMAIN aux /\ data' = Shifted(m)
    <3>1. m + 1 < n
      BY <1>2, <1>3, <2>3 DEF OutOfWindow
    <3>2. data' \in Window(n) /\ Ends(data', IF cnt < m THEN m + 1 ELSE m)
      BY <1>1, <1>2, <1>3, <2>3, <3>1, ShiftedEnds
    <3>3. CASE cnt < m
      <4>1. FieldText' = Field!InsertAt(FieldText, cnt + 1, FieldText[cnt + 1])
        BY <1>1, <1>2, <1>3, <1>5, <1>7, <2>3, <3>1, <3>2, <3>3, InsertedText
      <4>2. ~Whole
        BY <1>10, <2>3, IndexInTable DEF CardInv, TypeRefused
      <4> QED BY <1>5, <1>6, <2>1, <3>3, <4>1, <4>2 DEF Field!Spoil, FieldText
    <3>4. CASE cnt = m
      <4>1. FieldText' = FieldText
        BY <1>1, <1>2, <1>3, <1>5, <1>7, <2>3, <3>1, <3>2, <3>4, InsertedText
      <4> QED BY <1>6, <2>1, <4>1
    <3> QED BY <1>2, <1>3, <3>3, <3>4
  <2> QED BY <1>4, <1>10, <2>2, <2>3 DEF TypeRefused
<1>11. ASSUME NEW l \in BOOLEAN, NEW r \in BOOLEAN, NEW b \in BOOLEAN, NEW a \in BOOLEAN,
              Maze(l, r, b, a)
       PROVE  [Field!Next]_<<FieldText, cnt, Whole>>
  <2>1. FieldText' = FieldText
    BY <1>1, <1>2, <1>5, <1>7, <1>11 DEF Maze
  <2>2. Left(l, cnt) \in {cnt, cnt - 1} /\ Left(l, cnt) \in 0 .. m
    BY <1>2, <1>3 DEF Left
  <2>3. \A c \in Nat : c <= m => Min({c + 1, m}) = IF c < m THEN c + 1 ELSE m
    BY <1>2 DEF Min
  <2>4. Right(r, Left(l, cnt)) \in {cnt, cnt - 1, cnt + 1} \cap (0 .. m)
    BY <1>2, <1>3, <1>4, <2>2, <2>3 DEF Right
  <2>5. cnt' \in {cnt, cnt - 1, cnt + 1} \cap (0 .. m)
    BY <1>11, <2>4 DEF Maze
  <2> QED BY <1>5, <1>6, <2>1, <2>5 DEF Field!Move, FieldText
<1>12. CASE UNCHANGED <<cnt, data>>
  BY <1>1, <1>2, <1>5, <1>6, <1>7, <1>12
<1> QED BY <1>8, <1>9, <1>10, <1>11, <1>12 DEF Next, Step, Climb, NoEvent, EraseNothing,
     TypeFull, PressButton, Jump, vars

(* Whatever lane a frame takes, the driver does what a text field does, or *)
(* nothing; only a table that lacks the glyph spoils the text (card.c).    *)
THEOREM FieldKept == Spec => FieldSpec
<1>1. Init => Field!Init
  BY FieldInit
<1>2. CardInv /\ [Next]_vars => [Field!Next]_<<FieldText, cnt, Whole>>
  BY FieldStep
<1>3. Init => CardInv
  BY CardInitInv
<1>4. CardInv /\ [Next]_vars => CardInv'
  BY CardStep
<1> QED BY <1>1, <1>2, <1>3, <1>4, PTL DEF Spec, FieldSpec, Field!Spec
=============================================================================
