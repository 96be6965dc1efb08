------------------------------ MODULE ProfProofs ------------------------------
(***************************************************************************)
(* Proofs about the profiler's tables, for any addresses, any hash, tables *)
(* and probes of any length, any number of workers and of notes: a table   *)
(* of one writer counts each address that has a slot exactly, though no    *)
(* lock is taken and a claim is two stores that a signal may fall between; *)
(* one of several writers loses counts but makes none up; and a list       *)
(* printed while the tables change shows nothing that was not noted.       *)
(***************************************************************************)
EXTENDS ProfTables, FiniteSetTheorems, WellFoundedInduction, TLAPS

(* The tables that are written: no address miss passes the range check.    *)
Counted == Tables \ {"amiss"}

(* The one thread that writes a table of one writer: the handler where it  *)
(* interrupts the emulation thread, and that thread itself.                *)
WriterOf(t) == IF t = "pc" THEN "sig" ELSE "main"

Ops == [t : Counted, a : Pages, p : 0 .. Probes - 1, todo : SUBSET {"addr", "cnt"}, n : Nat]

Typed ==
  /\ addr \in [Tables -> [Cells -> Pages \cup {0}]]
  /\ cnt \in [Tables -> [Cells -> Nat]]
  /\ noted \in [Tables -> [Pages -> Nat]] /\ total \in [Tables -> Nat]
  /\ op \in [Writers -> Ops \cup {Idle}]
  /\ \A w \in Writers : op[w] # Idle /\ Alone(op[w].t) => w = WriterOf(op[w].t)

-----------------------------------------------------------------------------
(* A table of one writer: A its addresses, C its counts, N the notes of    *)
(* each address and o what its writer is busy with.                        *)
Passed(A, a, p) == \A r \in 0 .. p - 1 : A[Slot(a, r)] \notin {0, a}

(* An address lies where the first probe that was free has put it.         *)
Chained(A, a) ==
  \A s \in Cells : A[s] = a => \E q \in 0 .. Probes - 1 : s = Slot(a, q) /\ Passed(A, a, q)

Absent(A, a) == \A s \in Cells : A[s] # a
Crowded(A, a) == \A q \in 0 .. Probes - 1 : A[Slot(a, q)] # 0

(* The slot of an address, if it has one, holds its n notes.               *)
Settled(A, C, n, a) ==
  /\ \A s \in Cells : A[s] = a => C[s] = n
  /\ Absent(A, a) => n = 0 \/ Crowded(A, a)

(* A note under way: it is not counted yet, or is being stored.            *)
UnderWay(A, C, N, o) ==
  /\ N[o.a] \in Nat \ {0} /\ Passed(A, o.a, o.p)
  /\ o.todo = {} => Settled(A, C, N[o.a] - 1, o.a)
  /\ o.todo # {} => o.n = N[o.a]
  /\ "addr" \in o.todo => N[o.a] = 1 /\ A[Slot(o.a, o.p)] = 0 /\ Absent(A, o.a)
  /\ o.todo = {"cnt"} => A[Slot(o.a, o.p)] = o.a
  /\ o.todo = {"addr"} => C[Slot(o.a, o.p)] = 1

Row(A, C, N, o, t) ==
  /\ \A a \in Pages : Chained(A, a)
  /\ \A a \in Pages : (o.t = t /\ o.a = a) \/ Settled(A, C, N[a], a)
  /\ o.t = t => UnderWay(A, C, N, o)

(* A slot without an address has no count but one just stored there, and a *)
(* count that is still to be stored is one more than the slot's.           *)
Clear(A, C, o, t) ==
  /\ \A s \in Cells : A[s] = 0 => \/ C[s] = 0
                                  \/ o.t = t /\ o.todo = {"addr"} /\ s = Slot(o.a, o.p)
  /\ o.t = t /\ "cnt" \in o.todo => C[Slot(o.a, o.p)] = o.n - 1

Good(A, C, N) ==
  /\ A \in [Cells -> Pages \cup {0}] /\ C \in [Cells -> Nat] /\ N \in [Pages -> Nat]

LEMMA PagesArePositive ==
  /\ Pages \subseteq Nat \ {0} /\ Probes \in Nat \ {0} /\ Slots \in Nat \ {0}
  /\ Home \in [Pages -> Int]
<1>1. Slots \in Nat \ {0} /\ Home \in [Pages -> 0 .. Slots - 1] /\ Probes \in 1 .. Slots
  BY ProfAssumption
<1>2. Home \in [Pages -> Int]
  BY <1>1
<1> QED BY <1>1, <1>2, ProfAssumption

LEMMA SlotIsCell ==
  ASSUME NEW a \in Pages, NEW p \in 0 .. Probes - 1
  PROVE  Slot(a, p) \in Cells
<1>1. Home[a] \in Int /\ Slots \in Nat /\ Slots > 0 /\ p \in Int
  BY PagesArePositive
<1>2. \A x \in Int, n \in Nat : n > 0 => x % n \in 0 .. n - 1
  OBVIOUS
<1> QED BY <1>1, <1>2 DEF Slot, Cells

(* An address has one slot.                                                *)
LEMMA OneSlot ==
  ASSUME NEW A, NEW a \in Pages, Chained(A, a),
         NEW s \in Cells, NEW u \in Cells, A[s] = a, A[u] = a
  PROVE  s = u
<1>1. PICK q \in 0 .. Probes - 1 : s = Slot(a, q) /\ Passed(A, a, q)
  BY DEF Chained
<1>2. PICK r \in 0 .. Probes - 1 : u = Slot(a, r) /\ Passed(A, a, r)
  BY DEF Chained
<1>3. ~(q < r) /\ ~(r < q)
  <2>1. Probes \in Nat
    BY PagesArePositive
  <2>2. q < r => q \in 0 .. r - 1
    BY <2>1
  <2>3. r < q => r \in 0 .. q - 1
    BY <2>1
  <2> QED BY <1>1, <1>2, <2>2, <2>3 DEF Passed
<1>4. q = r
  BY <1>3, PagesArePositive
<1> QED BY <1>1, <1>2, <1>4

(* An insertion that has passed a free slot at p, or all, finds the        *)
(* address nowhere.                                                        *)
LEMMA NotBehind ==
  ASSUME NEW A, NEW a \in Pages, Chained(A, a), NEW p \in 0 .. Probes - 1,
         Passed(A, a, p), A[Slot(a, p)] # a, A[Slot(a, p)] = 0 \/ p = Probes - 1
  PROVE  Absent(A, a)
<1> SUFFICES ASSUME NEW s \in Cells, A[s] = a PROVE FALSE
  BY DEF Absent
<1>1. PICK q \in 0 .. Probes - 1 : s = Slot(a, q) /\ Passed(A, a, q)
  BY DEF Chained
<1>2. Probes \in Nat
  BY PagesArePositive
<1>3. CASE q < p
  <2>1. q \in 0 .. p - 1
    BY <1>2, <1>3
  <2> QED BY <1>1, <2>1 DEF Passed
<1>4. CASE q = p
  BY <1>1, <1>4
<1>5. CASE q > p
  <2>1. p \in 0 .. q - 1 /\ p # Probes - 1
    BY <1>2, <1>5
  <2> QED BY <1>1, <2>1 DEF Passed
<1> QED BY <1>2, <1>3, <1>4, <1>5

LEMMA IdleIsNowhere == \A t \in Tables : Idle.t # t
BY DEF Idle, Tables

-----------------------------------------------------------------------------
(* What the writer of a table does to it.                                  *)
LEMMA RowBegins ==
  ASSUME NEW A, NEW C, NEW N, Good(A, C, N), NEW t, NEW o, o.t # t, Row(A, C, N, o, t),
         NEW a \in Pages, NEW u, u = [t |-> t, a |-> a, p |-> 0, todo |-> {}, n |-> 0]
  PROVE  Row(A, C, [N EXCEPT ![a] = @ + 1], u, t)
<1> DEFINE M == [N EXCEPT ![a] = @ + 1]
<1>1. N[a] \in Nat /\ M[a] = N[a] + 1 /\ M[a] - 1 = N[a] /\ M[a] \in Nat \ {0}
  BY DEF Good
<1>2. \A b \in Pages : b = a \/ M[b] = N[b]
  BY DEF Good
<1>3. u.t = t /\ u.a = a /\ u.p = 0 /\ u.todo = {}
  OBVIOUS
<1>4. Passed(A, a, 0)
  BY DEF Passed
<1>5. Settled(A, C, N[a], a)
  BY DEF Row
<1> HIDE DEF M
<1>6. UnderWay(A, C, M, u)
  BY <1>1, <1>3, <1>4, <1>5 DEF UnderWay
<1>7. \A b \in Pages : (u.t = t /\ u.a = b) \/ Settled(A, C, M[b], b)
  BY <1>2, <1>3 DEF Row
<1> QED BY <1>3, <1>6, <1>7 DEF Row, M

LEMMA RowReads ==
  ASSUME NEW A, NEW C, NEW N, Good(A, C, N), NEW t \in Tables, NEW o \in Ops, o.t = t,
         Row(A, C, N, o, t), o.todo = {}, A[Slot(o.a, o.p)] = o.a,
         NEW u, u = [o EXCEPT !.todo = {"cnt"}, !.n = C[Slot(o.a, o.p)] + 1]
  PROVE  Row(A, C, N, u, t)
<1>1. PICK h \in Cells : h = Slot(o.a, o.p)
  BY SlotIsCell DEF Ops
<1>2. u.t = t /\ u.a = o.a /\ u.p = o.p /\ u.todo = {"cnt"} /\ u.n = C[h] + 1
  BY <1>1 DEF Ops
<1>3. C[h] = N[o.a] - 1 /\ N[o.a] \in Nat \ {0}
  BY <1>1 DEF Row, UnderWay, Settled
<1>4. u.n = N[u.a] /\ N[u.a] \in Nat \ {0}
  <2>1. C[h] \in Nat
    BY DEF Good
  <2> QED BY <1>2, <1>3, <2>1
<1>5. Passed(A, u.a, u.p) /\ A[Slot(u.a, u.p)] = u.a
  BY <1>2 DEF Row, UnderWay
<1>6. u.todo # {} /\ u.todo # {"addr"} /\ "addr" \notin u.todo
  BY <1>2
<1>7. UnderWay(A, C, N, u)
  BY <1>4, <1>5, <1>6 DEF UnderWay
<1> QED BY <1>2, <1>7 DEF Row

LEMMA RowFrees ==
  ASSUME NEW A, NEW C, NEW N, NEW t \in Tables, NEW o \in Ops, o.t = t,
         Row(A, C, N, o, t), o.todo = {}, A[Slot(o.a, o.p)] = 0,
         NEW u, u = [o EXCEPT !.todo = {"addr", "cnt"}, !.n = 1]
  PROVE  Row(A, C, N, u, t)
<1>1. o.a \in Pages /\ o.p \in 0 .. Probes - 1 /\ A[Slot(o.a, o.p)] # o.a
  BY PagesArePositive DEF Ops
<1>2. u.t = t /\ u.a = o.a /\ u.p = o.p /\ u.todo = {"addr", "cnt"} /\ u.n = 1
  BY DEF Ops
<1>3. Absent(A, o.a)
  BY <1>1, NotBehind DEF Row, UnderWay
<1>4. N[o.a] - 1 = 0 /\ N[o.a] \in Nat \ {0}
  BY <1>1, <1>3 DEF Row, UnderWay, Settled, Crowded
<1>5. UnderWay(A, C, N, u)
  <2>1. N[u.a] = 1 /\ u.n = N[u.a] /\ N[u.a] \in Nat \ {0}
    BY <1>2, <1>4
  <2>2. u.todo # {} /\ u.todo # {"cnt"} /\ u.todo # {"addr"}
    BY <1>2
  <2>3. Passed(A, u.a, u.p)
    BY <1>2 DEF Row, UnderWay
  <2> QED BY <1>2, <1>3, <2>1, <2>2, <2>3 DEF UnderWay
<1> QED BY <1>2, <1>5 DEF Row

LEMMA RowProbes ==
  ASSUME NEW A, NEW C, NEW N, NEW t \in Tables, NEW o \in Ops, o.t = t,
         Row(A, C, N, o, t), o.todo = {}, A[Slot(o.a, o.p)] \notin {0, o.a}
  PROVE  Row(A, C, N, NextProbe(o), t)
<1>1. o.a \in Pages /\ o.p \in 0 .. Probes - 1 /\ Probes \in Nat
  BY PagesArePositive DEF Ops
<1>2. Passed(A, o.a, o.p) /\ Chained(A, o.a) /\ Settled(A, C, N[o.a] - 1, o.a)
  BY <1>1 DEF Row, UnderWay
<1>3. ASSUME NEW m, m = o.p + 1 PROVE Passed(A, o.a, m)
  <2>1. \A r \in 0 .. m - 1 : r = o.p \/ r \in 0 .. o.p - 1
    BY <1>1, <1>3
  <2> QED BY <1>2, <2>1 DEF Passed
<1>4. CASE o.p + 1 < Probes
  <2> DEFINE u == [o EXCEPT !.p = @ + 1]
  <2>1. u.t = t /\ u.a = o.a /\ u.p = o.p + 1 /\ u.todo = {}
    BY DEF Ops
  <2>2. NextProbe(o) = u
    BY <1>4 DEF NextProbe
  <2> HIDE DEF u
  <2>3. UnderWay(A, C, N, u)
    <3>1. Passed(A, u.a, u.p)
      BY <1>3, <2>1
    <3>2. N[o.a] \in Nat \ {0}
      BY DEF Row, UnderWay
    <3>3. Settled(A, C, N[u.a] - 1, u.a)
      BY <1>2, <2>1
    <3> QED BY <2>1, <3>1, <3>2, <3>3 DEF UnderWay
  <2> QED BY <2>1, <2>2, <2>3 DEF Row
<1>5. CASE ~(o.p + 1 < Probes)
  <2>1. o.p = Probes - 1 /\ NextProbe(o) = Idle
    BY <1>1, <1>5 DEF NextProbe
  <2>2. Absent(A, o.a)
    BY <1>1, <1>2, <2>1, NotBehind
  <2>3. Crowded(A, o.a)
    <3>1. \A q \in 0 .. Probes - 1 : q = o.p \/ q \in 0 .. o.p - 1
      BY <1>1, <2>1
    <3> QED BY <1>2, <3>1 DEF Crowded, Passed
  <2>4. Settled(A, C, N[o.a], o.a)
    BY <2>2, <2>3 DEF Settled, Absent
  <2>5. Idle.t # t
    BY IdleIsNowhere
  <2>6. \A b \in Pages : Settled(A, C, N[b], b)
    BY <2>4 DEF Row
  <2> QED BY <2>1, <2>5, <2>6 DEF Row
<1> QED BY <1>4, <1>5

LEMMA StoredOne ==
  ASSUME NEW o \in Ops, NEW x \in o.todo
  PROVE  \/ /\ o.todo = {x} /\ Stored(o, x) = Idle
         \/ /\ o.todo = {"addr", "cnt"} /\ Stored(o, x) \in Ops
            /\ Stored(o, x).t = o.t /\ Stored(o, x).a = o.a /\ Stored(o, x).p = o.p
            /\ Stored(o, x).n = o.n /\ Stored(o, x).todo = {"addr", "cnt"} \ {x}
<1>1. o.todo \subseteq {"addr", "cnt"}
  BY DEF Ops
<1>2. CASE o.todo = {x}
  BY <1>2 DEF Stored
<1>3. CASE o.todo # {x}
  <2>1. o.todo = {"addr", "cnt"}
    BY <1>1, <1>3
  <2>2. Stored(o, x) = [o EXCEPT !.todo = @ \ {x}]
    BY <1>3 DEF Stored
  <2> QED BY <2>1, <2>2 DEF Ops
<1> QED BY <1>2, <1>3

LEMMA RowNames ==
  ASSUME NEW A, NEW C, NEW N, Good(A, C, N), NEW t \in Tables, NEW o \in Ops, o.t = t,
         Row(A, C, N, o, t), "addr" \in o.todo
  PROVE  Row([A EXCEPT ![Slot(o.a, o.p)] = o.a], C, N, Stored(o, "addr"), t)
<1> DEFINE a == o.a
           h == Slot(o.a, o.p)
           B == [A EXCEPT ![h] = a]
           u == Stored(o, "addr")
<1>1. a \in Pages /\ o.p \in 0 .. Probes - 1 /\ h \in Cells /\ a # 0 /\ 0 \notin Pages
  BY SlotIsCell, PagesArePositive DEF Ops
<1>2. A[h] = 0 /\ Absent(A, a) /\ N[a] = 1 /\ o.n = 1 /\ Passed(A, a, o.p)
  BY DEF Row, UnderWay
<1>3. B[h] = a /\ \A s \in Cells : s = h \/ B[s] = A[s]
  BY <1>1 DEF Good
<1>4. h = Slot(a, o.p)
  OBVIOUS
<1>5. o.todo = {"addr"} => C[h] = 1
  BY DEF Row, UnderWay
<1> HIDE DEF B, h, u
<1>6. ASSUME NEW b \in Pages, NEW q \in 0 .. Probes - 1, Passed(A, b, q)
      PROVE  Passed(B, b, q)
  <2>1. \A r \in 0 .. q - 1 : r \in 0 .. Probes - 1
    BY PagesArePositive
  <2>2. \A r \in 0 .. q - 1 : Slot(b, r) \in Cells /\ A[Slot(b, r)] \notin {0, b}
    BY <1>6, <2>1, SlotIsCell DEF Passed
  <2> QED BY <1>2, <1>3, <2>2 DEF Passed
<1>7. \A b \in Pages : Chained(B, b)
  <2>1. ASSUME NEW b \in Pages, NEW s \in Cells, B[s] = b
        PROVE  \E q \in 0 .. Probes - 1 : s = Slot(b, q) /\ Passed(B, b, q)
    <3>1. CASE s = h
      BY <1>1, <1>2, <1>3, <1>4, <1>6, <2>1, <3>1
    <3>2. CASE s # h
      <4>1. A[s] = b
        BY <1>3, <2>1, <3>2
      <4>2. PICK q \in 0 .. Probes - 1 : s = Slot(b, q) /\ Passed(A, b, q)
        BY <4>1 DEF Row, Chained
      <4> QED BY <1>6, <4>2
    <3> QED BY <3>1, <3>2
  <2> QED BY <2>1 DEF Chained
<1>8. ASSUME NEW b \in Pages, b # a PROVE Settled(B, C, N[b], b)
  <2>1. Settled(A, C, N[b], b)
    BY <1>8 DEF Row
  <2>2. \A s \in Cells : B[s] = b <=> A[s] = b
    BY <1>1, <1>2, <1>3, <1>8
  <2>3. Crowded(A, b) => Crowded(B, b)
    <3>1. \A q \in 0 .. Probes - 1 : Slot(b, q) \in Cells
      BY SlotIsCell
    <3> QED BY <1>1, <1>3, <3>1 DEF Crowded
  <2> QED BY <2>1, <2>2, <2>3 DEF Settled, Absent
<1>9. CASE o.todo = {"addr"} /\ u = Idle
  <2>1. Settled(B, C, N[a], a)
    BY <1>1, <1>2, <1>3, <1>5, <1>9 DEF Settled, Absent
  <2>2. Idle.t # t
    BY IdleIsNowhere
  <2>3. \A b \in Pages : Settled(B, C, N[b], b)
    BY <1>8, <2>1
  <2>4. Row(B, C, N, u, t)
    BY <1>7, <1>9, <2>2, <2>3 DEF Row
  <2> QED BY <2>4 DEF B, h, u
<1>10. CASE /\ o.todo = {"addr", "cnt"} /\ u.t = o.t /\ u.a = o.a /\ u.p = o.p
            /\ u.n = o.n /\ u.todo = {"addr", "cnt"} \ {"addr"}
  <2>1. u.todo = {"cnt"} /\ u.todo # {} /\ u.todo # {"addr"} /\ "addr" \notin u.todo
    BY <1>10
  <2>2. Passed(B, a, o.p)
    BY <1>1, <1>2, <1>6
  <2>3. UnderWay(B, C, N, u)
    BY <1>2, <1>3, <1>4, <1>10, <2>1, <2>2 DEF UnderWay
  <2>4. Row(B, C, N, u, t)
    BY <1>7, <1>8, <1>10, <2>3 DEF Row
  <2> QED BY <2>4 DEF B, h, u
<1> QED BY <1>9, <1>10, StoredOne DEF u

LEMMA RowStarts ==
  ASSUME NEW A, NEW C, NEW N, Good(A, C, N), NEW t \in Tables, NEW o \in Ops, o.t = t,
         Row(A, C, N, o, t), "cnt" \in o.todo
  PROVE  Row(A, [C EXCEPT ![Slot(o.a, o.p)] = o.n], N, Stored(o, "cnt"), t)
<1> DEFINE a == o.a
           h == Slot(o.a, o.p)
           D == [C EXCEPT ![h] = o.n]
           u == Stored(o, "cnt")
<1>1. a \in Pages /\ o.p \in 0 .. Probes - 1 /\ h \in Cells /\ a # 0 /\ 0 \notin Pages
  BY SlotIsCell, PagesArePositive DEF Ops
<1>2. /\ o.n = N[a] /\ N[a] \in Nat \ {0} /\ Passed(A, a, o.p)
      /\ "addr" \in o.todo => N[a] = 1 /\ A[h] = 0 /\ Absent(A, a)
      /\ o.todo = {"cnt"} => A[h] = a
  BY DEF Row, UnderWay
<1>3. D[h] = N[a] /\ \A s \in Cells : s = h \/ D[s] = C[s]
  BY <1>1, <1>2 DEF Good
<1>4. h = Slot(a, o.p)
  OBVIOUS
<1>5. Chained(A, a)
  BY <1>1 DEF Row
<1>6. "addr" \in o.todo \/ o.todo = {"cnt"}
  BY DEF Ops
<1> HIDE DEF D, h, u
<1>7. ASSUME NEW b \in Pages, b # a PROVE Settled(A, D, N[b], b)
  <2>1. Settled(A, C, N[b], b)
    BY <1>7 DEF Row
  <2>2. \A s \in Cells : A[s] = b => s # h
    BY <1>1, <1>2, <1>6, <1>7
  <2> QED BY <1>3, <2>1, <2>2 DEF Settled
<1>8. CASE o.todo = {"cnt"} /\ u = Idle
  <2>1. \A s \in Cells : A[s] = a => s = h
    BY <1>1, <1>2, <1>5, <1>8, OneSlot
  <2>2. Settled(A, D, N[a], a)
    BY <1>1, <1>2, <1>3, <1>8, <2>1 DEF Settled, Absent
  <2>3. Idle.t # t
    BY IdleIsNowhere
  <2>4. \A b \in Pages : Settled(A, D, N[b], b)
    BY <1>7, <2>2
  <2>5. Row(A, D, N, u, t)
    BY <1>8, <2>3, <2>4 DEF Row
  <2> QED BY <2>5 DEF D, h, u
<1>9. CASE /\ o.todo = {"addr", "cnt"} /\ u.t = o.t /\ u.a = o.a /\ u.p = o.p
           /\ u.n = o.n /\ u.todo = {"addr", "cnt"} \ {"cnt"}
  <2>1. u.todo = {"addr"} /\ u.todo # {} /\ u.todo # {"cnt"} /\ "addr" \in o.todo
    BY <1>9
  <2>2. UnderWay(A, D, N, u)
    BY <1>2, <1>3, <1>4, <1>9, <2>1 DEF UnderWay
  <2>3. Row(A, D, N, u, t)
    BY <1>7, <1>9, <2>2 DEF Row
  <2> QED BY <2>3 DEF D, h, u
<1> QED BY <1>8, <1>9, StoredOne DEF u

(* What it does to the slots that have no address yet.                     *)
LEMMA ClearProbes ==
  ASSUME NEW A, NEW C \in [Cells -> Nat], NEW t \in Tables, NEW o \in Ops, o.t = t,
         Clear(A, C, o, t), o.todo = {}, NEW h, h = Slot(o.a, o.p),
         NEW u, \/ u = Idle
                \/ u.t = t /\ u.todo = {}
                \/ /\ u.t = t /\ u.a = o.a /\ u.p = o.p /\ u.n = C[h] + 1
                   /\ "cnt" \in u.todo
  PROVE  Clear(A, C, u, t)
<1>1. \A s \in Cells : A[s] = 0 => C[s] = 0
  BY DEF Clear
<1>2. u.t = t /\ "cnt" \in u.todo => C[Slot(u.a, u.p)] = u.n - 1
  <2> SUFFICES ASSUME u.t = t, "cnt" \in u.todo PROVE C[h] = u.n - 1 /\ Slot(u.a, u.p) = h
    OBVIOUS
  <2>1. u.a = o.a /\ u.p = o.p /\ u.n = C[h] + 1
    BY IdleIsNowhere
  <2>2. h \in Cells
    BY SlotIsCell DEF Ops
  <2>3. C[h] \in Nat
    BY <2>2
  <2> QED BY <2>1, <2>3
<1> QED BY <1>1, <1>2 DEF Clear

LEMMA ClearNames ==
  ASSUME NEW A, NEW C, NEW N, Good(A, C, N), NEW t \in Tables, NEW o \in Ops, o.t = t,
         Clear(A, C, o, t), "addr" \in o.todo
  PROVE  Clear([A EXCEPT ![Slot(o.a, o.p)] = o.a], C, Stored(o, "addr"), t)
<1>1. PICK h \in Cells : h = Slot(o.a, o.p)
  BY SlotIsCell DEF Ops
<1>2. PICK B : B = [A EXCEPT ![h] = o.a]
  OBVIOUS
<1>3. PICK u : u = Stored(o, "addr")
  OBVIOUS
<1>4. B[h] # 0 /\ \A s \in Cells : s = h \/ B[s] = A[s]
  <2>1. o.a \in Pages /\ o.a # 0
    BY PagesArePositive DEF Ops
  <2> QED BY <1>2, <2>1 DEF Good
<1>5. \A s \in Cells : B[s] = 0 => C[s] = 0
  BY <1>1, <1>4 DEF Clear
<1>6. u.t = t /\ "cnt" \in u.todo => C[Slot(u.a, u.p)] = u.n - 1
  <2> SUFFICES ASSUME u.t = t, "cnt" \in u.todo PROVE C[Slot(u.a, u.p)] = u.n - 1
    OBVIOUS
  <2>1. u # Idle
    BY IdleIsNowhere
  <2>2. u.a = o.a /\ u.p = o.p /\ u.n = o.n /\ "cnt" \in o.todo
    BY <1>3, <2>1, StoredOne
  <2> QED BY <2>2 DEF Clear
<1> QED BY <1>1, <1>2, <1>3, <1>5, <1>6 DEF Clear

LEMMA ClearStarts ==
  ASSUME NEW A, NEW C, NEW N, Good(A, C, N), NEW t \in Tables, NEW o \in Ops, o.t = t,
         Clear(A, C, o, t), Row(A, C, N, o, t), "cnt" \in o.todo
  PROVE  /\ Clear(A, [C EXCEPT ![Slot(o.a, o.p)] = o.n], Stored(o, "cnt"), t)
         /\ C[Slot(o.a, o.p)] <= o.n
<1>1. PICK h \in Cells : h = Slot(o.a, o.p)
  BY SlotIsCell DEF Ops
<1>2. PICK D : D = [C EXCEPT ![h] = o.n]
  OBVIOUS
<1>3. PICK u : u = Stored(o, "cnt")
  OBVIOUS
<1>4. \A s \in Cells : s = h \/ D[s] = C[s]
  BY <1>2 DEF Good
<1>5. \/ u = Idle /\ o.todo = {"cnt"}
      \/ u.t = t /\ u.a = o.a /\ u.p = o.p /\ u.todo = {"addr"}
  <2>1. {"addr", "cnt"} \ {"cnt"} = {"addr"}
    OBVIOUS
  <2> QED BY <1>3, <2>1, StoredOne
<1>6. o.todo = {"cnt"} => A[h] # 0
  <2>1. o.a # 0
    BY PagesArePositive DEF Ops
  <2> QED BY <1>1, <2>1 DEF Row, UnderWay
<1>7. \A s \in Cells : A[s] = 0 => C[s] = 0
  <2>1. o.todo # {"addr"}
    OBVIOUS
  <2> QED BY <2>1 DEF Clear
<1>8. ASSUME NEW s \in Cells, A[s] = 0
      PROVE  D[s] = 0 \/ (u.t = t /\ u.todo = {"addr"} /\ s = Slot(u.a, u.p))
  BY <1>1, <1>4, <1>5, <1>6, <1>7, <1>8
<1>9. u.t = t => "cnt" \notin u.todo
  BY <1>5, IdleIsNowhere
<1>10. C[h] <= o.n
  <2>1. C[h] \in Nat /\ o.n \in Nat /\ C[h] = o.n - 1
    BY <1>1 DEF Good, Ops, Clear
  <2> QED BY <2>1
<1> QED BY <1>1, <1>2, <1>3, <1>8, <1>9, <1>10 DEF Clear

-----------------------------------------------------------------------------
(* A table of any number of writers, f what each is busy with and T the    *)
(* notes of the table: those whose count is not stored yet come on top of  *)
(* what each slot counts.                                                  *)
In(o, t) == o.t = t /\ o.todo # {"addr"}
Open(f, t) == {w \in Writers : In(f[w], t)}
Pend(f, t) == Cardinality(Open(f, t))

Share(A, C, N, T, f, t) ==
  /\ \A s \in Cells : C[s] + Pend(f, t) <= T
  /\ \A w \in Writers : f[w].t = t =>
       /\ N[f[w].a] > 0
       /\ "cnt" \in f[w].todo => f[w].n >= 1 /\ f[w].n + Pend(f, t) <= T + 1
  /\ \A s \in Cells : A[s] # 0 => N[A[s]] > 0

LEMMA PendFinite ==
  ASSUME NEW f, NEW t
  PROVE  IsFiniteSet(Open(f, t)) /\ Pend(f, t) \in Nat
<1>1. IsFiniteSet(Writers)
  <2>1. IsFiniteSet(Jobs) /\ Writers = ((Jobs \cup {"main"}) \cup {"sig"}) \cup {"sdl"}
    BY ProfAssumption DEF Writers
  <2>2. IsFiniteSet(Jobs \cup {"main"})
    BY <2>1, FS_AddElement
  <2>3. IsFiniteSet((Jobs \cup {"main"}) \cup {"sig"})
    BY <2>2, FS_AddElement
  <2>4. IsFiniteSet(((Jobs \cup {"main"}) \cup {"sig"}) \cup {"sdl"})
    BY <2>3, FS_AddElement
  <2> QED BY <2>1, <2>4
<1>2. IsFiniteSet(Open(f, t))
  <2>1. Open(f, t) \subseteq Writers
    BY DEF Open
  <2> QED BY <1>1, <2>1, FS_Subset
<1> QED BY <1>2, FS_CardinalityType DEF Pend

LEMMA PendMore ==
  ASSUME NEW f, NEW g, NEW w \in Writers, \A v \in Writers : v = w \/ g[v] = f[v], NEW t,
         ~In(f[w], t), In(g[w], t)
  PROVE  Pend(g, t) = Pend(f, t) + 1
<1>1. Open(g, t) = Open(f, t) \cup {w} /\ w \notin Open(f, t)
  BY DEF Open
<1>2. IsFiniteSet(Open(f, t))
  BY PendFinite
<1> QED BY <1>1, <1>2, FS_AddElement DEF Pend

LEMMA PendLess ==
  ASSUME NEW f, NEW g, NEW w \in Writers, \A v \in Writers : v = w \/ g[v] = f[v], NEW t,
         In(f[w], t), ~In(g[w], t)
  PROVE  Pend(g, t) = Pend(f, t) - 1
<1>1. Open(g, t) = Open(f, t) \ {w} /\ w \in Open(f, t)
  BY DEF Open
<1>2. IsFiniteSet(Open(f, t))
  BY PendFinite
<1> QED BY <1>1, <1>2, FS_RemoveElement DEF Pend

LEMMA PendSame ==
  ASSUME NEW f, NEW g, NEW w \in Writers, \A v \in Writers : v = w \/ g[v] = f[v], NEW t,
         In(f[w], t) <=> In(g[w], t)
  PROVE  Pend(g, t) = Pend(f, t)
<1>1. Open(g, t) = Open(f, t)
  BY DEF Open
<1> QED BY <1>1 DEF Pend

(* A note more, of whichever writer.                                       *)
LEMMA ShareBegins ==
  ASSUME NEW A, NEW C, NEW N, Good(A, C, N), NEW T \in Nat, NEW t \in Tables,
         NEW f \in [Writers -> Ops \cup {Idle}], Share(A, C, N, T, f, t),
         NEW w \in Writers, f[w].t # t, NEW a \in Pages,
         NEW u, u = [t |-> t, a |-> a, p |-> 0, todo |-> {}, n |-> 0]
  PROVE  Share(A, C, [N EXCEPT ![a] = @ + 1], T + 1, [f EXCEPT ![w] = u], t)
<1>1. PICK g : g = [f EXCEPT ![w] = u]
  OBVIOUS
<1>2. PICK M : M = [N EXCEPT ![a] = @ + 1]
  OBVIOUS
<1>3. M[a] > 0 /\ \A b \in Pages : N[b] > 0 => M[b] > 0
  BY <1>2 DEF Good
<1>4. g[w] = u /\ \A v \in Writers : v = w \/ g[v] = f[v]
  BY <1>1
<1>5. Pend(f, t) \in Nat /\ Pend(g, t) = Pend(f, t) + 1
  <2>1. ~In(f[w], t) /\ In(g[w], t)
    BY <1>4 DEF In
  <2>2. w \in Writers /\ \A v \in Writers : v = w \/ g[v] = f[v]
    BY <1>4
  <2> QED BY <2>1, <2>2, PendMore, PendFinite
<1>6. PICK k : k = Pend(f, t)
  OBVIOUS
<1>7. ASSUME NEW s \in Cells PROVE C[s] + Pend(g, t) <= T + 1
  <2>1. C[s] \in Nat /\ C[s] + k <= T
    BY <1>6 DEF Good, Share
  <2> QED BY <1>5, <1>6, <2>1
<1>8. ASSUME NEW v \in Writers, g[v].t = t
      PROVE  /\ M[g[v].a] > 0
             /\ "cnt" \in g[v].todo => g[v].n >= 1 /\ g[v].n + Pend(g, t) <= (T + 1) + 1
  <2>1. CASE v = w
    BY <1>3, <1>4, <2>1
  <2>2. CASE v # w
    <3>1. f[v] \in Ops /\ g[v] = f[v] /\ f[v].t = t
      BY <1>4, <1>8, <2>2, IdleIsNowhere
    <3>2. f[v].a \in Pages /\ f[v].n \in Nat
      BY <3>1 DEF Ops
    <3>3. /\ N[f[v].a] > 0
          /\ "cnt" \in f[v].todo => f[v].n >= 1 /\ f[v].n + k <= T + 1
      BY <1>6, <3>1 DEF Share
    <3>4. PICK m \in Nat : m = f[v].n
      BY <3>2
    <3>5. m + k <= T + 1 => m + (k + 1) <= (T + 1) + 1
      BY <1>5, <1>6
    <3> QED BY <1>3, <1>5, <1>6, <3>1, <3>2, <3>3, <3>4, <3>5
  <2> QED BY <2>1, <2>2
<1>9. ASSUME NEW s \in Cells, A[s] # 0 PROVE M[A[s]] > 0
  <2>1. A[s] \in Pages /\ N[A[s]] > 0
    BY <1>9 DEF Good, Share
  <2> QED BY <1>2, <1>3, <2>1
<1>10. Share(A, C, M, T + 1, g, t)
  BY <1>7, <1>8, <1>9 DEF Share
<1> QED BY <1>1, <1>2, <1>10

(* An address miss is noted, and counted nowhere.                          *)
LEMMA ShareNotes ==
  ASSUME NEW A, NEW C, NEW N, Good(A, C, N), NEW T \in Nat, NEW t \in Tables,
         NEW f \in [Writers -> Ops \cup {Idle}], Share(A, C, N, T, f, t),
         NEW a \in Pages
  PROVE  Share(A, C, [N EXCEPT ![a] = @ + 1], T + 1, f, t)
<1>1. PICK M : M = [N EXCEPT ![a] = @ + 1]
  OBVIOUS
<1>2. \A b \in Pages : N[b] > 0 => M[b] > 0
  BY <1>1 DEF Good
<1>3. PICK k \in Nat : k = Pend(f, t)
  BY PendFinite
<1>4. ASSUME NEW s \in Cells PROVE C[s] + k <= T + 1 /\ (A[s] # 0 => M[A[s]] > 0)
  <2>1. C[s] \in Nat /\ C[s] + k <= T
    BY <1>3 DEF Good, Share
  <2>2. A[s] # 0 => A[s] \in Pages /\ N[A[s]] > 0
    BY DEF Good, Share
  <2> QED BY <1>2, <2>1, <2>2
<1>5. ASSUME NEW v \in Writers, f[v].t = t
      PROVE  /\ M[f[v].a] > 0
             /\ "cnt" \in f[v].todo => f[v].n >= 1 /\ f[v].n + k <= (T + 1) + 1
  <2>1. f[v] \in Ops
    BY <1>5, IdleIsNowhere
  <2>2. f[v].a \in Pages /\ f[v].n \in Nat
    BY <2>1 DEF Ops
  <2>3. /\ N[f[v].a] > 0
        /\ "cnt" \in f[v].todo => f[v].n >= 1 /\ f[v].n + k <= T + 1
    BY <1>3, <1>5 DEF Share
  <2>4. PICK m \in Nat : m = f[v].n
    BY <2>2
  <2>5. m + k <= T + 1 => m + k <= (T + 1) + 1
    OBVIOUS
  <2> QED BY <1>2, <2>2, <2>3, <2>4, <2>5
<1>6. Share(A, C, M, T + 1, f, t)
  BY <1>3, <1>4, <1>5 DEF Share
<1> QED BY <1>1, <1>6

Names(A, B, a) == \A s \in Cells : B[s] # 0 => B[s] = A[s] \/ B[s] = a
Stores(C, D, o, u, t) ==
  \A s \in Cells : D[s] = C[s] \/ (D[s] = o.n /\ "cnt" \in o.todo /\ ~In(u, t))

(* A writer goes on, and may store the count it has read.                  *)
LEMMA ShareMoves ==
  ASSUME NEW A, NEW C, NEW N, Good(A, C, N), NEW T \in Nat, NEW t \in Tables,
         NEW f \in [Writers -> Ops \cup {Idle}], Share(A, C, N, T, f, t),
         NEW w \in Writers, f[w] \in Ops, f[w].t = t,
         NEW u, u = Idle \/ (u \in Ops /\ u.t = t /\ u.a = f[w].a),
         In(u, t) => In(f[w], t),
         u.t = t /\ "cnt" \in u.todo => u.n >= 1 /\ u.n + Pend(f, t) <= T + 1,
         NEW B, Names(A, B, f[w].a), NEW D, Stores(C, D, f[w], u, t)
  PROVE  Share(B, D, N, T, [f EXCEPT ![w] = u], t)
<1>1. PICK g : g = [f EXCEPT ![w] = u]
  OBVIOUS
<1>2. g[w] = u /\ \A v \in Writers : v = w \/ g[v] = f[v]
  BY <1>1
<1>3. PICK k, j : k = Pend(f, t) /\ j = Pend(g, t)
  OBVIOUS
<1>4. /\ In(f[w], t) /\ ~In(u, t) => j = k - 1
      /\ (In(f[w], t) <=> In(u, t)) => j = k
  <2>1. CASE In(f[w], t) /\ ~In(u, t)
    <3>1. Pend(g, t) = Pend(f, t) - 1
      BY <1>2, <2>1, PendLess
    <3> QED BY <1>3, <2>1, <3>1
  <2>2. CASE In(f[w], t) <=> In(u, t)
    <3>1. Pend(g, t) = Pend(f, t)
      BY <1>2, <2>2, PendSame
    <3> QED BY <1>3, <2>2, <3>1
  <2> QED BY <2>1, <2>2
<1>5. k \in Nat
  BY <1>3, PendFinite
<1>6. j \in Int /\ j <= k
  <2>1. (In(f[w], t) /\ ~In(u, t)) \/ (In(f[w], t) <=> In(u, t))
    OBVIOUS
  <2>2. j = k - 1 \/ j = k
    BY <1>4, <2>1
  <2> QED BY <1>5, <2>2
<1>7. "cnt" \in f[w].todo => In(f[w], t)
  BY DEF In
<1>8. ASSUME NEW s \in Cells PROVE D[s] + j <= T
  <2>1. C[s] \in Nat /\ C[s] + k <= T
    BY <1>3 DEF Good, Share
  <2>2. D[s] = C[s] \/ (D[s] = f[w].n /\ "cnt" \in f[w].todo /\ ~In(u, t))
    BY DEF Stores
  <2>3. CASE D[s] = C[s]
    BY <1>5, <1>6, <2>1, <2>3
  <2>4. CASE D[s] = f[w].n /\ "cnt" \in f[w].todo /\ ~In(u, t)
    <3>1. f[w].n \in Nat /\ f[w].n + k <= T + 1
      BY <1>3, <2>4 DEF Share, Ops
    <3>2. j = k - 1
      BY <1>4, <1>5, <1>7, <2>4
    <3> QED BY <1>5, <2>4, <3>1, <3>2
  <2> QED BY <2>2, <2>3, <2>4
<1>9. ASSUME NEW v \in Writers, g[v].t = t
      PROVE  /\ N[g[v].a] > 0
             /\ "cnt" \in g[v].todo => g[v].n >= 1 /\ g[v].n + j <= T + 1
  <2>1. g[v] \in Ops
    BY <1>2, <1>9, IdleIsNowhere
  <2>2. PICK m \in Nat : m = g[v].n
    BY <2>1 DEF Ops
  <2>3. /\ N[g[v].a] > 0
        /\ "cnt" \in g[v].todo => m >= 1 /\ m + k <= T + 1
    <3>1. CASE v = w
      <4>1. u \in Ops /\ u.a = f[w].a /\ u.t = t
        BY <1>2, <1>9, <3>1, IdleIsNowhere
      <4>2. N[f[w].a] > 0
        BY DEF Share
      <4> QED BY <1>2, <1>3, <2>2, <3>1, <4>1, <4>2
    <3>2. CASE v # w
      BY <1>2, <1>3, <1>9, <2>2, <3>2 DEF Share
    <3> QED BY <3>1, <3>2
  <2>4. m + k <= T + 1 => m + j <= T + 1
    BY <1>5, <1>6
  <2> QED BY <2>2, <2>3, <2>4
<1>10. ASSUME NEW s \in Cells, B[s] # 0 PROVE N[B[s]] > 0
  <2>1. N[f[w].a] > 0
    BY DEF Share
  <2>2. A[s] # 0 => N[A[s]] > 0
    BY DEF Share
  <2>3. B[s] = A[s] \/ B[s] = f[w].a
    BY <1>10 DEF Names
  <2> QED BY <1>10, <2>1, <2>2, <2>3
<1>11. Share(B, D, N, T, g, t)
  BY <1>3, <1>8, <1>9, <1>10 DEF Share
<1> QED BY <1>1, <1>11

-----------------------------------------------------------------------------
RowOf(t) ==
  LET o == op[WriterOf(t)] IN
  Row(addr[t], cnt[t], noted[t], o, t) /\ Clear(addr[t], cnt[t], o, t)
Rows == \A t \in Counted : Alone(t) => RowOf(t)
Kept == \A t \in Tables : Share(addr[t], cnt[t], noted[t], total[t], op, t)

(* The address misses never get past the range check.                      *)
Quiet == cnt["amiss"] = Empty

TablesHold == Typed /\ Rows /\ Kept /\ Quiet /\ Notes <= MaxNotes

(* A slot that counts goes on counting, and no count of a table of one     *)
(* writer falls; notes only grow.                                          *)
Grown ==
  /\ \A t \in Tables : \A s \in Cells :
       (cnt[t][s] >= 1 => cnt'[t][s] >= 1) /\ (Alone(t) => cnt[t][s] <= cnt'[t][s])
  /\ \A t \in Tables : \A a \in Pages : noted[t][a] <= noted'[t][a]
  /\ \A t \in Tables : total[t] <= total'[t]

LEMMA TypedRow ==
  ASSUME Typed, NEW t \in Tables
  PROVE  /\ Good(addr[t], cnt[t], noted[t]) /\ total[t] \in Nat
         /\ WriterOf(t) \in Writers
BY DEF Typed, Good, WriterOf, Writers

(* A step of a writer on a table: what it is busy with, the table and the  *)
(* notes of it change as given.                                            *)
LEMMA OwnStep ==
  ASSUME Typed, Rows, Kept, Quiet, UNCHANGED env, NEW w \in Writers, NEW t \in Counted,
         Alone(t) => w = WriterOf(t), op[w] = Idle \/ op[w].t = t,
         NEW o, o = Idle \/ (o \in Ops /\ o.t = t), op' = [op EXCEPT ![w] = o],
         NEW B, addr' = [addr EXCEPT ![t] = B], NEW D, cnt' = [cnt EXCEPT ![t] = D],
         NEW M, noted' = [noted EXCEPT ![t] = M],
         NEW T \in Nat, total' = [total EXCEPT ![t] = T],
         Good(B, D, M), Alone(t) => Row(B, D, M, o, t) /\ Clear(B, D, o, t),
         Share(B, D, M, T, [op EXCEPT ![w] = o], t)
  PROVE  Typed' /\ Rows' /\ Kept' /\ Quiet'
<1>1. t \in Tables /\ t # "amiss" /\ "amiss" \in Tables
  BY DEF Counted, Tables
<1>2. op'[w] = o /\ \A v \in Writers : v = w \/ op'[v] = op[v]
  BY DEF Typed
<1>3. /\ addr'[t] = B /\ cnt'[t] = D /\ noted'[t] = M /\ total'[t] = T
      /\ \A v \in Tables : v = t \/ /\ addr'[v] = addr[v] /\ cnt'[v] = cnt[v]
                                    /\ noted'[v] = noted[v] /\ total'[v] = total[v]
  BY <1>1 DEF Typed
<1>4. \A v : Alone(v)' <=> Alone(v)
  BY DEF Alone
<1>5. Typed'
  <2>1. op' \in [Writers -> Ops \cup {Idle}]
    BY DEF Typed
  <2>2. addr' \in [Tables -> [Cells -> Pages \cup {0}]] /\ cnt' \in [Tables -> [Cells -> Nat]]
    BY <1>1 DEF Typed, Good
  <2>3. noted' \in [Tables -> [Pages -> Nat]] /\ total' \in [Tables -> Nat]
    BY <1>1 DEF Typed, Good
  <2>4. ASSUME NEW v \in Writers, op'[v] # Idle, Alone(op'[v].t)
        PROVE  v = WriterOf(op'[v].t)
    <3>1. CASE v = w
      BY <1>2, <2>4, <3>1
    <3>2. CASE v # w
      BY <1>2, <2>4, <3>2 DEF Typed
    <3> QED BY <3>1, <3>2
  <2>5. ASSUME NEW v \in Writers, op'[v] # Idle, op'[v].t = "pc" \/ ~env'.batch
        PROVE  v = WriterOf(op'[v].t)
    BY <2>4, <2>5 DEF Alone
  <2> QED BY <2>1, <2>2, <2>3, <2>5 DEF Typed, Alone, WriterOf
<1>6. ASSUME NEW v \in Counted, Alone(v) PROVE RowOf(v)'
  <2>1. v \in Tables /\ WriterOf(v) \in Writers /\ RowOf(v) /\ Idle.t # v
    BY <1>6, TypedRow, IdleIsNowhere DEF Counted, Rows
  <2>2. CASE v = t
    <3>1. op'[WriterOf(v)] = o
      BY <1>2, <1>6, <2>2
    <3> QED BY <1>3, <1>6, <2>2, <3>1 DEF RowOf, WriterOf
  <2>3. CASE v # t
    <3>1. addr'[v] = addr[v] /\ cnt'[v] = cnt[v] /\ noted'[v] = noted[v]
      BY <1>3, <2>1, <2>3
    <3>2. PICK x, y : x = op[WriterOf(v)] /\ y = op'[WriterOf(v)]
      OBVIOUS
    <3>3. x = y \/ (x.t # v /\ y.t # v)
      BY <1>2, <2>1, <2>3, <3>2
    <3>4. Row(addr[v], cnt[v], noted[v], x, v) /\ Clear(addr[v], cnt[v], x, v)
      BY <2>1, <3>2 DEF RowOf
    <3>5. Row(addr[v], cnt[v], noted[v], y, v) /\ Clear(addr[v], cnt[v], y, v)
      BY <3>3, <3>4 DEF Row, Clear
    <3> QED BY <3>1, <3>2, <3>5 DEF RowOf
  <2> QED BY <2>2, <2>3
<1>7. ASSUME NEW v \in Tables PROVE Share(addr'[v], cnt'[v], noted'[v], total'[v], op', v)
  <2>1. CASE v = t
    BY <1>3, <2>1
  <2>2. CASE v # t
    <3>1. Share(addr[v], cnt[v], noted[v], total[v], op, v) /\ Idle.t # v
      BY IdleIsNowhere DEF Kept
    <3>2. op[w].t # v /\ op'[w].t # v
      BY <1>2, <2>2, <3>1
    <3>3. Pend(op', v) = Pend(op, v)
      <4>1. In(op[w], v) <=> In(op'[w], v)
        BY <3>2 DEF In
      <4>2. PICK f, g : f = op /\ g = op'
        OBVIOUS
      <4>3. (\A x \in Writers : x = w \/ g[x] = f[x]) /\ (In(f[w], v) <=> In(g[w], v))
        BY <1>2, <4>1, <4>2
      <4>4. Pend(g, v) = Pend(f, v)
        BY <4>3, PendSame
      <4> QED BY <4>2, <4>4
    <3>4. \A x \in Writers : op'[x].t = v => op[x] = op'[x]
      BY <1>2, <3>2
    <3>5. Share(addr[v], cnt[v], noted[v], total[v], op', v)
      BY <3>1, <3>3, <3>4 DEF Share
    <3> QED BY <1>3, <2>2, <3>5
  <2> QED BY <2>1, <2>2
<1>8. Quiet'
  BY <1>1, <1>3 DEF Quiet
<1>9. Rows'
  BY <1>4, <1>6 DEF Rows
<1>10. Kept'
  BY <1>7 DEF Kept
<1> QED BY <1>5, <1>8, <1>9, <1>10

LEMMA NotesAdd ==
  ASSUME Typed, NEW t \in Tables, NEW a \in Pages, Noted(t, a)
  PROVE  /\ Notes' <= MaxNotes /\ total[t] + 1 \in Nat
         /\ noted' = [noted EXCEPT ![t] = [noted[t] EXCEPT ![a] = @ + 1]]
         /\ total' = [total EXCEPT ![t] = total[t] + 1]
         /\ \A v \in Tables : total[v] <= total'[v]
         /\ \A v \in Tables : \A b \in Pages : noted[v][b] <= noted'[v][b]
<1>1. total' = [total EXCEPT ![t] = total[t] + 1] /\ Notes < MaxNotes
  BY DEF Noted
<1>2. \A v \in Tables : total[v] \in Nat /\ total'[v] = IF v = t THEN total[v] + 1 ELSE total[v]
  BY <1>1 DEF Typed
<1>3. PICK x, y, z, u : x = total["hit"] /\ y = total["miss"] /\ z = total["amiss"] /\ u = total["pc"]
  OBVIOUS
<1>4. x \in Nat /\ y \in Nat /\ z \in Nat /\ u \in Nat /\ x + y + z + u < MaxNotes
  BY <1>1, <1>2, <1>3 DEF Notes, Tables
<1>5. Notes' <= MaxNotes
  <2>1. MaxNotes \in Nat
    BY ProfAssumption
  <2>2. PICK k, l, m, n : k = total'["hit"] /\ l = total'["miss"] /\ m = total'["amiss"] /\ n = total'["pc"]
    OBVIOUS
  <2>3. /\ k = (IF t = "hit" THEN x + 1 ELSE x) /\ l = (IF t = "miss" THEN y + 1 ELSE y)
        /\ m = (IF t = "amiss" THEN z + 1 ELSE z) /\ n = (IF t = "pc" THEN u + 1 ELSE u)
    BY <1>2, <1>3, <2>2 DEF Tables
  <2>4. k + l + m + n <= x + y + z + u + 1
    <3>1. CASE t = "hit"
      BY <1>4, <2>3, <3>1
    <3>2. CASE t = "miss"
      BY <1>4, <2>3, <3>2
    <3>3. CASE t = "amiss"
      BY <1>4, <2>3, <3>3
    <3>4. CASE t = "pc"
      BY <1>4, <2>3, <3>4
    <3> QED BY <3>1, <3>2, <3>3, <3>4 DEF Tables
  <2>5. k \in Nat /\ l \in Nat /\ m \in Nat /\ n \in Nat
    BY <1>4, <2>3
  <2>6. k + l + m + n <= MaxNotes
    BY <1>4, <2>1, <2>4, <2>5
  <2> QED BY <2>2, <2>6 DEF Notes
<1>6. noted' = [noted EXCEPT ![t] = [noted[t] EXCEPT ![a] = @ + 1]]
  BY DEF Noted, Typed
<1>7. ASSUME NEW v \in Tables, NEW b \in Pages PROVE noted[v][b] <= noted'[v][b]
  <2>1. noted[v][b] \in Nat
    BY DEF Typed
  <2>2. noted'[v][b] = IF v = t /\ b = a THEN noted[v][b] + 1 ELSE noted[v][b]
    BY <1>6 DEF Typed
  <2> QED BY <2>1, <2>2
<1>8. \A v \in Tables : total[v] <= total'[v]
  BY <1>2
<1>9. total[t] + 1 \in Nat
  BY <1>2
<1> QED BY <1>1, <1>5, <1>6, <1>7, <1>8, <1>9

LEMMA BeginStep ==
  ASSUME TablesHold, UNCHANGED env, NEW w \in Writers, NEW t \in Counted,
         Alone(t) => w = WriterOf(t),
         NEW a \in Pages, op[w] = Idle, Begin(w, t, a), UNCHANGED <<addr, cnt>>
  PROVE  TablesHold' /\ Grown
<1>1. PICK u : u = [t |-> t, a |-> a, p |-> 0, todo |-> {}, n |-> 0]
  OBVIOUS
<1>2. op' = [op EXCEPT ![w] = u] /\ Noted(t, a) /\ t \in Tables /\ Typed /\ Rows /\ Kept /\ Quiet
  BY <1>1 DEF Begin, Counted, TablesHold
<1>3. /\ Notes' <= MaxNotes /\ total[t] + 1 \in Nat
      /\ noted' = [noted EXCEPT ![t] = [noted[t] EXCEPT ![a] = @ + 1]]
      /\ total' = [total EXCEPT ![t] = total[t] + 1]
      /\ \A v \in Tables : total[v] <= total'[v]
      /\ \A v \in Tables : \A b \in Pages : noted[v][b] <= noted'[v][b]
  BY <1>2, NotesAdd
<1>4. PICK M : M = [noted[t] EXCEPT ![a] = @ + 1]
  OBVIOUS
<1>5. u.t = t /\ u.todo = {} /\ u \in Ops /\ Idle.t # t
  BY <1>1, <1>2, PagesArePositive, IdleIsNowhere DEF Ops
<1>6. Good(addr[t], cnt[t], noted[t]) /\ total[t] \in Nat
  BY <1>2, TypedRow
<1>7. Good(addr[t], cnt[t], M)
  BY <1>4, <1>6 DEF Good
<1>8. Alone(t) => Row(addr[t], cnt[t], M, u, t) /\ Clear(addr[t], cnt[t], u, t)
  <2> SUFFICES ASSUME Alone(t)
               PROVE  Row(addr[t], cnt[t], M, u, t) /\ Clear(addr[t], cnt[t], u, t)
    OBVIOUS
  <2>1. PICK o : o = op[w] /\ o.t # t
    BY <1>5
  <2>2. Row(addr[t], cnt[t], noted[t], o, t) /\ Clear(addr[t], cnt[t], o, t)
    BY <1>2, <2>1 DEF Rows, RowOf
  <2>3. Row(addr[t], cnt[t], M, u, t)
    BY <1>1, <1>2, <1>4, <1>6, <2>1, <2>2, RowBegins
  <2>4. Clear(addr[t], cnt[t], u, t)
    BY <1>5, <2>1, <2>2 DEF Clear
  <2> QED BY <2>3, <2>4
<1>9. Share(addr[t], cnt[t], M, total[t] + 1, [op EXCEPT ![w] = u], t)
  <2>1. Share(addr[t], cnt[t], noted[t], total[t], op, t) /\ op[w].t # t
    BY <1>2, <1>5 DEF Kept
  <2>2. op \in [Writers -> Ops \cup {Idle}]
    BY <1>2 DEF Typed
  <2>3. PICK A, C, N, T : A = addr[t] /\ C = cnt[t] /\ N = noted[t] /\ T = total[t]
    OBVIOUS
  <2> QED BY <1>1, <1>2, <1>4, <1>6, <2>1, <2>2, <2>3, ShareBegins
<1>10. addr' = [addr EXCEPT ![t] = addr[t]] /\ cnt' = [cnt EXCEPT ![t] = cnt[t]]
  BY <1>2 DEF Typed
<1>11. Typed' /\ Rows' /\ Kept' /\ Quiet'
  BY <1>2, <1>3, <1>4, <1>5, <1>7, <1>8, <1>9, <1>10, OwnStep
<1>12. \A v \in Tables : \A s \in Cells :
         (cnt[v][s] >= 1 => cnt'[v][s] >= 1) /\ (Alone(v) => cnt[v][s] <= cnt'[v][s])
  BY <1>2 DEF Typed
<1> QED BY <1>3, <1>11, <1>12 DEF TablesHold, Grown

(* Where a writer that is busy stands.                                     *)
LEMMA AtSlot ==
  ASSUME TablesHold, NEW w \in Writers, op[w] # Idle
  PROVE  \E t \in Counted, h \in Cells, o \in Ops :
           /\ o = op[w] /\ t = o.t /\ h = Slot(o.a, o.p) /\ t \in Tables
           /\ Alone(t) => w = WriterOf(t)
           /\ Good(addr[t], cnt[t], noted[t]) /\ total[t] \in Nat
           /\ Alone(t) => Row(addr[t], cnt[t], noted[t], o, t) /\ Clear(addr[t], cnt[t], o, t)
           /\ Share(addr[t], cnt[t], noted[t], total[t], op, t)
           /\ addr = [addr EXCEPT ![t] = addr[t]] /\ cnt = [cnt EXCEPT ![t] = cnt[t]]
           /\ noted = [noted EXCEPT ![t] = noted[t]] /\ total = [total EXCEPT ![t] = total[t]]
<1>1. Typed /\ Rows /\ Kept
  BY DEF TablesHold
<1>2. PICK o \in Ops : o = op[w]
  BY <1>1 DEF Typed
<1>3. PICK t \in Counted : t = o.t
  BY DEF Ops
<1>4. t \in Tables
  BY DEF Counted
<1>5. PICK h \in Cells : h = Slot(o.a, o.p)
  BY SlotIsCell DEF Ops
<1>6. Alone(t) => w = WriterOf(t)
  BY <1>1, <1>2, <1>3 DEF Typed
<1>7. Alone(t) => Row(addr[t], cnt[t], noted[t], o, t) /\ Clear(addr[t], cnt[t], o, t)
  BY <1>1, <1>2, <1>6 DEF Rows, RowOf
<1>8. Good(addr[t], cnt[t], noted[t]) /\ total[t] \in Nat
  BY <1>1, <1>4, TypedRow
<1>9. Share(addr[t], cnt[t], noted[t], total[t], op, t)
  BY <1>1, <1>4 DEF Kept
<1>10. /\ addr = [addr EXCEPT ![t] = addr[t]] /\ cnt = [cnt EXCEPT ![t] = cnt[t]]
       /\ noted = [noted EXCEPT ![t] = noted[t]] /\ total = [total EXCEPT ![t] = total[t]]
  BY <1>1, <1>4 DEF Typed
<1> QED BY <1>2, <1>3, <1>4, <1>5, <1>6, <1>7, <1>8, <1>9, <1>10

(* A writer looks at a slot: it takes the slot's count with it, takes the  *)
(* slot, or goes on.                                                       *)
LEMMA ProbeStep ==
  ASSUME TablesHold, NEW w \in Writers, Probe(w)
  PROVE  TablesHold' /\ Grown
<1>1. /\ op[w] # Idle /\ op[w].todo = {} /\ UNCHANGED <<env, addr, cnt, noted, total>>
      /\ Typed /\ Rows /\ Kept /\ Quiet /\ Notes <= MaxNotes
  BY DEF Probe, Runs, TablesHold
<1>2. PICK t \in Counted, h \in Cells, o \in Ops :
        /\ o = op[w] /\ t = o.t /\ h = Slot(o.a, o.p) /\ t \in Tables
        /\ Alone(t) => w = WriterOf(t)
        /\ Good(addr[t], cnt[t], noted[t]) /\ total[t] \in Nat
        /\ Alone(t) => Row(addr[t], cnt[t], noted[t], o, t) /\ Clear(addr[t], cnt[t], o, t)
        /\ Share(addr[t], cnt[t], noted[t], total[t], op, t)
        /\ addr = [addr EXCEPT ![t] = addr[t]] /\ cnt = [cnt EXCEPT ![t] = cnt[t]]
        /\ noted = [noted EXCEPT ![t] = noted[t]] /\ total = [total EXCEPT ![t] = total[t]]
  BY <1>1, AtSlot
<1>3. PICK A, C, N, T : A = addr[t] /\ C = cnt[t] /\ N = noted[t] /\ T = total[t]
  OBVIOUS
<1>4. PICK u :
        /\ op' = [op EXCEPT ![w] = u]
        /\ \/ A[h] = o.a /\ u = [o EXCEPT !.todo = {"cnt"}, !.n = C[h] + 1]
           \/ A[h] # o.a /\ A[h] = 0 /\ u = [o EXCEPT !.todo = {"addr", "cnt"}, !.n = 1]
           \/ A[h] \notin {0, o.a} /\ u = NextProbe(o)
  <2>1. CASE A[h] = o.a /\ op' = [op EXCEPT ![w].todo = {"cnt"}, ![w].n = C[h] + 1]
    <3>1. PICK u : u = [o EXCEPT !.todo = {"cnt"}, !.n = C[h] + 1]
      OBVIOUS
    <3>2. op' = [op EXCEPT ![w] = [o EXCEPT !.todo = {"cnt"}, !.n = C[h] + 1]]
      BY <1>1, <1>2, <2>1 DEF Typed
    <3> QED BY <2>1, <3>1, <3>2
  <2>2. CASE A[h] # o.a /\ A[h] = 0
             /\ op' = [op EXCEPT ![w].todo = {"addr", "cnt"}, ![w].n = 1]
    <3>1. PICK u : u = [o EXCEPT !.todo = {"addr", "cnt"}, !.n = 1]
      OBVIOUS
    <3>2. op' = [op EXCEPT ![w] = [o EXCEPT !.todo = {"addr", "cnt"}, !.n = 1]]
      BY <1>1, <1>2, <2>2 DEF Typed
    <3> QED BY <2>2, <3>1, <3>2
  <2>3. CASE A[h] # o.a /\ A[h] # 0 /\ op' = [op EXCEPT ![w] = NextProbe(o)]
    BY <2>3
  <2> QED BY <1>2, <1>3, <2>1, <2>2, <2>3 DEF Probe, FreeHere, Here
<1>5. o.todo = {} /\ In(o, t) /\ C \in [Cells -> Nat] /\ o.a \in Pages /\ Idle.t # t
  BY <1>1, <1>2, <1>3, IdleIsNowhere DEF In, Good, Ops
<1>6. \/ u = Idle
      \/ u \in Ops /\ u.t = t /\ u.a = o.a /\ u.p = o.p /\ u.n = C[h] + 1 /\ "cnt" \in u.todo
         /\ A[h] = o.a
      \/ u \in Ops /\ u.t = t /\ u.a = o.a /\ u.p = o.p /\ u.n = 1 /\ u.todo = {"addr", "cnt"}
         /\ A[h] = 0
      \/ u \in Ops /\ u.t = t /\ u.a = o.a /\ u.todo = {}
  <2>1. CASE A[h] = o.a /\ u = [o EXCEPT !.todo = {"cnt"}, !.n = C[h] + 1]
    <3>1. C[h] + 1 \in Nat
      BY <1>2, <1>5
    <3> QED BY <1>2, <2>1, <3>1 DEF Ops
  <2>2. CASE A[h] = 0 /\ u = [o EXCEPT !.todo = {"addr", "cnt"}, !.n = 1]
    BY <1>2, <2>2 DEF Ops
  <2>3. CASE u = NextProbe(o)
    BY <1>2, <1>5, <2>3, PagesArePositive DEF NextProbe, Ops
  <2> QED BY <1>4, <2>1, <2>2, <2>3
<1>7. Alone(t) => Row(A, C, N, u, t) /\ Clear(A, C, u, t)
  <2> SUFFICES ASSUME Alone(t) PROVE Row(A, C, N, u, t) /\ Clear(A, C, u, t)
    OBVIOUS
  <2>1. Row(A, C, N, o, t) /\ Clear(A, C, o, t) /\ Good(A, C, N)
    BY <1>2, <1>3
  <2>2. Row(A, C, N, u, t)
    <3>1. CASE A[h] = o.a /\ u = [o EXCEPT !.todo = {"cnt"}, !.n = C[h] + 1]
      BY <1>2, <1>5, <2>1, <3>1, RowReads
    <3>2. CASE A[h] = 0 /\ u = [o EXCEPT !.todo = {"addr", "cnt"}, !.n = 1]
      BY <1>2, <1>5, <2>1, <3>2, RowFrees
    <3>3. CASE A[h] \notin {0, o.a} /\ u = NextProbe(o)
      BY <1>2, <1>5, <2>1, <3>3, RowProbes
    <3> QED BY <1>4, <3>1, <3>2, <3>3
  <2>3. A[h] = 0 => C[h] = 0
    BY <1>5, <2>1 DEF Clear
  <2>4. \/ u = Idle
        \/ u.t = t /\ u.todo = {}
        \/ /\ u.t = t /\ u.a = o.a /\ u.p = o.p /\ u.n = C[h] + 1
           /\ "cnt" \in u.todo
    BY <1>6, <2>3
  <2>5. Clear(A, C, u, t)
    BY <1>2, <1>5, <2>1, <2>4, ClearProbes
  <2> QED BY <2>2, <2>5
<1>8. Share(A, C, N, T, [op EXCEPT ![w] = u], t)
  <2>1. u = Idle \/ (u \in Ops /\ u.t = t /\ u.a = op[w].a)
    BY <1>2, <1>6
  <2>2. In(u, t) => In(op[w], t)
    BY <1>2, <1>5
  <2>3. u.t = t /\ "cnt" \in u.todo => u.n >= 1 /\ u.n + Pend(op, t) <= T + 1
    <3>1. PICK k \in Nat : k = Pend(op, t)
      BY PendFinite
    <3>2. PICK c \in Nat : c = C[h]
      BY <1>5
    <3>3. c + k <= T /\ T \in Nat
      BY <1>2, <1>3, <3>1, <3>2 DEF Share
    <3>4. (c + 1) + k <= T + 1 /\ 1 + k <= T + 1 /\ c + 1 >= 1
      BY <3>3
    <3>5. u.t = t /\ "cnt" \in u.todo => u.n = c + 1 \/ u.n = 1
      BY <1>5, <1>6, <3>2
    <3> QED BY <3>1, <3>4, <3>5
  <2>4. Good(A, C, N) /\ T \in Nat /\ Share(A, C, N, T, op, t) /\ op[w] \in Ops /\ op[w].t = t
    BY <1>2, <1>3
  <2>5. op \in [Writers -> Ops \cup {Idle}]
    BY <1>1 DEF Typed
  <2>6. Names(A, A, op[w].a) /\ Stores(C, C, op[w], u, t)
    BY DEF Names, Stores
  <2> QED BY <1>2, <2>1, <2>2, <2>3, <2>4, <2>5, <2>6, ShareMoves
<1>9. Typed' /\ Rows' /\ Kept' /\ Quiet'
  <2>1. /\ addr' = [addr EXCEPT ![t] = A] /\ cnt' = [cnt EXCEPT ![t] = C]
        /\ noted' = [noted EXCEPT ![t] = N] /\ total' = [total EXCEPT ![t] = T]
    BY <1>1, <1>2, <1>3
  <2>2. Good(A, C, N) /\ T \in Nat /\ (op[w] = Idle \/ op[w].t = t)
    BY <1>2, <1>3
  <2>3. u = Idle \/ (u \in Ops /\ u.t = t)
    BY <1>6
  <2>4. op' = [op EXCEPT ![w] = u] /\ (Alone(t) => w = WriterOf(t))
    BY <1>2, <1>4
  <2>5. Typed /\ Rows /\ Kept /\ Quiet /\ UNCHANGED env
    BY <1>1
  <2> QED BY <1>7, <1>8, <2>1, <2>2, <2>3, <2>4, <2>5, OwnStep
<1>10. Grown
  BY <1>1 DEF Grown, Typed
<1>11. Notes' <= MaxNotes
  BY <1>1 DEF Notes
<1> QED BY <1>9, <1>10, <1>11 DEF TablesHold

(* A writer makes one of its two stores.                                   *)
LEMMA ClaimStep ==
  ASSUME TablesHold, NEW w \in Writers, Claim(w)
  PROVE  TablesHold' /\ Grown
<1>1. /\ op[w] # Idle /\ UNCHANGED <<env, noted, total>>
      /\ Typed /\ Rows /\ Kept /\ Quiet /\ Notes <= MaxNotes
  BY DEF Claim, Runs, TablesHold
<1>2. PICK t \in Counted, h \in Cells, o \in Ops :
        /\ o = op[w] /\ t = o.t /\ h = Slot(o.a, o.p) /\ t \in Tables
        /\ Alone(t) => w = WriterOf(t)
        /\ Good(addr[t], cnt[t], noted[t]) /\ total[t] \in Nat
        /\ Alone(t) => Row(addr[t], cnt[t], noted[t], o, t) /\ Clear(addr[t], cnt[t], o, t)
        /\ Share(addr[t], cnt[t], noted[t], total[t], op, t)
        /\ addr = [addr EXCEPT ![t] = addr[t]] /\ cnt = [cnt EXCEPT ![t] = cnt[t]]
        /\ noted = [noted EXCEPT ![t] = noted[t]] /\ total = [total EXCEPT ![t] = total[t]]
  BY <1>1, AtSlot
<1>3. PICK A, C, N, T : A = addr[t] /\ C = cnt[t] /\ N = noted[t] /\ T = total[t]
  OBVIOUS
<1>4. PICK x \in o.todo :
        /\ op' = [op EXCEPT ![w] = Stored(o, x)]
        /\ \/ x = "addr" /\ addr' = [addr EXCEPT ![t][h] = o.a] /\ UNCHANGED cnt
           \/ x = "cnt" /\ cnt' = [cnt EXCEPT ![t][h] = o.n] /\ UNCHANGED addr
  BY <1>2 DEF Claim, Here
<1>5. PICK u : u = Stored(o, x)
  OBVIOUS
<1>6. PICK B : B = IF x = "addr" THEN [A EXCEPT ![h] = o.a] ELSE A
  OBVIOUS
<1>7. PICK D : D = IF x = "addr" THEN C ELSE [C EXCEPT ![h] = o.n]
  OBVIOUS
<1>8. /\ addr' = [addr EXCEPT ![t] = B] /\ cnt' = [cnt EXCEPT ![t] = D]
      /\ x = "addr" \/ x = "cnt"
  <2>1. CASE x = "addr"
    BY <1>1, <1>2, <1>3, <1>4, <1>6, <1>7, <2>1 DEF Typed
  <2>2. CASE x = "cnt"
    BY <1>1, <1>2, <1>3, <1>4, <1>6, <1>7, <2>2 DEF Typed
  <2> QED BY <1>4, <2>1, <2>2
<1>9. Good(A, C, N) /\ T \in Nat /\ o.a \in Pages /\ o.n \in Nat /\ Idle.t # t
  BY <1>2, <1>3, IdleIsNowhere DEF Ops
<1>10. Good(B, D, N)
  BY <1>6, <1>7, <1>9 DEF Good
<1>11. \/ u = Idle /\ o.todo = {x}
       \/ /\ u \in Ops /\ u.t = t /\ u.a = o.a /\ u.n = o.n /\ o.todo = {"addr", "cnt"}
          /\ u.todo = {"addr", "cnt"} \ {x}
  BY <1>2, <1>5, StoredOne
<1>12. Alone(t) => /\ Row(B, D, N, u, t) /\ Clear(B, D, u, t)
                   /\ x = "cnt" => C[h] <= o.n
  <2> SUFFICES ASSUME Alone(t)
               PROVE  Row(B, D, N, u, t) /\ Clear(B, D, u, t) /\ (x = "cnt" => C[h] <= o.n)
    OBVIOUS
  <2>1. Row(A, C, N, o, t) /\ Clear(A, C, o, t)
    BY <1>2, <1>3
  <2>2. CASE x = "addr"
    <3>1. B = [A EXCEPT ![Slot(o.a, o.p)] = o.a] /\ D = C /\ u = Stored(o, "addr")
          /\ "addr" \in o.todo
      BY <1>2, <1>5, <1>6, <1>7, <2>2
    <3>2. Row(B, D, N, u, t)
      BY <1>2, <1>9, <2>1, <3>1, RowNames
    <3>3. Clear(B, D, u, t)
      BY <1>2, <1>9, <2>1, <3>1, ClearNames
    <3> QED BY <2>2, <3>2, <3>3
  <2>3. CASE x = "cnt"
    <3>1. D = [C EXCEPT ![Slot(o.a, o.p)] = o.n] /\ B = A /\ u = Stored(o, "cnt")
          /\ "cnt" \in o.todo
      BY <1>2, <1>5, <1>6, <1>7, <2>3
    <3>2. Row(B, D, N, u, t)
      BY <1>2, <1>9, <2>1, <3>1, RowStarts
    <3>3. Clear(B, D, u, t) /\ C[h] <= o.n
      BY <1>2, <1>9, <2>1, <3>1, ClearStarts
    <3> QED BY <3>2, <3>3
  <2> QED BY <1>8, <2>2, <2>3
<1>13. Share(A, C, N, T, op, t) /\ op[w] \in Ops /\ op[w].t = t /\ op[w] = o
  BY <1>2, <1>3
<1>14. x = "cnt" => o.n >= 1
  BY <1>4, <1>13 DEF Share
<1>15. Share(B, D, N, T, [op EXCEPT ![w] = u], t)
  <2>1. u = Idle \/ (u \in Ops /\ u.t = t /\ u.a = op[w].a)
    BY <1>11, <1>13
  <2>2. In(u, t) => In(op[w], t)
    <3>1. {"addr", "cnt"} # {"addr"}
      OBVIOUS
    <3> QED BY <1>9, <1>11, <1>13, <3>1 DEF In
  <2>3. u.t = t /\ "cnt" \in u.todo => u.n >= 1 /\ u.n + Pend(op, t) <= T + 1
    <3> SUFFICES ASSUME u.t = t, "cnt" \in u.todo
                 PROVE  u.n >= 1 /\ u.n + Pend(op, t) <= T + 1
      OBVIOUS
    <3>1. u.n = op[w].n /\ "cnt" \in op[w].todo
      BY <1>9, <1>11, <1>13
    <3> QED BY <1>13, <3>1 DEF Share
  <2>4. Names(A, B, op[w].a)
    BY <1>6, <1>9, <1>13 DEF Good, Names
  <2>5. Stores(C, D, op[w], u, t)
    <3>1. CASE x = "addr"
      BY <1>7, <3>1 DEF Stores
    <3>2. CASE x = "cnt"
      <4>1. \A s \in Cells : D[s] = C[s] \/ D[s] = o.n
        BY <1>7, <1>9, <3>2 DEF Good
      <4>2. u = Idle \/ u.todo = {"addr"}
        BY <1>11, <3>2
      <4>3. ~In(u, t) /\ "cnt" \in o.todo
        BY <1>4, <1>9, <3>2, <4>2 DEF In
      <4> QED BY <1>13, <4>1, <4>3 DEF Stores
    <3> QED BY <1>8, <3>1, <3>2
  <2>6. op \in [Writers -> Ops \cup {Idle}]
    BY <1>1 DEF Typed
  <2>7. /\ t \in Tables /\ Good(A, C, N) /\ T \in Nat
        /\ Share(A, C, N, T, op, t) /\ op[w] \in Ops /\ op[w].t = t
    BY <1>2, <1>9, <1>13
  <2> QED BY <2>1, <2>2, <2>3, <2>4, <2>5, <2>6, <2>7, ShareMoves
<1>16. Typed' /\ Rows' /\ Kept' /\ Quiet'
  <2>1. noted' = [noted EXCEPT ![t] = N] /\ total' = [total EXCEPT ![t] = T]
    BY <1>1, <1>2, <1>3
  <2>2. op[w] = Idle \/ op[w].t = t
    BY <1>13
  <2>3. u = Idle \/ (u \in Ops /\ u.t = t)
    BY <1>11
  <2>4. op' = [op EXCEPT ![w] = u]
    BY <1>4, <1>5
  <2>5. Alone(t) => Row(B, D, N, u, t) /\ Clear(B, D, u, t)
    BY <1>12
  <2>6. Typed /\ Rows /\ Kept /\ Quiet /\ UNCHANGED env /\ (Alone(t) => w = WriterOf(t))
    BY <1>1, <1>2
  <2>7. T \in Nat /\ addr' = [addr EXCEPT ![t] = B] /\ cnt' = [cnt EXCEPT ![t] = D]
    BY <1>8, <1>9
  <2> QED BY <1>10, <1>15, <2>1, <2>2, <2>3, <2>4, <2>5, <2>6, <2>7, OwnStep
<1>17. Grown
  <2>1. ASSUME NEW v \in Tables, NEW s \in Cells
        PROVE  (cnt[v][s] >= 1 => cnt'[v][s] >= 1) /\ (Alone(v) => cnt[v][s] <= cnt'[v][s])
    <3>1. cnt[v][s] \in Nat
      BY <1>1 DEF Typed
    <3>2. CASE v # t \/ s # h \/ x = "addr"
      <4>1. cnt'[v][s] = cnt[v][s]
        <5>1. CASE x = "addr"
          BY <1>4, <5>1
        <5>2. CASE x = "cnt"
          <6>1. cnt' = [cnt EXCEPT ![t][h] = o.n] /\ cnt \in [Tables -> [Cells -> Nat]]
            BY <1>1, <1>4, <5>2 DEF Typed
          <6> QED BY <3>2, <5>2, <6>1
        <5> QED BY <1>8, <5>1, <5>2
      <4> QED BY <3>1, <4>1
    <3>3. CASE v = t /\ s = h /\ x = "cnt"
      <4>1. cnt'[v][s] = o.n
        BY <1>1, <1>2, <1>4, <3>3 DEF Typed
      <4> QED BY <1>3, <1>9, <1>12, <1>14, <3>1, <3>3, <4>1
    <3> QED BY <1>8, <3>2, <3>3
  <2>2. /\ \A v \in Tables : \A a \in Pages : noted[v][a] <= noted'[v][a]
        /\ \A v \in Tables : total[v] <= total'[v]
    BY <1>1 DEF Typed
  <2> QED BY <2>1, <2>2 DEF Grown
<1>18. Notes' <= MaxNotes
  BY <1>1 DEF Notes
<1> QED BY <1>16, <1>17, <1>18 DEF TablesHold

LEMMA StandStep ==
  ASSUME TablesHold, UNCHANGED <<env, addr, cnt, op, noted, total>>
  PROVE  TablesHold' /\ Grown
<1>1. Typed /\ Rows /\ Kept /\ Quiet /\ Notes <= MaxNotes
  BY DEF TablesHold
<1>2. Typed'
  BY <1>1 DEF Typed, Alone, WriterOf
<1>3. Rows'
  BY <1>1 DEF Rows, RowOf, Alone, WriterOf
<1>4. Kept' /\ Quiet' /\ Notes' <= MaxNotes
  BY <1>1 DEF Kept, Quiet, Notes
<1>5. Grown
  BY <1>1 DEF Grown, Typed
<1> QED BY <1>2, <1>3, <1>4, <1>5 DEF TablesHold

(* The steps that may write a table or note.                               *)
WriterStepped ==
  \/ \E w \in Writers, a \in Pages :
       NoteHit(w, a) \/ NoteDispatchMiss(w, a) \/ NoteAddressMiss(w, a)
  \/ \E w \in {"sig", "sdl"}, a \in Pages : SigProf(w, a)
  \/ \E w \in Writers : Probe(w) \/ Claim(w)

LEMMA SiteIs ==
  ASSUME NEW w \in Writers, Site(w), NEW t \in {"hit", "miss"}
  PROVE  op[w] = Idle /\ (Alone(t) => w = WriterOf(t))
<1>1. CASE w = "main" /\ MainRuns
  BY <1>1 DEF MainRuns, MainWaits, Free, WriterOf
<1>2. CASE w \in Jobs /\ JobRuns(w)
  <2>1. op[w] = Idle /\ env.batch
    BY <1>2 DEF JobRuns, Free
  <2>2. t # "pc"
    OBVIOUS
  <2> QED BY <2>1, <2>2 DEF Alone
<1> QED BY <1>1, <1>2 DEF Site

LEMMA WriterSteps ==
  ASSUME TablesHold, WriterStepped
  PROVE  TablesHold' /\ Grown /\ UNCHANGED <<env, calls, dump, printed>>
<1>1. ASSUME NEW w \in Writers, NEW a \in Pages, NoteHit(w, a) \/ NoteDispatchMiss(w, a)
      PROVE  TablesHold' /\ Grown /\ UNCHANGED <<env, calls, dump, printed>>
  <2>1. PICK t \in {"hit", "miss"} : Site(w) /\ Begin(w, t, a)
    BY <1>1 DEF NoteHit, NoteDispatchMiss
  <2>2. UNCHANGED <<env, addr, cnt, calls, dump, printed>>
    BY <1>1 DEF NoteHit, NoteDispatchMiss
  <2>3. t \in Counted
    BY DEF Counted, Tables
  <2>4. op[w] = Idle /\ (Alone(t) => w = WriterOf(t))
    BY <2>1, SiteIs
  <2> QED BY <2>1, <2>2, <2>3, <2>4, BeginStep
<1>2. ASSUME NEW w \in Writers, NEW a \in Pages, NoteAddressMiss(w, a)
      PROVE  TablesHold' /\ Grown /\ UNCHANGED <<env, calls, dump, printed>>
  <2>1. Phys(a) < 32769
    <3>1. a \in Nat
      BY PagesArePositive
    <3> QED BY <3>1 DEF Phys
  <2>2. Noted("amiss", a) /\ UNCHANGED <<env, addr, cnt, op, calls, dump, printed>>
    BY <1>2, <2>1 DEF NoteAddressMiss
  <2>3. "amiss" \in Tables /\ Typed /\ Rows /\ Kept /\ Quiet
    BY DEF Tables, TablesHold
  <2>4. PICK M, T : M = [noted["amiss"] EXCEPT ![a] = @ + 1] /\ T = total["amiss"] + 1
    OBVIOUS
  <2>5. /\ Notes' <= MaxNotes /\ T \in Nat
        /\ noted' = [noted EXCEPT !["amiss"] = M] /\ total' = [total EXCEPT !["amiss"] = T]
        /\ \A v \in Tables : total[v] <= total'[v]
        /\ \A v \in Tables : \A b \in Pages : noted[v][b] <= noted'[v][b]
    BY <2>2, <2>3, <2>4, NotesAdd
  <2>6. /\ noted'["amiss"] = M /\ total'["amiss"] = T
        /\ \A v \in Tables : v = "amiss" \/ (noted'[v] = noted[v] /\ total'[v] = total[v])
    BY <2>3, <2>5 DEF Typed
  <2>7. Typed'
    <3>1. M \in [Pages -> Nat]
      BY <2>3, <2>4 DEF Typed
    <3>2. noted' \in [Tables -> [Pages -> Nat]] /\ total' \in [Tables -> Nat]
      BY <2>3, <2>5, <3>1 DEF Typed
    <3> QED BY <2>2, <2>3, <3>2 DEF Typed, Alone, WriterOf
  <2>8. Rows'
    <3>1. \A v \in Counted : noted'[v] = noted[v]
      BY <2>6 DEF Counted
    <3> QED BY <2>2, <2>3, <3>1 DEF Rows, RowOf, Alone, WriterOf
  <2>9. Kept'
    <3>1. ASSUME NEW v \in Tables PROVE Share(addr[v], cnt[v], noted'[v], total'[v], op, v)
      <4>1. Share(addr[v], cnt[v], noted[v], total[v], op, v)
        BY <2>3 DEF Kept
      <4>2. CASE v # "amiss"
        BY <2>6, <4>1, <4>2
      <4>3. CASE v = "amiss"
        <5>1. Good(addr[v], cnt[v], noted[v]) /\ total[v] \in Nat
          BY <2>3, TypedRow
        <5>2. op \in [Writers -> Ops \cup {Idle}]
          BY <2>3 DEF Typed
        <5>3. PICK A, C, N, U : A = addr[v] /\ C = cnt[v] /\ N = noted[v] /\ U = total[v]
          OBVIOUS
        <5>4. Share(A, C, [N EXCEPT ![a] = @ + 1], U + 1, op, v)
          BY <4>1, <5>1, <5>2, <5>3, ShareNotes
        <5> QED BY <2>4, <2>6, <4>3, <5>3, <5>4
      <4> QED BY <4>2, <4>3
    <3> QED BY <2>2, <3>1 DEF Kept
  <2>10. Quiet'
    BY <2>2, <2>3 DEF Quiet
  <2>11. \A v \in Tables : \A s \in Cells :
           (cnt[v][s] >= 1 => cnt'[v][s] >= 1) /\ (Alone(v) => cnt[v][s] <= cnt'[v][s])
    BY <2>2, <2>3 DEF Typed
  <2> QED BY <2>2, <2>5, <2>7, <2>8, <2>9, <2>10, <2>11 DEF TablesHold, Grown
<1>3. ASSUME NEW w \in {"sig", "sdl"}, NEW a \in Pages, SigProf(w, a)
      PROVE  TablesHold' /\ Grown /\ UNCHANGED <<env, calls, dump, printed>>
  <2>1. UNCHANGED <<env, addr, cnt, calls, dump, printed>>
    BY <1>3 DEF SigProf
  <2>2. CASE OnMain(w)
    <3>1. w = "sig" /\ w \in Writers /\ "pc" \in Counted /\ w = WriterOf("pc")
      BY <2>2 DEF OnMain, Writers, Counted, Tables, WriterOf
    <3>2. op[w] = Idle /\ Begin(w, "pc", a)
      BY <1>3, <2>2 DEF SigProf, Free
    <3> QED BY <2>1, <3>1, <3>2, BeginStep
  <2>3. CASE ~OnMain(w)
    BY <1>3, <2>1, <2>3, StandStep DEF SigProf
  <2> QED BY <2>2, <2>3
<1>4. ASSUME NEW w \in Writers, Probe(w) \/ Claim(w)
      PROVE  TablesHold' /\ Grown /\ UNCHANGED <<env, calls, dump, printed>>
  <2>1. UNCHANGED <<env, calls, dump, printed>>
    BY <1>4 DEF Probe, Claim
  <2> QED BY <1>4, <2>1, ProbeStep, ClaimStep
<1> QED BY <1>1, <1>2, <1>3, <1>4 DEF WriterStepped

LEMMA TablesInit == Init => TablesHold
<1> SUFFICES ASSUME Init PROVE TablesHold
  OBVIOUS
<1>1. /\ addr = [t \in Tables |-> Empty] /\ cnt = addr /\ op = [w \in Writers |-> Idle]
      /\ noted = [t \in Tables |-> [a \in Pages |-> 0]] /\ total = [t \in Tables |-> 0]
  BY DEF Init
<1>2. Typed
  BY <1>1 DEF Typed, Empty
<1>3. \A t \in Tables : /\ addr[t] = Empty /\ cnt[t] = Empty /\ total[t] = 0
                        /\ \A a \in Pages : noted[t][a] = 0
  BY <1>1
<1>4. ASSUME NEW t \in Counted PROVE RowOf(t)
  <2>1. t \in Tables /\ WriterOf(t) \in Writers /\ Idle.t # t
    BY IdleIsNowhere DEF Counted, WriterOf, Writers
  <2>2. /\ addr[t] = Empty /\ cnt[t] = Empty /\ op[WriterOf(t)] = Idle
        /\ \A a \in Pages : noted[t][a] = 0
    BY <1>1, <1>3, <2>1
  <2>3. \A a \in Pages : \A s \in Cells : Empty[s] # a
    BY PagesArePositive DEF Empty
  <2>4. \A s \in Cells : Empty[s] = 0
    BY DEF Empty
  <2>5. Row(addr[t], cnt[t], noted[t], Idle, t)
    BY <2>1, <2>2, <2>3 DEF Row, Chained, Settled
  <2>6. Clear(addr[t], cnt[t], Idle, t)
    BY <2>1, <2>2, <2>4 DEF Clear
  <2> QED BY <2>2, <2>5, <2>6 DEF RowOf
<1>5. ASSUME NEW t \in Tables PROVE Share(addr[t], cnt[t], noted[t], total[t], op, t)
  <2>1. \A w \in Writers : op[w].t # t
    BY <1>1, IdleIsNowhere
  <2>2. Pend(op, t) = 0
    <3>1. Open(op, t) = {}
      BY <2>1 DEF Open, In
    <3> QED BY <3>1, FS_EmptySet DEF Pend
  <2>3. \A s \in Cells : addr[t][s] = 0 /\ cnt[t][s] = 0
    BY <1>3 DEF Empty
  <2> QED BY <1>3, <2>1, <2>2, <2>3 DEF Share
<1>6. Quiet /\ Notes <= MaxNotes
  <2>1. "amiss" \in Tables /\ "hit" \in Tables /\ "miss" \in Tables /\ "pc" \in Tables
        /\ MaxNotes \in Nat
    BY ProfAssumption DEF Tables
  <2> QED BY <1>3, <2>1 DEF Quiet, Notes
<1>7. Rows /\ Kept
  BY <1>4, <1>5 DEF Rows, Kept
<1> QED BY <1>2, <1>6, <1>7 DEF TablesHold

(* The steps that only read the tables.                                    *)
DumpStepped == NoteEntry \/ Tick \/ \E d \in Dumpers : Look(d) \/ NextPass(d) \/ Show(d)

LEMMA StepKinds ==
  ASSUME [Next]_vars
  PROVE  WriterStepped \/ DumpStepped \/ UNCHANGED vars
BY DEF Next, NoteOff, WriterStepped, DumpStepped

LEMMA DumpsRead ==
  ASSUME DumpStepped
  PROVE  UNCHANGED <<env, addr, cnt, op, noted, total>>
BY DEF DumpStepped, NoteEntry, Tick, Look, NextPass, Show

LEMMA TablesNext == TablesHold /\ [Next]_vars => TablesHold' /\ Grown /\ UNCHANGED env
<1> SUFFICES ASSUME TablesHold, [Next]_vars PROVE TablesHold' /\ Grown /\ UNCHANGED env
  OBVIOUS
<1>1. CASE WriterStepped
  BY <1>1, WriterSteps
<1>2. CASE DumpStepped
  BY <1>2, DumpsRead, StandStep
<1>3. CASE UNCHANGED vars
  BY <1>3, StandStep DEF vars
<1> QED BY <1>1, <1>2, <1>3, StepKinds

LEMMA TablesExactly == TablesHold => Exact
<1> SUFFICES ASSUME TablesHold PROVE Exact
  OBVIOUS
<1>1. Typed /\ Rows /\ Kept
  BY DEF TablesHold
<1>2. ASSUME NEW t \in Counted, NEW a \in Pages, Alone(t), \A w \in Writers : op[w].t # t
      PROVE  \/ \E s \in Cells : /\ {c \in Cells : addr[t][c] = a} = {s}
                                 /\ cnt[t][s] = noted[t][a]
             \/ /\ a \notin Range(addr[t])
                /\ noted[t][a] = 0 \/ \A p \in 0..Probes - 1 : addr[t][Slot(a, p)] # 0
  <2>1. t \in Tables /\ WriterOf(t) \in Writers /\ DOMAIN addr[t] = Cells
    BY <1>1, TypedRow DEF Counted, Typed
  <2>2. Chained(addr[t], a) /\ Settled(addr[t], cnt[t], noted[t][a], a)
    BY <1>1, <1>2, <2>1 DEF Rows, RowOf, Row
  <2>3. CASE Absent(addr[t], a)
    BY <2>1, <2>2, <2>3 DEF Settled, Crowded, Absent, Range
  <2>4. CASE ~Absent(addr[t], a)
    <3>1. PICK s \in Cells : addr[t][s] = a
      BY <2>4 DEF Absent
    <3>2. \A c \in Cells : addr[t][c] = a <=> c = s
      BY <2>2, <3>1, OneSlot
    <3> QED BY <2>2, <3>1, <3>2 DEF Settled
  <2> QED BY <2>3, <2>4
<1>3. ASSUME NEW t \in Tables, NEW s \in Cells
      PROVE  cnt[t][s] <= total[t] /\ (addr[t][s] # 0 => noted[t][addr[t][s]] > 0)
  <2>1. Share(addr[t], cnt[t], noted[t], total[t], op, t)
    BY <1>1 DEF Kept
  <2>2. PICK k \in Nat : k = Pend(op, t)
    BY PendFinite
  <2>3. cnt[t][s] \in Nat /\ total[t] \in Nat /\ cnt[t][s] + k <= total[t]
    BY <1>1, <2>1, <2>2 DEF Typed, Share
  <2> QED BY <2>1, <2>2, <2>3 DEF Share
<1>4. \A t \in Counted : \A a \in Pages : Alone(t) => ExactFor(t, a)
  BY <1>2 DEF ExactFor
<1> QED BY <1>3, <1>4 DEF Exact, Counted

(* In a table of one writer each address is in one slot, with all its      *)
(* notes, or has none and came when its probes were taken: without a lock, *)
(* with a handler that interrupts the emulation thread between any two     *)
(* stores.  In a table that workers of a batch write at once no count      *)
(* exceeds the notes and no address was never noted (gt2_batch_jobs.c:     *)
(* 201-417 and 665).                                                       *)
THEOREM TablesExact == Spec => []Exact
<1>1. TablesHold /\ [Next]_vars => TablesHold'
  BY TablesNext
<1> QED BY <1>1, TablesInit, TablesExactly, PTL DEF Spec

-----------------------------------------------------------------------------
(* What holds of 0 and is handed on from each number to the next holds of  *)
(* all up to n.                                                            *)
LEMMA StepByStep ==
  ASSUME NEW n \in Nat, NEW Done \in SUBSET (0 .. n), 0 \in Done,
         \A i \in 0 .. n - 1 : i \in Done => i + 1 \in Done
  PROVE  Done = 0 .. n
<1> DEFINE Bad == (0 .. n) \ Done
<1>1. SUFFICES ASSUME Bad # {} PROVE FALSE
  BY DEF Bad
<1>2. \E i \in Bad : \A j \in Bad : <<j, i>> \notin OpToRel(<, Nat)
  <2>1. Bad \subseteq Nat
    OBVIOUS
  <2> HIDE DEF Bad
  <2> QED BY <1>1, <2>1, NatLessThanWellFounded, WFMin
<1>3. PICK i \in Bad : \A j \in Bad : ~(j < i)
  <2>1. \A i, j \in Bad : j < i => <<j, i>> \in OpToRel(<, Nat)
    BY DEF OpToRel
  <2> QED BY <1>2, <2>1
<1>4. i # 0 /\ i - 1 \in 0 .. n - 1 /\ (i - 1) + 1 = i
  OBVIOUS
<1>5. i - 1 \in Done
  BY <1>3, <1>4
<1> QED BY <1>4, <1>5

-----------------------------------------------------------------------------
(* A list under way, C the counts of its table now: the slots it has       *)
(* picked have counts, and it has no slot twice.                           *)
Pending(l, C) ==
  /\ l = [t |-> l.t, k |-> l.k, i |-> l.i, best |-> l.best, pick |-> l.pick,
          picked |-> l.picked, low |-> l.low]
  /\ l.t \in Tables /\ l.k \in Nat \ {0} /\ l.i \in 0 .. Slots
  /\ l.best \in Nat /\ l.low \in Nat /\ l.picked \in Seq(Cells)
  /\ \A r \in 1 .. Len(l.picked) :
       C[l.picked[r]] >= 1 /\ \A q \in 1 .. Len(l.picked) : l.picked[r] = l.picked[q] => q = r
  /\ \/ l.pick = -1 /\ l.best = 0
     \/ l.pick \in Cells /\ l.best >= 1 /\ C[l.pick] >= 1 /\ ~Contains(l.picked, l.pick)

(* While no count falls, what was heaviest at the start is still ahead of  *)
(* the list's first pass, or outweighed by what the pass has seen.         *)
Leading(l, C) ==
  /\ l.pick # -1 => C[l.pick] >= l.best
  /\ l.picked = << >> => \E m \in Cells : C[m] >= l.low /\ (m < l.i => l.best >= l.low)
  /\ l.picked # << >> => C[l.picked[1]] >= l.low

(* A finished list, N the notes of each address by now and T those of each *)
(* table; and what more it is when its table has one writer.               *)
Sheet(p, N, T) ==
  \A r \in DOMAIN p.rows :
    /\ p.t \in Tables /\ p.rows[r].a \in Pages \cup {0} /\ p.rows[r].n \in 1 .. T[p.t]
    /\ p.rows[r].a # 0 => N[p.t][p.rows[r].a] > 0

Faithful(p, N) ==
  /\ p.low > 0 => p.rows # << >> /\ p.rows[1].n >= p.low
  /\ \A r \in DOMAIN p.rows : p.rows[r].a # 0 =>
       /\ p.rows[r].n <= N[p.t][p.rows[r].a]
       /\ \A q \in DOMAIN p.rows : p.rows[q].a = p.rows[r].a => q = r

ListOf(d) ==
  dump[d] = Idle \/ /\ Pending(dump[d], cnt[dump[d].t])
                    /\ Alone(dump[d].t) => Leading(dump[d], cnt[dump[d].t])
PageOf(d) ==
  Sheet(printed[d], noted, total) /\ (Alone(printed[d].t) => Faithful(printed[d], noted))

Lists ==
  /\ dump = [d \in Dumpers |-> dump[d]] /\ printed = [d \in Dumpers |-> printed[d]]
  /\ \A d \in Dumpers : ListOf(d) /\ PageOf(d)

LEMMA PendingGrows ==
  ASSUME NEW C \in [Cells -> Nat], NEW D \in [Cells -> Nat],
         \A s \in Cells : C[s] >= 1 => D[s] >= 1, NEW l, Pending(l, C)
  PROVE  Pending(l, D)
<1>1. l.picked \in Seq(Cells)
  BY DEF Pending
<1>2. \A r \in 1 .. Len(l.picked) : C[l.picked[r]] >= 1 => D[l.picked[r]] >= 1
  BY <1>1
<1>3. l.pick \in Cells /\ C[l.pick] >= 1 => D[l.pick] >= 1
  OBVIOUS
<1> QED BY <1>2, <1>3 DEF Pending

LEMMA LeadingGrows ==
  ASSUME NEW C \in [Cells -> Nat], NEW D \in [Cells -> Nat],
         \A s \in Cells : C[s] <= D[s], NEW l, Pending(l, C), Leading(l, C)
  PROVE  Leading(l, D)
<1>1. \A s \in Cells : \A n \in Nat : C[s] >= n => D[s] >= n
  <2> SUFFICES ASSUME NEW s \in Cells, NEW n \in Nat, C[s] >= n PROVE D[s] >= n
    OBVIOUS
  <2>1. C[s] \in Nat /\ D[s] \in Nat /\ C[s] <= D[s]
    OBVIOUS
  <2> QED BY <2>1
<1>2. l.best \in Nat /\ l.low \in Nat /\ l.picked \in Seq(Cells)
      /\ (l.pick # -1 => l.pick \in Cells)
  BY DEF Pending
<1>3. l.pick # -1 => D[l.pick] >= l.best
  BY <1>1, <1>2 DEF Leading
<1>4. \A m \in Cells : C[m] >= l.low => D[m] >= l.low
  BY <1>1, <1>2
<1>5. l.picked # << >> => D[l.picked[1]] >= l.low
  BY <1>1, <1>2 DEF Leading
<1> QED BY <1>3, <1>4, <1>5 DEF Leading

LEMMA SheetGrows ==
  ASSUME NEW N \in [Tables -> [Pages -> Nat]], NEW M \in [Tables -> [Pages -> Nat]],
         NEW T \in [Tables -> Nat], NEW U \in [Tables -> Nat],
         \A t \in Tables : \A a \in Pages : N[t][a] <= M[t][a],
         \A t \in Tables : T[t] <= U[t], NEW p, Sheet(p, N, T)
  PROVE  Sheet(p, M, U) /\ (Faithful(p, N) => Faithful(p, M))
<1>1. ASSUME NEW r \in DOMAIN p.rows
      PROVE  /\ p.rows[r].n \in 1 .. U[p.t]
             /\ p.rows[r].a # 0 => /\ M[p.t][p.rows[r].a] > 0
                                   /\ p.rows[r].n <= N[p.t][p.rows[r].a]
                                        => p.rows[r].n <= M[p.t][p.rows[r].a]
  <2>1. p.t \in Tables /\ p.rows[r].a \in Pages \cup {0} /\ p.rows[r].n \in 1 .. T[p.t]
        /\ (p.rows[r].a # 0 => N[p.t][p.rows[r].a] > 0)
    BY DEF Sheet
  <2>2. PICK x, y : x = T[p.t] /\ y = U[p.t]
    OBVIOUS
  <2>3. x \in Nat /\ y \in Nat /\ x <= y
    BY <2>1, <2>2
  <2>4. PICK z : z = p.rows[r].n
    OBVIOUS
  <2>5. z \in 1 .. y /\ z \in Int
    BY <2>1, <2>2, <2>3, <2>4
  <2>6. ASSUME p.rows[r].a # 0
        PROVE  /\ M[p.t][p.rows[r].a] > 0
               /\ z <= N[p.t][p.rows[r].a] => z <= M[p.t][p.rows[r].a]
    <3>1. PICK u, v : u = N[p.t][p.rows[r].a] /\ v = M[p.t][p.rows[r].a]
      OBVIOUS
    <3>2. u \in Nat /\ v \in Nat /\ u <= v /\ u > 0
      BY <2>1, <2>6, <3>1
    <3> QED BY <2>5, <3>1, <3>2
  <2> QED BY <2>2, <2>4, <2>5, <2>6
<1>2. Sheet(p, M, U)
  BY <1>1 DEF Sheet
<1>3. Faithful(p, N) => Faithful(p, M)
  BY <1>1 DEF Faithful
<1> QED BY <1>2, <1>3

(* One more slot looked at.                                                *)
LEMMA PendingLooks ==
  ASSUME NEW C \in [Cells -> Nat], NEW l, Pending(l, C), l.i < Slots,
         NEW u, NEW more \in BOOLEAN, more <=> (~Contains(l.picked, l.i) /\ C[l.i] > l.best),
         u = [l EXCEPT !.i = @ + 1, !.best = IF more THEN C[l.i] ELSE @,
                       !.pick = IF more THEN l.i ELSE @]
  PROVE  Pending(u, C) /\ (Leading(l, C) => Leading(u, C))
<1>1. /\ u.t = l.t /\ u.k = l.k /\ u.i = l.i + 1 /\ u.picked = l.picked /\ u.low = l.low
      /\ u.best = IF more THEN C[l.i] ELSE l.best
      /\ u.pick = IF more THEN l.i ELSE l.pick
      /\ u = [t |-> u.t, k |-> u.k, i |-> u.i, best |-> u.best, pick |-> u.pick,
              picked |-> u.picked, low |-> u.low]
  BY DEF Pending
<1>2. Slots \in Nat /\ l.i \in 0 .. Slots /\ l.best \in Nat /\ l.low \in Nat /\ l.i \in Cells
  BY PagesArePositive DEF Pending, Cells
<1>3. PICK b : b = C[l.i]
  OBVIOUS
<1>4. b \in Nat /\ u.best \in Nat /\ u.best >= l.best /\ (more => u.best = b)
  BY <1>1, <1>2, <1>3
<1>5. \/ u.pick = -1 /\ u.best = 0
      \/ u.pick \in Cells /\ u.best >= 1 /\ C[u.pick] >= 1 /\ ~Contains(u.picked, u.pick)
  <2>1. CASE more
    <3>1. u.pick = l.i /\ C[u.pick] = b /\ b > l.best /\ u.best = b
      BY <1>1, <1>3, <1>4, <2>1
    <3>2. u.pick \in Cells /\ ~Contains(u.picked, u.pick)
      BY <1>1, <1>2, <2>1
    <3> QED BY <1>2, <1>4, <3>1, <3>2
  <2>2. CASE ~more
    <3>1. u.pick = l.pick /\ u.best = l.best /\ u.picked = l.picked
      BY <1>1, <2>2
    <3> QED BY <3>1 DEF Pending
  <2> QED BY <2>1, <2>2
<1>6. ASSUME Leading(l, C) PROVE Leading(u, C)
  <2>1. u.pick # -1 => C[u.pick] >= u.best
    <3>1. CASE more
      <4>1. u.pick = l.i /\ C[u.pick] = b /\ u.best = b
        BY <1>1, <1>3, <1>4, <3>1
      <4> QED BY <1>4, <4>1
    <3>2. CASE ~more
      <4>1. u.pick = l.pick /\ u.best = l.best
        BY <1>1, <3>2
      <4> QED BY <1>6, <4>1 DEF Leading
    <3> QED BY <3>1, <3>2
  <2>2. ASSUME u.picked = << >>
        PROVE  \E m \in Cells : C[m] >= u.low /\ (m < u.i => u.best >= u.low)
    <3>1. PICK m \in Cells : C[m] >= l.low /\ (m < l.i => l.best >= l.low)
      BY <1>1, <1>6, <2>2 DEF Leading
    <3>2. m \in Nat
      BY <1>2 DEF Cells
    <3>3. CASE m = l.i
      <4>1. ~Contains(l.picked, l.i)
        BY <1>1, <2>2 DEF Contains
      <4>2. more <=> b > l.best
        BY <1>3, <4>1
      <4>3. b >= l.low
        BY <1>3, <3>1, <3>3
      <4>4. u.best >= l.low
        BY <1>1, <1>2, <1>4, <4>2, <4>3
      <4> QED BY <1>1, <3>1, <4>4
    <3>4. CASE m # l.i
      <4>1. m < u.i => m < l.i
        BY <1>1, <1>2, <3>2, <3>4
      <4>2. m < u.i => u.best >= l.low
        BY <1>2, <1>4, <3>1, <4>1
      <4> QED BY <1>1, <3>1, <4>2
    <3> QED BY <3>3, <3>4
  <2>3. u.picked # << >> => C[u.picked[1]] >= u.low
    BY <1>1, <1>6 DEF Leading
  <2> QED BY <2>1, <2>2, <2>3 DEF Leading
<1>7. u.i \in 0 .. Slots
  BY <1>1, <1>2
<1>8. /\ u.t \in Tables /\ u.k \in Nat \ {0} /\ u.picked \in Seq(Cells) /\ u.low \in Nat
      /\ \A r \in 1 .. Len(u.picked) :
           C[u.picked[r]] >= 1 /\ \A q \in 1 .. Len(u.picked) : u.picked[r] = u.picked[q] => q = r
  BY <1>1 DEF Pending
<1>9. Pending(u, C)
  BY <1>1, <1>4, <1>5, <1>7, <1>8 DEF Pending
<1> QED BY <1>6, <1>9

(* What a pass that is over has picked.                                    *)
LEMMA PickedIs ==
  ASSUME NEW C \in [Cells -> Nat], NEW l, Pending(l, C), l.i = Slots
  PROVE  /\ Picked(l) \in Seq(Cells)
         /\ \A r \in 1 .. Len(Picked(l)) :
              /\ C[Picked(l)[r]] >= 1
              /\ \A q \in 1 .. Len(Picked(l)) : Picked(l)[r] = Picked(l)[q] => q = r
         /\ l.low > 0 /\ Leading(l, C) => Picked(l) # << >>
         /\ Picked(l) # << >> /\ Leading(l, C) => C[Picked(l)[1]] >= l.low
         /\ l.pick # -1 => Picked(l) # << >>
<1>1. PICK s \in Seq(Cells) : s = l.picked
  BY DEF Pending
<1>2. /\ \A r \in 1 .. Len(s) : C[s[r]] >= 1 /\ \A q \in 1 .. Len(s) : s[r] = s[q] => q = r
      /\ s # << >> /\ Leading(l, C) => C[s[1]] >= l.low
      /\ l.low \in Nat /\ l.best \in Nat
  BY <1>1 DEF Pending, Leading
<1>3. s = << >> /\ Leading(l, C) => l.best >= l.low
  <2> SUFFICES ASSUME s = << >>, Leading(l, C) PROVE l.best >= l.low
    OBVIOUS
  <2>1. PICK m \in Cells : m < l.i => l.best >= l.low
    BY <1>1 DEF Leading
  <2>2. m < Slots
    BY PagesArePositive DEF Cells
  <2> QED BY <2>1, <2>2
<1>4. CASE l.pick = -1
  <2>1. Picked(l) = s
    BY <1>1, <1>4 DEF Picked
  <2>2. l.best = 0
    <3>1. -1 \notin Cells
      BY PagesArePositive DEF Cells
    <3> QED BY <1>4, <3>1 DEF Pending
  <2>3. l.low > 0 /\ Leading(l, C) => s # << >>
    BY <1>2, <1>3, <2>2
  <2> QED BY <1>2, <1>4, <2>1, <2>3
<1>5. CASE l.pick # -1
  <2>1. /\ l.pick \in Cells /\ C[l.pick] >= 1 /\ ~Contains(s, l.pick)
        /\ Leading(l, C) => C[l.pick] >= l.best
    BY <1>1, <1>5 DEF Pending, Leading
  <2>2. PICK c \in Cells : c = l.pick
    BY <2>1
  <2>3. PICK v : v = Append(s, c)
    OBVIOUS
  <2>4. Picked(l) = v
    BY <1>1, <1>5, <2>2, <2>3 DEF Picked
  <2>5. /\ v \in Seq(Cells) /\ Len(v) = Len(s) + 1 /\ v[Len(v)] = c /\ Len(s) \in Nat
        /\ \A r \in 1 .. Len(v) : r = Len(v) \/ (r \in 1 .. Len(s) /\ v[r] = s[r])
    BY <2>3
  <2>6. C[c] \in Nat /\ C[c] >= 1 /\ (Leading(l, C) => C[c] >= l.best)
    BY <1>2, <2>1, <2>2
  <2>7. \A r \in 1 .. Len(s) : s[r] # c
    BY <2>1, <2>2 DEF Contains
  <2>8. ASSUME NEW r \in 1 .. Len(v)
        PROVE  C[v[r]] >= 1 /\ \A q \in 1 .. Len(v) : v[r] = v[q] => q = r
    <3>1. C[v[r]] >= 1
      BY <1>2, <2>5, <2>6
    <3>2. ASSUME NEW q \in 1 .. Len(v), v[r] = v[q] PROVE q = r
      BY <1>2, <2>5, <2>7, <3>2
    <3> QED BY <3>1, <3>2
  <2>9. v # << >>
    BY <2>5
  <2>10. Leading(l, C) => C[v[1]] >= l.low
    <3> SUFFICES ASSUME Leading(l, C) PROVE C[v[1]] >= l.low
      OBVIOUS
    <3>1. CASE s = << >>
      <4>1. v[1] = c /\ l.best >= l.low
        BY <1>3, <2>5, <3>1
      <4> QED BY <1>2, <2>6, <4>1
    <3>2. CASE s # << >>
      <4>1. v[1] = s[1]
        <5>1. 1 \in 1 .. Len(v) /\ Len(v) # 1
          BY <2>5, <3>2
        <5> QED BY <2>5, <5>1
      <4> QED BY <1>2, <3>2, <4>1
    <3> QED BY <3>1, <3>2
  <2> QED BY <2>4, <2>5, <2>8, <2>9, <2>10
<1> QED BY <1>4, <1>5

LEMMA PendingPasses ==
  ASSUME NEW C \in [Cells -> Nat], NEW l, Pending(l, C), l.i = Slots, l.pick # -1,
         NEW u, u = [l EXCEPT !.i = 0, !.best = 0, !.pick = -1, !.picked = Picked(l)]
  PROVE  Pending(u, C) /\ (Leading(l, C) => Leading(u, C))
<1>1. PICK v : v = Picked(l)
  OBVIOUS
<1>2. /\ v \in Seq(Cells) /\ v # << >> /\ (Leading(l, C) => C[v[1]] >= l.low)
      /\ \A r \in 1 .. Len(v) : C[v[r]] >= 1 /\ \A q \in 1 .. Len(v) : v[r] = v[q] => q = r
  BY <1>1, PickedIs
<1>3. /\ u.t = l.t /\ u.k = l.k /\ u.i = 0 /\ u.picked = v /\ u.low = l.low
      /\ u.best = 0 /\ u.pick = -1
      /\ u = [t |-> u.t, k |-> u.k, i |-> u.i, best |-> u.best, pick |-> u.pick,
              picked |-> u.picked, low |-> u.low]
  BY <1>1 DEF Pending
<1>4. 0 \in 0 .. Slots /\ l.t \in Tables /\ l.k \in Nat \ {0} /\ l.low \in Nat
  BY PagesArePositive DEF Pending
<1>5. Pending(u, C)
  BY <1>2, <1>3, <1>4 DEF Pending
<1>6. Leading(l, C) => Leading(u, C)
  BY <1>2, <1>3 DEF Leading
<1> QED BY <1>5, <1>6

(* The heaviest count of a table is the count of a slot.                   *)
LEMMA MaxHeld ==
  ASSUME NEW C \in [Cells -> Nat]
  PROVE  \E m \in Cells : Max(Range(C)) = C[m]
<1> DEFINE n == Slots - 1
           Done == {k \in 0 .. n : \E m \in 0 .. k : \A s \in 0 .. k : C[m] >= C[s]}
<1>1. n \in Nat /\ Cells = 0 .. n
  BY PagesArePositive DEF Cells
<1>2. 0 \in Done
  <2>1. 0 \in 0 .. n /\ 0 .. 0 = {0} /\ C[0] \in Nat
    BY <1>1
  <2> QED BY <2>1
<1>3. ASSUME NEW k \in 0 .. n - 1, k \in Done PROVE k + 1 \in Done
  <2>1. PICK m \in 0 .. k : \A s \in 0 .. k : C[m] >= C[s]
    BY <1>3
  <2>2. \A s \in 0 .. k + 1 : C[s] \in Nat /\ (s = k + 1 \/ s \in 0 .. k)
    BY <1>1
  <2>3. m \in 0 .. k + 1 /\ k + 1 \in 0 .. k + 1 /\ k + 1 \in 0 .. n
    BY <1>1
  <2>4. CASE C[m] >= C[k + 1]
    <3>1. \A s \in 0 .. k + 1 : C[m] >= C[s]
      BY <2>1, <2>2, <2>4
    <3> QED BY <2>3, <3>1
  <2>5. CASE ~(C[m] >= C[k + 1])
    <3>1. \A s \in 0 .. k + 1 : C[k + 1] >= C[s]
      BY <2>1, <2>2, <2>3, <2>5
    <3> QED BY <2>3, <3>1
  <2> QED BY <2>4, <2>5
<1>4. Done = 0 .. n
  <2>1. Done \in SUBSET (0 .. n)
    OBVIOUS
  <2> HIDE DEF Done, n
  <2> QED BY <1>1, <1>2, <1>3, <2>1, StepByStep
<1>5. PICK m \in Cells : \A s \in Cells : C[m] >= C[s]
  <2>1. n \in Done
    BY <1>1, <1>4
  <2> QED BY <1>1, <2>1
<1>6. C[m] \in Range(C) /\ \A y \in Range(C) : C[m] >= y
  BY <1>5 DEF Range
<1>7. Max(Range(C)) \in Range(C)
  BY <1>6 DEF Max
<1> QED BY <1>7 DEF Range

LEMMA PendingBegins ==
  ASSUME Typed, NEW d \in Dumpers, NEW k \in Nat \ {0}, NEW l, l = List(d, k)
  PROVE  l = Idle \/ (Pending(l, cnt[l.t]) /\ Leading(l, cnt[l.t]))
<1> SUFFICES ASSUME k <= Len(Listed(d)) PROVE Pending(l, cnt[l.t]) /\ Leading(l, cnt[l.t])
  BY DEF List
<1>0. Listed(d) \in Seq(Tables)
  <2>1. PICK u \in Seq(Tables) : u = <<"hit", "miss", "amiss">>
    <3>1. <<"hit", "miss", "amiss">> \in Seq(Tables)
      BY DEF Tables
    <3> QED BY <3>1
  <2>2. PICK w \in Seq(Tables) : w = IF d = "sampler" /\ env.hz # 0 THEN <<"pc">> ELSE << >>
    <3>1. <<"pc">> \in Seq(Tables) /\ << >> \in Seq(Tables)
      BY DEF Tables
    <3> QED BY <3>1
  <2>3. Listed(d) = u \o w
    BY <2>1, <2>2 DEF Listed
  <2>4. u \o w \in Seq(Tables)
    OBVIOUS
  <2> QED BY <2>3, <2>4
<1>1. Listed(d)[k] \in Tables
  BY <1>0
<1>2. PICK t \in Tables : t = Listed(d)[k]
  BY <1>1
<1>3. PICK m \in Cells : Max(Range(cnt[t])) = cnt[t][m] /\ cnt[t][m] \in Nat
  <2>1. cnt[t] \in [Cells -> Nat]
    BY DEF Typed
  <2> QED BY <2>1, MaxHeld
<1>4. l = [t |-> t, k |-> k, i |-> 0, best |-> 0, pick |-> -1, picked |-> << >>, low |-> cnt[t][m]]
  <2>1. ~(k > Len(Listed(d)))
    <3>1. Len(Listed(d)) \in Nat
      BY <1>0
    <3> QED BY <3>1
  <2> QED BY <1>2, <1>3, <2>1 DEF List
<1>5. /\ l.t = t /\ l.k = k /\ l.i = 0 /\ l.best = 0 /\ l.pick = -1 /\ l.picked = << >>
      /\ l.low = cnt[t][m]
      /\ l = [t |-> l.t, k |-> l.k, i |-> l.i, best |-> l.best, pick |-> l.pick,
              picked |-> l.picked, low |-> l.low]
  BY <1>4
<1>6. /\ 0 \in 0 .. Slots /\ << >> \in Seq(Cells) /\ Len(<< >>) = 0 /\ ~(m < 0)
      /\ cnt[t][m] >= cnt[t][m]
  BY <1>3, PagesArePositive DEF Cells
<1>7. Pending(l, cnt[l.t])
  BY <1>3, <1>5, <1>6 DEF Pending
<1>8. Leading(l, cnt[l.t])
  BY <1>3, <1>5, <1>6 DEF Leading
<1> QED BY <1>7, <1>8

(* A list that is printed: a slot with a count has no more than the notes  *)
(* of the table, and if that has one writer no more than the notes of the  *)
(* address, which no other slot has.                                       *)
LEMMA CountedNoMore ==
  ASSUME TablesHold, NEW t \in Counted, Alone(t), NEW s \in Cells,
         NEW a \in Pages, addr[t][s] = a
  PROVE  cnt[t][s] <= noted[t][a] /\ Chained(addr[t], a)
<1>1. Typed /\ Rows /\ t \in Tables
  BY DEF TablesHold, Counted
<1>2. PICK o : o = op[WriterOf(t)]
  OBVIOUS
<1>3. Row(addr[t], cnt[t], noted[t], o, t) /\ Clear(addr[t], cnt[t], o, t)
  BY <1>1, <1>2 DEF Rows, RowOf
<1>4. noted[t][a] \in Nat /\ cnt[t][s] \in Nat
  BY <1>1 DEF Typed
<1>5. CASE Settled(addr[t], cnt[t], noted[t][a], a)
  BY <1>3, <1>4, <1>5 DEF Settled, Row
<1>6. CASE o.t = t /\ o.a = a
  <2>1. UnderWay(addr[t], cnt[t], noted[t], o)
    BY <1>3, <1>6 DEF Row
  <2>2. CASE o.todo = {}
    <3>1. Settled(addr[t], cnt[t], noted[t][a] - 1, a)
      BY <1>6, <2>1, <2>2 DEF UnderWay
    <3>2. cnt[t][s] = noted[t][a] - 1
      BY <3>1 DEF Settled
    <3> QED BY <1>3, <1>4, <3>2 DEF Row
  <2>3. CASE "addr" \in o.todo
    BY <1>6, <2>1, <2>3 DEF UnderWay, Absent
  <2>4. CASE o.todo # {} /\ "addr" \notin o.todo
    <3>1. o \in Ops
      <4>1. WriterOf(t) \in Writers /\ Idle.t # t
        BY <1>1, TypedRow, IdleIsNowhere
      <4> QED BY <1>1, <1>2, <1>6, <4>1 DEF Typed
    <3>2. o.todo = {"cnt"}
      BY <2>4, <3>1 DEF Ops
    <3>3. addr[t][Slot(a, o.p)] = a /\ cnt[t][Slot(a, o.p)] = noted[t][a] - 1
      BY <1>3, <1>6, <2>1, <3>2 DEF UnderWay, Clear
    <3>4. Slot(a, o.p) \in Cells
      BY <1>6, <3>1, SlotIsCell DEF Ops
    <3>5. s = Slot(a, o.p)
      BY <1>3, <3>3, <3>4, OneSlot DEF Row
    <3> QED BY <1>3, <1>4, <3>3, <3>5 DEF Row
  <2> QED BY <2>2, <2>3, <2>4
<1> QED BY <1>3, <1>5, <1>6 DEF Row

LEMMA SheetShows ==
  ASSUME TablesHold, NEW l, Pending(l, cnt[l.t]), l.i = Slots,
         NEW p, p = [t |-> l.t, low |-> l.low,
                     rows |-> [r \in DOMAIN Picked(l) |->
                       [a |-> addr[l.t][Picked(l)[r]], n |-> cnt[l.t][Picked(l)[r]]]]]
  PROVE  /\ Sheet(p, noted, total)
         /\ Alone(l.t) /\ Leading(l, cnt[l.t]) => Faithful(p, noted)
<1>1. PICK t \in Tables : t = l.t
  BY DEF Pending
<1>2. cnt[t] \in [Cells -> Nat] /\ addr[t] \in [Cells -> Pages \cup {0}] /\ total[t] \in Nat
  BY DEF TablesHold, Typed
<1>3. PICK v : v = Picked(l)
  OBVIOUS
<1>4. /\ v \in Seq(Cells)
      /\ l.low > 0 /\ Leading(l, cnt[t]) => v # << >>
      /\ v # << >> /\ Leading(l, cnt[t]) => cnt[t][v[1]] >= l.low
      /\ \A r \in 1 .. Len(v) : cnt[t][v[r]] >= 1 /\ \A q \in 1 .. Len(v) : v[r] = v[q] => q = r
  <2>1. Pending(l, cnt[t])
    BY <1>1
  <2> QED BY <1>2, <1>3, <2>1, PickedIs
<1>5. DOMAIN v = 1 .. Len(v) /\ \A r \in 1 .. Len(v) : v[r] \in Cells
  BY <1>4
<1>6. /\ p.t = t /\ p.low = l.low /\ DOMAIN p.rows = DOMAIN v
      /\ \A r \in DOMAIN v : p.rows[r].a = addr[t][v[r]] /\ p.rows[r].n = cnt[t][v[r]]
  BY <1>1, <1>3
<1>7. Sheet(p, noted, total)
  <2>1. ASSUME NEW r \in DOMAIN v
        PROVE  /\ p.t \in Tables /\ p.rows[r].a \in Pages \cup {0}
               /\ p.rows[r].n \in 1 .. total[p.t]
               /\ p.rows[r].a # 0 => noted[p.t][p.rows[r].a] > 0
    <3>1. PICK s \in Cells : s = v[r]
      BY <1>5
    <3>2. PICK x, y : x = cnt[t][s] /\ y = total[t]
      OBVIOUS
    <3>3. Exact
      BY TablesExactly
    <3>4. x <= y /\ (addr[t][s] # 0 => noted[t][addr[t][s]] > 0)
      BY <3>2, <3>3 DEF Exact
    <3>5. x \in Nat /\ x >= 1 /\ y \in Nat
      BY <1>2, <1>4, <1>5, <3>1, <3>2
    <3>6. x \in 1 .. y
      BY <3>4, <3>5
    <3> QED BY <1>2, <1>6, <3>1, <3>2, <3>4, <3>6
  <2> QED BY <1>6, <2>1 DEF Sheet
<1>8. ASSUME Alone(t), Leading(l, cnt[t]) PROVE Faithful(p, noted)
  <2>1. p.low > 0 => p.rows # << >> /\ p.rows[1].n >= p.low
    <3> SUFFICES ASSUME l.low > 0 PROVE p.rows # << >> /\ p.rows[1].n >= p.low
      BY <1>6
    <3>1. v # << >> /\ 1 \in DOMAIN v
      BY <1>4, <1>5, <1>8
    <3> QED BY <1>4, <1>6, <1>8, <3>1
  <2>2. ASSUME NEW r \in DOMAIN v, p.rows[r].a # 0
        PROVE  /\ p.rows[r].n <= noted[t][p.rows[r].a]
               /\ \A q \in DOMAIN v : p.rows[q].a = p.rows[r].a => q = r
    <3>1. PICK s \in Cells : s = v[r]
      BY <1>5
    <3>2. PICK a \in Pages : a = addr[t][s]
      BY <1>2, <1>6, <2>2, <3>1
    <3>3. cnt[t][s] \in Nat /\ cnt[t][s] >= 1
      BY <1>2, <1>4, <1>5, <3>1
    <3>4. t \in Counted
      <4>1. cnt["amiss"][s] = 0
        BY DEF TablesHold, Quiet, Empty
      <4> QED BY <3>3, <4>1 DEF Counted
    <3>5. cnt[t][s] <= noted[t][a] /\ Chained(addr[t], a)
      BY <1>8, <3>2, <3>4, CountedNoMore
    <3>6. ASSUME NEW q \in DOMAIN v, p.rows[q].a = p.rows[r].a PROVE q = r
      <4>1. addr[t][v[q]] = a /\ v[q] \in Cells
        BY <1>5, <1>6, <3>1, <3>2, <3>6
      <4>2. v[q] = v[r]
        BY <3>1, <3>2, <3>5, <4>1, OneSlot
      <4> QED BY <1>4, <1>5, <4>2
    <3>7. p.rows[r].n = cnt[t][s] /\ p.rows[r].a = a
      BY <1>6, <3>1, <3>2
    <3> QED BY <3>5, <3>6, <3>7
  <2> QED BY <1>6, <2>1, <2>2 DEF Faithful
<1> QED BY <1>1, <1>7, <1>8

-----------------------------------------------------------------------------
(* The whole invariant, and the steps.                                     *)
ProfInv == TablesHold /\ Lists /\ env \in Envs /\ calls \in 0 .. MaxCalls

(* While nobody dumps, the lists stand as the tables grow.                 *)
LEMMA ListsStand ==
  ASSUME TablesHold, TablesHold', Grown, Lists, UNCHANGED <<env, dump, printed>>
  PROVE  Lists'
<1>0. Typed /\ Typed'
  BY DEF TablesHold
<1>1. ASSUME NEW d \in Dumpers PROVE ListOf(d)'
  <2>1. PICK l : l = dump[d] /\ l = dump'[d]
    OBVIOUS
  <2>2. CASE l = Idle
    BY <2>1, <2>2 DEF ListOf
  <2>3. CASE Pending(l, cnt[l.t]) /\ (Alone(l.t) => Leading(l, cnt[l.t]))
    <3>1. PICK t \in Tables : t = l.t
      BY <2>3 DEF Pending
    <3>2. PICK C, D : C = cnt[t] /\ D = cnt'[t]
      OBVIOUS
    <3>3. /\ C \in [Cells -> Nat] /\ D \in [Cells -> Nat]
          /\ \A s \in Cells : C[s] >= 1 => D[s] >= 1
          /\ Alone(t) => \A s \in Cells : C[s] <= D[s]
      BY <1>0, <3>2 DEF Typed, Grown
    <3>4. Pending(l, C) /\ (Alone(t) => Leading(l, C))
      BY <2>3, <3>1, <3>2
    <3>5. Pending(l, D) /\ (Alone(t) => Leading(l, D))
      BY <3>3, <3>4, PendingGrows, LeadingGrows
    <3> QED BY <2>1, <3>1, <3>2, <3>5 DEF ListOf, Alone
  <2> QED BY <2>1, <2>2, <2>3 DEF Lists, ListOf
<1>2. ASSUME NEW d \in Dumpers PROVE PageOf(d)'
  <2>1. PICK p : p = printed[d] /\ p = printed'[d]
    OBVIOUS
  <2>2. Sheet(p, noted, total) /\ (Alone(p.t) => Faithful(p, noted))
    BY <2>1 DEF Lists, PageOf
  <2>3. /\ noted \in [Tables -> [Pages -> Nat]] /\ noted' \in [Tables -> [Pages -> Nat]]
        /\ total \in [Tables -> Nat] /\ total' \in [Tables -> Nat]
        /\ \A t \in Tables : \A a \in Pages : noted[t][a] <= noted'[t][a]
        /\ \A t \in Tables : total[t] <= total'[t]
    BY <1>0 DEF Typed, Grown
  <2>4. Sheet(p, noted', total') /\ (Faithful(p, noted) => Faithful(p, noted'))
    BY <2>2, <2>3, SheetGrows
  <2> QED BY <2>1, <2>2, <2>4 DEF PageOf, Alone
<1>3. dump' = [d \in Dumpers |-> dump'[d]] /\ printed' = [d \in Dumpers |-> printed'[d]]
  BY DEF Lists
<1> QED BY <1>1, <1>2, <1>3 DEF Lists

(* One dumper's list or page changes, the tables do not.                   *)
LEMMA ListsMove ==
  ASSUME Lists, UNCHANGED <<env, addr, cnt, noted, total>>, NEW e \in Dumpers,
         NEW l, dump' = [dump EXCEPT ![e] = l],
         l = Idle \/ (Pending(l, cnt[l.t]) /\ (Alone(l.t) => Leading(l, cnt[l.t]))),
         NEW p, printed' = [printed EXCEPT ![e] = p],
         Sheet(p, noted, total), Alone(p.t) => Faithful(p, noted)
  PROVE  Lists'
<1>1. \A d \in Dumpers : /\ dump'[d] = IF d = e THEN l ELSE dump[d]
                         /\ printed'[d] = IF d = e THEN p ELSE printed[d]
  BY DEF Lists
<1>2. dump' = [d \in Dumpers |-> dump'[d]] /\ printed' = [d \in Dumpers |-> printed'[d]]
  BY DEF Lists
<1>3. ASSUME NEW d \in Dumpers PROVE ListOf(d)' /\ PageOf(d)'
  <2>1. CASE d = e
    BY <1>1, <2>1 DEF ListOf, PageOf, Alone
  <2>2. CASE d # e
    BY <1>1, <2>2 DEF Lists, ListOf, PageOf, Alone
  <2> QED BY <2>1, <2>2
<1> QED BY <1>2, <1>3 DEF Lists

LEMMA DumpSteps ==
  ASSUME TablesHold, Lists, DumpStepped
  PROVE  Lists'
<1>0. Typed /\ UNCHANGED <<env, addr, cnt, op, noted, total>>
  BY DumpsRead DEF TablesHold
<1>1. \A d \in Dumpers : printed = [printed EXCEPT ![d] = printed[d]] /\ PageOf(d) /\ ListOf(d)
  BY DEF Lists
<1>2. CASE NoteEntry
  <2>1. "main" \in Dumpers /\ printed' = printed
    BY <1>2 DEF NoteEntry, Dumpers
  <2>2. PICK l : l = List("main", 1)
    OBVIOUS
  <2>3. l = Idle \/ (Pending(l, cnt[l.t]) /\ Leading(l, cnt[l.t]))
    BY <1>0, <2>1, <2>2, PendingBegins
  <2>4. CASE dump' = [dump EXCEPT !["main"] = l]
    BY <1>0, <1>1, <2>1, <2>3, <2>4, ListsMove DEF PageOf
  <2>5. CASE dump' = dump
    BY <1>0, <2>1, <2>5 DEF Lists, ListOf, PageOf, Alone
  <2> QED BY <1>2, <2>1, <2>2, <2>4, <2>5 DEF NoteEntry
<1>3. CASE Tick
  <2>1. "sampler" \in Dumpers /\ printed' = printed
    BY <1>3 DEF Tick, Dumpers
  <2>2. PICK l : l = List("sampler", 1)
    OBVIOUS
  <2>3. l = Idle \/ (Pending(l, cnt[l.t]) /\ Leading(l, cnt[l.t]))
    BY <1>0, <2>1, <2>2, PendingBegins
  <2>4. dump' = [dump EXCEPT !["sampler"] = l]
    BY <1>3, <2>2 DEF Tick
  <2> QED BY <1>0, <1>1, <2>1, <2>3, <2>4, ListsMove DEF PageOf
<1>4. ASSUME NEW d \in Dumpers, Look(d) \/ NextPass(d) \/ Show(d)
      PROVE  Lists'
  <2>1. PICK l : l = dump[d]
    OBVIOUS
  <2>2. l # Idle
    BY <1>4, <2>1 DEF Look, NextPass, Show, Dumps
  <2>3. Pending(l, cnt[l.t]) /\ (Alone(l.t) => Leading(l, cnt[l.t]))
    BY <1>1, <2>1, <2>2 DEF ListOf
  <2>4. PICK t \in Tables : t = l.t
    BY <2>3 DEF Pending
  <2>5. /\ Pending(l, cnt[t]) /\ (Alone(t) => Leading(l, cnt[t])) /\ cnt[t] \in [Cells -> Nat]
        /\ printed = [printed EXCEPT ![d] = printed[d]]
        /\ Sheet(printed[d], noted, total) /\ (Alone(printed[d].t) => Faithful(printed[d], noted))
    BY <1>0, <1>1, <2>3, <2>4 DEF Typed, PageOf
  <2>6. CASE Look(d)
    <3>1. PICK more \in BOOLEAN : more <=> Heavier(l)
      OBVIOUS
    <3>2. PICK u : u = [l EXCEPT !.i = @ + 1, !.best = IF more THEN cnt[t][l.i] ELSE @,
                                 !.pick = IF more THEN l.i ELSE @]
      OBVIOUS
    <3>3. l.i < Slots /\ dump' = [dump EXCEPT ![d] = u] /\ printed' = printed
      <4>1. dump' = [dump EXCEPT ![d].i = @ + 1,
                                 ![d].best = IF Heavier(l) THEN cnt[t][l.i] ELSE @,
                                 ![d].pick = IF Heavier(l) THEN l.i ELSE @]
        BY <2>1, <2>4, <2>6 DEF Look
      <4>2. dump' = [dump EXCEPT ![d] = [l EXCEPT !.i = @ + 1,
                                           !.best = IF Heavier(l) THEN cnt[t][l.i] ELSE @,
                                           !.pick = IF Heavier(l) THEN l.i ELSE @]]
        BY <2>1, <4>1 DEF Lists
      <4> QED BY <2>1, <2>6, <3>1, <3>2, <4>2 DEF Look
    <3>4. more <=> (~Contains(l.picked, l.i) /\ cnt[t][l.i] > l.best)
      BY <2>4, <3>1 DEF Heavier
    <3>5. Pending(u, cnt[t]) /\ (Leading(l, cnt[t]) => Leading(u, cnt[t]))
      BY <2>5, <3>2, <3>3, <3>4, PendingLooks
    <3>6. u.t = t
      BY <2>4, <2>5, <3>2 DEF Pending
    <3> QED BY <1>0, <2>5, <3>3, <3>5, <3>6, ListsMove
  <2>7. CASE NextPass(d)
    <3>1. PICK u : u = [l EXCEPT !.i = 0, !.best = 0, !.pick = -1, !.picked = Picked(l)]
      OBVIOUS
    <3>2. l.i = Slots /\ l.pick # -1 /\ dump' = [dump EXCEPT ![d] = u] /\ printed' = printed
      BY <2>1, <2>7, <3>1 DEF NextPass, Complete
    <3>3. Pending(u, cnt[t]) /\ (Leading(l, cnt[t]) => Leading(u, cnt[t]))
      BY <2>5, <3>1, <3>2, PendingPasses
    <3>4. u.t = t
      BY <2>4, <2>5, <3>1 DEF Pending
    <3> QED BY <1>0, <2>5, <3>2, <3>3, <3>4, ListsMove
  <2>8. CASE Show(d)
    <3>1. PICK u : u = List(d, l.k + 1)
      OBVIOUS
    <3>2. PICK p : p = [t |-> l.t, low |-> l.low,
                        rows |-> [r \in DOMAIN Picked(l) |->
                          [a |-> addr[l.t][Picked(l)[r]], n |-> cnt[l.t][Picked(l)[r]]]]]
      OBVIOUS
    <3>3. l.i = Slots /\ dump' = [dump EXCEPT ![d] = u] /\ printed' = [printed EXCEPT ![d] = p]
      BY <2>1, <2>8, <3>1, <3>2 DEF Show
    <3>4. l.k + 1 \in Nat \ {0}
      BY <2>5 DEF Pending
    <3>5. u = Idle \/ (Pending(u, cnt[u.t]) /\ Leading(u, cnt[u.t]))
      BY <1>0, <3>1, <3>4, PendingBegins
    <3>6. /\ Sheet(p, noted, total)
          /\ Alone(l.t) /\ Leading(l, cnt[l.t]) => Faithful(p, noted)
      BY <2>3, <3>2, <3>3, SheetShows
    <3>7. Alone(p.t) => Faithful(p, noted)
      BY <2>3, <3>2, <3>6
    <3> QED BY <1>0, <3>3, <3>5, <3>6, <3>7, ListsMove
  <2> QED BY <1>4, <2>6, <2>7, <2>8
<1> QED BY <1>2, <1>3, <1>4 DEF DumpStepped

LEMMA ProfInvInit == Init => ProfInv
<1> SUFFICES ASSUME Init PROVE ProfInv
  OBVIOUS
<1>1. TablesHold
  BY TablesInit
<1>2. /\ dump = [d \in Dumpers |-> Idle] /\ printed = [d \in Dumpers |-> Blank]
      /\ env \in Envs /\ calls = 0
  BY DEF Init
<1>3. Lists
  <2>1. Blank.low = 0 /\ Blank.rows = << >>
    BY DEF Blank
  <2>2. Sheet(Blank, noted, total) /\ Faithful(Blank, noted)
    BY <2>1 DEF Sheet, Faithful
  <2> QED BY <1>2, <2>2 DEF Lists, ListOf, PageOf
<1>4. calls \in 0 .. MaxCalls
  BY <1>2, ProfAssumption
<1> QED BY <1>1, <1>2, <1>3, <1>4 DEF ProfInv

LEMMA ProfInvNext == ProfInv /\ [Next]_vars => ProfInv'
<1> SUFFICES ASSUME ProfInv, [Next]_vars PROVE ProfInv'
  OBVIOUS
<1>1. TablesHold' /\ Grown /\ UNCHANGED env
  BY TablesNext DEF ProfInv
<1>2. TablesHold /\ Lists /\ env \in Envs /\ calls \in 0 .. MaxCalls
  BY DEF ProfInv
<1>3. CASE WriterStepped \/ UNCHANGED vars
  <2>1. UNCHANGED <<dump, printed, calls>>
    BY <1>2, <1>3, WriterSteps DEF vars
  <2>2. Lists'
    BY <1>1, <1>2, <2>1, ListsStand
  <2> QED BY <1>1, <1>2, <2>1, <2>2 DEF ProfInv
<1>4. CASE DumpStepped
  <2>1. Lists'
    BY <1>2, <1>4, DumpSteps
  <2>2. calls' \in 0 .. MaxCalls
    <3>1. CASE NoteEntry
      BY <1>2, <3>1, ProfAssumption DEF NoteEntry
    <3>2. CASE ~NoteEntry
      BY <1>2, <1>4, <3>2 DEF DumpStepped, Tick, Look, NextPass, Show
    <3> QED BY <3>1, <3>2
  <2> QED BY <1>1, <1>2, <2>1, <2>2 DEF ProfInv
<1> QED BY <1>3, <1>4, StepKinds

LEMMA ProfInvariant == Spec => []ProfInv
<1> QED BY ProfInvInit, ProfInvNext, PTL DEF Spec

(* What is counted or about to be is no more than what was noted at all.   *)
LEMMA CountsCapped ==
  ASSUME TablesHold, NEW t \in Tables
  PROVE  /\ total[t] \in 0 .. MaxNotes
         /\ \A s \in Cells : cnt[t][s] \in 0 .. MaxNotes
         /\ \A w \in Writers : op[w].t = t /\ "cnt" \in op[w].todo => op[w].n \in 1 .. MaxNotes
<1>1. Typed /\ Kept /\ Notes <= MaxNotes /\ MaxNotes \in Nat
  BY ProfAssumption DEF TablesHold
<1>2. total[t] \in Nat /\ total[t] <= MaxNotes
  <2>1. PICK x, y, z, u : x = total["hit"] /\ y = total["miss"] /\ z = total["amiss"] /\ u = total["pc"]
    OBVIOUS
  <2>2. x \in Nat /\ y \in Nat /\ z \in Nat /\ u \in Nat /\ x + y + z + u <= MaxNotes
    BY <1>1, <2>1 DEF Typed, Notes, Tables
  <2>3. total[t] = x \/ total[t] = y \/ total[t] = z \/ total[t] = u
    BY <2>1 DEF Tables
  <2> QED BY <1>1, <2>2, <2>3
<1>3. PICK T \in Nat : T = total[t] /\ T <= MaxNotes
  BY <1>2
<1>4. Share(addr[t], cnt[t], noted[t], T, op, t)
  BY <1>1, <1>3 DEF Kept
<1>5. PICK k \in Nat : k = Pend(op, t)
  BY PendFinite
<1>6. ASSUME NEW s \in Cells PROVE cnt[t][s] \in 0 .. MaxNotes
  <2>1. cnt[t][s] \in Nat /\ cnt[t][s] + k <= T
    BY <1>1, <1>4, <1>5 DEF Typed, Share
  <2> QED BY <1>1, <1>3, <2>1
<1>7. ASSUME NEW w \in Writers, op[w].t = t, "cnt" \in op[w].todo
      PROVE  op[w].n \in 1 .. MaxNotes
  <2>1. op[w] \in Ops
    BY <1>1, <1>7, IdleIsNowhere DEF Typed
  <2>2. PICK m \in Nat : m = op[w].n
    BY <2>1 DEF Ops
  <2>3. m + k <= T + 1 /\ m >= 1
    BY <1>4, <1>5, <1>7, <2>2 DEF Share
  <2>4. k # 0
    <3>1. w \in Open(op, t)
      <4>1. {"addr"} # op[w].todo
        BY <1>7
      <4> QED BY <1>7, <4>1 DEF Open, In
    <3>2. Open(op, t) # {} /\ IsFiniteSet(Open(op, t))
      BY <3>1, PendFinite
    <3>3. Cardinality(Open(op, t)) # 0
      BY <3>2, FS_EmptySet
    <3> QED BY <1>5, <3>3 DEF Pend
  <2> QED BY <1>1, <1>3, <2>2, <2>3, <2>4
<1> QED BY <1>1, <1>2, <1>6, <1>7


LEMMA ProfInvTypes == ProfInv => TypeOK
<1> SUFFICES ASSUME ProfInv PROVE TypeOK
  OBVIOUS
<1>1. TablesHold /\ Lists /\ env \in Envs /\ calls \in 0 .. MaxCalls /\ Typed
  BY DEF ProfInv, TablesHold
<1>2. addr \in [Tables -> [Cells -> Pages \cup {0}]]
  BY <1>1 DEF Typed
<1>3. cnt \in [Tables -> [Cells -> 0 .. MaxNotes]]
  <2>1. \A t \in Tables : \A s \in Cells : cnt[t][s] \in 0 .. MaxNotes
    BY <1>1, CountsCapped
  <2> QED BY <1>1, <2>1 DEF Typed
<1>4. ASSUME NEW w \in Writers, op[w] # Idle
      PROVE  /\ op[w].t \in Tables /\ op[w].a \in Pages /\ op[w].p \in 0 .. Probes - 1
             /\ op[w].todo \subseteq {"addr", "cnt"}
             /\ "cnt" \in op[w].todo => op[w].n \in 1 .. MaxNotes
  <2>1. op[w] \in Ops
    BY <1>1, <1>4 DEF Typed
  <2>2. op[w].t \in Tables /\ op[w].todo \in SUBSET {"addr", "cnt"}
    BY <2>1 DEF Ops, Counted
  <2>3. "cnt" \in op[w].todo => op[w].n \in 1 .. MaxNotes
    BY <1>1, <2>2, CountsCapped
  <2> QED BY <2>1, <2>2, <2>3 DEF Ops
<1>5. ASSUME NEW d \in Dumpers, dump[d] # Idle
      PROVE  /\ dump[d].t \in Tables /\ dump[d].i \in 0 .. Slots
             /\ dump[d].pick \in -1 .. Slots - 1
  <2>1. PICK l : l = dump[d]
    OBVIOUS
  <2>2. Pending(l, cnt[l.t])
    BY <1>1, <1>5, <2>1 DEF Lists, ListOf
  <2>3. l.t \in Tables /\ l.i \in 0 .. Slots /\ (l.pick = -1 \/ l.pick \in Cells)
    BY <2>2 DEF Pending
  <2>4. l.pick \in -1 .. Slots - 1
    BY <2>3, PagesArePositive DEF Cells
  <2> QED BY <2>1, <2>3, <2>4
<1> QED BY <1>1, <1>2, <1>3, <1>4, <1>5 DEF TypeOK

LEMMA ProfInvLists == ProfInv => ListsTrue
<1> SUFFICES ASSUME ProfInv PROVE ListsTrue
  OBVIOUS
<1>1. \A d \in Dumpers : PageOf(d)
  BY DEF ProfInv, Lists
<1>2. HeaviestFirst
  BY <1>1 DEF HeaviestFirst, PageOf, Faithful
<1>3. RowsTrue
  <2>1. ASSUME NEW d \in Dumpers, NEW r \in DOMAIN printed[d].rows,
               NEW q \in DOMAIN printed[d].rows
        PROVE  LET t == printed[d].t  row == printed[d].rows[r] IN
               /\ row.n \in 1 .. total[t] /\ (row.a # 0 => noted[t][row.a] > 0)
               /\ row.a # 0 /\ Alone(t) =>
                    row.n <= noted[t][row.a] /\ (printed[d].rows[q].a = row.a => q = r)
    <3>1. PICK p : p = printed[d]
      OBVIOUS
    <3>2. Sheet(p, noted, total) /\ (Alone(p.t) => Faithful(p, noted))
      BY <1>1, <3>1 DEF PageOf
    <3>3. p.rows[r].n \in 1 .. total[p.t] /\ (p.rows[r].a # 0 => noted[p.t][p.rows[r].a] > 0)
      BY <3>1, <3>2 DEF Sheet
    <3>4. p.rows[r].a # 0 /\ Alone(p.t) => /\ p.rows[r].n <= noted[p.t][p.rows[r].a]
                                           /\ p.rows[q].a = p.rows[r].a => q = r
      BY <3>1, <3>2 DEF Faithful
    <3> QED BY <3>1, <3>3, <3>4
  <2> QED BY <2>1 DEF RowsTrue
<1> QED BY <1>2, <1>3 DEF ListsTrue

-----------------------------------------------------------------------------
(* No writer counts above what was noted, probes on past the last probe or *)
(* stores elsewhere than in the table, and no dump looks past its end, for *)
(* any number of writers (gt2_batch_jobs.c:253-268, 291-309).              *)
THEOREM ProfTypes == Spec => []TypeOK
<1> QED BY ProfInvariant, ProfInvTypes, PTL

(* A list printed while its table changes has none but noted addresses,    *)
(* and no count above the table's notes, however many threads write it; of *)
(* a table of one writer it begins at least as heavy as the heaviest slot  *)
(* when it was begun, with no address twice and none with more than its    *)
(* own notes (gt2_batch_jobs.c:285-317).                                   *)
THEOREM ListsAreTrue == Spec => []ListsTrue
<1> QED BY ProfInvariant, ProfInvLists, PTL
=============================================================================
