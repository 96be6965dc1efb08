------------------------------ MODULE MenuProofs ------------------------------
(***************************************************************************)
(* Proofs about the menu records and the arena their ticks draw into, for  *)
(* every arena, list block, record and order of calls: the types, how far  *)
(* a packet may hang over the arena, that the list read from its head is   *)
(* what was drawn, and that the fades go one way.                          *)
(***************************************************************************)
EXTENDS MenuTick, WellFoundedInduction, TLAPS

(* What holds of 0 and is handed on from each number to the next holds of  *)
(* all up to n.                                                            *)
LEMMA StepByStep ==
  ASSUME NEW n \in Nat, NEW Good \in SUBSET (0 .. n), 0 \in Good,
         \A i \in 0 .. n - 1 : i \in Good => i + 1 \in Good
  PROVE  Good = 0 .. n
<1> DEFINE Bad == (0 .. n) \ Good
<1>1. SUFFICES ASSUME Bad # {} PROVE FALSE
  BY DEF Bad
<1>2. \E i \in Bad : \A j \in Bad : <<j, i>> \notin OpToRel(<, Nat)
  <2>1. Bad \subseteq Nat
    OBVIOUS
  <2> HIDE DEF Bad
  <2> QED BY <1>1, <2>1, NatLessThanWellFounded, WFMin
<1>3. PICK i \in Bad : \A j \in Bad : ~(j < i)
  <2>1. \A i, j \in Bad : j < i => <<j, i>> \in OpToRel(<, Nat)
    BY DEF OpToRel
  <2> QED BY <1>2, <2>1
<1>4. i # 0 /\ i - 1 \in 0 .. n - 1 /\ (i - 1) + 1 = i
  OBVIOUS
<1>5. i - 1 \in Good
  BY <1>3, <1>4
<1> QED BY <1>4, <1>5

----------------------------------------------------------------------------
(* The emitter calls of a tick, one after the other.                       *)
Folds(g, a, s, n) ==
  g = [t \in SUBSET (1 .. n) |->
         IF t = {} THEN a ELSE Emit(g[t \ {Max(t)}], s[Max(t)])]

LEMMA MaxIs ==
  ASSUME NEW S \in SUBSET Int, NEW m \in S, \A y \in S : m >= y
  PROVE  Max(S) = m
<1>1. Max(S) \in S /\ \A y \in S : Max(S) >= y
  BY DEF Max
<1>2. Max(S) >= m /\ m >= Max(S) /\ Max(S) \in Int /\ m \in Int
  BY <1>1
<1> HIDE DEF Max
<1> QED BY <1>2

LEMMA FoldsGrow ==
  ASSUME NEW n \in Nat, NEW a, NEW s, NEW g, Folds(g, a, s, n)
  PROVE  \E h : Folds(h, a, s, n + 1)
<1> DEFINE h == [t \in SUBSET (1 .. n + 1) |->
                   IF n + 1 \in t THEN Emit(g[t \ {n + 1}], s[n + 1]) ELSE g[t]]
<1>1. ASSUME NEW t \in SUBSET (1 .. n + 1)
      PROVE  h[t] = IF t = {} THEN a ELSE Emit(h[t \ {Max(t)}], s[Max(t)])
  <2>1. CASE n + 1 \in t
    <3>1. Max(t) = n + 1
      <4>1. t \in SUBSET Int /\ \A y \in t : n + 1 >= y
        OBVIOUS
      <4> QED BY <2>1, <4>1, MaxIs
    <3>2. t \ {n + 1} \in SUBSET (1 .. n + 1) /\ n + 1 \notin t \ {n + 1}
      OBVIOUS
    <3> QED BY <2>1, <3>1, <3>2
  <2>2. CASE n + 1 \notin t
    <3>1. t \in SUBSET (1 .. n)
      BY <2>2
    <3>2. \A u \in SUBSET t : h[u] = g[u]
      BY <2>2, <3>1
    <3>3. g[t] = IF t = {} THEN a ELSE Emit(g[t \ {Max(t)}], s[Max(t)])
      BY <3>1 DEF Folds
    <3>4. t \ {Max(t)} \in SUBSET t
      OBVIOUS
    <3> HIDE DEF h
    <3> QED BY <3>2, <3>3, <3>4
  <2> QED BY <2>1, <2>2
<1>2. h = [t \in SUBSET (1 .. n + 1) |-> h[t]]
  OBVIOUS
<1>3. Folds(h, a, s, n + 1)
  <2> HIDE DEF h
  <2>1. h = [t \in SUBSET (1 .. n + 1) |->
               IF t = {} THEN a ELSE Emit(h[t \ {Max(t)}], s[Max(t)])]
    BY <1>1, <1>2
  <2> QED BY <2>1 DEF Folds
<1> QED BY <1>3

LEMMA FoldsExist ==
  ASSUME NEW n \in Nat, NEW a, NEW s
  PROVE  \E g : Folds(g, a, s, n)
<1> DEFINE Good == {k \in 0 .. n : \E g : Folds(g, a, s, k)}
<1>1. 0 \in Good
  <2> DEFINE g == [t \in SUBSET (1 .. 0) |-> a]
  <2>1. \A t \in SUBSET (1 .. 0) : t = {}
    OBVIOUS
  <2>2. Folds(g, a, s, 0)
    BY <2>1 DEF Folds
  <2> QED BY <2>2
<1>2. \A k \in 0 .. n - 1 : k \in Good => k + 1 \in Good
  BY FoldsGrow
<1>3. Good = 0 .. n
  <2>1. Good \in SUBSET (0 .. n)
    OBVIOUS
  <2> HIDE DEF Good
  <2> QED BY <1>1, <1>2, <2>1, StepByStep
<1>4. n \in Good
  BY <1>3
<1> QED BY <1>4

(* The arenas between the calls.                                           *)
Runs(run, a, s) ==
  /\ run[0] = a
  /\ \A k \in 1 .. Len(s) : run[k] = Emit(run[k - 1], s[k])

LEMMA FoldRuns ==
  ASSUME NEW a, NEW S, NEW s \in Seq(S)
  PROVE  \E run : Runs(run, a, s) /\ FoldLeft(Emit, a, s) = run[Len(s)]
<1> DEFINE n == Len(s)
           Is(g) == Folds(g, a, s, n)
<1>1. n \in Nat /\ DOMAIN s = 1 .. n
  OBVIOUS
<1>2. PICK g : g = CHOOSE x : Is(x)
  OBVIOUS
<1>3. FoldLeft(Emit, a, s) = g[1 .. n]
  BY <1>1, <1>2 DEF FoldLeft, MapThenFoldSet, Folds
<1>4. Is(g)
  <2>1. \E x : Is(x)
    BY <1>1, FoldsExist
  <2> HIDE DEF Is
  <2> QED BY <1>2, <2>1
<1> DEFINE run == [k \in 0 .. n |-> g[1 .. k]]
<1>5. run[0] = a
  <2>1. 1 .. 0 = {} /\ {} \in SUBSET (1 .. n)
    OBVIOUS
  <2>2. g[{}] = a
    BY <1>4, <2>1 DEF Folds
  <2> QED BY <1>1, <2>1, <2>2
<1>6. ASSUME NEW k \in 1 .. n PROVE run[k] = Emit(run[k - 1], s[k])
  <2>1. Max(1 .. k) = k
    <3>1. 1 .. k \in SUBSET Int /\ k \in 1 .. k /\ \A y \in 1 .. k : k >= y
      OBVIOUS
    <3> QED BY <3>1, MaxIs
  <2>2. (1 .. k) \ {k} = 1 .. k - 1 /\ 1 .. k \in SUBSET (1 .. n) /\ 1 .. k # {}
    <3>1. k \in Nat /\ k >= 1 /\ k <= n /\ n \in Nat
      BY <1>1
    <3>2. \A x : x \in (1 .. k) \ {k} <=> x \in 1 .. k - 1
      BY <3>1
    <3>3. k \in 1 .. k /\ \A x \in 1 .. k : x \in 1 .. n
      BY <3>1
    <3> QED BY <3>2, <3>3
  <2>3. g[1 .. k] = Emit(g[(1 .. k) \ {Max(1 .. k)}], s[Max(1 .. k)])
    BY <1>4, <2>2 DEF Folds
  <2>4. run[k] = g[1 .. k] /\ run[k - 1] = g[1 .. k - 1]
    BY <1>1
  <2> QED BY <2>1, <2>2, <2>3, <2>4
<1>7. run[n] = g[1 .. n]
  BY <1>1
<1> HIDE DEF run
<1>8. Runs(run, a, s) /\ FoldLeft(Emit, a, s) = run[n]
  BY <1>3, <1>5, <1>6, <1>7 DEF Runs
<1> QED BY <1>8

----------------------------------------------------------------------------
(* The calls a tick makes, and the packets they come to.                   *)
DrawModes == {32, H8, Mode(64), Mode(S7)}
CallsA == [kind : {"A"}, flags : [v : 0 .. 255, top : BOOLEAN],
           fill : Int \X {S6 - H6 \div 2}]
CallsB == [kind : {"B"}, flags : [v : DrawModes, top : {FALSE}], fill : {<<0, 0>>}]
Calls  == CallsA \cup CallsB

PacketOf(c) == [kind |-> c.kind, flags |-> c.flags,
                fill |-> IF c.kind = "A" THEN <<c.fill, <<"w0">>, <<"w4">>>> ELSE << >>]

(* The words of one packet, and where it leads.                            *)
Words(c) == IF c.kind = "A" THEN {0, 4, 8, 12, 16} ELSE {0, 4}

(* An arena as the emitters leave it: its words lie below its top and, but *)
(* for the last ones of its newest packet, inside it; a set of packets     *)
(* holds the head, is closed under links, and each link leads down.        *)
Fits(a) ==
  \A o \in DOMAIN a.mem :
    o + 4 > ArenaLen => /\ o \in {a.head + 8, a.head + 12, a.head + 16}
                        /\ o + 4 <= ArenaLen + 12

Linked(a, H) ==
  /\ a.head \in H \cup {Nil}
  /\ \A o \in H : /\ o \in Nat /\ o < a.top /\ o \in DOMAIN a.mem
                  /\ a.mem[o][2] \in H \cup {Nil} /\ a.mem[o][2] < o
                  /\ o + 4 \in DOMAIN a.mem
                  /\ a.mem[o][1] = 4 => {o + 8, o + 12, o + 16} \subseteq DOMAIN a.mem

Well(a) ==
  /\ a = [mem |-> a.mem, top |-> a.top, head |-> a.head, full |-> a.full]
  /\ a.top \in Nat /\ a.top % 4 = 0 /\ a.head \in Int /\ a.head < a.top
  /\ a.full \in BOOLEAN /\ (a.full = TRUE => ~Room(a))
  /\ \A o \in DOMAIN a.mem : o \in Nat /\ o + 4 <= a.top
  /\ Fits(a)
  /\ \E H : Linked(a, H)

LEMMA EmptyWell == Well(Empty)
<1> DEFINE a == [mem |-> << >>, top |-> 0, head |-> Nil, full |-> FALSE]
<1>1. a.top = 0 /\ a.head = -1 /\ a.full = FALSE /\ DOMAIN a.mem = {}
  BY DEF Nil
<1>2. 0 \in Nat /\ 0 % 4 = 0 /\ -1 \in Int /\ -1 < 0
  OBVIOUS
<1>3. Linked(a, {})
  BY <1>1 DEF Linked, Nil
<1> HIDE DEF a
<1>4. a = [mem |-> a.mem, top |-> a.top, head |-> a.head, full |-> a.full]
  BY DEF a
<1>5. Well(a)
  BY <1>1, <1>2, <1>3, <1>4 DEF Well, Fits
<1> QED BY <1>5 DEF a, Empty

(* What an accepted call stores.                                           *)
Stored(a, b, c) ==
  /\ b = [mem |-> b.mem, top |-> b.top, head |-> b.head, full |-> b.full]
  /\ b.top = a.top + (IF c.kind = "A" THEN 20 ELSE 8)
  /\ b.head = a.top /\ b.full = FALSE /\ a.full = FALSE
  /\ DOMAIN b.mem = DOMAIN a.mem \cup {a.top + w : w \in Words(c)}
  /\ \A o \in DOMAIN a.mem : b.mem[o] = a.mem[o]
  /\ b.mem[a.top] = <<IF c.kind = "A" THEN 4 ELSE 1, a.head>>
  /\ b.mem[a.top + 4] = c.flags
  /\ c.kind = "A" => /\ b.mem[a.top + 8] = c.fill
                     /\ b.mem[a.top + 12] = <<"w0">>
                     /\ b.mem[a.top + 16] = <<"w4">>

LEMMA EmitStores ==
  ASSUME NEW a, Well(a), NEW c \in Calls, Room(a), NEW b, b = Emit(a, c)
  PROVE  Stored(a, b, c)
<1>1. c.kind \in {"A", "B"}
  BY DEF Calls, CallsA, CallsB
<1>2. a.top \in Nat /\ \A o \in DOMAIN a.mem : o \in Nat /\ o + 4 <= a.top
  BY DEF Well
<1>3. /\ b.mem = Over(HeaderWords(a, c), Over(FillWords(a, c), a.mem))
      /\ b.top = a.top + Bump(c.kind) /\ b.head = a.top /\ b.full = a.full
  BY DEF Emit
<1>4. a.full = FALSE
  BY DEF Well
<1> DEFINE t == a.top
           hd == HeaderWords(a, c)
           fl == FillWords(a, c)
<1>5. /\ t \in Nat /\ t + 4 # t
      /\ \A w \in {8, 12, 16} : t + w # t /\ t + w # t + 4
      /\ t + 12 # t + 8 /\ t + 16 # t + 8 /\ t + 16 # t + 12
      /\ \A o \in DOMAIN a.mem : \A w \in {0, 4, 8, 12, 16} : o # t + w
  BY <1>2
<1>6. /\ DOMAIN hd = {t, t + 4} /\ hd[t + 4] = c.flags
      /\ hd[t] = <<IF c.kind = "A" THEN 4 ELSE 1, a.head>>
  BY <1>5 DEF HeaderWords, Tag
<1>7. c.kind = "A" => /\ DOMAIN fl = {t + 8, t + 12, t + 16}
                      /\ fl[t + 8] = c.fill /\ fl[t + 12] = <<"w0">> /\ fl[t + 16] = <<"w4">>
  BY <1>5 DEF FillWords
<1>8. c.kind = "B" => DOMAIN fl = {}
  BY DEF FillWords
<1>9. {t + w : w \in Words(c)} = DOMAIN hd \cup DOMAIN fl
  <2>1. t + 0 = t
    BY <1>5
  <2>2. CASE c.kind = "A"
    BY <1>6, <1>7, <2>1, <2>2 DEF Words
  <2>3. CASE c.kind = "B"
    BY <1>6, <1>8, <2>1, <2>3 DEF Words
  <2> QED BY <1>1, <2>2, <2>3
<1> HIDE DEF t, hd, fl
<1>10. /\ DOMAIN b.mem = DOMAIN a.mem \cup (DOMAIN hd \cup DOMAIN fl)
       /\ \A o \in DOMAIN b.mem : b.mem[o] = IF o \in DOMAIN hd THEN hd[o]
                                             ELSE IF o \in DOMAIN fl THEN fl[o] ELSE a.mem[o]
  <2>1. b.mem = Over(hd, Over(fl, a.mem))
    BY <1>3 DEF hd, fl
  <2> QED BY <2>1 DEF Over
<1>11. \A o \in DOMAIN a.mem : o \notin DOMAIN hd /\ o \notin DOMAIN fl
  <2>1. \A o \in DOMAIN a.mem : o # t /\ o # t + 4 /\ o # t + 8 /\ o # t + 12 /\ o # t + 16
    <3>1. t + 0 = t
      BY <1>5
    <3> QED BY <1>5, <3>1
  <2> QED BY <1>1, <1>6, <1>7, <1>8, <2>1
<1>12. \A o \in DOMAIN a.mem : b.mem[o] = a.mem[o]
  BY <1>10, <1>11
<1>13. /\ b.mem[t] = <<IF c.kind = "A" THEN 4 ELSE 1, a.head>>
       /\ b.mem[t + 4] = c.flags
  BY <1>6, <1>10
<1>14. c.kind = "A" => /\ b.mem[t + 8] = c.fill /\ b.mem[t + 12] = <<"w0">>
                       /\ b.mem[t + 16] = <<"w4">>
  BY <1>5, <1>6, <1>7, <1>10
<1>15. b.top = t + (IF c.kind = "A" THEN 20 ELSE 8) /\ b.head = t /\ b.full = FALSE
  BY <1>3, <1>4 DEF Bump, t
<1>16. b = [mem |-> b.mem, top |-> b.top, head |-> b.head, full |-> b.full]
  BY DEF Emit
<1> QED BY <1>4, <1>9, <1>10, <1>12, <1>13, <1>14, <1>15, <1>16 DEF t, Stored

LEMMA EmitRefused ==
  ASSUME NEW a, Well(a), NEW c, ~Room(a), NEW b, b = Emit(a, c)
  PROVE  /\ b.mem = a.mem /\ b.top = a.top /\ b.head = a.head /\ b.full = TRUE
         /\ Well(b)
<1>1. b = [mem |-> a.mem, top |-> a.top, head |-> a.head, full |-> TRUE]
  BY DEF Emit, Well
<1>2. b.mem = a.mem /\ b.top = a.top /\ b.head = a.head /\ b.full = TRUE
  BY <1>1
<1>3. b = [mem |-> b.mem, top |-> b.top, head |-> b.head, full |-> b.full]
  BY <1>1
<1>4. ~Room(b)
  BY <1>2 DEF Room
<1>5. \A H : Linked(a, H) => Linked(b, H)
  BY <1>2 DEF Linked
<1>6. Fits(b)
  BY <1>2 DEF Well, Fits
<1>7. /\ b.top \in Nat /\ b.top % 4 = 0 /\ b.head \in Int /\ b.head < b.top
      /\ \A o \in DOMAIN b.mem : o \in Nat /\ o + 4 <= b.top
  BY <1>2 DEF Well
<1>8. b.full \in BOOLEAN
  BY <1>2
<1>9. \E H : Linked(b, H)
  BY <1>5 DEF Well
<1> QED BY <1>2, <1>3, <1>4, <1>6, <1>7, <1>8, <1>9 DEF Well

LEMMA EmitWell ==
  ASSUME NEW a, Well(a), NEW c \in Calls, Room(a), NEW b, b = Emit(a, c),
         NEW H, Linked(a, H)
  PROVE  Well(b) /\ Linked(b, H \cup {a.top})
<1>0. Stored(a, b, c)
  BY EmitStores
<1>1. c.kind \in {"A", "B"}
  BY DEF Calls, CallsA, CallsB
<1>2. PICK t : t = a.top
  OBVIOUS
<1>3. PICK u : u = b.top
  OBVIOUS
<1>4. /\ t \in Nat /\ t % 4 = 0 /\ t + 8 <= ArenaLen
      /\ \A o \in DOMAIN a.mem : o \in Nat /\ o + 4 <= t
  BY <1>2 DEF Well, Room
<1>5. /\ u = t + (IF c.kind = "A" THEN 20 ELSE 8)
      /\ b.head = t /\ b.full = FALSE
      /\ DOMAIN b.mem = DOMAIN a.mem \cup {t + w : w \in Words(c)}
      /\ \A o \in DOMAIN a.mem : b.mem[o] = a.mem[o]
      /\ b.mem[t] = <<IF c.kind = "A" THEN 4 ELSE 1, a.head>>
  BY <1>0, <1>2, <1>3 DEF Stored
<1>6. /\ u \in Nat /\ u % 4 = 0 /\ u >= t + 8
      /\ \A w \in Words(c) : w \in {0, 4, 8, 12, 16} /\ t + w + 4 <= u
      /\ {0, 4} \subseteq Words(c) /\ (c.kind = "A" => {8, 12, 16} \subseteq Words(c))
  <2>1. CASE c.kind = "A"
    <3>1. Words(c) = {0, 4, 8, 12, 16} /\ u = t + 20
      BY <1>5, <2>1 DEF Words
    <3> QED BY <1>4, <3>1
  <2>2. CASE c.kind = "B"
    <3>1. Words(c) = {0, 4} /\ u = t + 8 /\ c.kind # "A"
      BY <1>5, <2>2 DEF Words
    <3> QED BY <1>4, <3>1
  <2> QED BY <1>1, <2>1, <2>2
<1>7. ASSUME NEW o \in DOMAIN b.mem
      PROVE  o \in DOMAIN a.mem \/ \E w \in Words(c) : o = t + w
  BY <1>5
<1>8. \A o \in DOMAIN b.mem : o \in Nat /\ o + 4 <= u
  <2> SUFFICES ASSUME NEW o \in DOMAIN b.mem PROVE o \in Nat /\ o + 4 <= u
    OBVIOUS
  <2>1. CASE o \in DOMAIN a.mem
    BY <1>4, <1>6, <2>1
  <2>2. ASSUME NEW w \in Words(c), o = t + w PROVE o \in Nat /\ o + 4 <= u
    <3>1. w \in {0, 4, 8, 12, 16} /\ t + w + 4 <= u
      BY <1>6
    <3> QED BY <1>4, <2>2, <3>1
  <2> QED BY <1>7, <2>1, <2>2
<1>9. Fits(b)
  <2> SUFFICES ASSUME NEW o \in DOMAIN b.mem, o + 4 > ArenaLen
               PROVE  /\ o \in {b.head + 8, b.head + 12, b.head + 16}
                      /\ o + 4 <= ArenaLen + 12
    BY DEF Fits
  <2>1. CASE o \in DOMAIN a.mem
    BY <1>4, <2>1, ArenaAssumption
  <2>2. ASSUME NEW w \in Words(c), o = t + w
        PROVE  /\ o \in {b.head + 8, b.head + 12, b.head + 16}
               /\ o + 4 <= ArenaLen + 12
    <3>1. w \in {0, 4, 8, 12, 16}
      BY <1>6
    <3> QED BY <1>4, <1>5, <2>2, <3>1, ArenaAssumption
  <2> QED BY <1>7, <2>1, <2>2
<1>10. Linked(b, H \cup {t})
  <2>1. ASSUME NEW o \in H
        PROVE  /\ o \in Nat /\ o < u /\ o \in DOMAIN b.mem
               /\ b.mem[o][2] \in H \cup {t} \cup {Nil} /\ b.mem[o][2] < o
               /\ o + 4 \in DOMAIN b.mem
               /\ b.mem[o][1] = 4 => {o + 8, o + 12, o + 16} \subseteq DOMAIN b.mem
    <3>1. /\ o \in Nat /\ o < t /\ o \in DOMAIN a.mem
          /\ a.mem[o][2] \in H \cup {Nil} /\ a.mem[o][2] < o
          /\ o + 4 \in DOMAIN a.mem
          /\ a.mem[o][1] = 4 => {o + 8, o + 12, o + 16} \subseteq DOMAIN a.mem
      BY <1>2 DEF Linked
    <3>2. b.mem[o] = a.mem[o] /\ DOMAIN a.mem \subseteq DOMAIN b.mem
      BY <1>5, <3>1
    <3>3. o < u
      BY <1>4, <1>6, <3>1
    <3> QED BY <3>1, <3>2, <3>3
  <2>2. \A w \in Words(c) : t + w \in DOMAIN b.mem
    BY <1>5
  <2>3. /\ t \in DOMAIN b.mem /\ t + 4 \in DOMAIN b.mem
        /\ c.kind = "A" => {t + 8, t + 12, t + 16} \subseteq DOMAIN b.mem
    <3>1. t + 0 = t
      BY <1>4
    <3> QED BY <1>6, <2>2, <3>1
  <2>4. a.head \in H \cup {Nil} /\ a.head < t
    BY <1>2 DEF Linked, Well
  <2>5. b.mem[t][2] = a.head /\ (b.mem[t][1] = 4 => c.kind = "A")
    BY <1>5
  <2>6. t < u
    BY <1>4, <1>6
  <2>7. b.head \in H \cup {t} \cup {Nil}
    BY <1>5
  <2> QED BY <1>3, <1>4, <2>1, <2>3, <2>4, <2>5, <2>6, <2>7 DEF Linked
<1>11. /\ b.top \in Nat /\ b.top % 4 = 0 /\ b.head \in Int /\ b.head < b.top
       /\ \A o \in DOMAIN b.mem : o \in Nat /\ o + 4 <= b.top
  <2>1. t \in Int /\ t < u
    BY <1>4, <1>6
  <2> QED BY <1>3, <1>5, <1>6, <1>8, <2>1
<1>12. /\ b = [mem |-> b.mem, top |-> b.top, head |-> b.head, full |-> b.full]
       /\ b.full = FALSE
  BY <1>0 DEF Stored
<1>13. \E G : Linked(b, G)
  BY <1>10
<1>14. Well(b)
  BY <1>9, <1>11, <1>12, <1>13 DEF Well
<1> QED BY <1>2, <1>10, <1>14

----------------------------------------------------------------------------
(* The list as the GPU walks it.                                           *)
Torn(a, o) == o \notin DOMAIN a.mem \/ a.mem[o][2] \notin Nil .. (o - 1)
Walks(g, a, m) ==
  g = [o \in Nil .. m |-> IF Torn(a, o) THEN << >>
                          ELSE <<Packet(a, o)>> \o g[a.mem[o][2]]]

LEMMA WalksGrow ==
  ASSUME NEW a, NEW m \in Int, NEW g, Walks(g, a, m), m >= Nil
  PROVE  \E h : Walks(h, a, m + 1)
<1> DEFINE h == [o \in Nil .. m + 1 |->
                   IF o # m + 1 THEN g[o]
                   ELSE IF Torn(a, o) THEN << >>
                   ELSE <<Packet(a, o)>> \o g[a.mem[o][2]]]
<1>0. m + 1 \in Int /\ m + 1 \notin Nil .. m /\ Nil .. m \subseteq Nil .. m + 1
  BY DEF Nil
<1>1. ASSUME NEW o \in Nil .. m + 1
      PROVE  h[o] = IF Torn(a, o) THEN << >> ELSE <<Packet(a, o)>> \o h[a.mem[o][2]]
  <2>1. CASE Torn(a, o)
    <3>1. o \in Nil .. m => g[o] = << >>
      BY <2>1 DEF Walks
    <3>2. o # m + 1 => o \in Nil .. m
      BY DEF Nil
    <3> QED BY <2>1, <3>1, <3>2
  <2>2. CASE ~Torn(a, o)
    <3>1. a.mem[o][2] \in Nil .. (o - 1)
      BY <2>2 DEF Torn
    <3>2. PICK q : q = a.mem[o][2]
      OBVIOUS
    <3>3. q \in Nil .. m /\ q \in Nil .. m + 1 /\ q # m + 1
      BY <3>1, <3>2 DEF Nil
    <3>4. h[q] = g[q]
      BY <3>3
    <3>5. o # m + 1 => g[o] = <<Packet(a, o)>> \o g[q]
      <4>1. o # m + 1 => o \in Nil .. m
        BY DEF Nil
      <4> QED BY <2>2, <3>2, <4>1 DEF Walks
    <3> QED BY <2>2, <3>2, <3>4, <3>5
  <2> QED BY <2>1, <2>2
<1>2. h = [o \in Nil .. m + 1 |-> h[o]]
  OBVIOUS
<1> HIDE DEF h
<1>3. h = [o \in Nil .. m + 1 |-> IF Torn(a, o) THEN << >>
                                  ELSE <<Packet(a, o)>> \o h[a.mem[o][2]]]
  BY <1>1, <1>2
<1>4. Walks(h, a, m + 1)
  BY <1>3 DEF Walks
<1> QED BY <1>4

LEMMA WalksExist ==
  ASSUME NEW a, NEW n \in Nat
  PROVE  \E g : Walks(g, a, n)
<1> DEFINE Good == {k \in 0 .. n + 1 : \E g : Walks(g, a, k - 1)}
<1>1. 0 \in Good
  <2>1. \A o \in Nil .. Nil : Torn(a, o)
    BY DEF Torn, Nil
  <2>2. Walks([o \in Nil .. Nil |-> << >>], a, Nil)
    BY <2>1 DEF Walks
  <2>3. Nil = 0 - 1
    BY DEF Nil
  <2> QED BY <2>2, <2>3
<1>2. ASSUME NEW k \in 0 .. (n + 1) - 1, k \in Good PROVE k + 1 \in Good
  <2>1. k - 1 \in Int /\ k - 1 >= Nil /\ (k - 1) + 1 = (k + 1) - 1
    BY DEF Nil
  <2>2. \E g : Walks(g, a, (k - 1) + 1)
    BY <1>2, <2>1, WalksGrow
  <2> QED BY <2>1, <2>2
<1>3. Good = 0 .. n + 1
  <2>1. Good \in SUBSET (0 .. n + 1) /\ n + 1 \in Nat
    OBVIOUS
  <2> HIDE DEF Good
  <2> QED BY <1>1, <1>2, <2>1, StepByStep
<1>4. n + 1 \in Good /\ (n + 1) - 1 = n
  BY <1>3
<1> QED BY <1>4

LEMMA WalkIs ==
  ASSUME NEW a, a.top \in Nat
  PROVE  \E g : Walks(g, a, a.top) /\ Walk(a) = g[a.head]
<1> DEFINE Is(g) == Walks(g, a, a.top)
<1>1. PICK g : g = CHOOSE x : Is(x)
  OBVIOUS
<1>2. Walk(a) = g[a.head]
  BY <1>1 DEF Walk, Walks, Torn
<1>3. Is(g)
  <2>1. \E x : Is(x)
    BY WalksExist
  <2> HIDE DEF Is
  <2> QED BY <1>1, <2>1
<1> QED BY <1>2, <1>3

(* Two arenas with the same packets on a list have the same list.          *)
SamePackets(a, b, H) ==
  \A o \in H : /\ o \in Nat /\ o <= a.top /\ o <= b.top
               /\ o \in DOMAIN a.mem /\ o \in DOMAIN b.mem
               /\ a.mem[o][2] \in H \cup {Nil} /\ a.mem[o][2] < o
               /\ b.mem[o] = a.mem[o] /\ Packet(b, o) = Packet(a, o)

LEMMA WalksAgree ==
  ASSUME NEW a, NEW b, a.top \in Nat, b.top \in Nat, NEW H, SamePackets(a, b, H),
         NEW g, Walks(g, a, a.top), NEW h, Walks(h, b, b.top)
  PROVE  \A o \in H \cup {Nil} : h[o] = g[o]
<1> DEFINE m == a.top
           n == b.top
<1>1. h[Nil] = << >> /\ g[Nil] = << >>
  <2>1. Torn(a, Nil) /\ Torn(b, Nil) /\ Nil \in Nil .. m /\ Nil \in Nil .. n
    BY DEF Torn, Nil
  <2> QED BY <2>1 DEF Walks
<1> DEFINE Bad == {o \in H : h[o] # g[o]}
<1>2. SUFFICES ASSUME Bad # {} PROVE FALSE
  BY <1>1
<1>3. PICK o \in Bad : \A q \in Bad : ~(q < o)
  <2>1. Bad \subseteq Nat
    BY DEF SamePackets
  <2> HIDE DEF Bad
  <2>2. \A i, j \in Bad : j < i => <<j, i>> \in OpToRel(<, Nat)
    BY <2>1 DEF OpToRel
  <2>3. \E i \in Bad : \A j \in Bad : <<j, i>> \notin OpToRel(<, Nat)
    BY <1>2, <2>1, NatLessThanWellFounded, WFMin
  <2> QED BY <2>2, <2>3
<1>4. PICK q : q = a.mem[o][2]
  OBVIOUS
<1>5. /\ o \in H /\ o \in Nat /\ o <= m /\ o <= n
      /\ o \in DOMAIN a.mem /\ o \in DOMAIN b.mem
      /\ q \in H \cup {Nil} /\ q < o
      /\ (q \in H => q \in Nat)
      /\ b.mem[o][2] = q /\ Packet(b, o) = Packet(a, o)
  BY <1>4 DEF SamePackets
<1>6. q \in Nil .. (o - 1) /\ o \in Nil .. m /\ o \in Nil .. n
  <2>1. q \in Int /\ Nil <= q
    BY <1>5 DEF Nil
  <2> QED BY <1>5, <2>1 DEF Nil
<1>7. ~Torn(a, o) /\ ~Torn(b, o)
  BY <1>4, <1>5, <1>6 DEF Torn
<1>8. h[q] = g[q]
  BY <1>1, <1>3, <1>5
<1>9. g[o] = <<Packet(a, o)>> \o g[q]
  BY <1>4, <1>6, <1>7 DEF Walks
<1>10. h[o] = <<Packet(b, o)>> \o h[q]
  BY <1>5, <1>6, <1>7 DEF Walks
<1> QED BY <1>5, <1>8, <1>9, <1>10

(* A refused call leaves the list as it was, an accepted one puts its      *)
(* packet in front.                                                        *)
LEMMA RefusedWalk ==
  ASSUME NEW a, Well(a), NEW b, b.mem = a.mem, b.top = a.top, b.head = a.head
  PROVE  Walk(b) = Walk(a)
<1>1. a.top \in Nat /\ b.top \in Nat
  BY DEF Well
<1>2. PICK g : Walks(g, a, a.top) /\ Walk(a) = g[a.head]
  BY <1>1, WalkIs
<1>3. PICK h : Walks(h, b, b.top) /\ Walk(b) = h[b.head]
  BY <1>1, WalkIs
<1>4. PICK H : Linked(a, H)
  BY DEF Well
<1>5. SamePackets(a, b, H)
  BY <1>1, <1>4 DEF Linked, Packet, SamePackets
<1>7. \A o \in H \cup {Nil} : h[o] = g[o]
  BY <1>1, <1>2, <1>3, <1>5, WalksAgree
<1>8. a.head \in H \cup {Nil}
  BY <1>4 DEF Linked
<1> QED BY <1>2, <1>3, <1>7, <1>8

LEMMA StoredWalk ==
  ASSUME NEW a, Well(a), NEW b, Well(b), NEW c \in Calls, Stored(a, b, c)
  PROVE  Walk(b) = <<PacketOf(c)>> \o Walk(a)
<1>1. a.top \in Nat /\ b.top \in Nat /\ a.top < b.top /\ a.head < a.top /\ a.head \in Int
  <2>1. a.top \in Nat /\ b.top \in Nat /\ a.head < a.top /\ b.head < b.top /\ a.head \in Int
    BY DEF Well
  <2> QED BY <2>1 DEF Stored
<1>2. PICK g : Walks(g, a, a.top) /\ Walk(a) = g[a.head]
  BY <1>1, WalkIs
<1>3. PICK h : Walks(h, b, b.top) /\ Walk(b) = h[b.head]
  BY <1>1, WalkIs
<1>4. PICK H : Linked(a, H)
  BY DEF Well
<1>5. ASSUME NEW o \in H
      PROVE  /\ o \in Nat /\ o <= a.top /\ o <= b.top
             /\ o \in DOMAIN a.mem /\ o \in DOMAIN b.mem
             /\ a.mem[o][2] \in H \cup {Nil} /\ a.mem[o][2] < o
             /\ b.mem[o] = a.mem[o] /\ Packet(b, o) = Packet(a, o)
  <2>1. /\ o \in Nat /\ o < a.top /\ o \in DOMAIN a.mem
        /\ a.mem[o][2] \in H \cup {Nil} /\ a.mem[o][2] < o
        /\ o + 4 \in DOMAIN a.mem
        /\ a.mem[o][1] = 4 => {o + 8, o + 12, o + 16} \subseteq DOMAIN a.mem
    BY <1>4 DEF Linked
  <2>2. DOMAIN a.mem \subseteq DOMAIN b.mem /\ \A w \in DOMAIN a.mem : b.mem[w] = a.mem[w]
    BY DEF Stored
  <2>3. b.mem[o] = a.mem[o] /\ b.mem[o + 4] = a.mem[o + 4]
    BY <2>1, <2>2
  <2>4. a.mem[o][1] = 4 => \A k \in 1 .. 3 : b.mem[o + 4 + 4 * k] = a.mem[o + 4 + 4 * k]
    <3> SUFFICES ASSUME a.mem[o][1] = 4, NEW k \in 1 .. 3
                 PROVE  b.mem[o + 4 + 4 * k] = a.mem[o + 4 + 4 * k]
      OBVIOUS
    <3>1. o + 4 + 4 * k \in {o + 8, o + 12, o + 16}
      BY <2>1
    <3> QED BY <2>1, <2>2, <3>1
  <2>5. Packet(b, o) = Packet(a, o)
    <3>1. CASE a.mem[o][1] = 4
      <4>1. [k \in 1 .. 3 |-> b.mem[o + 4 + 4 * k]] = [k \in 1 .. 3 |-> a.mem[o + 4 + 4 * k]]
        BY <2>4, <3>1
      <4> QED BY <2>3, <3>1, <4>1 DEF Packet
    <3>2. CASE a.mem[o][1] # 4
      BY <2>3, <3>2 DEF Packet
    <3> QED BY <3>1, <3>2
  <2>6. o <= a.top /\ o <= b.top
    BY <1>1, <2>1
  <2> QED BY <2>1, <2>2, <2>3, <2>5, <2>6
<1>6. SamePackets(a, b, H)
  BY <1>5 DEF SamePackets
<1>7. \A o \in H \cup {Nil} : h[o] = g[o]
  BY <1>1, <1>2, <1>3, <1>6, WalksAgree
<1>8. a.head \in H \cup {Nil} /\ a.head >= Nil
  BY <1>4, <1>1 DEF Linked, Nil
<1>9. PICK t : t = a.top
  OBVIOUS
<1>10. h[t] = <<Packet(b, t)>> \o h[a.head]
  <2>1. b.mem[t] = <<IF c.kind = "A" THEN 4 ELSE 1, a.head>> /\ t \in DOMAIN b.mem
    <3>1. t + 0 = t /\ 0 \in Words(c)
      BY <1>1, <1>9 DEF Words
    <3> QED BY <1>9, <3>1 DEF Stored
  <2>2. b.mem[t][2] = a.head
    BY <2>1
  <2>3. a.head \in Nil .. (t - 1) /\ t \in Nil .. b.top
    BY <1>1, <1>8, <1>9 DEF Nil
  <2>4. ~Torn(b, t)
    BY <2>1, <2>2, <2>3 DEF Torn
  <2> QED BY <1>3, <2>2, <2>3, <2>4 DEF Walks
<1>11. Packet(b, t) = PacketOf(c)
  <2>1. /\ b.mem[t] = <<IF c.kind = "A" THEN 4 ELSE 1, a.head>> /\ b.mem[t + 4] = c.flags
        /\ c.kind = "A" => /\ b.mem[t + 8] = c.fill /\ b.mem[t + 12] = <<"w0">>
                           /\ b.mem[t + 16] = <<"w4">>
    BY <1>9 DEF Stored
  <2>2. CASE c.kind = "A"
    <3>1. t + 4 + 4 * 1 = t + 8 /\ t + 4 + 4 * 2 = t + 12 /\ t + 4 + 4 * 3 = t + 16
      BY <1>1, <1>9
    <3>2. \A k \in 1 .. 3 : b.mem[t + 4 + 4 * k] = <<c.fill, <<"w0">>, <<"w4">>>>[k]
      <4> SUFFICES ASSUME NEW k \in 1 .. 3
                   PROVE  b.mem[t + 4 + 4 * k] = <<c.fill, <<"w0">>, <<"w4">>>>[k]
        OBVIOUS
      <4>1. k = 1 \/ k = 2 \/ k = 3
        OBVIOUS
      <4> QED BY <2>1, <2>2, <3>1, <4>1
    <3>3. [k \in 1 .. 3 |-> b.mem[t + 4 + 4 * k]] = <<c.fill, <<"w0">>, <<"w4">>>>
      BY <3>2
    <3>4. b.mem[t][1] = 4
      BY <2>1, <2>2
    <3> QED BY <2>1, <2>2, <3>3, <3>4 DEF Packet, PacketOf
  <2>3. CASE c.kind = "B"
    BY <2>1, <2>3 DEF Packet, PacketOf
  <2> QED BY <2>2, <2>3 DEF Calls, CallsA, CallsB
<1>12. Walk(b) = h[t]
  BY <1>3, <1>9 DEF Stored
<1> QED BY <1>2, <1>7, <1>8, <1>10, <1>11, <1>12

----------------------------------------------------------------------------
(* The calls of a tick, and what they come to.                             *)
Drawings == [kind  : {"A"}, flags : [v : 0..255, top : BOOLEAN],
             fill  : (Int \X {S6 - H6 \div 2}) \X {<<"w0">>} \X {<<"w4">>}]
            \cup [kind : {"B"}, fill : {<< >>},
                  flags : [v : {32, H8, Mode(64), Mode(S7)}, top : {FALSE}]]

LEMMA PacketDrawn == \A c \in Calls : PacketOf(c) \in Drawings /\ PacketOf(c).kind = c.kind
<1>1. \A c \in CallsA : PacketOf(c) \in Drawings /\ PacketOf(c).kind = c.kind
  BY DEF CallsA, PacketOf, Drawings
<1>2. \A c \in CallsB : PacketOf(c) \in Drawings /\ PacketOf(c).kind = c.kind
  BY DEF CallsB, PacketOf, Drawings, DrawModes
<1> QED BY <1>1, <1>2 DEF Calls

LEMMA DivInt == \A x \in Int : Div(x) \in Int
  BY DEF Div, MulHi

LEMMA RecordParts ==
  ASSUME NEW r \in Records
  PROVE  /\ r.cnt \in Int /\ r.b8 \in 0 .. 255 /\ r.h2 \in Int /\ r.x12 \in Nat
         /\ r.side \in Int
         /\ Faded(r) \in Int /\ Apart(r) \in Int /\ Rest(r) \in Int
         /\ Lit(r) \in Int /\ HalfLit(r) \in Int /\ At(r) \in Int /\ Scale(r) \in Int
<1>1. r.cnt \in Int /\ r.b8 \in 0 .. 255 /\ r.h2 \in Int /\ r.x12 \in Nat /\ r.side \in Int
  <2>1. /\ r.cnt \in -Half .. (Half - 1) /\ r.b8 \in B8s /\ r.h2 \in H2s
        /\ r.x12 \in X12s /\ r.side \in Sides
    BY DEF Records, Counters
  <2>2. /\ Half \in Nat /\ B8s \subseteq 0 .. 255 /\ X12s \subseteq Nat
        /\ H2s \subseteq Int /\ Sides \subseteq {-1, 0, 1}
    BY MenuAssumption
  <2>3. r.cnt \in Int
    BY <2>1, <2>2
  <2>4. r.side \in {-1, 0, 1}
    BY <2>1, <2>2
  <2>5. r.side \in Int
    BY <2>4
  <2>6. r.b8 \in 0 .. 255
    BY <2>1, <2>2
  <2>7. r.h2 \in Int
    BY <2>1, <2>2
  <2>8. r.x12 \in Nat
    BY <2>1, <2>2
  <2> QED BY <2>3, <2>5, <2>6, <2>7, <2>8
<1>2. r.b8 * r.cnt \in Int /\ r.h2 * (12 - r.cnt) \in Int
  BY <1>1
<1>3. Faded(r) \in Int /\ Apart(r) \in Int
  BY <1>1, <1>2, DivInt DEF Faded, Apart
<1>4. Rest(r) \in Int
  BY <1>1, <1>3 DEF Rest
<1>5. Scale(r) \in Int /\ Faded(r) * Scale(r) \in Int
  <2>1. Scale(r) \in Int
    BY <1>1 DEF Scale
  <2> QED BY <1>3, <2>1
<1>6. Lit(r) \in Int /\ HalfLit(r) \in Int
  BY <1>5 DEF Lit, HalfLit
<1>7. At(r) \in Int
  <2>1. H4 \div 2 \in Int /\ S4 \in Int
    BY MenuAssumption
  <2> QED BY <1>1, <2>1 DEF At
<1> QED BY <1>1, <1>3, <1>4, <1>5, <1>6, <1>7

LEMMA CallsMade ==
  /\ \A light, x \in Int : \A top \in BOOLEAN : A(light, top, x) \in Calls
  /\ \A f \in DrawModes : B(f) \in Calls /\ B(f).kind = "B"
<1>1. ASSUME NEW light \in Int, NEW x \in Int, NEW top \in BOOLEAN
      PROVE  A(light, top, x) \in Calls
  <2>1. light % 256 \in 0 .. 255 /\ x - H4 \div 2 \in Int
    BY MenuAssumption
  <2> QED BY <2>1 DEF A, Byte, Calls, CallsA
<1>2. \A f \in DrawModes : B(f) \in Calls /\ B(f).kind = "B"
  BY DEF B, Calls, CallsB
<1> QED BY <1>1, <1>2

LEMMA ShortSeqs ==
  ASSUME NEW S
  PROVE  /\ << >> \in Seq(S)
         /\ \A x \in S : <<x>> \in Seq(S)
         /\ \A x, y \in S : <<x, y>> \in Seq(S)
         /\ \A x, y, z \in S : <<x, y, z>> \in Seq(S)
         /\ \A u, v \in Seq(S) : u \o v \in Seq(S)
  OBVIOUS

(* A tick's calls, of which the last sets the draw mode.                   *)
LEMMA ShapeIs ==
  ASSUME NEW r \in Records, NEW t4 \in BOOLEAN
  PROVE  /\ Shape(r, t4) \in Seq(Calls)
         /\ LET s == Shape(r, t4) IN s # << >> => s[Len(s)].kind = "B"
<1>1. \A light, x \in Int : \A top \in BOOLEAN : A(light, top, x) \in Calls
  BY CallsMade
<1>2. \A f \in {32, H8, Mode(64), Mode(S7)} : B(f) \in Calls /\ B(f).kind = "B"
  BY CallsMade DEF DrawModes
<1>3. /\ Rest(r) \in Int /\ Lit(r) \in Int /\ HalfLit(r) \in Int /\ At(r) \in Int
      /\ At(r) - Apart(r) \in Int /\ At(r) + Apart(r) \in Int
  BY RecordParts
<1>a. /\ << >> \in Seq(Calls) /\ \A c \in Calls : <<c>> \in Seq(Calls)
      /\ \A c, d \in Calls : <<c, d>> \in Seq(Calls)
      /\ \A c, d, e \in Calls : <<c, d, e>> \in Seq(Calls)
      /\ \A u, v \in Seq(Calls) : u \o v \in Seq(Calls)
  BY ShortSeqs
<1>4. FirstPair(r) \in Seq(Calls)
  <2>1. /\ A(Rest(r), TRUE, At(r) - Apart(r)) \in Calls
        /\ A(Rest(r), TRUE, At(r) + Apart(r)) \in Calls
        /\ B(Mode(S7)) \in Calls
    BY <1>1, <1>2, <1>3
  <2> QED BY <1>a, <2>1 DEF FirstPair
<1>5. Gate(r, t4) \in Seq(Calls)
  <2>1. 0 \in Int /\ TRUE \in BOOLEAN
    OBVIOUS
  <2>2. A(0, TRUE, At(r)) \in Calls
    BY <1>1, <1>3, <2>1
  <2>3. B(H8) \in Calls
    BY <1>2
  <2>4. <<A(0, TRUE, At(r)), B(H8)>> \in Seq(Calls)
    BY <1>a, <2>2, <2>3
  <2> QED BY <1>a, <2>4 DEF Gate
<1>6. Second(r, t4) \in Seq(Calls)
  <2>1. (IF t4 THEN Lit(r) ELSE HalfLit(r)) \in Int
    BY <1>3
  <2>2. A(IF t4 THEN Lit(r) ELSE HalfLit(r), TRUE, At(r)) \in Calls /\ B(Mode(64)) \in Calls
    BY <1>1, <1>2, <1>3, <2>1
  <2>3. <<A(IF t4 THEN Lit(r) ELSE HalfLit(r), TRUE, At(r)), B(Mode(64))>> \in Seq(Calls)
    BY <1>a, <2>2
  <2> QED BY <1>a, <1>5, <2>3 DEF Second
<1>7. Stanza(r, t4) \in Seq(Calls)
  <2>1. A(Lit(r), TRUE, At(r)) \in Calls /\ B(Mode(S7)) \in Calls /\ A(Lit(r), FALSE, At(r)) \in Calls
    BY <1>1, <1>2, <1>3
  <2>2. /\ <<A(Lit(r), TRUE, At(r)), B(Mode(S7))>> \in Seq(Calls)
        /\ <<A(Lit(r), FALSE, At(r))>> \in Seq(Calls)
    BY <1>a, <2>1
  <2> QED BY <1>a, <1>6, <2>2 DEF Stanza
<1>8. PICK q : q = FirstPair(r) \o Stanza(r, t4)
  OBVIOUS
<1>9. q \in Seq(Calls) /\ Open(r, t4) = q \o <<B(Mode(S7))>>
  BY <1>4, <1>7, <1>8 DEF Open
<1>10. /\ Open(r, t4) \in Seq(Calls)
       /\ Open(r, t4)[Len(Open(r, t4))].kind = "B"
  BY <1>2, <1>9
<1>11. CASE Rests(r)
  BY <1>11 DEF Shape
<1>12. CASE ~Rests(r) /\ r.cnt < -1
  BY <1>2, <1>12 DEF Shape
<1>13. CASE ~Rests(r) /\ ~(r.cnt < -1)
  BY <1>10, <1>13 DEF Shape
<1> QED BY <1>11, <1>12, <1>13

(* What k calls of s have made of arena a.                                 *)
Drew(a, b, s, k) ==
  /\ Well(b) /\ (a.full = TRUE => b = a)
  /\ \E q \in Seq(Drawings) :
       /\ Walk(b) = q \o Walk(a)
       /\ k = 0 => q = << >>
       /\ k > 0 /\ b.full = FALSE => Len(q) > 0 /\ q[1] = PacketOf(s[k])

LEMMA DrewMore ==
  ASSUME NEW a, Well(a), Walk(a) \in Seq(Drawings), NEW s \in Seq(Calls),
         NEW k \in 0 .. Len(s) - 1, NEW b, Drew(a, b, s, k),
         NEW d, d = Emit(b, s[k + 1])
  PROVE  Drew(a, d, s, k + 1)
<1>1. k + 1 \in 1 .. Len(s) /\ s[k + 1] \in Calls /\ k + 1 # 0 /\ k + 1 > 0
  OBVIOUS
<1>2. Well(b)
  BY DEF Drew
<1>3. PICK q \in Seq(Drawings) : Walk(b) = q \o Walk(a)
  BY DEF Drew
<1>4. CASE ~Room(b)
  <2>1. d.mem = b.mem /\ d.top = b.top /\ d.head = b.head /\ d.full = TRUE /\ Well(d)
    BY <1>2, <1>4, EmitRefused
  <2>2. Walk(d) = q \o Walk(a)
    BY <1>2, <1>3, <2>1, RefusedWalk
  <2>3. a.full = TRUE => d = a
    <3> SUFFICES ASSUME a.full = TRUE PROVE d = a
      OBVIOUS
    <3>1. b = a
      BY DEF Drew
    <3>2. a = [mem |-> a.mem, top |-> a.top, head |-> a.head, full |-> a.full]
      BY DEF Well
    <3>3. d = [mem |-> d.mem, top |-> d.top, head |-> d.head, full |-> d.full]
      BY <2>1 DEF Well
    <3> QED BY <2>1, <3>1, <3>2, <3>3
  <2>4. ~(d.full = FALSE)
    BY <2>1
  <2> QED BY <1>1, <2>1, <2>2, <2>3, <2>4 DEF Drew
<1>5. CASE Room(b)
  <2>1. Stored(b, d, s[k + 1])
    BY <1>1, <1>2, <1>5, EmitStores
  <2>2. Well(d)
    <3>1. PICK H : Linked(b, H)
      BY <1>2 DEF Well
    <3> QED BY <1>1, <1>2, <1>5, <3>1, EmitWell
  <2>3. Walk(d) = <<PacketOf(s[k + 1])>> \o Walk(b)
    BY <1>1, <1>2, <2>1, <2>2, StoredWalk
  <2>4. ~(a.full = TRUE)
    <3> SUFFICES ASSUME a.full = TRUE PROVE FALSE
      OBVIOUS
    <3>1. b = a
      BY DEF Drew
    <3>2. ~Room(a)
      BY DEF Well
    <3> QED BY <1>5, <3>1, <3>2
  <2>5. PICK p \in Drawings : p = PacketOf(s[k + 1])
    BY <1>1, PacketDrawn
  <2>6. Walk(d) = (<<p>> \o q) \o Walk(a)
    BY <1>3, <2>3, <2>5
  <2>7. <<p>> \o q \in Seq(Drawings) /\ Len(<<p>> \o q) > 0 /\ (<<p>> \o q)[1] = p
    OBVIOUS
  <2> QED BY <1>1, <2>2, <2>4, <2>5, <2>6, <2>7 DEF Drew
<1> QED BY <1>4, <1>5

LEMMA TickDraws ==
  ASSUME NEW a, Well(a), Walk(a) \in Seq(Drawings), NEW s \in Seq(Calls),
         NEW b, b = FoldLeft(Emit, a, s)
  PROVE  Drew(a, b, s, Len(s))
<1>1. PICK run : Runs(run, a, s) /\ b = run[Len(s)]
  BY FoldRuns
<1> DEFINE Good == {k \in 0 .. Len(s) : Drew(a, run[k], s, k)}
<1>2. 0 \in Good
  <2>1. << >> \in Seq(Drawings) /\ Walk(a) = << >> \o Walk(a) /\ ~(0 > 0) /\ 0 \in 0 .. Len(s)
    OBVIOUS
  <2>2. run[0] = a
    BY <1>1 DEF Runs
  <2> QED BY <2>1, <2>2 DEF Drew
<1>3. ASSUME NEW k \in 0 .. Len(s) - 1, k \in Good PROVE k + 1 \in Good
  <2>1. k + 1 \in 1 .. Len(s) /\ (k + 1) - 1 = k /\ k + 1 \in 0 .. Len(s)
    OBVIOUS
  <2>2. run[k + 1] = Emit(run[k], s[k + 1])
    BY <1>1, <2>1 DEF Runs
  <2> QED BY <1>3, <2>1, <2>2, DrewMore
<1>4. Good = 0 .. Len(s)
  <2>1. Good \in SUBSET (0 .. Len(s)) /\ Len(s) \in Nat
    OBVIOUS
  <2> HIDE DEF Good
  <2> QED BY <1>2, <1>3, <2>1, StepByStep
<1>5. Len(s) \in Good
  BY <1>4
<1> QED BY <1>1, <1>5

----------------------------------------------------------------------------
(* The invariant: the record's fields, and an arena the emitters left,     *)
(* whose list holds nothing but drawings.                                  *)
MenuInv ==
  /\ rec \in Records /\ Len(cells) \in {0, 2} /\ sets \in 0..MaxSets
  /\ Well(arena) /\ Walk(arena) \in Seq(Drawings)

LEMMA EmptyWalk == Walk(Empty) = << >>
<1>1. Empty.top = 0 /\ Empty.head = Nil
  BY DEF Empty
<1>2. PICK g : Walks(g, Empty, 0) /\ Walk(Empty) = g[Nil]
  <2>1. Empty.top \in Nat
    BY <1>1
  <2> QED BY <1>1, <2>1, WalkIs
<1>3. Torn(Empty, Nil)
  <2>1. Nil \notin DOMAIN Empty.mem
    BY DEF Empty
  <2> QED BY <2>1 DEF Torn
<1>4. Nil \in Nil .. 0
  BY DEF Nil
<1> QED BY <1>2, <1>3, <1>4 DEF Walks

LEMMA BumpCounts == \A c \in Counters : Bumped(c) \in Counters
<1>1. Half \in Nat /\ Half > 13
  BY MenuAssumption
<1> QED BY <1>1 DEF Bumped, Counters

LEMMA MenuInvInit == Init => MenuInv
<1> SUFFICES ASSUME Init PROVE MenuInv
  OBVIOUS
<1>1. rec \in Records /\ cells = << >> /\ sets = 0 /\ arena = Empty
  BY DEF Init
<1>2. Len(cells) = 0 /\ MaxSets \in Nat
  BY <1>1, MenuAssumption
<1>3. << >> \in Seq(Drawings)
  OBVIOUS
<1> QED BY <1>1, <1>2, <1>3, EmptyWell, EmptyWalk DEF MenuInv

LEMMA MenuInvNext == MenuInv /\ [Next]_vars => MenuInv'
<1> SUFFICES ASSUME MenuInv, [Next]_vars PROVE MenuInv'
  OBVIOUS
<1> USE DEF MenuInv
<1>0. MaxSets \in Nat /\ Half \in Nat /\ Half > 13
  BY MenuAssumption
<1>1. CASE RecordInit
  <2>1. -1 \in Counters /\ 128 \in X12s
    BY <1>0, MenuAssumption DEF Counters
  <2>2. rec' \in Records
    BY <1>1, <2>1 DEF RecordInit, Records
  <2> QED BY <1>1, <2>2 DEF RecordInit
<1>2. CASE Others
  <2>1. rec' \in Records
    <3>1. PICK c \in Counters, x \in X12s : rec' = [rec EXCEPT !.cnt = c, !.x12 = x]
      BY <1>2 DEF Others
    <3> QED BY <3>1 DEF Records
  <2>2. sets' \in 0..MaxSets /\ UNCHANGED <<arena, cells>>
    BY <1>0, <1>2 DEF Others
  <2> QED BY <2>1, <2>2
<1>3. CASE CounterBump
  <2>1. rec' \in Records
    <3>1. rec.cnt \in Counters
      BY DEF Records
    <3>2. Bumped(rec.cnt) \in Counters
      BY <3>1, BumpCounts
    <3> QED BY <1>3, <3>2 DEF CounterBump, Records
  <2> QED BY <1>3, <2>1 DEF CounterBump
<1>4. CASE EmitTick
  <2>1. PICK t4 \in BOOLEAN : arena' = FoldLeft(Emit, arena, Shape(rec, t4))
    BY <1>4 DEF EmitTick
  <2>2. Shape(rec, t4) \in Seq(Calls)
    BY ShapeIs
  <2>3. PICK b : b = arena'
    OBVIOUS
  <2>4. Drew(arena, b, Shape(rec, t4), Len(Shape(rec, t4)))
    BY <2>1, <2>2, <2>3, TickDraws
  <2>5. Well(b) /\ Walk(b) \in Seq(Drawings)
    BY <2>4 DEF Drew
  <2>6. Len(cells') \in {0, 2}
    <3>1. Len(Cells(rec)) = 2
      BY DEF Cells
    <3>2. cells' = Cells(rec) \/ cells' = << >>
      BY <1>4 DEF EmitTick
    <3> QED BY <3>1, <3>2
  <2>7. Well(arena') /\ Walk(arena') \in Seq(Drawings)
    BY <2>3, <2>5
  <2> QED BY <1>4, <2>6, <2>7 DEF EmitTick
<1>5. CASE NewFrame
  <2>1. << >> \in Seq(Drawings)
    OBVIOUS
  <2>2. Well(arena') /\ Walk(arena') \in Seq(Drawings)
    BY <1>5, <2>1, EmptyWell, EmptyWalk DEF NewFrame
  <2> QED BY <1>5, <2>2 DEF NewFrame
<1>6. CASE UNCHANGED vars
  BY <1>6 DEF vars
<1> QED BY <1>1, <1>2, <1>3, <1>4, <1>5, <1>6 DEF Next

LEMMA MenuInvariant == Spec => []MenuInv
<1> QED BY MenuInvInit, MenuInvNext, PTL DEF Spec

(* Records keep to their ranges, the arena's top stays word aligned and    *)
(* above its head, a tick hands out both closing cells or none.            *)
THEOREM MenuTypes == Spec => []TypeOK
<1>1. MenuInv => TypeOK
  BY DEF MenuInv, Well, TypeOK
<1> QED BY <1>1, MenuInvariant, PTL

(* Only the newest packet may hang over the arena, by its fill alone and   *)
(* by 12 bytes at most (render.c:56 measures the header).                  *)
THEOREM OverhangBounded == Spec => []Overhang
<1>1. MenuInv => Overhang
  BY DEF MenuInv, Well, Fits, Overhang
<1> QED BY <1>1, MenuInvariant, PTL

(* A tick draws in front of what the frame holds, ends with a draw mode    *)
(* unless the arena ran out, and draws nothing into a full arena.          *)
LEMMA TickListInit == Init => TickList!Init
<1> SUFFICES ASSUME Init PROVE TickList!Init
  OBVIOUS
<1>1. arena = Empty /\ Empty.full = FALSE
  BY DEF Init, Empty
<1> QED BY <1>1, EmptyWalk DEF TickList!Init

LEMMA TickListTick == MenuInv /\ EmitTick => TickList!Draw \/ UNCHANGED TickList!vars
<1> SUFFICES ASSUME MenuInv, EmitTick PROVE TickList!Draw \/ UNCHANGED TickList!vars
  OBVIOUS
<1>1. rec \in Records /\ Well(arena) /\ Walk(arena) \in Seq(Drawings)
  BY DEF MenuInv
<1>2. PICK t4 \in BOOLEAN : arena' = FoldLeft(Emit, arena, Shape(rec, t4))
  BY DEF EmitTick
<1>3. PICK s \in Seq(Calls) : s = Shape(rec, t4) /\ (s # << >> => s[Len(s)].kind = "B")
  BY <1>1, ShapeIs
<1>4. PICK a : a = arena
  OBVIOUS
<1>5. PICK b : b = arena'
  OBVIOUS
<1>6. Drew(a, b, s, Len(s))
  BY <1>1, <1>2, <1>3, <1>4, <1>5, TickDraws
<1>7. CASE a.full = TRUE
  <2>1. b = a
    BY <1>6, <1>7 DEF Drew
  <2>2. arena' = arena
    BY <1>4, <1>5, <2>1
  <2> QED BY <2>2 DEF TickList!vars
<1>8. CASE ~(a.full = TRUE)
  <2>1. PICK q \in Seq(Drawings) :
          /\ Walk(b) = q \o Walk(a)
          /\ Len(s) = 0 => q = << >>
          /\ Len(s) > 0 /\ b.full = FALSE => Len(q) > 0 /\ q[1] = PacketOf(s[Len(s)])
    BY <1>6 DEF Drew
  <2>2. PICK w \in Seq(Drawings) : w = Walk(a)
    BY <1>1, <1>4
  <2>3. PICK v : v = Walk(b)
    OBVIOUS
  <2>4. v = q \o w /\ Len(s) \in Nat /\ (Len(s) = 0 <=> s = << >>)
    BY <2>1, <2>2, <2>3
  <2>5. /\ Len(q) \in 0 .. Len(v)
        /\ SubSeq(v, Len(q) + 1, Len(v)) = w
        /\ \A k \in 1 .. Len(q) : v[k] = q[k] /\ v[k] \in Drawings
    BY <2>4
  <2>6. ASSUME Len(q) > 0, ~(b.full = TRUE) PROVE v[1].kind = "B"
    <3>1. b.full = FALSE
      BY <1>6, <2>6 DEF Drew, Well
    <3>2. Len(s) > 0
      BY <2>1, <2>4, <2>6
    <3>3. s # << >> /\ s[Len(s)] \in Calls /\ s[Len(s)].kind = "B"
      BY <1>3, <2>4, <3>2
    <3>4. q[1] = PacketOf(s[Len(s)])
      BY <2>1, <3>1, <3>2
    <3>5. v[1] = q[1]
      BY <2>5, <2>6
    <3> QED BY <3>3, <3>4, <3>5, PacketDrawn
  <2>7. b.full \in BOOLEAN /\ a.full \in BOOLEAN
    BY <1>1, <1>4, <1>6 DEF Drew, Well
  <2>8. TickList!Draw
    <3>1. v = Walk(arena') /\ w = Walk(arena)
      BY <1>4, <1>5, <2>2, <2>3
    <3>2. ~arena.full /\ arena'.full \in BOOLEAN
      BY <1>4, <1>5, <1>8, <2>7
    <3>3. \E n \in 0 .. Len(v) :
            /\ SubSeq(v, n + 1, Len(v)) = w
            /\ \A k \in 1 .. n : v[k] \in Drawings
            /\ n > 0 /\ ~arena'.full => v[1].kind = "B"
      <4>1. PICK n \in 0 .. Len(v) : n = Len(q)
        BY <2>5
      <4>2. n > 0 /\ ~arena'.full => v[1].kind = "B"
        BY <1>5, <2>6, <2>7, <4>1
      <4> QED BY <2>5, <4>1, <4>2
    <3>4. \E n \in 0 .. Len(Walk(arena')) :
            /\ SubSeq(Walk(arena'), n + 1, Len(Walk(arena'))) = Walk(arena)
            /\ \A k \in 1 .. n : Walk(arena')[k] \in Drawings
            /\ n > 0 /\ ~arena'.full => Walk(arena')[1].kind = "B"
      BY <3>1, <3>3
    <3> QED BY <3>2, <3>4 DEF TickList!Draw, Drawings
  <2> QED BY <2>8
<1> QED BY <1>7, <1>8

LEMMA TickListNext == MenuInv /\ [Next]_vars => [TickList!Next]_TickList!vars
<1> SUFFICES ASSUME MenuInv, [Next]_vars PROVE [TickList!Next]_TickList!vars
  OBVIOUS
<1>1. CASE EmitTick
  BY <1>1, TickListTick DEF TickList!Next
<1>2. CASE NewFrame
  <2>1. Empty.full = FALSE
    BY DEF Empty
  <2> QED BY <1>2, <2>1, EmptyWalk DEF NewFrame, TickList!NewFrame, TickList!Next
<1>3. CASE arena' = arena
  BY <1>3 DEF TickList!vars
<1> QED BY <1>1, <1>2, <1>3 DEF Next, RecordInit, Others, CounterBump, vars

(* The list the GPU reads is what the ticks drew, newest first, with every *)
(* packet's flags and fill, whatever the arena's length.                   *)
THEOREM ListIsDrawn == Spec => TickListSpec
<1> QED BY MenuInvariant, TickListInit, TickListNext, PTL
        DEF Spec, TickListSpec, TickList!Spec

----------------------------------------------------------------------------
(* The fades.                                                              *)
LEMMA TimesKeeps ==
  ASSUME NEW a \in Int, NEW b \in Int, NEW k \in Int, a <= b, 0 <= k
  PROVE  a * k <= b * k
<1>1. (b - a) * k >= 0
  OBVIOUS
<1>2. (b - a) * k = b * k - a * k
  OBVIOUS
<1> QED BY <1>1, <1>2

(* Division by twelve that rounds towards zero, as far as the counters go. *)
LEMMA DivGrows ==
  ASSUME NEW x \in Int, NEW y \in Int, x <= y
  PROVE  MulHi(x) <= MulHi(y)
<1>1. x * 10922 <= y * 10922 /\ x * 43691 <= y * 43691
  OBVIOUS
<1>2. (x * 43691) \div 65536 <= (y * 43691) \div 65536
  BY <1>1
<1> DEFINE p == x * 10922 + ((x * 43691) \div 65536)
           q == y * 10922 + ((y * 43691) \div 65536)
<1>3. p \in Int /\ q \in Int /\ p <= q
  BY <1>1, <1>2
<1>4. p \div 65536 <= q \div 65536
  <2> HIDE DEF p, q
  <2> QED BY <1>3
<1> QED BY <1>4 DEF MulHi

LEMMA DivMono ==
  ASSUME NEW x \in Int, NEW y \in Int, x <= y
  PROVE  Div(x) \in Int /\ Div(y) \in Int /\ Div(x) <= Div(y)
<1>1. PICK m : m = MulHi(x)
  OBVIOUS
<1>2. PICK n : n = MulHi(y)
  OBVIOUS
<1>3. m \in Int /\ n \in Int /\ m <= n
  <2>1. m \in Int /\ n \in Int
    BY <1>1, <1>2 DEF MulHi
  <2> QED BY <1>1, <1>2, <2>1, DivGrows
<1>4. m \div 2 <= n \div 2 /\ m \div 2 \in Int /\ n \div 2 \in Int
  BY <1>3
<1>5. x < 0 => m \div 2 + 1 <= 0
  <2>1. x < 0 => (x * 43691) \div 65536 <= -1 /\ (x * 43691) \div 65536 \in Int
    OBVIOUS
  <2>2. x < 0 => x * 10922 + ((x * 43691) \div 65536) <= -1
    BY <2>1
  <2>3. x < 0 => m <= -1
    BY <1>1, <2>2 DEF MulHi
  <2> QED BY <1>3, <2>3
<1>6. y >= 0 => n \div 2 >= 0
  <2>1. y >= 0 => (y * 43691) \div 65536 >= 0 /\ (y * 43691) \div 65536 \in Int
    OBVIOUS
  <2>2. y >= 0 => y * 10922 + ((y * 43691) \div 65536) >= 0
    BY <2>1
  <2>3. y >= 0 => n >= 0
    BY <1>2, <2>2 DEF MulHi
  <2> QED BY <1>3, <2>3
<1>7. Div(x) = (m \div 2) + (IF x < 0 THEN 1 ELSE 0) /\ Div(y) = (n \div 2) + (IF y < 0 THEN 1 ELSE 0)
  BY <1>1, <1>2 DEF Div
<1>8. CASE x < 0 /\ y >= 0
  BY <1>4, <1>5, <1>6, <1>7, <1>8
<1>9. CASE ~(x < 0 /\ y >= 0)
  BY <1>4, <1>7, <1>9
<1> QED BY <1>4, <1>7, <1>8, <1>9

(* Eleven twelfths of a light are no more than the light.                  *)
LEMMA DivEleven == ASSUME NEW b \in Nat PROVE Div(b * 11) <= b
<1>1. PICK x : x = b * 11
  OBVIOUS
<1>2. x \in Int /\ x = b * 11 /\ x >= 0
  BY <1>1
<1>3. (x * 43691) \div 65536 <= 8 * b /\ (x * 43691) \div 65536 \in Int
  BY <1>2
<1>4. x * 10922 + ((x * 43691) \div 65536) <= 131072 * b
  BY <1>2, <1>3
<1>5. MulHi(x) <= 2 * b /\ MulHi(x) \in Int
  BY <1>2, <1>3, <1>4 DEF MulHi
<1>6. MulHi(x) \div 2 <= b
  <2>1. PICK m : m = MulHi(x)
    OBVIOUS
  <2> QED BY <1>5, <2>1
<1>7. Div(x) = MulHi(x) \div 2
  <2>1. PICK m : m = MulHi(x)
    OBVIOUS
  <2> QED BY <1>2, <1>5, <2>1 DEF Div
<1> QED BY <1>1, <1>6, <1>7

LEMMA DivNat == ASSUME NEW x \in Nat PROVE Div(x) \in Nat
<1>1. Div(0) \in Int /\ Div(x) \in Int /\ Div(0) <= Div(x)
  BY DivMono
<1>2. MulHi(0) = 0
  BY DEF MulHi
<1>3. Div(0) = 0
  BY <1>2 DEF Div
<1> QED BY <1>1, <1>3

(* The faded light is part of the light.                                   *)
LEMMA FadedPart ==
  ASSUME NEW r \in Records, Opening(r)
  PROVE  Faded(r) \in 0 .. r.b8
<1>1. PICK b : b = r.b8
  OBVIOUS
<1>2. PICK c : c = r.cnt
  OBVIOUS
<1>3. b \in Nat /\ c \in 0 .. 11 /\ Faded(r) = Div(b * c)
  BY <1>1, <1>2, RecordParts DEF Faded, Opening
<1>4. b * c \in Nat /\ b * 11 \in Nat /\ b * c <= b * 11
  <2>1. c \in Int /\ c <= 11 /\ 11 \in Int /\ 0 <= b /\ b \in Int /\ c \in Nat
    BY <1>3
  <2>2. c * b <= 11 * b
    BY <2>1, TimesKeeps
  <2>3. c * b = b * c /\ 11 * b = b * 11 /\ b * c \in Nat /\ b * 11 \in Nat
    BY <1>3, <2>1
  <2> QED BY <2>2, <2>3
<1>5. Div(b * c) \in Nat /\ Div(b * c) <= Div(b * 11) /\ Div(b * 11) \in Nat
  BY <1>4, DivNat, DivMono
<1>6. Div(b * 11) <= b
  BY <1>3, DivEleven
<1> QED BY <1>1, <1>3, <1>5, <1>6

(* What lies in a byte is not changed by the mask.                         *)
LEMMA ByteIs == \A v \in 0 .. 255 : Byte(v) = v
  BY DEF Byte

(* A part of a light whose whole fits its byte.                            *)
LEMMA PartFits ==
  ASSUME NEW b \in Nat, NEW f \in 0 .. b, NEW k \in Int, 0 <= b * k, b # 0
  PROVE  k \in Nat /\ f * k \in Nat /\ f * k <= b * k
<1>1. k >= 0
  OBVIOUS
<1>2. f * k <= b * k
  <2>1. f \in Int /\ b \in Int /\ f <= b
    OBVIOUS
  <2> QED BY <1>1, <2>1, TimesKeeps
<1>3. f * k >= 0 /\ f * k \in Int
  BY <1>1
<1> QED BY <1>1, <1>2, <1>3

LEMMA Shifted ==
  ASSUME NEW p \in Nat, NEW q \in Nat, p <= q, q < 32768
  PROVE  /\ p \div 128 \in 0 .. 255 /\ q \div 128 \in 0 .. 255 /\ p \div 128 <= q \div 128
         /\ p \div 256 \in 0 .. 255 /\ q \div 256 \in 0 .. 255 /\ p \div 256 <= q \div 256
  OBVIOUS

(* A light that grows keeps growing through scale, shift and mask.         *)
LEMMA LitGrows ==
  ASSUME NEW r \in Records, NEW s \in Records, FitsByte(r),
         s.b8 = r.b8, s.x12 = r.x12,
         Faded(r) \in 0 .. r.b8, Faded(s) \in 0 .. r.b8, Faded(r) <= Faded(s)
  PROVE  /\ Byte(Lit(s)) >= Byte(Lit(r))
         /\ Byte(HalfLit(s)) >= Byte(HalfLit(r))
<1>1. PICK b : b = r.b8
  OBVIOUS
<1>2. PICK k : k = Scale(r)
  OBVIOUS
<1>3. PICK f : f = Faded(r)
  OBVIOUS
<1>4. PICK g : g = Faded(s)
  OBVIOUS
<1>5. /\ b \in Nat /\ k \in Int /\ f \in 0 .. b /\ g \in 0 .. b /\ f <= g
      /\ 0 <= b * k /\ b * k < 32768 /\ Scale(s) = k
  BY <1>1, <1>2, <1>3, <1>4, RecordParts DEF FitsByte, Scale
<1>6. f * k \in Nat /\ g * k \in Nat /\ f * k <= g * k /\ g * k < 32768
  <2>1. CASE b = 0
    <3>1. f = 0 /\ g = 0
      BY <1>5, <2>1
    <3>2. f * k = 0 /\ g * k = 0
      BY <1>5, <3>1
    <3> QED BY <3>2
  <2>2. CASE b # 0
    <3>1. k \in Nat /\ f * k \in Nat /\ g * k \in Nat /\ g * k <= b * k
      BY <1>5, <2>2, PartFits
    <3>3. b * k \in Int
      BY <1>5
    <3>2. f \in Int /\ g \in Int /\ k \in Int /\ 0 <= k
      BY <1>5, <3>1
    <3> QED BY <1>5, <3>1, <3>2, <3>3, TimesKeeps
  <2> QED BY <2>1, <2>2
<1>7. PICK p : p = f * k
  OBVIOUS
<1>8. PICK q : q = g * k
  OBVIOUS
<1>9. /\ Lit(r) = p \div 128 /\ HalfLit(r) = p \div 256
      /\ Lit(s) = q \div 128 /\ HalfLit(s) = q \div 256
  BY <1>2, <1>3, <1>4, <1>5, <1>7, <1>8 DEF Lit, HalfLit
<1>10. p \in Nat /\ q \in Nat /\ p <= q /\ q < 32768
  BY <1>6, <1>7, <1>8
<1>11. /\ Lit(r) \in 0 .. 255 /\ Lit(s) \in 0 .. 255 /\ Lit(r) <= Lit(s)
       /\ HalfLit(r) \in 0 .. 255 /\ HalfLit(s) \in 0 .. 255 /\ HalfLit(r) <= HalfLit(s)
  BY <1>9, <1>10, Shifted
<1> QED BY <1>11, ByteIs

LEMMA LessLeft ==
  ASSUME NEW b \in 0 .. 255, NEW f \in 0 .. b, NEW g \in 0 .. b, f <= g
  PROVE  b - f \in 0 .. 255 /\ b - g \in 0 .. 255 /\ b - g <= b - f /\ 0 <= b - f
  OBVIOUS

LEMMA OpensUp ==
  ASSUME NEW r \in Records, Opening(r), FitsByte(r), NEW s \in Records,
         s = [r EXCEPT !.cnt = r.cnt + 1]
  PROVE  /\ Byte(Lit(s)) >= Byte(Lit(r))
         /\ Byte(HalfLit(s)) >= Byte(HalfLit(r))
         /\ Byte(Rest(s)) <= Byte(Rest(r))
<1>1. /\ r.cnt \in 0 .. 11 /\ r.b8 \in 0 .. 255
      /\ Faded(r) \in 0 .. r.b8 /\ Faded(s) \in Int
  BY RecordParts, FadedPart DEF Opening
<1>2. s.b8 = r.b8 /\ s.x12 = r.x12 /\ s.cnt = r.cnt + 1
  BY DEF Records
<1>3. Faded(r) <= Faded(s) /\ Faded(s) \in 0 .. r.b8
  <2>1. PICK b : b = r.b8
    OBVIOUS
  <2>2. PICK c : c = r.cnt
    OBVIOUS
  <2>3. b \in Nat /\ c \in 0 .. 11 /\ Faded(r) = Div(b * c)
    BY <1>1, <2>1, <2>2 DEF Faded
  <2>4. CASE c = 11
    <3>1. Faded(s) = b
      BY <1>2, <2>1, <2>2, <2>4 DEF Faded, Opening
    <3> QED BY <1>1, <2>1, <2>3, <2>4, <3>1
  <2>5. CASE c \in 0 .. 10
    <3>1. Faded(s) = Div(b * (c + 1)) /\ Opening(s)
      BY <1>2, <2>1, <2>2, <2>5 DEF Faded, Opening
    <3>2. b * c \in Int /\ b * (c + 1) \in Int /\ b * c <= b * (c + 1)
      <4>1. b * (c + 1) = b * c + b
        BY <2>3
      <4> QED BY <2>3, <4>1
    <3>3. Faded(s) \in 0 .. s.b8
      BY <3>1, FadedPart
    <3> QED BY <1>2, <2>3, <3>1, <3>2, <3>3, DivMono
  <2> QED BY <2>3, <2>4, <2>5
<1>4. Byte(Lit(s)) >= Byte(Lit(r)) /\ Byte(HalfLit(s)) >= Byte(HalfLit(r))
  BY <1>1, <1>2, <1>3, LitGrows
<1>5. Rest(s) <= Rest(r) /\ Rest(s) \in 0 .. 255 /\ Rest(r) \in 0 .. 255
  <2>1. Rest(r) = r.b8 - Faded(r)
    BY DEF Rest
  <2>2. Rest(s) = r.b8 - Faded(s) \/ Rest(s) = 0
    BY <1>2 DEF Rest
  <2>3. PICK f : f = Faded(r)
    OBVIOUS
  <2>4. PICK g : g = Faded(s)
    OBVIOUS
  <2>5. PICK b : b = r.b8
    OBVIOUS
  <2>6. f \in 0 .. b /\ g \in 0 .. b /\ f <= g /\ b \in 0 .. 255
    BY <1>1, <1>3, <2>3, <2>4, <2>5
  <2>7. /\ b - f \in 0 .. 255 /\ b - g \in 0 .. 255
        /\ b - g <= b - f /\ 0 <= b - f
    BY <2>6, LessLeft
  <2>8. Rest(r) = b - f /\ (Rest(s) = b - g \/ Rest(s) = 0)
    BY <2>1, <2>2, <2>3, <2>4, <2>5
  <2> QED BY <2>7, <2>8
<1>6. Byte(Rest(s)) <= Byte(Rest(r))
  BY <1>5, ByteIs
<1> QED BY <1>4, <1>6

LEMMA ClosesDown ==
  ASSUME NEW r \in Records, r.cnt < -2, NEW s \in Records,
         s = [r EXCEPT !.cnt = r.cnt + 1], H6 >= 0
  PROVE  ClosingLight(s) <= ClosingLight(r) /\ CloseHeight(s) <= CloseHeight(r)
<1>1. /\ r.cnt \in Int /\ r.b8 \in 0 .. 255 /\ s.b8 = r.b8 /\ s.cnt = r.cnt + 1
  BY RecordParts DEF Records
<1>2. PICK c : c = r.cnt + 13
  OBVIOUS
<1>3. c \in Int /\ s.cnt + 13 = c + 1
  BY <1>1, <1>2
<1>4. ClosingLight(s) <= ClosingLight(r)
  <2>1. PICK b : b = r.b8
    OBVIOUS
  <2>2. PICK x : x = -b * c
    OBVIOUS
  <2>3. PICK y : y = -b * (c + 1)
    OBVIOUS
  <2>4. b \in Nat /\ x \in Int /\ y \in Int /\ y <= x
    <3>1. b \in Nat /\ c \in Int
      BY <1>1, <1>3, <2>1
    <3>2. -b * (c + 1) = -b * c - b
      BY <3>1
    <3> QED BY <2>2, <2>3, <3>1, <3>2
  <2>5. Div(x) \in Int /\ Div(y) \in Int /\ Div(y) <= Div(x)
    BY <2>4, DivMono
  <2>6. /\ ClosingLight(r) = LET l == 2 * (b + Div(x)) IN IF l < 193 THEN l ELSE 192
        /\ ClosingLight(s) = LET l == 2 * (b + Div(y)) IN IF l < 193 THEN l ELSE 192
    BY <1>1, <1>2, <1>3, <2>1, <2>2, <2>3 DEF ClosingLight
  <2> QED BY <2>4, <2>5, <2>6
<1>5. CloseHeight(s) <= CloseHeight(r)
  <2>1. PICK k : k = H6 \div 2
    OBVIOUS
  <2>2. k \in Nat
    BY <2>1, MenuAssumption
  <2>3. PICK x : x = k * c
    OBVIOUS
  <2>4. PICK y : y = k * (c + 1)
    OBVIOUS
  <2>5. x \in Int /\ y \in Int /\ x <= y
    <3>1. k * (c + 1) = k * c + k /\ c \in Int
      BY <1>3, <2>2
    <3> QED BY <2>2, <2>3, <2>4, <3>1
  <2>6. Div(x) \in Int /\ Div(y) \in Int /\ Div(x) <= Div(y)
    BY <2>5, DivMono
  <2>7. CloseHeight(r) = 2 * (k - Div(x)) /\ CloseHeight(s) = 2 * (k - Div(y))
    BY <1>2, <1>3, <2>1, <2>3, <2>4 DEF CloseHeight
  <2> QED BY <2>2, <2>6, <2>7
<1> QED BY <1>4, <1>5

LEMMA BumpFades ==
  H6 >= 0 /\ MenuInv /\ CounterBump =>
       /\ Opening(rec) /\ FitsByte(rec) =>
            /\ Byte(Lit(rec')) >= Byte(Lit(rec))
            /\ Byte(HalfLit(rec')) >= Byte(HalfLit(rec))
            /\ Byte(Rest(rec')) <= Byte(Rest(rec))
       /\ rec.cnt < -2 => ClosingLight(rec') <= ClosingLight(rec)
       /\ rec.cnt \in -13..-3 => CloseHeight(rec') <= CloseHeight(rec)
<1> SUFFICES ASSUME H6 >= 0, MenuInv, CounterBump
             PROVE  /\ Opening(rec) /\ FitsByte(rec) =>
                         /\ Byte(Lit(rec')) >= Byte(Lit(rec))
                         /\ Byte(HalfLit(rec')) >= Byte(HalfLit(rec))
                         /\ Byte(Rest(rec')) <= Byte(Rest(rec))
                    /\ rec.cnt < -2 => ClosingLight(rec') <= ClosingLight(rec)
                    /\ rec.cnt \in -13..-3 => CloseHeight(rec') <= CloseHeight(rec)
  OBVIOUS
<1>1. PICK r \in Records : r = rec
  BY DEF MenuInv
<1>2. r.cnt \in Counters /\ Half \in Nat /\ Half > 13
  BY MenuAssumption DEF Records
<1>3. r.cnt < -2 \/ r.cnt \in 0 .. 11 => Bumped(r.cnt) = r.cnt + 1
  BY <1>2 DEF Bumped, Counters
<1>4. PICK s : s = rec'
  OBVIOUS
<1>5. s = [r EXCEPT !.cnt = Bumped(r.cnt)]
  BY <1>1, <1>4 DEF CounterBump
<1>6. s \in Records
  <2>1. Bumped(r.cnt) \in Counters
    BY <1>2, BumpCounts
  <2> QED BY <1>5, <2>1 DEF Records
<1>7. Opening(r) /\ FitsByte(r) =>
        /\ Byte(Lit(s)) >= Byte(Lit(r))
        /\ Byte(HalfLit(s)) >= Byte(HalfLit(r))
        /\ Byte(Rest(s)) <= Byte(Rest(r))
  <2>1. Opening(r) => r.cnt \in 0 .. 11
    BY DEF Opening
  <2> QED BY <1>3, <1>5, <1>6, <2>1, OpensUp
<1>8. r.cnt < -2 => ClosingLight(s) <= ClosingLight(r) /\ CloseHeight(s) <= CloseHeight(r)
  BY <1>3, <1>5, <1>6, ClosesDown
<1>9. r.cnt \in -13 .. -3 => r.cnt < -2
  OBVIOUS
<1> QED BY <1>1, <1>4, <1>7, <1>8, <1>9

(* Between two bumps the bytes of light an opening record draws never fall *)
(* if its full light fits a byte, signed scales included; a closing one's  *)
(* light never rises from any counter, nor does its cells' height when the *)
(* list block's is not negative.                                           *)
THEOREM FadesAreOneWay == ASSUME H6 >= 0 PROVE Spec => FadesOneWay
<1>1. MenuInv /\ [Next]_vars =>
        [CounterBump =>
           /\ Opening(rec) /\ FitsByte(rec) =>
                /\ Byte(Lit(rec')) >= Byte(Lit(rec))
                /\ Byte(HalfLit(rec')) >= Byte(HalfLit(rec))
                /\ Byte(Rest(rec')) <= Byte(Rest(rec))
           /\ rec.cnt < -2 => ClosingLight(rec') <= ClosingLight(rec)
           /\ rec.cnt \in -13..-3 => CloseHeight(rec') <= CloseHeight(rec)]_vars
  BY BumpFades
<1> QED BY <1>1, MenuInvariant, PTL DEF Spec, FadesOneWay
=============================================================================
