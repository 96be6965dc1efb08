------------------------------ MODULE BatchProofs ------------------------------
(***************************************************************************)
(* Proofs about parallel batch dispatch, for any number of workers, of     *)
(* batches, packets and calls.  After a join in which no job reports an    *)
(* overflow, each arena holds its own batch, however the workers           *)
(* interleaved: an arena is not protected, but whoever wrote behind his    *)
(* own is known by then.  So a call looks to the guest like the serial     *)
(* one, and stream, bump pointer and mail word agree after it, although    *)
(* the jobs of all workers move the one mail word meanwhile.               *)
(***************************************************************************)
EXTENDS BatchProps, FiniteSetTheorems, TLAPS

(* Whatever holds of a finite set when it holds of all smaller ones holds  *)
(* of every finite set: there is no least set it fails for.                *)
LEMMA LeastSet ==
  ASSUME NEW S, IsFiniteSet(S), NEW Bad \in SUBSET SUBSET S, Bad # {}
  PROVE  \E t \in Bad : \A u \in SUBSET t : u # t => u \notin Bad
<1>1. IsWellFoundedOn(StrictSubsetOrdering(S), SUBSET S)
  BY FS_StrictSubsetOrderingWellFounded, FS_FiniteSubsetsOfFinite
<1>2. PICK t \in Bad : \A u \in Bad : <<u, t>> \notin StrictSubsetOrdering(S)
  BY <1>1, WFMin
<1> QED BY <1>2 DEF StrictSubsetOrdering

-----------------------------------------------------------------------------
(* Sums.                                                                   *)
Pick(t) == CHOOSE x \in t : TRUE
Rest(t) == t \ {Pick(t)}
Summed(g, v, t) == IF t = {} THEN 0 ELSE v[Pick(t)] + g[Rest(t)]
Sums(g, v, S) == g \in [SUBSET S -> Int] /\ \A t \in SUBSET S : g[t] = Summed(g, v, t)

LEMMA PickIn == ASSUME NEW t, t # {} PROVE Pick(t) \in t /\ Rest(t) \in SUBSET t /\ Rest(t) # t
BY DEF Pick, Rest

LEMMA SumsAgree ==
  ASSUME NEW S, IsFiniteSet(S), NEW T, IsFiniteSet(T), NEW v, NEW g, NEW h,
         Sums(g, v, S), Sums(h, v, T), NEW s \in SUBSET (S \cap T)
  PROVE  g[s] = h[s]
<1> DEFINE Bad == {t \in SUBSET (S \cap T) : g[t] # h[t]}
<1>1. SUFFICES ASSUME Bad # {} PROVE FALSE
  OBVIOUS
<1>2. PICK t \in Bad : \A u \in SUBSET t : u # t => u \notin Bad
  <2>1. IsFiniteSet(S \cap T)
    BY FS_Intersection
  <2>2. Bad \in SUBSET SUBSET (S \cap T)
    OBVIOUS
  <2> HIDE DEF Bad
  <2> QED BY <1>1, <2>1, <2>2, LeastSet
<1>3. t # {}
  BY <1>2 DEF Sums, Summed
<1>4. g[Rest(t)] = h[Rest(t)]
  BY <1>2, <1>3, PickIn
<1> QED BY <1>2, <1>3, <1>4 DEF Sums, Summed

LEMMA SumsExist ==
  ASSUME NEW S, IsFiniteSet(S), NEW v, \A x \in S : v[x] \in Int
  PROVE  \E g : Sums(g, v, S)
<1> DEFINE Bad == {t \in SUBSET S : ~ \E g : Sums(g, v, t)}
<1>1. SUFFICES ASSUME Bad # {} PROVE FALSE
  OBVIOUS
<1>2. PICK t \in Bad : \A u \in SUBSET t : u # t => u \notin Bad
  <2>1. Bad \in SUBSET SUBSET S
    OBVIOUS
  <2> HIDE DEF Bad
  <2> QED BY <1>1, <2>1, LeastSet
<1> DEFINE G(u) == CHOOSE g : Sums(g, v, u)
           f == [u \in SUBSET t |-> IF u = {} THEN 0 ELSE v[Pick(u)] + G(Rest(u))[Rest(u)]]
<1>3. ASSUME NEW u \in SUBSET t, u # t
      PROVE  Sums(G(u), v, u)
  <2>1. \E g : Sums(g, v, u)
    BY <1>2, <1>3
  <2> QED BY <2>1
<1>4. ASSUME NEW u \in SUBSET t, u # t
      PROVE  G(u)[u] \in Int /\ f[u] = G(u)[u]
  <2>1. Sums(G(u), v, u)
    BY <1>3, <1>4
  <2> HIDE DEF G
  <2>2. G(u)[u] = Summed(G(u), v, u) /\ G(u)[u] \in Int
    BY <2>1 DEF Sums
  <2>3. ASSUME u # {} PROVE G(u)[Rest(u)] = G(Rest(u))[Rest(u)]
    <3>1. Rest(u) \in SUBSET t /\ Rest(u) # t /\ Rest(u) \in SUBSET u
      BY <1>4, <2>3, PickIn
    <3>2. Sums(G(Rest(u)), v, Rest(u))
      BY <1>3, <3>1 DEF G
    <3>3. IsFiniteSet(u) /\ IsFiniteSet(Rest(u))
      BY <1>2, <3>1, FS_Subset
    <3>4. Rest(u) \in SUBSET (u \cap Rest(u))
      BY <3>1
    <3> QED BY <2>1, <3>2, <3>3, <3>4, SumsAgree
  <2> QED BY <2>2, <2>3 DEF Summed
<1>5. ASSUME NEW u \in SUBSET t
      PROVE  f[u] \in Int /\ f[u] = Summed(f, v, u)
  <2>1. CASE u = {}
    BY <2>1 DEF Summed
  <2>2. CASE u # {}
    <3>1. Pick(u) \in u /\ Rest(u) \in SUBSET t /\ Rest(u) # t
      BY <2>2, PickIn
    <3>2. G(Rest(u))[Rest(u)] \in Int /\ f[Rest(u)] = G(Rest(u))[Rest(u)]
      BY <1>4, <3>1
    <3>3. v[Pick(u)] \in Int
      BY <1>2, <3>1
    <3> HIDE DEF G
    <3>4. f[u] = v[Pick(u)] + G(Rest(u))[Rest(u)]
      BY <2>2
    <3> HIDE DEF f
    <3> QED BY <2>2, <3>2, <3>3, <3>4 DEF Summed
  <2> QED BY <2>1, <2>2
<1>6. Sums(f, v, t)
  <2>1. DOMAIN f = SUBSET t /\ f = [u \in SUBSET t |-> f[u]]
    BY DEF f
  <2> HIDE DEF f
  <2> QED BY <1>5, <2>1 DEF Sums
<1> QED BY <1>2, <1>6

LEMMA SumFound ==
  ASSUME NEW S, IsFiniteSet(S), NEW v, \A x \in S : v[x] \in Int
  PROVE  \E g : Sums(g, v, S) /\ SumFunctionOnSet(v, S) = g[S]
<1> DEFINE Eq(g) == g = [t \in SUBSET S |-> Summed(g, v, t)]
<1>1. SumFunctionOnSet(v, S) = (CHOOSE g : Eq(g))[S]
  BY DEF SumFunctionOnSet, FoldFunctionOnSet, MapThenFoldSet, Summed, Rest, Pick
<1>2. PICK g : Sums(g, v, S)
  BY SumsExist
<1>3. Eq(g)
  BY <1>2 DEF Sums
<1>4. Eq(CHOOSE h : Eq(h))
  BY <1>3
<1> DEFINE h == CHOOSE h : Eq(h)
<1>5. h = [t \in SUBSET S |-> Summed(h, v, t)]
  BY <1>4
<1> HIDE DEF h
<1> DEFINE Bad == {t \in SUBSET S : h[t] \notin Int}
<1>6. Bad = {}
  <2>1. SUFFICES ASSUME Bad # {} PROVE FALSE
    OBVIOUS
  <2>2. PICK t \in Bad : \A u \in SUBSET t : u # t => u \notin Bad
    <3>1. Bad \in SUBSET SUBSET S
      OBVIOUS
    <3> HIDE DEF Bad
    <3> QED BY <2>1, <3>1, LeastSet
  <2>3. h[t] = Summed(h, v, t)
    BY <1>5, <2>2
  <2>4. t # {}
    BY <2>2, <2>3 DEF Summed
  <2>5. Pick(t) \in S /\ Rest(t) \in SUBSET S /\ h[Rest(t)] \in Int
    BY <2>2, <2>4, PickIn
  <2> QED BY <2>2, <2>3, <2>4, <2>5 DEF Summed
<1>7. Sums(h, v, S)
  <2>1. h \in [SUBSET S -> Int]
    BY <1>5, <1>6
  <2>2. \A t \in SUBSET S : h[t] = Summed(h, v, t)
    BY <1>5
  <2> QED BY <2>1, <2>2 DEF Sums
<1> QED BY <1>1, <1>7 DEF h

LEMMA SumEmpty ==
  ASSUME NEW v PROVE SumFunctionOnSet(v, {}) = 0
<1>1. PICK g : Sums(g, v, {}) /\ SumFunctionOnSet(v, {}) = g[{}]
  BY SumFound, FS_EmptySet
<1> QED BY <1>1 DEF Sums, Summed

(* A sum is that of one term and the rest, whichever term is taken.        *)
LEMMA SumAdds ==
  ASSUME NEW S, IsFiniteSet(S), NEW v, \A x \in S : v[x] \in Int, NEW m \in S
  PROVE  /\ SumFunctionOnSet(v, S) \in Int
         /\ SumFunctionOnSet(v, S) = v[m] + SumFunctionOnSet(v, S \ {m})
<1>1. PICK g : Sums(g, v, S) /\ SumFunctionOnSet(v, S) = g[S]
  BY SumFound
<1> DEFINE Bad == {t \in SUBSET S : \E x \in t : g[t] # v[x] + g[t \ {x}]}
<1>2. Bad = {}
  <2>1. SUFFICES ASSUME Bad # {} PROVE FALSE
    OBVIOUS
  <2>2. PICK t \in Bad : \A u \in SUBSET t : u # t => u \notin Bad
    <3>1. Bad \in SUBSET SUBSET S
      OBVIOUS
    <3> HIDE DEF Bad
    <3> QED BY <2>1, <3>1, LeastSet
  <2>3. PICK x \in t : g[t] # v[x] + g[t \ {x}]
    BY <2>2
  <2> DEFINE y == Pick(t)
             r == t \ {x}
             s == t \ {y}
             q == (t \ {y}) \ {x}
  <2>4. y \in t /\ g[t] = v[y] + g[s] /\ s = Rest(t)
    BY <1>1, <2>2, <2>3, PickIn DEF Sums, Summed, Rest
  <2>5. x # y
    BY <2>3, <2>4
  <2>6. g[s] = v[x] + g[q]
    <3>1. s \in SUBSET t /\ s # t /\ x \in s /\ s \in SUBSET S
      BY <2>2, <2>3, <2>4, <2>5
    <3> QED BY <2>2, <3>1
  <2>7. g[r] = v[y] + g[q]
    <3>1. r \in SUBSET t /\ r # t /\ y \in r /\ r \in SUBSET S /\ q = r \ {y}
      BY <2>2, <2>3, <2>4, <2>5
    <3> QED BY <2>2, <3>1
  <2>8. v[x] \in Int /\ v[y] \in Int /\ g[q] \in Int
    <3>1. q \in SUBSET S /\ x \in S /\ y \in S
      BY <2>2, <2>3, <2>4
    <3> QED BY <1>1, <3>1 DEF Sums
  <2> HIDE DEF r, s, q, y
  <2>9. g[t] = v[x] + g[r]
    BY <2>4, <2>6, <2>7, <2>8
  <2> QED BY <2>3, <2>9 DEF r
<1>3. g[S] = v[m] + g[S \ {m}]
  BY <1>2
<1>4. PICK h : Sums(h, v, S \ {m}) /\ SumFunctionOnSet(v, S \ {m}) = h[S \ {m}]
  <2>1. IsFiniteSet(S \ {m})
    BY FS_Subset
  <2> QED BY <2>1, SumFound
<1>5. g[S \ {m}] = h[S \ {m}]
  <2>1. IsFiniteSet(S \ {m})
    BY FS_Subset
  <2>2. S \ {m} \in SUBSET (S \cap (S \ {m}))
    OBVIOUS
  <2> QED BY <1>1, <1>4, <2>1, <2>2, SumsAgree
<1>6. g[S] \in Int
  BY <1>1 DEF Sums
<1> QED BY <1>1, <1>3, <1>4, <1>5, <1>6

LEMMA SumNat ==
  ASSUME NEW S, IsFiniteSet(S), NEW v, \A x \in S : v[x] \in Nat
  PROVE  SumFunctionOnSet(v, S) \in Nat
<1> DEFINE Bad == {t \in SUBSET S : SumFunctionOnSet(v, t) \notin Nat}
<1>1. SUFFICES ASSUME Bad # {} PROVE FALSE
  OBVIOUS
<1>2. PICK t \in Bad : \A u \in SUBSET t : u # t => u \notin Bad
  <2>1. Bad \in SUBSET SUBSET S
    OBVIOUS
  <2> HIDE DEF Bad
  <2> QED BY <1>1, <2>1, LeastSet
<1>3. PICK m : m \in t
  <2>1. SumFunctionOnSet(v, {}) = 0
    BY SumEmpty
  <2>2. t # {}
    BY <1>2, <2>1
  <2> QED BY <2>2
<1>4. SumFunctionOnSet(v, t) = v[m] + SumFunctionOnSet(v, t \ {m})
  <2>1. IsFiniteSet(t) /\ \A x \in t : v[x] \in Int
    BY <1>2, FS_Subset
  <2> QED BY <1>3, <2>1, SumAdds
<1>5. SumFunctionOnSet(v, t \ {m}) \in Nat
  BY <1>2, <1>3
<1> QED BY <1>2, <1>3, <1>4, <1>5

(* What holds of 1 and is handed on from each number to the next holds of  *)
(* all up to n.                                                            *)
LEMMA StepByStep ==
  ASSUME NEW n \in Nat, NEW Good \in SUBSET (1 .. n), n > 0 => 1 \in Good,
         \A i \in 1 .. n - 1 : i \in Good => i + 1 \in Good
  PROVE  Good = 1 .. n
<1> DEFINE Bad == {t \in SUBSET (1 .. n) : \E i \in 1 .. n : t = 1 .. i /\ i \notin Good}
<1>1. SUFFICES ASSUME Bad # {} PROVE FALSE
  <2>1. ASSUME NEW i \in 1 .. n, i \notin Good PROVE Bad # {}
    <3>1. 1 .. i \in SUBSET (1 .. n)
      OBVIOUS
    <3>2. 1 .. i \in Bad
      BY <2>1, <3>1
    <3> QED BY <3>2
  <2> HIDE DEF Bad
  <2> QED BY <2>1
<1>2. PICK t \in Bad : \A u \in SUBSET t : u # t => u \notin Bad
  <2>1. Bad \in SUBSET SUBSET (1 .. n) /\ IsFiniteSet(1 .. n)
    BY FS_Interval
  <2> HIDE DEF Bad
  <2> QED BY <1>1, <2>1, LeastSet
<1>3. PICK i \in 1 .. n : t = 1 .. i /\ i \notin Good
  BY <1>2
<1>4. i # 1 /\ i - 1 \in 1 .. n - 1
  BY <1>3
<1>5. i - 1 \notin Good
  BY <1>3, <1>4
<1>6. 1 .. i - 1 \in SUBSET t /\ 1 .. i - 1 # t /\ i - 1 \in 1 .. n /\ 1 .. i - 1 \in SUBSET (1 .. n)
  <2>1. i \in 1 .. i /\ i \notin 1 .. i - 1
    BY <1>3
  <2> QED BY <1>3, <1>4, <2>1
<1>7. 1 .. i - 1 \in Bad
  BY <1>5, <1>6
<1> QED BY <1>2, <1>6, <1>7

-----------------------------------------------------------------------------
(* Flattening a sequence of sequences adds up their lengths.               *)
Flattens(g, s, n) ==
  g = [i \in 1 .. n |-> IF i = 1 THEN s[i] ELSE g[i - 1] \o s[i]]

LEMMA FlattenExists ==
  ASSUME NEW n \in Nat, NEW s
  PROVE  \E g : Flattens(g, s, n)
<1> DEFINE Good == {i \in 1 .. n : \E g : Flattens(g, s, i)}
<1>1. 1 \in 1 .. n => 1 \in Good
  <2>1. Flattens([i \in 1 .. 1 |-> s[i]], s, 1)
    BY DEF Flattens
  <2> QED BY <2>1
<1>2. ASSUME NEW k \in 1 .. n - 1, k \in Good PROVE k + 1 \in Good
  <2>1. PICK g : Flattens(g, s, k)
    BY <1>2
  <2> DEFINE h == [i \in 1 .. k + 1 |-> IF i = k + 1 THEN g[k] \o s[k + 1] ELSE g[i]]
  <2>2. ASSUME NEW i \in 1 .. k + 1
        PROVE  h[i] = IF i = 1 THEN s[i] ELSE h[i - 1] \o s[i]
    <3>1. CASE i = k + 1
      <4>1. i # 1 /\ i - 1 = k /\ i - 1 \in 1 .. k + 1 /\ k # k + 1
        BY <3>1
      <4>2. h[i - 1] = g[k]
        BY <4>1
      <4> QED BY <3>1, <4>1, <4>2
    <3>2. CASE i # k + 1
      <4>1. i \in 1 .. k /\ h[i] = g[i]
        BY <3>2
      <4>2. g[i] = IF i = 1 THEN s[i] ELSE g[i - 1] \o s[i]
        BY <2>1, <4>1 DEF Flattens
      <4>3. i # 1 => h[i - 1] = g[i - 1]
        BY <4>1
      <4> QED BY <4>1, <4>2, <4>3
    <3> QED BY <3>1, <3>2
  <2>3. Flattens(h, s, k + 1)
    <3>1. h = [i \in 1 .. k + 1 |-> h[i]]
      OBVIOUS
    <3> HIDE DEF h
    <3>2. h = [i \in 1 .. k + 1 |-> IF i = 1 THEN s[i] ELSE h[i - 1] \o s[i]]
      BY <2>2, <3>1
    <3> QED BY <3>2 DEF Flattens
  <2>4. k + 1 \in 1 .. n
    OBVIOUS
  <2> QED BY <2>3, <2>4
<1>3. n > 0 => n \in Good
  <2>1. Good \in SUBSET (1 .. n)
    OBVIOUS
  <2> HIDE DEF Good
  <2>2. Good = 1 .. n
    BY <1>1, <1>2, <2>1, StepByStep
  <2> QED BY <2>2
<1>4. n = 0 => Flattens(<< >>, s, n)
  BY DEF Flattens
<1> QED BY <1>3, <1>4

LEMMA FlattenFound ==
  ASSUME NEW n \in Nat \ {0}, NEW S, NEW s \in [1 .. n -> Seq(S)]
  PROVE  \E g : Flattens(g, s, n) /\ FlattenSeq(s) = g[n]
<1>1. Len(s) = n
  OBVIOUS
<1> DEFINE Eq(g) == Flattens(g, s, Len(s))
<1>2. FlattenSeq(s) = (CHOOSE g : Eq(g))[Len(s)]
  BY <1>1 DEF FlattenSeq, Flattens
<1>3. \E g : Eq(g)
  BY <1>1, FlattenExists
<1>4. Eq(CHOOSE g : Eq(g))
  BY <1>3
<1> QED BY <1>1, <1>2, <1>4

LEMMA FlatLength ==
  ASSUME NEW n \in Nat, NEW S, NEW s \in [1 .. n -> Seq(S)]
  PROVE  /\ FlattenSeq(s) \in Seq(S)
         /\ Len(FlattenSeq(s)) = SumFunction([i \in 1 .. n |-> Len(s[i])])
<1> DEFINE v == [i \in 1 .. n |-> Len(s[i])]
           Up(i) == SumFunctionOnSet(v, 1 .. i)
<1>0. \A i \in 1 .. n : v[i] \in Nat
  OBVIOUS
<1>1. SumFunction(v) = Up(n)
  BY DEF SumFunction
<1>2. CASE n = 0
  <2>1. FlattenSeq(s) = << >>
    BY <1>2 DEF FlattenSeq
  <2>2. 1 .. n = {}
    BY <1>2
  <2>3. SumFunction(v) = 0
    BY <1>1, <2>2, SumEmpty
  <2> QED BY <2>1, <2>3
<1>3. CASE n # 0
  <2>1. PICK g : Flattens(g, s, n) /\ FlattenSeq(s) = g[n]
    BY <1>3, FlattenFound
  <2> DEFINE Good == {i \in 1 .. n : g[i] \in Seq(S) /\ Len(g[i]) = Up(i)}
  <2>2. ASSUME NEW i \in 1 .. n
        PROVE  Up(i) = v[i] + Up(i - 1)
    <3>1. i \in 1 .. i /\ (1 .. i) \ {i} = 1 .. i - 1
      OBVIOUS
    <3>2. IsFiniteSet(1 .. i)
      BY FS_Interval
    <3>3. \A x \in 1 .. i : v[x] \in Int
      <4>1. \A x \in 1 .. i : x \in 1 .. n
        OBVIOUS
      <4> HIDE DEF v
      <4> QED BY <1>0, <4>1
    <3> HIDE DEF v
    <3>4. SumFunctionOnSet(v, 1 .. i) = v[i] + SumFunctionOnSet(v, (1 .. i) \ {i})
      BY <3>1, <3>2, <3>3, SumAdds
    <3> QED BY <3>1, <3>4
  <2>3. 1 \in Good
    <3>1. 1 .. 1 - 1 = {} /\ 1 \in 1 .. n
      BY <1>3
    <3>2. Up(1) = v[1]
      <4>1. Up(1) = v[1] + Up(1 - 1)
        BY <2>2, <3>1
      <4>2. Up(1 - 1) = 0
        BY <3>1, SumEmpty
      <4>3. v[1] \in Nat
        BY <1>0, <3>1
      <4> HIDE DEF v, Up
      <4> QED BY <4>1, <4>2, <4>3
    <3>3. g[1] = s[1]
      BY <2>1, <3>1 DEF Flattens
    <3> QED BY <3>1, <3>2, <3>3
  <2>4. ASSUME NEW i \in 1 .. n - 1, i \in Good PROVE i + 1 \in Good
    <3>1. i + 1 \in 1 .. n /\ i + 1 # 1 /\ (i + 1) - 1 = i
      OBVIOUS
    <3>2. g[i + 1] = g[i] \o s[i + 1]
      BY <2>1, <3>1 DEF Flattens
    <3>3. Up(i + 1) = v[i + 1] + Up(i)
      BY <2>2, <3>1
    <3>4. v[i + 1] = Len(s[i + 1]) /\ s[i + 1] \in Seq(S)
      BY <3>1
    <3>5. g[i] \in Seq(S) /\ Len(g[i]) = Up(i)
      BY <2>4
    <3> HIDE DEF v, Up
    <3>6. g[i + 1] \in Seq(S) /\ Len(g[i + 1]) = Len(g[i]) + Len(s[i + 1])
      <4> PICK a, b : a = g[i] /\ b = s[i + 1]
        OBVIOUS
      <4>1. a \in Seq(S) /\ b \in Seq(S) /\ g[i + 1] = a \o b
        BY <3>2, <3>4, <3>5
      <4>2. a \o b \in Seq(S) /\ Len(a \o b) = Len(a) + Len(b)
        BY <4>1
      <4> QED BY <4>1, <4>2
    <3>7. Len(g[i]) \in Nat /\ Len(s[i + 1]) \in Nat
      BY <3>4, <3>5
    <3> QED BY <3>1, <3>3, <3>4, <3>5, <3>6, <3>7
  <2>5. n \in Good
    <3>1. Good \in SUBSET (1 .. n)
      OBVIOUS
    <3> HIDE DEF Good
    <3>2. Good = 1 .. n
      BY <2>3, <2>4, <3>1, StepByStep
    <3> QED BY <1>3, <3>2
  <2> QED BY <1>1, <2>1, <2>5
<1> QED BY <1>2, <1>3

-----------------------------------------------------------------------------
(* Job i has written behind its arena: it says so, or it runs still.       *)
Spilt(i) == job[i].over \/ \E w \in Workers : on[w] = i /\ at[w] > ArenaSize

(* Job i has written its packet k.                                         *)
Wrote(i, k) == \/ job[i].done /\ k <= job[i].used
               \/ \E w \in Workers : on[w] = i /\ k <= at[w]

Threads ==
  /\ N \in Nat /\ N <= LastSlot /\ claimed \in 0 .. N
  /\ on \in [Workers -> 0 .. N] /\ at \in [Workers -> Nat]
  /\ \A w \in Workers : on[w] # 0 =>
       pc = "run" /\ on[w] <= claimed /\ ~job[on[w]].done
  /\ \A v, w \in Workers : on[v] = on[w] /\ on[v] # 0 => v = w
  /\ pc = "join" => AllDone

Reports ==
  /\ job = [i \in 1 .. LastSlot |-> job[i]]
  /\ \A i \in 1 .. N : i > claimed => job[i] = NoJob
  /\ \A i \in 1 .. N : job[i].over => job[i].done
  /\ \A i \in 1 .. N : job[i].done /\ ~job[i].over =>
       /\ job[i].used \in Nat /\ job[i].used <= ArenaSize
       /\ job[i].used = work[i].does.len /\ job[i].cycles = work[i].does.cycles
       /\ job[i].box = Leaves(work[i])

Holding ==
  /\ pool = [c \in Cells |-> pool[c]]
  /\ (\A i \in 1 .. N : ~Spilt(i)) =>
       \A i \in 1 .. N, k \in 1 .. ArenaSize :
         Wrote(i, k) => pool[Cell(i, k)] = Packet(work[i], k)

BatchInv == Threads /\ Reports /\ Holding

-----------------------------------------------------------------------------
(* The arenas lie apart, and in the pool.                                  *)
LEMMA Products ==
  ASSUME NEW a \in Nat, NEW m \in Nat, NEW n \in Nat, m < n
  PROVE  m * a + a <= n * a /\ m * a \in Nat
<1>1. (m + 1) * a = m * a + a
  OBVIOUS
<1>2. PICK d \in Nat : n = (m + 1) + d
  <2>1. n - (m + 1) \in Nat /\ n = (m + 1) + (n - (m + 1))
    OBVIOUS
  <2> QED BY <2>1
<1>3. n * a = (m + 1) * a + d * a
  BY <1>2
<1>4. d * a \in Nat /\ m * a \in Nat /\ n * a \in Nat
  OBVIOUS
<1> QED BY <1>1, <1>3, <1>4

LEMMA CellsApart ==
  ASSUME NEW i \in Nat \ {0}, NEW j \in Nat \ {0},
         NEW k \in 1 .. ArenaSize, NEW l \in 1 .. ArenaSize, Cell(i, k) = Cell(j, l)
  PROVE  i = j /\ k = l
<1>1. ArenaSize \in Nat
  BY SizesAssumption
<1> DEFINE x == (i - 1) * ArenaSize
           y == (j - 1) * ArenaSize
<1>2. x + k = y + l
  BY DEF Cell
<1>3. x \in Nat /\ y \in Nat
  BY <1>1
<1>4. i < j => x + ArenaSize <= y
  BY <1>1, Products
<1>5. j < i => y + ArenaSize <= x
  BY <1>1, Products
<1>6. i = j => x = y
  OBVIOUS
<1> HIDE DEF x, y
<1> QED BY <1>1, <1>2, <1>3, <1>4, <1>5, <1>6

LEMMA CellInPool ==
  ASSUME NEW i \in 1 .. LastSlot, NEW k \in 1 .. ArenaSize
  PROVE  Cell(i, k) \in Cells
<1>1. ArenaSize \in Nat /\ LastSlot \in Nat
  BY SizesAssumption, SlotsAssumption
<1> DEFINE x == (i - 1) * ArenaSize
           y == ((LastSlot + 2) - 1) * ArenaSize
<1>2. x \in Nat /\ y \in Nat /\ x + ArenaSize <= y
  <2>1. i - 1 < (LastSlot + 2) - 1 /\ i - 1 \in Nat /\ (LastSlot + 2) - 1 \in Nat
    BY <1>1
  <2> QED BY <1>1, <2>1, Products
<1>3. Cell(i, k) = x + k /\ Cells = 1 .. y + 0
  <2>1. Cell(i, k) = x + k
    BY DEF Cell
  <2>2. Cells = 1 .. y + 0
    BY DEF Cell, Cells
  <2> QED BY <2>1, <2>2
<1> HIDE DEF x, y
<1> QED BY <1>1, <1>2, <1>3

LEMMA NoJobSays == ~NoJob.done /\ ~NoJob.over
BY DEF NoJob

LEMMA CallStep ==
  ASSUME BatchInv, Call
  PROVE  BatchInv'
<1>1. PICK mask \in SUBSET (Slots \ {LastSlot}), scene \in [Slots -> Behaviours] :
        \E slots \in Ascending(mask \cup {LastSlot}) :
          work' = [i \in DOMAIN slots |->
            [frame |-> calls + 1, slot |-> slots[i], does |-> scene[slots[i]]]]
  BY DEF Call
<1> DEFINE S == mask \cup {LastSlot}
<1>2. Cardinality(S) \in Nat /\ Cardinality(S) <= LastSlot
  <2>1. LastSlot \in Nat \ {0} /\ S \in SUBSET (1 .. LastSlot)
    BY SlotsAssumption DEF Slots
  <2>2. IsFiniteSet(1 .. LastSlot) /\ Cardinality(1 .. LastSlot) = LastSlot
    BY <2>1, FS_Interval
  <2>3. IsFiniteSet(S) /\ Cardinality(S) <= Cardinality(1 .. LastSlot)
    BY <2>1, <2>2, FS_Subset
  <2> QED BY <2>2, <2>3, FS_CardinalityType
<1>3. N' \in Nat /\ N' <= LastSlot
  <2>1. PICK slots \in Ascending(S) : work' = [i \in DOMAIN slots |->
            [frame |-> calls + 1, slot |-> slots[i], does |-> scene[slots[i]]]]
    BY <1>1
  <2>2. DOMAIN slots = 1 .. Cardinality(S)
    BY DEF Ascending
  <2> HIDE DEF S
  <2>3. N' = Cardinality(S)
    BY <1>2, <2>1, <2>2 DEF N
  <2> QED BY <1>2, <2>3
<1>4. pc = "idle" /\ pc' = "gate" /\ claimed' = 0 /\ UNCHANGED <<pool, on, at>>
      /\ job' = [i \in 1 .. LastSlot |-> NoJob]
  BY DEF Call
<1>5. \A w \in Workers : on[w] = 0
  BY <1>4 DEF BatchInv, Threads
<1>6. Threads'
  <2>1. on' \in [Workers -> 0 .. N']
    BY <1>3, <1>4, <1>5 DEF BatchInv, Threads
  <2> QED BY <1>3, <1>4, <1>5, <2>1 DEF BatchInv, Threads
<1>7. \A i \in 1 .. LastSlot : job'[i] = NoJob
  BY <1>4
<1>8. \A i \in 1 .. N' : job'[i] = NoJob
  BY <1>3, <1>7, SlotsAssumption
<1>9. Reports'
  <2>1. job' = [i \in 1 .. LastSlot |-> job'[i]]
    BY <1>4
  <2>2. \A i \in 1 .. N' : ~job'[i].done /\ ~job'[i].over
    BY <1>8, NoJobSays
  <2> QED BY <1>8, <2>1, <2>2 DEF Reports
<1>10. Holding'
  <2>1. \A i \in 1 .. N' : \A k \in 1 .. ArenaSize : ~Wrote(i, k)'
    <3>1. \A i \in 1 .. N' : ~job'[i].done /\ i # 0
      BY <1>3, <1>8, NoJobSays
    <3>2. \A w \in Workers : on'[w] = 0
      BY <1>4, <1>5
    <3> QED BY <3>1, <3>2 DEF Wrote
  <2> QED BY <1>4, <2>1 DEF Holding, BatchInv
<1> QED BY <1>6, <1>9, <1>10 DEF BatchInv

(* A step that leaves the team alone, the main thread behind the run.      *)
LEMMA MainStep ==
  ASSUME BatchInv, UNCHANGED <<work, team>>, pc = "run" => pc' = "run" \/ AllDone,
         pc' = "join" => pc = "join" \/ AllDone
  PROVE  BatchInv'
<1>1. UNCHANGED <<pool, claimed, job, on, at>> /\ N' = N
  BY DEF team, N
<1>2. pc = "run" /\ pc' # "run" => \A w \in Workers : on[w] = 0
  <2>1. \A w \in Workers : on[w] # 0 => on[w] \in 1 .. N
    BY DEF BatchInv, Threads
  <2> QED BY <2>1 DEF BatchInv, Threads, AllDone
<1>3. Threads'
  BY <1>1, <1>2 DEF BatchInv, Threads, AllDone
<1>4. Reports' /\ Holding'
  BY <1>1 DEF BatchInv, Reports, Holding, Spilt, Wrote
<1> QED BY <1>3, <1>4 DEF BatchInv

LEMMA ClaimStep ==
  ASSUME BatchInv, NEW w \in Workers, Claim(w)
  PROVE  BatchInv'
<1>0. PICK c : c = claimed + 1
  OBVIOUS
<1>1. /\ pc = "run" /\ on[w] = 0 /\ claimed < N /\ claimed' = c
      /\ UNCHANGED <<pc, work, pool>> /\ N' = N
  BY <1>0 DEF Claim, N
<1>2. c \in 1 .. N /\ c \in 1 .. LastSlot /\ c > claimed /\ claimed \in Nat /\ N \in Nat
      /\ LastSlot \in Nat
  BY <1>0, <1>1, SlotsAssumption DEF BatchInv, Threads
<1>3. job[c] = NoJob /\ \A v \in Workers : on[v] # c
  <2>1. \A v \in Workers : on[v] # 0 => on[v] <= claimed /\ on[v] \in 0 .. N
    BY DEF BatchInv, Threads
  <2>2. \A i \in 1 .. N : i > claimed => job[i] = NoJob
    BY DEF BatchInv, Reports
  <2> QED BY <1>2, <2>1, <2>2
<1>4. CASE on' = [on EXCEPT ![w] = c] /\ at' = [at EXCEPT ![w] = 0] /\ UNCHANGED job
  <2>1. /\ on'[w] = c /\ at'[w] = 0
        /\ \A v \in Workers : v # w => on'[v] = on[v] /\ at'[v] = at[v]
    BY <1>4 DEF BatchInv, Threads
  <2>2. Threads'
    <3>1. on' \in [Workers -> 0 .. N'] /\ at' \in [Workers -> Nat]
      BY <1>1, <1>2, <1>4 DEF BatchInv, Threads
    <3>2. \A v \in Workers : on'[v] # 0 => on'[v] <= c /\ ~job[on'[v]].done
      <4>1. \A v \in Workers : on[v] # 0 => on[v] <= claimed /\ ~job[on[v]].done /\ on[v] \in 0 .. N
        BY DEF BatchInv, Threads
      <4> QED BY <1>2, <1>3, <2>1, <4>1, NoJobSays, <1>0
    <3>3. \A u, v \in Workers : on'[u] = on'[v] /\ on'[u] # 0 => u = v
      BY <1>3, <2>1 DEF BatchInv, Threads
    <3> QED BY <1>1, <1>2, <1>4, <3>1, <3>2, <3>3 DEF BatchInv, Threads
  <2>3. Reports'
    <3>1. \A i \in 1 .. N : i > c => i > claimed
      BY <1>0, <1>2
    <3>2. /\ \A i \in 1 .. N : i > c => job'[i] = NoJob
          /\ job' = [i \in 1 .. LastSlot |-> job'[i]]
      BY <1>4, <3>1 DEF BatchInv, Reports
    <3> QED BY <1>1, <1>4, <3>2 DEF BatchInv, Reports
  <2>4. \A i \in 1 .. N : Spilt(i) => Spilt(i)'
    <3>1. \A v \in Workers, i \in 1 .. N : on[v] = i => v # w
      BY <1>1
    <3> QED BY <1>4, <2>1, <3>1 DEF Spilt
  <2>5. \A i \in 1 .. N, k \in 1 .. ArenaSize : Wrote(i, k)' => Wrote(i, k)
    <3>1. \A k \in 1 .. ArenaSize : ~(k <= at'[w])
      BY <2>1, SizesAssumption
    <3> QED BY <1>4, <2>1, <3>1 DEF Wrote
  <2>6. Holding'
    BY <1>1, <2>4, <2>5 DEF BatchInv, Holding
  <2> QED BY <2>2, <2>3, <2>6 DEF BatchInv
<1>5. CASE /\ job' = [job EXCEPT ![c].over = TRUE, ![c].done = TRUE]
           /\ UNCHANGED <<on, at>>
  <2>1. job'[c].over /\ \A i \in 1 .. LastSlot : i = c \/ job'[i] = job[i]
    <3>1. job'[c] = [job[c] EXCEPT !.over = TRUE, !.done = TRUE]
      BY <1>2, <1>5 DEF BatchInv, Reports
    <3>2. job'[c].over = TRUE
      BY <1>3, <3>1 DEF NoJob
    <3> QED BY <1>5, <3>2 DEF BatchInv, Reports
  <2>2. \A i \in 1 .. N : i \in 1 .. LastSlot
    BY <1>2 DEF BatchInv, Threads
  <2>3. Threads'
    <3>1. \A v \in Workers : on[v] # 0 => on[v] <= c /\ ~job'[on[v]].done
      <4>1. \A v \in Workers : on[v] # 0 =>
              on[v] <= claimed /\ ~job[on[v]].done /\ on[v] \in 1 .. N /\ on[v] # c
        BY <1>2, <1>3 DEF BatchInv, Threads
      <4> QED BY <1>2, <2>1, <2>2, <4>1, <1>0
    <3>2. claimed' \in 0 .. N' /\ on' \in [Workers -> 0 .. N'] /\ at' \in [Workers -> Nat]
      BY <1>1, <1>2, <1>5 DEF BatchInv, Threads
    <3>3. \A u, v \in Workers : on'[u] = on'[v] /\ on'[u] # 0 => u = v
      BY <1>5 DEF BatchInv, Threads
    <3>4. \A v \in Workers : on'[v] # 0 => on'[v] <= claimed' /\ ~job'[on'[v]].done
      BY <1>1, <1>5, <3>1
    <3>5. N' \in Nat /\ N' <= LastSlot /\ pc' = "run"
      BY <1>1 DEF BatchInv, Threads
    <3> QED BY <3>2, <3>3, <3>4, <3>5 DEF Threads
  <2>4. Reports'
    <3>1. job' = [i \in 1 .. LastSlot |-> job'[i]]
      BY <1>5 DEF BatchInv, Reports
    <3>2. \A i \in 1 .. N : i > c => job'[i] = NoJob
      <4>1. \A i \in 1 .. N : i > c => i > claimed /\ i # c
        BY <1>0, <1>2
      <4> QED BY <2>1, <2>2, <4>1 DEF BatchInv, Reports
    <3>3. \A i \in 1 .. N : job'[i].done /\ ~job'[i].over => i # c /\ job'[i] = job[i]
      BY <2>1, <2>2
    <3>4. \A i \in 1 .. N : job'[i].over => job'[i].done
      <4>1. job'[c].done
        <5>1. job'[c] = [job[c] EXCEPT !.over = TRUE, !.done = TRUE]
          BY <1>2, <1>5 DEF BatchInv, Reports
        <5>2. job'[c].done = TRUE
          BY <1>3, <5>1 DEF NoJob
        <5> QED BY <5>2
      <4> QED BY <2>1, <2>2, <4>1 DEF BatchInv, Reports
    <3> QED BY <1>1, <3>1, <3>2, <3>3, <3>4 DEF BatchInv, Reports
  <2>5. Holding'
    <3>1. Spilt(c)'
      BY <2>1 DEF Spilt
    <3> QED BY <1>1, <1>2, <3>1 DEF BatchInv, Holding
  <2> QED BY <2>3, <2>4, <2>5 DEF BatchInv
<1> QED BY <1>0, <1>1, <1>4, <1>5 DEF Claim

LEMMA EmitStep ==
  ASSUME BatchInv, NEW w \in Workers, Emit(w)
  PROVE  BatchInv'
<1> DEFINE j == on[w]
           n == at[w] + 1
           b == Packet(work[j], n)
<1>1. /\ j # 0 /\ pool' = [pool EXCEPT ![Cell(j, n)] = b] /\ at' = [at EXCEPT ![w] = n]
      /\ UNCHANGED <<pc, work, claimed, job, on>> /\ N' = N
  BY DEF Emit, N
<1>2. j \in 1 .. N /\ j \in 1 .. LastSlot /\ n \in Nat /\ n >= 1 /\ N \in Nat /\ LastSlot \in Nat
  BY <1>1, SlotsAssumption DEF BatchInv, Threads
<1>3. at'[w] = n /\ \A v \in Workers : v = w \/ at'[v] = at[v]
  BY <1>1 DEF BatchInv, Threads
<1>4. ArenaSize \in Nat
  BY SizesAssumption
<1>5. n = at[w] + 1
  OBVIOUS
<1> HIDE DEF n, b
<1>6. Threads'
  <2>1. at' \in [Workers -> Nat]
    BY <1>1, <1>2 DEF BatchInv, Threads
  <2> QED BY <1>1, <2>1 DEF BatchInv, Threads, AllDone
<1>7. Reports'
  BY <1>1 DEF BatchInv, Reports
<1>8. pool' = [c \in Cells |-> pool'[c]]
  BY <1>1 DEF BatchInv, Holding
<1>9. CASE n > ArenaSize
  <2>1. Spilt(j)'
    BY <1>1, <1>3, <1>9 DEF Spilt
  <2> QED BY <1>1, <1>2, <1>6, <1>7, <1>8, <2>1 DEF BatchInv, Holding
<1>10. CASE n <= ArenaSize
  <2>1. n \in 1 .. ArenaSize /\ Cell(j, n) \in Cells
    BY <1>2, <1>4, <1>10, CellInPool
  <2>2. pool'[Cell(j, n)] = b /\ \A c \in Cells : c = Cell(j, n) \/ pool'[c] = pool[c]
    BY <1>1, <2>1 DEF BatchInv, Holding
  <2>3. \A i \in 1 .. N : Spilt(i) => Spilt(i)'
    <3>1. at[w] <= ArenaSize /\ at[w] \in Nat
      BY <1>4, <1>5, <1>10 DEF BatchInv, Threads
    <3> QED BY <1>1, <1>3, <1>4, <3>1 DEF Spilt
  <2>4. ASSUME NEW i \in 1 .. N, NEW k \in 1 .. ArenaSize, Wrote(i, k)',
               \A m \in 1 .. N : ~Spilt(m)
        PROVE  pool'[Cell(i, k)] = Packet(work[i], k)
    <3>1. CASE i = j /\ k = n
      BY <2>2, <3>1 DEF b
    <3>2. CASE ~(i = j /\ k = n)
      <4>1. Cell(i, k) # Cell(j, n)
        BY <1>2, <2>1, <3>2, CellsApart
      <4>2. Cell(i, k) \in Cells
        <5>1. i \in 1 .. LastSlot
          BY <1>2 DEF BatchInv, Threads
        <5> QED BY <5>1, CellInPool
      <4>3. Wrote(i, k)
        <5>1. CASE job[i].done /\ k <= job[i].used
          BY <5>1 DEF Wrote
        <5>2. CASE \E v \in Workers : on[v] = i /\ k <= at'[v]
          <6>1. PICK v \in Workers : on[v] = i /\ k <= at'[v]
            BY <5>2
          <6>2. CASE v = w
            <7>1. k <= at[w]
              BY <1>3, <1>5, <3>2, <6>1, <6>2 DEF BatchInv, Threads
            <7> QED BY <6>1, <6>2, <7>1 DEF Wrote
          <6>3. CASE v # w
            BY <1>3, <6>1, <6>3 DEF Wrote
          <6> QED BY <6>2, <6>3
        <5> QED BY <1>1, <2>4, <5>1, <5>2 DEF Wrote
      <4>4. pool[Cell(i, k)] = Packet(work[i], k)
        BY <2>4, <4>3 DEF BatchInv, Holding
      <4> QED BY <2>2, <4>1, <4>2, <4>4
    <3> QED BY <3>1, <3>2
  <2>5. Holding'
    BY <1>1, <1>8, <2>3, <2>4 DEF Holding
  <2> QED BY <1>6, <1>7, <2>5 DEF BatchInv
<1> QED BY <1>2, <1>4, <1>9, <1>10

LEMMA FinishStep ==
  ASSUME BatchInv, NEW w \in Workers, Finish(w)
  PROVE  BatchInv'
<1> DEFINE j == on[w]
           d == work[j].does
           r == [done   |-> TRUE,
                 over   |-> Escaped(d, at[w]) \/ Runaway(d),
                 used   |-> IF Escaped(d, at[w]) THEN 0 ELSE at[w],
                 cycles |-> d.cycles,
                 box    |-> Leaves(work[j])]
<1>1. /\ j # 0 /\ Back(d, at[w]) /\ job' = [job EXCEPT ![j] = r]
      /\ on' = [on EXCEPT ![w] = 0]
      /\ UNCHANGED <<pc, work, pool, claimed, at>> /\ N' = N
  BY DEF Finish, N
<1>2. j \in 1 .. N /\ j \in 1 .. LastSlot /\ at[w] \in Nat /\ N \in Nat /\ LastSlot \in Nat
      /\ j <= claimed /\ claimed \in 0 .. N /\ ArenaSize \in Nat /\ pc = "run"
  BY <1>1, SlotsAssumption, SizesAssumption DEF BatchInv, Threads
<1>3. job'[j] = r /\ \A i \in 1 .. LastSlot : i = j \/ job'[i] = job[i]
  BY <1>1, <1>2 DEF BatchInv, Reports
<1>4. on'[w] = 0 /\ \A v \in Workers : v = w \/ on'[v] = on[v]
  BY <1>1 DEF BatchInv, Threads
<1>5. \A i \in 1 .. N : i \in 1 .. LastSlot
  BY <1>2 DEF BatchInv, Threads
<1>6. \A v \in Workers : on[v] = j => v = w
  BY <1>1 DEF BatchInv, Threads
<1>7. /\ r.over <=> Escaped(d, at[w]) \/ Runaway(d)
      /\ ~r.over => r.used = at[w] /\ at[w] <= ArenaSize /\ at[w] = d.len
      /\ r.cycles = d.cycles /\ r.box = Leaves(work[j])
      /\ at[w] > ArenaSize => r.over
  <2>1. ~Escaped(d, at[w]) => d.ok /\ at[w] <= ArenaSize /\ r.used = at[w]
    BY <1>2 DEF Escaped
  <2>2. d.ok => at[w] = d.len
    BY <1>1 DEF Back
  <2>3. at[w] > ArenaSize => Escaped(d, at[w])
    BY DEF Escaped
  <2>4. /\ r.over = (Escaped(d, at[w]) \/ Runaway(d))
        /\ r.cycles = d.cycles /\ r.box = Leaves(work[j])
    OBVIOUS
  <2> HIDE DEF r, d
  <2> QED BY <2>1, <2>2, <2>3, <2>4
<1>8. r.done
  OBVIOUS
<1> HIDE DEF r, d
<1>9. Threads'
  <2>1. on' \in [Workers -> 0 .. N']
    BY <1>1, <1>2 DEF BatchInv, Threads
  <2>2. \A v \in Workers : on'[v] # 0 => v # w /\ on'[v] = on[v] /\ on[v] # j
    BY <1>4, <1>6
  <2>3. \A v \in Workers : on[v] # 0 => on[v] \in 1 .. N
    BY <1>2 DEF BatchInv, Threads
  <2>4. \A v \in Workers : on'[v] # 0 => ~job'[on'[v]].done
    BY <1>3, <1>5, <2>2, <2>3 DEF BatchInv, Threads
  <2> QED BY <1>1, <1>2, <2>1, <2>2, <2>4 DEF BatchInv, Threads
<1>10. Reports'
  <2>1. job' = [i \in 1 .. LastSlot |-> job'[i]]
    BY <1>1 DEF BatchInv, Reports
  <2>2. \A i \in 1 .. N : i > claimed => i # j /\ job'[i] = NoJob
    <3>1. \A i \in 1 .. N : i > claimed => i # j
      BY <1>2
    <3>2. \A i \in 1 .. N : i > claimed => job[i] = NoJob
      BY DEF BatchInv, Reports
    <3> QED BY <1>3, <1>5, <3>1, <3>2
  <2>4. \A i \in 1 .. N : job'[i].over => job'[i].done
    BY <1>3, <1>5, <1>8 DEF BatchInv, Reports
  <2>3. ASSUME NEW i \in 1 .. N, job'[i].done, ~job'[i].over
        PROVE  job'[i].used \in Nat /\ job'[i].used <= ArenaSize
               /\ job'[i].used = work[i].does.len /\ job'[i].cycles = work[i].does.cycles
               /\ job'[i].box = Leaves(work[i])
    <3>1. CASE i = j
      BY <1>2, <1>3, <1>7, <2>3, <3>1 DEF d
    <3>2. CASE i # j
      BY <1>3, <1>5, <2>3, <3>2 DEF BatchInv, Reports
    <3> QED BY <3>1, <3>2
  <2> QED BY <1>1, <2>1, <2>2, <2>3, <2>4 DEF Reports
<1>11. \A i \in 1 .. N : Spilt(i) => Spilt(i)'
  <2>1. ASSUME NEW i \in 1 .. N, Spilt(i) PROVE Spilt(i)'
    <3>1. CASE i = j
      <4>1. ~job[j].done /\ (job[j].over \/ at[w] > ArenaSize)
        BY <1>1, <1>6, <2>1, <3>1 DEF BatchInv, Threads, Spilt
      <4>2. CASE at[w] > ArenaSize
        BY <1>3, <1>7, <3>1, <4>2 DEF Spilt
      <4>3. CASE job[j].over
        BY <1>2, <4>1, <4>3 DEF BatchInv, Reports
      <4> QED BY <4>1, <4>2, <4>3
    <3>2. CASE i # j
      BY <1>1, <1>3, <1>4, <1>5, <2>1, <3>2 DEF Spilt
    <3> QED BY <3>1, <3>2
  <2> QED BY <2>1
<1>12. \A i \in 1 .. N, k \in 1 .. ArenaSize :
         Wrote(i, k)' /\ ~Spilt(i)' => Wrote(i, k)
  <2>1. ASSUME NEW i \in 1 .. N, NEW k \in 1 .. ArenaSize, Wrote(i, k)', ~Spilt(i)'
        PROVE  Wrote(i, k)
    <3>1. CASE i = j
      <4>1. ~r.over
        BY <1>3, <2>1, <3>1 DEF Spilt
      <4>2. ~\E v \in Workers : on'[v] = i
        BY <1>2, <1>4, <1>6, <3>1
      <4>3. k <= at[w]
        BY <1>3, <1>7, <2>1, <3>1, <4>1, <4>2 DEF Wrote
      <4> QED BY <3>1, <4>3 DEF Wrote
    <3>2. CASE i # j
      BY <1>1, <1>2, <1>3, <1>4, <1>5, <2>1, <3>2 DEF Wrote
    <3> QED BY <3>1, <3>2
  <2> QED BY <2>1
<1>13. Holding'
  BY <1>1, <1>11, <1>12 DEF BatchInv, Holding
<1> QED BY <1>9, <1>10, <1>13 DEF BatchInv

LEMMA BatchStep == BatchInv /\ [Next]_vars => BatchInv'
<1> SUFFICES ASSUME BatchInv, [Next]_vars PROVE BatchInv'
  OBVIOUS
<1>1. CASE Call
  BY <1>1, CallStep
<1>2. CASE Irq
  BY <1>2, MainStep DEF Irq
<1>3. CASE Main
  <2>1. CASE GateShut \/ GateAlloc \/ Fallback
    BY <2>1, MainStep DEF GateShut, GateAlloc, Fallback, Serially
  <2>2. CASE GateOpen
    BY <2>2, MainStep DEF GateOpen
  <2>3. CASE Join
    BY <2>3, MainStep DEF Join
  <2>4. CASE SkipApply \/ Shadow \/ ShadowCrash \/ Serial
    BY <2>4, MainStep DEF SkipApply, Shadow, ShadowCrash, Serial
  <2>5. CASE Merge
    <3>1. pc = "join" /\ pc' \in {"serial", "shadow", "idle"} /\ UNCHANGED <<work, team>>
      BY <2>5 DEF Merge
    <3> QED BY <3>1, MainStep
  <2> QED BY <1>3, <2>1, <2>2, <2>3, <2>4, <2>5 DEF Main
<1>4. ASSUME NEW w \in Workers, Worker(w) PROVE BatchInv'
  BY <1>4, ClaimStep, EmitStep, FinishStep DEF Worker
<1>5. CASE UNCHANGED vars
  BY <1>5, MainStep DEF vars
<1> QED BY <1>1, <1>2, <1>3, <1>4, <1>5 DEF Next

LEMMA BatchInit == Init => BatchInv
<1> SUFFICES ASSUME Init PROVE BatchInv
  OBVIOUS
<1>1. N = 0 /\ LastSlot \in Nat
  BY SlotsAssumption DEF Init, N
<1>2. Threads
  BY <1>1 DEF Init, Threads
<1>3. Reports
  BY <1>1 DEF Init, Reports
<1>4. Holding
  BY <1>1 DEF Init, Holding
<1> QED BY <1>2, <1>3, <1>4 DEF BatchInv

LEMMA HoldingPrivate == BatchInv => ArenasPrivate
<1> SUFFICES ASSUME BatchInv, pc = "join", \A i \in 1 .. N : ~job[i].over,
                    NEW i \in 1 .. N
             PROVE  Arena(i) = [k \in 1 .. work[i].does.len |-> Packet(work[i], k)]
  BY DEF ArenasPrivate
<1>1. \A j \in 1 .. N : job[j].done
  BY DEF BatchInv, Threads, AllDone
<1>2. \A j \in 1 .. N : ~Spilt(j)
  BY DEF BatchInv, Threads, Spilt
<1>3. job[i].used = work[i].does.len /\ job[i].used \in Nat /\ job[i].used <= ArenaSize
  BY <1>1 DEF BatchInv, Reports
<1>4. \A k \in 1 .. job[i].used : k \in 1 .. ArenaSize /\ Wrote(i, k)
  BY <1>1, <1>3, SizesAssumption DEF Wrote
<1>5. \A k \in 1 .. job[i].used : pool[Cell(i, k)] = Packet(work[i], k)
  BY <1>2, <1>4 DEF BatchInv, Holding
<1> QED BY <1>3, <1>5 DEF Arena

(* When no job reports an overflow, each arena holds the packets of its    *)
(* own batch: gt2_job_fn looks at its range only when the batch is over,   *)
(* and by then an overrun has hit the neighbour (gt2_batch_jobs.c:706-     *)
(* 720); but the one who overran says so before the main thread merges.    *)
THEOREM ArenasKept == Spec => []ArenasPrivate
<1>1. Init => BatchInv
  BY BatchInit
<1>2. BatchInv /\ [Next]_vars => BatchInv'
  BY BatchStep
<1> QED BY <1>1, <1>2, HoldingPrivate, PTL DEF Spec

-----------------------------------------------------------------------------
(* Types, and what a call finds and leaves.                                *)
Batches == [frame : 1 .. MaxCalls, slot : Slots, does : Behaviours]
Packets == Nat \X Nat \X Nat
Reporting == [done : BOOLEAN, over : BOOLEAN, used : 0 .. ArenaSize, cycles : Nat, box : Marks]

(* The batches of a call, of which there is one at least.                  *)
Collected ==
  /\ \A i \in 2 .. N : work[i - 1].slot < work[i].slot
  /\ pc # "idle" => N >= 1 /\ calls >= 1

(* The end of the stream, as the bump pointer says, and the mail word too  *)
(* unless a job of this call, or one of a no-apply call, has moved it.     *)
Moving == {"run", "join", "serial"}
Stream ==
  /\ ram \in Seq(Packets) /\ bump = Len(ram)
  /\ mail = bump \/ mail < 0
  /\ mail # bump /\ ~mode.noapply =>
       pc \in Moving /\ \E i \in 1 .. N : work[i].does.len > 0

(* What the shadow call puts back, and the buffer it may lack.             *)
Parked ==
  /\ par \in [bump : Nat, mbox : Marks]
  /\ pc = "shadow" => mode.verify /\ par = [bump |-> bump, mbox |-> mbox]
  /\ buffers = "half" => calls >= 1 /\ (pc \notin {"idle", "serial"} => calls > 1)
  /\ pc = "crashed" => buffers = "half"

CallInv == TypeOK /\ Collected /\ Stream /\ Parked

LEMMA Sizes == /\ ArenaSize \in Nat \ {0} /\ CycleCap \in Nat /\ MinN \in Nat /\ Room \in Nat
               /\ MaxCalls \in Nat /\ LastSlot \in Nat \ {0}
BY SizesAssumption, SlotsAssumption

LEMMA OriginIsMark == Origin \in Marks
BY Sizes DEF Origin, Marks

LEMMA NoJobTyped == NoJob \in Reporting
<1>1. NoJob = [done |-> FALSE, over |-> FALSE, used |-> 0, cycles |-> 0, box |-> Origin]
  BY DEF NoJob
<1> QED BY <1>1, Sizes, OriginIsMark DEF Reporting

LEMMA BatchTyped ==
  ASSUME NEW b \in Batches
  PROVE  /\ Leaves(b) \in Marks /\ b.does.len \in 0 .. Longest /\ b.does.cycles \in Nat
         /\ b.does.ok \in BOOLEAN /\ b.slot \in Slots /\ b.frame \in 1 .. MaxCalls
         /\ \A k \in Nat : Packet(b, k) \in Packets
<1>1. b.does \in [len : 0 .. 2 * ArenaSize, cycles : Nat, ok : BOOLEAN]
  BY BehavioursAssumption DEF Batches
<1>2. b.slot \in 1 .. LastSlot /\ b.frame \in 1 .. MaxCalls
  BY DEF Batches, Slots
<1>3. b.slot \in 0 .. LastSlot /\ b.frame \in 0 .. MaxCalls /\ b.slot \in Nat /\ b.frame \in Nat
  BY <1>2, Sizes
<1> QED BY <1>1, <1>2, <1>3 DEF Leaves, Marks, Longest, Packet, Packets, Slots

LEMMA WorkTyped ==
  ASSUME TypeOK
  PROVE  /\ N \in Nat /\ N <= LastSlot /\ work \in [1 .. N -> Batches] /\ work \in Seq(Batches)
         /\ \A i \in 1 .. N : work[i] \in Batches /\ i \in 1 .. LastSlot
<1>1. work \in Seq(Batches) /\ N <= LastSlot
  BY DEF TypeOK, Batches
<1>2. N \in Nat /\ work \in [1 .. N -> Batches]
  BY <1>1 DEF N
<1> QED BY <1>1, <1>2, Sizes

LEMMA JobsTyped == ASSUME TypeOK PROVE job \in [1 .. LastSlot -> Reporting]
BY DEF TypeOK, Reporting

(* What the parent's two ways of rendering put into the stream.            *)
LEMMA TotalTyped ==
  ASSUME TypeOK, BatchInv, pc = "join", \A i \in 1 .. N : ~job[i].over
  PROVE  /\ \A i \in 1 .. N :
               /\ job[i].used = work[i].does.len /\ job[i].cycles = work[i].does.cycles
               /\ job[i].box = Leaves(work[i])
         /\ [i \in 1 .. N |-> Arena(i)]
              = [i \in 1 .. N |-> [k \in 1 .. work[i].does.len |-> Packet(work[i], k)]]
         /\ Total = SumFunction([i \in 1 .. N |-> work[i].does.len])
         /\ SumFunction([i \in 1 .. N |-> job[i].cycles])
              = SumFunction([i \in 1 .. N |-> work[i].does.cycles])
<1>1. \A i \in 1 .. N : job[i].done
  BY DEF BatchInv, Threads, AllDone
<1>2. \A i \in 1 .. N :
         /\ job[i].used = work[i].does.len /\ job[i].cycles = work[i].does.cycles
         /\ job[i].box = Leaves(work[i])
  BY <1>1 DEF BatchInv, Reports
<1>3. \A i \in 1 .. N : Arena(i) = [k \in 1 .. work[i].does.len |-> Packet(work[i], k)]
  BY HoldingPrivate DEF ArenasPrivate
<1>4. [i \in 1 .. N |-> job[i].used] = [i \in 1 .. N |-> work[i].does.len]
  BY <1>2
<1>5. [i \in 1 .. N |-> job[i].cycles] = [i \in 1 .. N |-> work[i].does.cycles]
  BY <1>2
<1> QED BY <1>2, <1>3, <1>4, <1>5 DEF Total

LEMMA SumIsNat ==
  ASSUME NEW n \in Nat, NEW v \in [1 .. n -> Nat]
  PROVE  SumFunction(v) \in Nat
<1>1. DOMAIN v = 1 .. n /\ \A x \in 1 .. n : v[x] \in Nat
  OBVIOUS
<1>2. IsFiniteSet(1 .. n)
  BY FS_Interval
<1>3. SumFunctionOnSet(v, 1 .. n) \in Nat
  BY <1>1, <1>2, SumNat
<1> QED BY <1>1, <1>3 DEF SumFunction

LEMMA StreamGrows ==
  ASSUME TypeOK
  PROVE  LET s == [i \in 1 .. N |-> [k \in 1 .. work[i].does.len |-> Packet(work[i], k)]]
         IN  /\ FlattenSeq(s) \in Seq(Packets)
             /\ Len(FlattenSeq(s)) = SumFunction([i \in 1 .. N |-> work[i].does.len])
             /\ SumFunction([i \in 1 .. N |-> work[i].does.len]) \in Nat
             /\ SumFunction([i \in 1 .. N |-> work[i].does.cycles]) \in Nat
<1> DEFINE s == [i \in 1 .. N |-> [k \in 1 .. work[i].does.len |-> Packet(work[i], k)]]
<1>1. N \in Nat /\ \A i \in 1 .. N : work[i] \in Batches
  BY WorkTyped
<1>2. ASSUME NEW i \in 1 .. N
      PROVE  s[i] \in Seq(Packets) /\ Len(s[i]) = work[i].does.len
  <2>1. work[i].does.len \in 0 .. Longest /\ \A k \in Nat : Packet(work[i], k) \in Packets
    BY <1>1, BatchTyped
  <2>2. work[i].does.len \in Nat
    BY <2>1, Sizes DEF Longest
  <2> QED BY <2>1, <2>2
<1>3. s \in [1 .. N -> Seq(Packets)] /\ [i \in 1 .. N |-> Len(s[i])] = [i \in 1 .. N |-> work[i].does.len]
  BY <1>2
<1>4. [i \in 1 .. N |-> work[i].does.len] \in [1 .. N -> Nat]
  BY <1>1, BatchTyped, Sizes DEF Longest
<1>5. [i \in 1 .. N |-> work[i].does.cycles] \in [1 .. N -> Nat]
  BY <1>1, BatchTyped
<1> HIDE DEF s
<1>6. FlattenSeq(s) \in Seq(Packets) /\ Len(FlattenSeq(s)) = SumFunction([i \in 1 .. N |-> Len(s[i])])
  BY <1>1, <1>3, FlatLength
<1> QED BY <1>1, <1>3, <1>4, <1>5, <1>6, SumIsNat DEF s

Regs == [temps : Marks, saved : {"caller", "callee"}]

LEMMA RegsTyped == ASSUME NEW r \in Regs, NEW m \in Marks PROVE [r EXCEPT !.temps = m] \in Regs
BY DEF Regs

(* A step of the main thread that renders nothing.                         *)
LEMMA QuietTypes ==
  ASSUME CallInv, UNCHANGED <<mode, calls, work, team, guest, par>>,
         pc' \in Pcs, irq' \in BOOLEAN, buffers' \in {"none", "half", "ready"},
         pc' # "idle" => pc # "idle", pc' = "shadow" => pc = "shadow",
         ~mode.noapply /\ pc \in Moving => pc' \in Moving,
         buffers' = "half" => calls >= 1 /\ (pc' \notin {"idle", "serial"} => calls > 1),
         pc' = "crashed" => buffers' = "half"
  PROVE  CallInv'
<1>1. UNCHANGED <<mode, calls, work, pool, claimed, job, on, at, ram, bump, mbox, mail, regs,
                  clock, par>> /\ N' = N
  BY DEF team, guest, N
<1>2. TypeOK'
  BY <1>1 DEF CallInv, TypeOK
<1>3. Collected' /\ Stream' /\ Parked'
  BY <1>1 DEF CallInv, Collected, Stream, Parked
<1> QED BY <1>2, <1>3 DEF CallInv

(* A batch with packets makes the stream longer.                           *)
LEMMA SomeAppend ==
  ASSUME TypeOK, NEW i \in 1 .. N, work[i].does.len > 0
  PROVE  SumFunction([j \in 1 .. N |-> work[j].does.len]) > 0
<1> DEFINE v == [j \in 1 .. N |-> work[j].does.len]
<1>1. N \in Nat /\ \A j \in 1 .. N : v[j] \in Nat
  BY WorkTyped, BatchTyped, Sizes DEF Longest
<1>2. v[i] > 0 /\ SumFunction(v) = SumFunctionOnSet(v, 1 .. N)
  BY DEF SumFunction
<1> HIDE DEF v
<1>3. IsFiniteSet(1 .. N) /\ IsFiniteSet((1 .. N) \ {i})
  <2>1. IsFiniteSet(1 .. N)
    BY <1>1, FS_Interval
  <2>2. (1 .. N) \ {i} \in SUBSET (1 .. N)
    OBVIOUS
  <2> QED BY <2>1, <2>2, FS_Subset
<1>4. SumFunctionOnSet(v, 1 .. N) = v[i] + SumFunctionOnSet(v, (1 .. N) \ {i})
  <2>1. \A x \in 1 .. N : v[x] \in Int
    BY <1>1
  <2> QED BY <1>3, <2>1, SumAdds
<1>5. SumFunctionOnSet(v, (1 .. N) \ {i}) \in Nat
  <2>1. \A x \in (1 .. N) \ {i} : v[x] \in Nat
    BY <1>1
  <2> QED BY <1>3, <2>1, SumNat
<1> QED BY <1>1, <1>2, <1>4, <1>5 DEF v

LEMMA CallTypes == ASSUME CallInv, BatchInv', Call PROVE CallInv'
<1>1. PICK mask \in SUBSET (Slots \ {LastSlot}), scene \in [Slots -> Behaviours] :
        \E slots \in Ascending(mask \cup {LastSlot}) :
          work' = [i \in DOMAIN slots |->
            [frame |-> calls + 1, slot |-> slots[i], does |-> scene[slots[i]]]]
  BY DEF Call
<1> DEFINE S == mask \cup {LastSlot}
           m == Cardinality(S)
<1>2. m \in Nat /\ m <= LastSlot /\ m >= 1 /\ S \in SUBSET Slots
  <2>1. LastSlot \in Nat \ {0} /\ S \in SUBSET (1 .. LastSlot) /\ S # {}
    BY Sizes DEF Slots
  <2>2. IsFiniteSet(1 .. LastSlot) /\ Cardinality(1 .. LastSlot) = LastSlot
    BY <2>1, FS_Interval
  <2>3. IsFiniteSet(S) /\ m <= Cardinality(1 .. LastSlot)
    BY <2>1, <2>2, FS_Subset
  <2>4. m \in Nat /\ m # 0
    BY <2>1, <2>3, FS_CardinalityType, FS_EmptySet
  <2> QED BY <2>1, <2>2, <2>3, <2>4 DEF Slots
<1>3. PICK slots \in Ascending(S) : work' = [i \in DOMAIN slots |->
        [frame |-> calls + 1, slot |-> slots[i], does |-> scene[slots[i]]]]
  BY <1>1
<1>4. slots \in [1 .. m -> Slots] /\ \A k \in 2 .. m : slots[k - 1] < slots[k]
  BY <1>2 DEF Ascending
<1> HIDE DEF m, S
<1>5. /\ pc = "idle" /\ calls < MaxCalls /\ pc' = "gate" /\ calls' = calls + 1
      /\ claimed' = 0 /\ job' = [i \in 1 .. LastSlot |-> NoJob]
      /\ UNCHANGED <<mode, irq, buffers, pool, on, at, ram, bump, mbox, mail, regs, clock, par>>
  BY DEF Call, guest
<1>6. calls \in 0 .. MaxCalls /\ calls + 1 \in 1 .. MaxCalls /\ calls' \in 0 .. MaxCalls
  BY <1>5, Sizes DEF CallInv, TypeOK
<1>7. work' \in [1 .. m -> Batches] /\ \A i \in 1 .. m : work'[i].slot = slots[i]
  <2>1. \A i \in 1 .. m : slots[i] \in Slots /\ scene[slots[i]] \in Behaviours
    BY <1>4
  <2> QED BY <1>3, <1>4, <1>6, <2>1 DEF Batches
<1>8. N' = m /\ work' \in Seq(Batches)
  BY <1>2, <1>7 DEF N
<1>9. TypeOK'
  <2>1. job' \in [1 .. LastSlot -> Reporting]
    BY <1>5, NoJobTyped
  <2>2. on' \in [Workers -> 0 .. N']
    BY DEF BatchInv, Threads
  <2> QED BY <1>2, <1>5, <1>6, <1>8, <2>1, <2>2 DEF CallInv, TypeOK, Pcs, Batches, Reporting
<1>10. Collected'
  <2>1. \A i \in 2 .. m : i - 1 \in 1 .. m /\ i \in 1 .. m
    BY <1>2
  <2> QED BY <1>2, <1>4, <1>5, <1>6, <1>7, <1>8, <2>1 DEF Collected
<1>11. Stream' /\ Parked'
  BY <1>5, <1>6 DEF CallInv, Stream, Parked, Moving
<1> QED BY <1>9, <1>10, <1>11 DEF CallInv

(* A worker's step touches its own job and arena only.                     *)
LEMMA WorkerTypes ==
  ASSUME CallInv, BatchInv, BatchInv', NEW w \in Workers, Worker(w)
  PROVE  CallInv'
<1>1. UNCHANGED <<pc, mode, calls, work, irq, buffers, ram, bump, mbox, regs, clock, par>>
      /\ N' = N
  BY DEF Worker, Claim, Emit, Finish, guest, N
<1>2. claimed' \in 0 .. N' /\ on' \in [Workers -> 0 .. N']
  BY DEF BatchInv, Threads
<1>3. N <= LastSlot /\ job \in [1 .. LastSlot -> Reporting] /\ at \in [Workers -> 0 .. Longest]
      /\ DOMAIN pool = Cells
  BY JobsTyped DEF CallInv, TypeOK
<1>4. on[w] # 0 => /\ on[w] \in 1 .. N /\ on[w] \in 1 .. LastSlot /\ work[on[w]] \in Batches
  BY WorkTyped DEF BatchInv, Threads, CallInv
<1>5. job' \in [1 .. LastSlot -> Reporting] /\ at' \in [Workers -> 0 .. Longest]
      /\ DOMAIN pool' = Cells
  <2>1. CASE Claim(w)
    <3>0. claimed' \in 1 .. LastSlot
      <4>1. claimed' = claimed + 1 /\ claimed \in 0 .. N /\ claimed < N /\ N \in Nat
        BY <2>1 DEF Claim, BatchInv, Threads
      <4> QED BY <1>3, <4>1, Sizes
    <3>1. PICK c : c = claimed' /\ c \in 1 .. LastSlot
      BY <3>0
    <3>2. pool' = pool
      BY <2>1 DEF Claim
    <3>3. at' = at \/ at' = [at EXCEPT ![w] = 0]
      BY <2>1 DEF Claim
    <3>4. job' = job \/ job' = [job EXCEPT ![c].over = TRUE, ![c].done = TRUE]
      BY <2>1, <3>1 DEF Claim
    <3>5. at' \in [Workers -> 0 .. Longest]
      BY <1>3, <3>3, Sizes DEF Longest
    <3>6. job' \in [1 .. LastSlot -> Reporting]
      <4>1. CASE job' = [job EXCEPT ![c].over = TRUE, ![c].done = TRUE]
        <5>1. \A i \in 1 .. LastSlot : job'[i] = job[i] \/ job'[i] = [job[i] EXCEPT !.over = TRUE, !.done = TRUE]
          BY <1>3, <3>1, <4>1
        <5>2. \A j \in Reporting : [j EXCEPT !.over = TRUE, !.done = TRUE] \in Reporting
          BY DEF Reporting
        <5> QED BY <1>3, <4>1, <5>1, <5>2
      <4> QED BY <1>3, <3>4, <4>1
    <3> QED BY <1>3, <3>2, <3>5, <3>6
  <2>2. CASE Emit(w)
    <3>1. /\ on[w] # 0 /\ at[w] < work[on[w]].does.len /\ at' = [at EXCEPT ![w] = at[w] + 1]
          /\ DOMAIN pool' = DOMAIN pool /\ job' = job
      BY <2>2 DEF Emit
    <3>2. work[on[w]].does.len \in 0 .. Longest /\ at[w] \in 0 .. Longest
      BY <1>3, <1>4, <3>1, BatchTyped
    <3>3. at[w] + 1 \in 0 .. Longest
      BY <3>1, <3>2, Sizes DEF Longest
    <3> QED BY <1>3, <3>1, <3>3
  <2>3. CASE Finish(w)
    <3> DEFINE d == work[on[w]].does
               e == Escaped(d, at[w])
               f == Runaway(d)
               u == IF e THEN 0 ELSE at[w]
    <3>1. /\ on[w] # 0 /\ UNCHANGED <<at, pool>>
          /\ job' = [job EXCEPT ![on[w]] =
                [done |-> TRUE, over |-> e \/ f, used |-> u, cycles |-> d.cycles,
                 box |-> Leaves(work[on[w]])]]
      BY <2>3 DEF Finish
    <3>2. d.cycles \in Nat /\ Leaves(work[on[w]]) \in Marks
      BY <1>4, <3>1, BatchTyped
    <3>3. u \in 0 .. ArenaSize
      <4>1. at[w] \in 0 .. Longest /\ Longest \in Nat
        BY <1>3, Sizes DEF Longest
      <4>2. ~e => at[w] <= ArenaSize
        BY <4>1, Sizes DEF Escaped
      <4> QED BY <4>1, <4>2, Sizes
    <3>4. (e \/ f) \in BOOLEAN
      BY DEF Escaped, Runaway
    <3> HIDE DEF e, f, u, d
    <3>5. [done |-> TRUE, over |-> e \/ f, used |-> u, cycles |-> d.cycles,
           box |-> Leaves(work[on[w]])] \in Reporting
      BY <3>2, <3>3, <3>4 DEF Reporting
    <3> QED BY <1>3, <1>4, <3>1, <3>5
  <2> QED BY <2>1, <2>2, <2>3 DEF Worker
<1>6. mail' \in Int /\ (mail' # mail => mail' < 0 /\ Emit(w))
  <2>1. CASE Emit(w)
    <3> PICK i, k : i = on[w] /\ k = at[w]
      OBVIOUS
    <3>1. i \in 1 .. N /\ N \in Nat /\ k \in Nat /\ mail' = -Cell(i, k + 1)
      BY <1>3, <1>4, <2>1, WorkTyped, Sizes DEF Emit, CallInv, Longest
    <3>2. (i - 1) * ArenaSize \in Nat
      <4> PICK j : j = i - 1
        OBVIOUS
      <4>1. j \in Nat /\ ArenaSize \in Nat
        BY <3>1, Sizes
      <4> QED BY <4>1
    <3> QED BY <2>1, <3>1, <3>2 DEF Cell
  <2>2. CASE ~Emit(w)
    BY <2>2 DEF Worker, Claim, Finish, guest, CallInv, TypeOK
  <2> QED BY <2>1, <2>2
<1>7. TypeOK'
  BY <1>1, <1>2, <1>5, <1>6 DEF CallInv, TypeOK, Reporting
<1>8. Stream'
  <2>1. CASE mail' = mail
    BY <1>1, <2>1 DEF CallInv, Stream
  <2>2. CASE mail' # mail
    <3>1. Emit(w) /\ on[w] \in 1 .. N /\ pc = "run"
      BY <1>4, <1>6, <2>2 DEF Emit, BatchInv, Threads
    <3>2. work[on[w]].does.len > 0
      <4>1. at[w] \in Nat /\ work[on[w]].does.len \in Nat /\ at[w] < work[on[w]].does.len
        BY <1>3, <1>4, <3>1, BatchTyped, Sizes DEF Emit, Longest
      <4> QED BY <4>1
    <3> QED BY <1>1, <1>6, <2>2, <3>1, <3>2 DEF CallInv, Stream, Moving
  <2> QED BY <2>1, <2>2
<1> QED BY <1>1, <1>7, <1>8 DEF CallInv, Collected, Parked

LEMMA MergeTypes ==
  ASSUME CallInv, BatchInv, Merge
  PROVE  CallInv'
<1>1. /\ pc = "join" /\ (\A i \in 1 .. N : ~job[i].over)
      /\ UNCHANGED <<mode, calls, work, irq, buffers, pool, claimed, job, on, at>> /\ N' = N
  BY DEF Merge, Refused, team, N
<1> DEFINE s == [i \in 1 .. N |-> [k \in 1 .. work[i].does.len |-> Packet(work[i], k)]]
           t == SumFunction([i \in 1 .. N |-> work[i].does.len])
           c == SumFunction([i \in 1 .. N |-> work[i].does.cycles])
<1>2. /\ ram' = ram \o FlattenSeq(s) /\ bump' = bump + t /\ mail' = bump'
      /\ clock' = clock + c /\ mbox' = LastJob.box /\ regs' = [regs EXCEPT !.temps = LastJob.box]
      /\ par' = [bump |-> bump', mbox |-> mbox']
  BY <1>1, TotalTyped DEF Merge, CallInv
<1>3. /\ FlattenSeq(s) \in Seq(Packets) /\ Len(FlattenSeq(s)) = t /\ t \in Nat /\ c \in Nat
  BY StreamGrows DEF CallInv
<1> HIDE DEF s, t, c
<1>4. N \in 1 .. LastSlot
  BY <1>1, WorkTyped, Sizes DEF CallInv, Collected
<1>5. LastJob.box \in Marks
  BY <1>4, JobsTyped DEF LastJob, CallInv, Reporting
<1>6. pc' \in {"serial", "shadow", "idle"} /\ (pc' = "shadow" => mode.verify)
  BY DEF Merge
<1>7. Stream'
  <2> PICK z : z = FlattenSeq(s)
    OBVIOUS
  <2>1. ram' = ram \o z /\ z \in Seq(Packets) /\ Len(z) = t /\ ram \in Seq(Packets)
    BY <1>2, <1>3 DEF CallInv, Stream
  <2>2. ram' \in Seq(Packets) /\ Len(ram') = Len(ram) + Len(z)
    BY <2>1
  <2> QED BY <1>2, <2>1, <2>2 DEF CallInv, Stream
<1>8. bump' \in Nat /\ mbox' \in Marks /\ clock' \in Nat /\ regs' \in Regs
  <2>1. bump \in Nat /\ clock \in Nat /\ regs \in Regs
    BY DEF CallInv, TypeOK, Regs
  <2>2. regs' \in Regs
    BY <1>2, <1>5, <2>1, RegsTyped
  <2> QED BY <1>2, <1>3, <1>5, <2>1, <2>2
<1>9. TypeOK'
  BY <1>1, <1>2, <1>6, <1>8 DEF CallInv, TypeOK, Pcs, Regs
<1>10. Collected'
  BY <1>1 DEF CallInv, Collected
<1>11. Parked'
  BY <1>1, <1>2, <1>6, <1>8 DEF CallInv, Parked
<1> QED BY <1>7, <1>9, <1>10, <1>11 DEF CallInv

LEMMA SerialTypes ==
  ASSUME CallInv, Serial
  PROVE  CallInv'
<1>1. /\ pc = "serial" /\ pc' = "idle"
      /\ UNCHANGED <<mode, calls, work, irq, buffers, pool, claimed, job, on, at, par>> /\ N' = N
  BY DEF Serial, team, N
<1> DEFINE s == [i \in 1 .. N |-> [k \in 1 .. work[i].does.len |-> Packet(work[i], k)]]
           c == SumFunction([i \in 1 .. N |-> work[i].does.cycles])
<1>2. /\ ram' = ram \o FlattenSeq(s) /\ bump' = Len(ram')
      /\ mail' = (IF ram' = ram THEN mail ELSE bump')
      /\ clock' = clock + c /\ mbox' = Leaves(work[N])
      /\ regs' = [regs EXCEPT !.temps = Leaves(work[N])]
  BY DEF Serial
<1>3. FlattenSeq(s) \in Seq(Packets) /\ c \in Nat
  BY StreamGrows DEF CallInv
<1> HIDE DEF s, c
<1>4. N \in 1 .. N /\ Leaves(work[N]) \in Marks
  <2>1. N \in 1 .. N /\ work[N] \in Batches
    BY <1>1, WorkTyped DEF CallInv, Collected
  <2> QED BY <2>1, BatchTyped
<1>5. ram' \in Seq(Packets) /\ Len(ram') \in Nat
  <2> PICK z : z = FlattenSeq(s)
    OBVIOUS
  <2>1. ram' = ram \o z /\ z \in Seq(Packets) /\ ram \in Seq(Packets)
    BY <1>2, <1>3 DEF CallInv, Stream
  <2> QED BY <2>1
<1>6. Stream'
  <2>1. CASE ram' # ram
    BY <1>2, <1>5, <2>1 DEF Stream
  <2>2. CASE ram' = ram /\ (mail = bump \/ mode.noapply)
    BY <1>1, <1>2, <1>5, <2>2 DEF CallInv, Stream
  <2>3. CASE mail # bump /\ ~mode.noapply
    <3>1. PICK i \in 1 .. N : work[i].does.len > 0
      BY <2>3 DEF CallInv, Stream
    <3>2. Len(FlattenSeq(s)) > 0
      BY <3>1, SomeAppend, StreamGrows DEF CallInv, s
    <3> PICK z : z = FlattenSeq(s)
      OBVIOUS
    <3>3. ram' = ram \o z /\ z \in Seq(Packets) /\ ram \in Seq(Packets) /\ Len(z) > 0
      BY <1>2, <1>3, <3>2 DEF CallInv, Stream
    <3>4. Len(ram') # Len(ram)
      BY <3>3
    <3> QED BY <2>1, <3>4
  <2> QED BY <2>1, <2>2, <2>3
<1>7. bump' \in Nat /\ mail' \in Int /\ mbox' \in Marks /\ clock' \in Nat /\ regs' \in Regs
  <2>1. clock \in Nat /\ regs \in Regs /\ mail \in Int
    BY DEF CallInv, TypeOK, Regs
  <2>2. regs' \in Regs
    BY <1>2, <1>4, <2>1, RegsTyped
  <2> QED BY <1>2, <1>3, <1>4, <1>5, <2>1, <2>2
<1>8. TypeOK'
  BY <1>1, <1>2, <1>7 DEF CallInv, TypeOK, Pcs, Regs
<1>9. Collected' /\ Parked'
  BY <1>1 DEF CallInv, Collected, Parked
<1> QED BY <1>6, <1>8, <1>9 DEF CallInv

LEMMA ShadowTypes ==
  ASSUME CallInv, Shadow
  PROVE  CallInv'
<1>1. /\ pc = "shadow" /\ pc' = "idle" /\ buffers = "ready"
      /\ UNCHANGED <<mode, calls, work, irq, buffers, pool, claimed, job, on, at, ram, mail,
                     clock, par>> /\ N' = N
  BY DEF Shadow, team, N
<1>2. bump' = par.bump /\ mbox' = par.mbox
  BY DEF Shadow, Restored
<1>3. par.bump = bump /\ par.mbox = mbox
  BY <1>1 DEF CallInv, Parked
<1>4. PICK m \in {mbox} \cup {Leaves(work[i]) : i \in 1 .. N} :
        regs' \in [temps : {regs.temps, m}, saved : {"caller", "callee"}]
  BY DEF Shadow
<1>5. m \in Marks
  BY <1>4, WorkTyped, BatchTyped DEF CallInv, TypeOK
<1>6. regs' \in [temps : Marks, saved : {"caller", "callee"}]
  BY <1>4, <1>5 DEF CallInv, TypeOK
<1>7. TypeOK'
  BY <1>1, <1>2, <1>3, <1>6 DEF CallInv, TypeOK, Pcs
<1> QED BY <1>1, <1>2, <1>3, <1>7 DEF CallInv, Collected, Stream, Parked, Moving

LEMMA CallInvStep == CallInv /\ BatchInv /\ BatchInv' /\ [Next]_vars => CallInv'
<1> SUFFICES ASSUME CallInv, BatchInv, BatchInv', [Next]_vars PROVE CallInv'
  OBVIOUS
<1>1. CASE Call
  BY <1>1, CallTypes
<1>2. CASE Irq
  BY <1>2, QuietTypes DEF Irq, CallInv, TypeOK, Parked, Moving
<1>3. CASE Main
  <2>1. CASE GateShut \/ Fallback
    BY <2>1, QuietTypes DEF GateShut, Fallback, Serially, CallInv, TypeOK, Parked, Pcs, Moving
  <2>2. CASE GateAlloc
    BY <2>2, QuietTypes DEF GateAlloc, Serially, CallInv, TypeOK, Parked, Collected, Pcs, Moving
  <2>3. CASE GateOpen
    BY <2>3, QuietTypes DEF GateOpen, CallInv, TypeOK, Parked, Collected, Pcs, Moving
  <2>4. CASE Join \/ SkipApply \/ ShadowCrash
    BY <2>4, QuietTypes DEF Join, SkipApply, ShadowCrash, CallInv, TypeOK, Parked, Collected, Pcs, Moving
  <2> QED BY <1>3, <2>1, <2>2, <2>3, <2>4, MergeTypes, ShadowTypes, SerialTypes DEF Main
<1>4. ASSUME NEW w \in Workers, Worker(w) PROVE CallInv'
  BY <1>4, WorkerTypes
<1>5. CASE UNCHANGED vars
  BY <1>5, QuietTypes DEF vars, CallInv, TypeOK, Parked
<1> QED BY <1>1, <1>2, <1>3, <1>4, <1>5 DEF Next

LEMMA CallInvInit == Init => CallInv
<1> SUFFICES ASSUME Init PROVE CallInv
  OBVIOUS
<1>1. N = 0
  BY DEF Init, N
<1>2. TypeOK
  <2>1. job \in [1 .. LastSlot -> Reporting]
    BY NoJobTyped DEF Init
  <2>2. on \in [Workers -> 0 .. N] /\ at \in [Workers -> 0 .. Longest]
    BY <1>1, Sizes DEF Init, Longest
  <2>3. regs \in Regs /\ mbox \in Marks
    BY OriginIsMark DEF Init, Regs
  <2>4. work \in Seq([frame : 1 .. MaxCalls, slot : Slots, does : Behaviours])
    BY DEF Init
  <2>5. DOMAIN pool = Cells /\ calls \in 0 .. MaxCalls
    BY Sizes DEF Init
  <2>6. pc \in Pcs /\ mode \in Modes /\ N <= LastSlot /\ claimed \in 0 .. N
        /\ buffers \in {"none", "half", "ready"} /\ bump \in Nat /\ mail \in Int /\ clock \in Nat
    BY <1>1, Sizes DEF Init, Pcs
  <2>7. irq \in BOOLEAN
    BY Zenon DEF Init
  <2> QED BY <2>1, <2>2, <2>3, <2>4, <2>5, <2>6, <2>7 DEF TypeOK, Reporting, Regs
<1>3. Collected /\ Stream /\ Parked
  BY <1>1, OriginIsMark DEF Init, Collected, Stream, Parked
<1> QED BY <1>2, <1>3 DEF CallInv

LEMMA CallInvHolds == Spec => [](CallInv /\ BatchInv)
<1>1. Init => CallInv /\ BatchInv
  BY BatchInit, CallInvInit
<1>2. CallInv /\ BatchInv /\ [Next]_vars => (CallInv /\ BatchInv)'
  BY BatchStep, CallInvStep
<1> QED BY <1>1, <1>2, PTL DEF Spec

(* The dispatcher's state is well typed: no job reports more packets than  *)
(* its arena holds, and the registers and the mailbox are a batch's.       *)
THEOREM BatchTypeCorrect == Spec => []TypeOK
<1>1. CallInv => TypeOK
  BY DEF CallInv
<1> QED BY <1>1, CallInvHolds, PTL

(* Between calls the bump pointer names the end of the stream in every     *)
(* debug mode, and so does the mail word, which all jobs move through RAM  *)
(* they share (gt2_batch_jobs.c:19-20): a merge stores it, a serial body   *)
(* that takes over from jobs that moved it has packets of its own, and the *)
(* shadow call is given back (:1033-1037) what the merge had left.  Only   *)
(* no-apply leaves it where the last job to store one did.                 *)
THEOREM StreamEndsAgree == Spec => []MailIsEnd
<1>1. CallInv => MailIsEnd
  BY DEF CallInv, MailIsEnd, Stream, Moving
<1> QED BY <1>1, CallInvHolds, PTL

-----------------------------------------------------------------------------
(* The guest cannot tell a call from a serial one.                         *)
Plain == \A m \in Modes : ~m.verify /\ ~m.dryrun /\ ~m.noapply

Todo == IF Within THEN work ELSE << >>
Mail == IF Within THEN bump ELSE mail

LEMMA SameFlattening == \A s : Scene!FlattenSeq(s) = FlattenSeq(s)
BY DEF FlattenSeq, Scene!FlattenSeq

LEMMA SameSum == \A v : Scene!SumFunction(v) = SumFunction(v)
BY DEF SumFunction, SumFunctionOnSet, FoldFunctionOnSet, MapThenFoldSet,
       Scene!SumFunction, Scene!SumFunctionOnSet, Scene!FoldFunctionOnSet, Scene!MapThenFoldSet

LEMMA SceneInit == Init => Scene!Init
BY DEF Init, Scene!Init, Origin

(* The call's batches rendered, and nothing else: by the merge or serially.*)
LEMMA RenderStep ==
  ASSUME CallInv, pc \in {"join", "serial"}, pc' = "idle",
         LET s == [i \in 1 .. N |-> [k \in 1 .. work[i].does.len |-> Packet(work[i], k)]]
             c == SumFunction([i \in 1 .. N |-> work[i].does.cycles])
         IN  /\ ram' = ram \o FlattenSeq(s) /\ mail' = Len(ram') /\ clock' = clock + c
             /\ mbox' = Leaves(work[N]) /\ regs' = [regs EXCEPT !.temps = Leaves(work[N])]
  PROVE  Scene!Next
<1>1. Todo = work /\ Todo' = << >> /\ Mail' = mail'
  BY DEF Todo, Mail, Within
<1>2. N \in Nat /\ N >= 1 /\ DOMAIN work = 1 .. N /\ work # << >>
  BY WorkTyped DEF CallInv, Collected
<1>3. regs'.temps = Leaves(work[N])
  BY DEF CallInv, TypeOK
<1>4. [i \in DOMAIN work |-> Scene!Packets(work[i])] =
        [i \in 1 .. N |-> [k \in 1 .. work[i].does.len |-> Packet(work[i], k)]]
  BY <1>2 DEF Scene!Packets, Packet
<1> DEFINE s == [i \in DOMAIN work |-> Scene!Packets(work[i])]
           c == [i \in DOMAIN work |-> work[i].does.cycles]
           last == work[Len(work)]
<1>5. /\ ram' = ram \o Scene!FlattenSeq(s) /\ mail' = Len(ram')
      /\ clock' = clock + Scene!SumFunction(c)
      /\ mbox' = <<last.frame, last.slot>> /\ regs'.temps = <<last.frame, last.slot>>
  BY <1>2, <1>3, <1>4, SameFlattening, SameSum DEF Leaves, N
<1>6. Scene!Render
  BY <1>1, <1>2, <1>5 DEF Scene!Render, Scene!Idle, Todo, Mail
<1> QED BY <1>6 DEF Scene!Next

LEMMA SceneStep ==
  ASSUME Plain, CallInv, CallInv', BatchInv, [Next]_vars
  PROVE  [Scene!Next]_(Scene!vars)
<1>0. mode \in Modes /\ ~mode.verify /\ ~mode.dryrun /\ ~mode.noapply
  BY DEF Plain, CallInv, TypeOK
<1>1. CASE Call
  <2>1. pc = "idle" /\ pc' = "gate" /\ UNCHANGED <<ram, bump, mbox, mail, regs, clock>>
    BY <1>1 DEF Call, guest
  <2>2. Todo = << >> /\ Todo' = work' /\ Mail' = Mail
    BY <1>0, <2>1 DEF Todo, Mail, Within, CallInv, Stream, Moving
  <2>3. /\ N' \in Nat /\ N' >= 1 /\ work' \in [1 .. N' -> Batches]
        /\ \A i \in 2 .. N' : work'[i - 1].slot < work'[i].slot
    <3>1. work' \in Seq(Batches)
      BY DEF CallInv, TypeOK, Batches
    <3>2. /\ N' >= 1 /\ \A i \in 2 .. N' : work'[i - 1].slot < work'[i].slot
      BY <2>1 DEF CallInv, Collected
    <3>3. N' = Len(work')
      BY DEF N
    <3> QED BY <3>1, <3>2, <3>3
  <2>4. work' # << >> /\ DOMAIN work' = 1 .. N'
    BY <2>3
  <2>5. ASSUME NEW i \in DOMAIN work'
        PROVE  /\ work'[i] \in Scene!Batches
               /\ i > 1 => work'[i - 1].slot < work'[i].slot
    <3>1. i \in 1 .. N'
      BY <2>4, <2>5
    <3>2. i > 1 => i \in 2 .. N'
      BY <2>3, <3>1
    <3> QED BY <2>3, <3>1, <3>2 DEF Scene!Batches, Batches
  <2>6. Scene!Call
    BY <2>1, <2>2, <2>4, <2>5 DEF Scene!Call, Scene!Idle, Todo, Mail
  <2> QED BY <2>6 DEF Scene!Next
<1>2. CASE Merge
  <2>1. /\ pc = "join" /\ pc' = "idle" /\ \A i \in 1 .. N : ~job[i].over
    BY <1>0, <1>2 DEF Merge, Refused
  <2>2. /\ N \in 1 .. N
        /\ \A i \in 1 .. N : job[i].box = Leaves(work[i])
    BY <2>1, TotalTyped, WorkTyped DEF CallInv, Collected
  <2>3. LastJob.box = Leaves(work[N])
    BY <2>2 DEF LastJob
  <2>4. /\ ram' = ram \o FlattenSeq([i \in 1 .. N |-> Arena(i)])
        /\ mail' = bump' /\ mbox' = LastJob.box
        /\ regs' = [regs EXCEPT !.temps = LastJob.box]
        /\ clock' = clock + SumFunction([i \in 1 .. N |-> job[i].cycles])
    BY <1>2 DEF Merge
  <2>5. mail' = Len(ram')
    BY <2>4 DEF CallInv, Stream
  <2> QED BY <2>1, <2>3, <2>4, <2>5, TotalTyped, RenderStep DEF CallInv
<1>3. CASE Serial
  <2>1. pc = "serial" /\ pc' = "idle" /\ mode' = mode
    BY <1>3 DEF Serial
  <2>2. mail' = Len(ram')
    BY <1>0, <2>1 DEF CallInv, Stream, Moving
  <2> QED BY <1>3, <2>1, <2>2, RenderStep DEF Serial
<1>4. CASE Shadow \/ ShadowCrash \/ SkipApply
  <2>1. pc # "shadow"
    BY <1>0 DEF CallInv, Parked
  <2> QED BY <1>0, <1>4, <2>1 DEF Shadow, ShadowCrash, SkipApply
<1>5. ASSUME UNCHANGED <<work, ram, bump, mbox, regs, clock>>, Todo' = Todo, Mail' = Mail
      PROVE  UNCHANGED Scene!vars
  BY <1>5 DEF Scene!vars, Todo, Mail
<1>6. CASE Irq \/ GateShut \/ GateAlloc \/ GateOpen \/ Join \/ Fallback
  BY <1>5, <1>6 DEF Irq, GateShut, GateAlloc, GateOpen, Join, Fallback, Serially, guest,
                    Todo, Mail, Within
<1>7. ASSUME NEW w \in Workers, Worker(w) PROVE UNCHANGED Scene!vars
  <2>1. pc' = pc /\ UNCHANGED <<work, ram, bump, mbox, regs, clock>>
    BY <1>7 DEF Worker, Claim, Emit, Finish, guest
  <2>2. Mail' = Mail
    <3>1. CASE Emit(w)
      BY <2>1, <3>1 DEF Emit, BatchInv, Threads, Mail, Within
    <3>2. CASE ~Emit(w)
      BY <1>7, <2>1, <3>2 DEF Worker, Claim, Finish, guest, Mail, Within
    <3> QED BY <3>1, <3>2
  <2> QED BY <1>5, <2>1, <2>2 DEF Todo, Within
<1>8. CASE UNCHANGED vars
  BY <1>5, <1>8 DEF vars, guest, Todo, Mail, Within
<1> QED BY <1>1, <1>2, <1>3, <1>4, <1>6, <1>7, <1>8 DEF Next, Main

(* With the debug modes off, each step of the dispatch is to the guest a   *)
(* step of the serial parent or none: packets in call order, mailbox,      *)
(* registers and cycles once (the equivalence notes of the source).        *)
THEOREM CallsLookSerial == Plain => (Spec => SerialSpec)
<1> SUFFICES ASSUME Plain PROVE Spec => SerialSpec
  OBVIOUS
<1>1. CallInv /\ CallInv' /\ BatchInv /\ [Next]_vars => [Scene!Next]_(Scene!vars)
  BY SceneStep
<1> QED BY <1>1, SceneInit, CallInvHolds, PTL DEF Spec, SerialSpec, Scene!Spec
===============================================================================
