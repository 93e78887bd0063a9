--------------------------- MODULE CountingLemmas ---------------------------
(***************************************************************************)
(* Induction and recursion over numbers and finite sets, and what Tally of *)
(* ItemStacks computes: facts that the proofs about items and about the    *)
(* furnace share.                                                          *)
(***************************************************************************)
EXTENDS ItemStacks, FiniteSetTheorems, WellFoundedInduction, TLAPS
-----------------------------------------------------------------------------
(***************************************************************************)
(* Induction and recursion.  A set of numbers with 0 in it and the         *)
(* successor of each member is Nat, because the numbers outside would have *)
(* a least one; a function on 0 .. n may be given by what it is at 0 and a *)
(* step, and is then the only such function.  The sums and insertions of   *)
(* the model, which are recursive functions, are unfolded with these.      *)
(***************************************************************************)

\* Induction over numbers.
LEMMA AllNumbers ==
  ASSUME NEW G \in SUBSET Nat, 0 \in G, \A n \in G : n + 1 \in G
  PROVE  \A n \in Nat : n \in G
<1> DEFINE Less == {ss \in Nat \X Nat : ss[1] < ss[2]}
           Others == Nat \ G
<1>1. IsWellFoundedOn(Less, Nat)
  BY NatLessThanWellFounded DEF OpToRel
<1> SUFFICES ASSUME Others # {} PROVE FALSE
  OBVIOUS
<1>2. Others \subseteq Nat
  OBVIOUS
<1> HIDE DEF Less, Others
<1>3. PICK x \in Others : \A y \in Others : ~(<<y, x>> \in Less)
  BY <1>1, <1>2, WFMin, Zenon
<1>4. x \in Nat /\ x # 0 /\ x \notin G
  BY DEF Others
<1>5. x - 1 \in Nat /\ x - 1 < x /\ x - 1 \notin G
  BY <1>4
<1>6. x - 1 \in Others /\ <<x - 1, x>> \in Less
  BY <1>4, <1>5 DEF Others, Less
<1> QED BY <1>3, <1>6

\* Recursion over numbers: f is what step makes of b; f and g go the same way.
StepsTo(n, T) == [1 .. n -> [T -> T]]
Recursive(f, n, T, b, step) ==
  f \in [0 .. n -> T] /\ f[0] = b /\ \A k \in 1 .. n : f[k] = step[k][f[k - 1]]
Alike(f, g, n) == f[0] = g[0] /\ \A k \in 1 .. n : f[k - 1] = g[k - 1] => f[k] = g[k]

LEMMA RecursionExists ==
  ASSUME NEW n \in Nat, NEW T, NEW b \in T, NEW step \in StepsTo(n, T)
  PROVE  \E f : Recursive(f, n, T, b, step)
<1> USE DEF StepsTo, Recursive
<1> DEFINE Upto(m, f) == Recursive(f, m, T, b, step)
           G == {m \in Nat : m <= n => \E f : Upto(m, f)}
<1>1. 0 \in G
  <2>1. Upto(0, [k \in 0 .. 0 |-> b])
    OBVIOUS
  <2> QED BY <2>1
<1>2. ASSUME NEW m \in G PROVE m + 1 \in G
  <2> SUFFICES ASSUME m + 1 <= n PROVE \E f : Upto(m + 1, f)
    OBVIOUS
  <2>1. m \in Nat /\ m <= n /\ m + 1 \in 1 .. n
    OBVIOUS
  <2>2. PICK f : Upto(m, f)
    BY <2>1
  <2> DEFINE g == [k \in 0 .. m + 1 |-> IF k = m + 1 THEN step[m + 1][f[m]] ELSE f[k]]
  <2>3. f[m] \in T /\ step[m + 1] \in [T -> T]
    BY <2>1, <2>2
  <2>4. g \in [0 .. m + 1 -> T] /\ g[0] = b
    BY <2>1, <2>2, <2>3
  <2>5. ASSUME NEW k \in 1 .. m + 1 PROVE g[k] = step[k][g[k - 1]]
    <3>1. CASE k = m + 1
      <4>1. g[k] = step[m + 1][f[m]] /\ k - 1 = m /\ m \in 0 .. m + 1 /\ m # m + 1
        BY <2>1, <3>1
      <4>2. g[k - 1] = f[m]
        BY <4>1
      <4> QED BY <3>1, <4>1, <4>2
    <3>2. CASE k # m + 1
      <4>1. k \in 1 .. m /\ k - 1 \in 0 .. m
        BY <2>1, <3>2
      <4> QED BY <2>1, <2>2, <4>1
    <3> QED BY <3>1, <3>2
  <2>6. Upto(m + 1, g)
    BY <2>4, <2>5
  <2> QED BY <2>6
<1>3. G \in SUBSET Nat
  OBVIOUS
<1> HIDE DEF G
<1>4. n \in G
  BY <1>1, <1>2, <1>3, AllNumbers
<1> QED BY <1>4 DEF G

LEMMA RecursionUnique ==
  ASSUME NEW n \in Nat, NEW f, NEW g, Alike(f, g, n)
  PROVE  \A k \in 0 .. n : f[k] = g[k]
<1> USE DEF Alike
<1> DEFINE G == {m \in Nat : m <= n => f[m] = g[m]}
<1>1. 0 \in G
  OBVIOUS
<1>2. ASSUME NEW m \in G PROVE m + 1 \in G
  <2> SUFFICES ASSUME m + 1 <= n PROVE f[m + 1] = g[m + 1]
    OBVIOUS
  <2>1. m \in Nat /\ m + 1 \in 1 .. n /\ (m + 1) - 1 = m /\ f[m] = g[m]
    OBVIOUS
  <2> QED BY <2>1
<1>3. G \in SUBSET Nat
  OBVIOUS
<1> HIDE DEF G
<1>4. \A m \in Nat : m \in G
  BY <1>1, <1>2, <1>3, AllNumbers
<1> QED BY <1>4 DEF G
-----------------------------------------------------------------------------
(* Tallies                                                                 *)

\* Induction over the subsets of a finite set, one member less at a time.
OneOf(s) == CHOOSE x \in s : TRUE

LEMMA AnyMember == \A s : s # {} => OneOf(s) \in s
BY Zenon DEF OneOf

LEMMA AllSubsets ==
  ASSUME NEW S, IsFiniteSet(S), NEW F \in SUBSET SUBSET S, {} \in F,
         \A T \in SUBSET S : T # {} /\ T \ {OneOf(T)} \in F => T \in F
  PROVE  \A T \in SUBSET S : T \in F
<1> DEFINE G == {n \in Nat : \A T \in SUBSET S : Cardinality(T) = n => T \in F}
<1>1. \A T \in SUBSET S : IsFiniteSet(T) /\ Cardinality(T) \in Nat
  BY FS_Subset, FS_CardinalityType
<1>2. 0 \in G
  BY <1>1, FS_EmptySet
<1>3. ASSUME NEW n \in G PROVE n + 1 \in G
  <2> SUFFICES ASSUME NEW T \in SUBSET S, Cardinality(T) = n + 1 PROVE T \in F
    OBVIOUS
  <2>0. n \in Nat /\ n + 1 # 0
    OBVIOUS
  <2>1. T # {}
    BY <2>0, FS_EmptySet
  <2>2. IsFiniteSet(T) /\ OneOf(T) \in T
    BY <1>1, <2>1, AnyMember
  <2>3. Cardinality(T \ {OneOf(T)}) = Cardinality(T) - 1
    BY <2>2, FS_RemoveElement
  <2>4. T \ {OneOf(T)} \in SUBSET S /\ Cardinality(T \ {OneOf(T)}) = n
    BY <2>0, <2>3
  <2> QED BY <2>1, <2>4
<1>4. G \in SUBSET Nat
  OBVIOUS
<1> HIDE DEF G
<1>5. \A n \in Nat : n \in G
  BY <1>2, <1>3, <1>4, AllNumbers
<1> QED BY <1>1, <1>5 DEF G

\* The recursive function inside Tally.
Tallies(g) ==
  CHOOSE it : it = [s \in SUBSET DOMAIN g |->
    IF s = {} THEN 0 ELSE g[OneOf(s)] + it[s \ {OneOf(s)}]]
Tallied(it, g, S) ==
  /\ it \in [SUBSET S -> Int] /\ it[{}] = 0
  /\ \A s \in SUBSET S : s # {} => it[s] = g[OneOf(s)] + it[s \ {OneOf(s)}]

LEMMA TallyExists ==
  ASSUME NEW S, IsFiniteSet(S), NEW g \in [S -> Int]
  PROVE  \E it : Tallied(it, g, S)
<1> DEFINE Upto(n, it) ==
             /\ it \in [SUBSET S -> Int] /\ it[{}] = 0
             /\ \A s \in SUBSET S : s # {} /\ Cardinality(s) <= n
                                      => it[s] = g[OneOf(s)] + it[s \ {OneOf(s)}]
           G == {n \in Nat : \E it : Upto(n, it)}
<1>1. \A T \in SUBSET S : IsFiniteSet(T) /\ Cardinality(T) \in Nat
  BY FS_Subset, FS_CardinalityType
<1>2. 0 \in G
  <2>1. Upto(0, [s \in SUBSET S |-> 0])
    <3>1. \A s \in SUBSET S : s # {} => ~(Cardinality(s) <= 0)
      BY <1>1, FS_EmptySet
    <3> QED BY <3>1
  <2> QED BY <2>1
<1>3. ASSUME NEW n \in G PROVE n + 1 \in G
  <2>1. PICK it : Upto(n, it)
    OBVIOUS
  <2> DEFINE jt == [s \in SUBSET S |->
                      IF s # {} /\ Cardinality(s) = n + 1 THEN g[OneOf(s)] + it[s \ {OneOf(s)}] ELSE it[s]]
  <2>2. \A s \in SUBSET S : s # {} => /\ OneOf(s) \in S /\ s \ {OneOf(s)} \in SUBSET S
                                      /\ Cardinality(s \ {OneOf(s)}) = Cardinality(s) - 1
    BY <1>1, AnyMember, FS_RemoveElement
  <2>3. \A s \in SUBSET S : it[s] \in Int
    BY <2>1
  <2>4. \A s \in SUBSET S : s # {} => g[OneOf(s)] + it[s \ {OneOf(s)}] \in Int
    BY <2>2, <2>3
  <2>5. jt \in [SUBSET S -> Int] /\ jt[{}] = 0
    BY <2>1, <2>3, <2>4
  <2>6. ASSUME NEW s \in SUBSET S, s # {}, Cardinality(s) <= n + 1
        PROVE  jt[s] = g[OneOf(s)] + jt[s \ {OneOf(s)}]
    <3>1. n \in Nat /\ Cardinality(s) \in Nat
      BY <1>1
    <3>2. Cardinality(s \ {OneOf(s)}) # n + 1 /\ s \ {OneOf(s)} \in SUBSET S
      BY <2>2, <2>6, <3>1
    <3>3. jt[s \ {OneOf(s)}] = it[s \ {OneOf(s)}]
      BY <3>2
    <3>4. CASE Cardinality(s) = n + 1
      BY <2>6, <3>3, <3>4
    <3>5. CASE Cardinality(s) # n + 1
      <4>1. Cardinality(s) <= n /\ jt[s] = it[s]
        BY <2>6, <3>1, <3>5
      <4>2. it[s] = g[OneOf(s)] + it[s \ {OneOf(s)}]
        BY <2>1, <2>6, <4>1
      <4> QED BY <3>3, <4>1, <4>2
    <3> QED BY <3>4, <3>5
  <2> HIDE DEF jt
  <2>7. Upto(n + 1, jt)
    BY <2>5, <2>6
  <2>8. n + 1 \in Nat
    OBVIOUS
  <2> HIDE DEF Upto
  <2> QED BY <2>7, <2>8
<1>4. G \in SUBSET Nat
  OBVIOUS
<1> HIDE DEF G
<1>5. Cardinality(S) \in G
  BY <1>1, <1>2, <1>3, <1>4, AllNumbers
<1>6. PICK it : Upto(Cardinality(S), it)
  BY <1>5 DEF G
<1>7. \A s \in SUBSET S : Cardinality(s) <= Cardinality(S)
  BY FS_Subset
<1>8. Tallied(it, g, S)
  BY <1>6, <1>7 DEF Tallied
<1> QED BY <1>8

\* A tally goes from subset to subset.
LEMMA TallyUnfolds ==
  ASSUME NEW S, IsFiniteSet(S), NEW g \in [S -> Int]
  PROVE  \E it : Tallied(it, g, S) /\ Tally(g) = it[S]
<1> DEFINE it == Tallies(g)
<1>1. PICK jt : Tallied(jt, g, S)
  BY TallyExists
<1>2. DOMAIN g = S
  OBVIOUS
<1>3. jt = [s \in SUBSET S |-> IF s = {} THEN 0 ELSE g[OneOf(s)] + jt[s \ {OneOf(s)}]]
  BY <1>1 DEF Tallied
<1>4. it = [s \in SUBSET S |-> IF s = {} THEN 0 ELSE g[OneOf(s)] + it[s \ {OneOf(s)}]]
  BY <1>2, <1>3, Zenon DEF Tallies
<1>5. Tally(g) = it[S]
  BY <1>2 DEF Tally, FoldFunction, FoldFunctionOnSet, MapThenFoldSet, Tallies, OneOf
<1> HIDE DEF it
<1>6. it[{}] = 0 /\ \A s \in SUBSET S : s # {} => it[s] = g[OneOf(s)] + it[s \ {OneOf(s)}]
  BY <1>4
<1>7. \A s \in SUBSET S : it[s] = jt[s]
  <2> DEFINE F == {s \in SUBSET S : it[s] = jt[s]}
  <2>1. {} \in F
    BY <1>1, <1>6 DEF Tallied
  <2>2. ASSUME NEW s \in SUBSET S, s # {}, s \ {OneOf(s)} \in F PROVE s \in F
    BY <1>1, <1>6, <2>2 DEF Tallied
  <2>3. F \in SUBSET SUBSET S
    OBVIOUS
  <2> HIDE DEF F
  <2>4. \A s \in SUBSET S : s \in F
    BY <2>1, <2>2, <2>3, AllSubsets
  <2> QED BY <2>4 DEF F
<1>8. it \in [SUBSET S -> Int]
  <2>1. \A s \in SUBSET S : it[s] \in Int
    BY <1>1, <1>7 DEF Tallied
  <2>2. it = [s \in SUBSET S |-> it[s]]
    BY <1>4
  <2> QED BY <2>1, <2>2
<1>9. Tallied(it, g, S)
  BY <1>6, <1>8 DEF Tallied
<1> QED BY <1>5, <1>9

LEMMA TallyType ==
  ASSUME NEW S, IsFiniteSet(S), NEW g \in [S -> Int]
  PROVE  Tally(g) \in Int
<1>1. PICK it : Tallied(it, g, S) /\ Tally(g) = it[S]
  BY TallyUnfolds
<1> QED BY <1>1 DEF Tallied

\* One share changes: the tally changes by as much.
LEMMA TallyExcept ==
  ASSUME NEW S, IsFiniteSet(S), NEW g \in [S -> Int], NEW h \in [S -> Int], NEW p \in S,
         \A q \in S : q # p => g[q] = h[q]
  PROVE  Tally(h) + g[p] = Tally(g) + h[p]
<1>1. PICK it : Tallied(it, g, S) /\ Tally(g) = it[S]
  BY TallyUnfolds
<1>2. PICK jt : Tallied(jt, h, S) /\ Tally(h) = jt[S]
  BY TallyUnfolds
<1> DEFINE F == {s \in SUBSET S : IF p \in s THEN jt[s] + g[p] = it[s] + h[p] ELSE jt[s] = it[s]}
<1>3. {} \in F
  BY <1>1, <1>2 DEF Tallied
<1>4. ASSUME NEW s \in SUBSET S, s # {}, s \ {OneOf(s)} \in F PROVE s \in F
  <2> DEFINE r == s \ {OneOf(s)}
             c == OneOf(s)
  <2>1. c \in s /\ c \in S /\ r \in SUBSET S
    BY <1>4, AnyMember
  <2>2. it[s] = g[c] + it[r] /\ jt[s] = h[c] + jt[r]
    BY <1>1, <1>2, <1>4 DEF Tallied
  <2>3. it[r] \in Int /\ jt[r] \in Int /\ g[c] \in Int /\ h[c] \in Int /\ g[p] \in Int /\ h[p] \in Int
    BY <1>1, <1>2, <2>1 DEF Tallied
  <2>4. IF p \in r THEN jt[r] + g[p] = it[r] + h[p] ELSE jt[r] = it[r]
    BY <1>4
  <2>5. p \in r <=> p \in s /\ p # c
    OBVIOUS
  <2> HIDE DEF r, c
  <2>6. CASE p = c
    <3>1. jt[s] + g[p] = it[s] + h[p]
      BY <2>2, <2>3, <2>4, <2>5, <2>6
    <3> QED BY <2>1, <2>6, <3>1
  <2>7. CASE p # c
    <3>1. g[c] = h[c]
      BY <2>1, <2>7
    <3>2. IF p \in s THEN jt[s] + g[p] = it[s] + h[p] ELSE jt[s] = it[s]
      BY <2>2, <2>3, <2>4, <2>5, <2>7, <3>1
    <3> QED BY <3>2
  <2> QED BY <2>6, <2>7
<1>5. F \in SUBSET SUBSET S
  OBVIOUS
<1> HIDE DEF F
<1>6. S \in F
  BY <1>3, <1>4, <1>5, AllSubsets
<1> QED BY <1>1, <1>2, <1>6 DEF F

\* No share grows: neither does the tally.
LEMMA TallyAtMost ==
  ASSUME NEW S, IsFiniteSet(S), NEW g \in [S -> Int], NEW h \in [S -> Int],
         \A q \in S : h[q] <= g[q]
  PROVE  Tally(h) <= Tally(g)
<1>1. PICK it : Tallied(it, g, S) /\ Tally(g) = it[S]
  BY TallyUnfolds
<1>2. PICK jt : Tallied(jt, h, S) /\ Tally(h) = jt[S]
  BY TallyUnfolds
<1> DEFINE F == {s \in SUBSET S : jt[s] <= it[s]}
<1>3. {} \in F
  BY <1>1, <1>2 DEF Tallied
<1>4. ASSUME NEW s \in SUBSET S, s # {}, s \ {OneOf(s)} \in F PROVE s \in F
  <2> DEFINE r == s \ {OneOf(s)}
             c == OneOf(s)
  <2>1. c \in S /\ r \in SUBSET S
    BY <1>4, AnyMember
  <2>2. it[s] = g[c] + it[r] /\ jt[s] = h[c] + jt[r]
    BY <1>1, <1>2, <1>4 DEF Tallied
  <2>3. it[r] \in Int /\ jt[r] \in Int /\ g[c] \in Int /\ h[c] \in Int
    BY <1>1, <1>2, <2>1 DEF Tallied
  <2>4. jt[r] <= it[r] /\ h[c] <= g[c]
    BY <1>4, <2>1
  <2> HIDE DEF r, c
  <2>5. jt[s] <= it[s]
    BY <2>2, <2>3, <2>4
  <2> QED BY <2>5
<1>5. F \in SUBSET SUBSET S
  OBVIOUS
<1> HIDE DEF F
<1>6. S \in F
  BY <1>3, <1>4, <1>5, AllSubsets
<1> QED BY <1>1, <1>2, <1>6 DEF F

\* Nothing, counted, is nothing.
LEMMA TallyZero ==
  ASSUME NEW S, IsFiniteSet(S), NEW g \in [S -> Int], \A q \in S : g[q] = 0
  PROVE  Tally(g) = 0
<1>1. PICK it : Tallied(it, g, S) /\ Tally(g) = it[S]
  BY TallyUnfolds
<1> DEFINE F == {s \in SUBSET S : it[s] = 0}
<1>2. {} \in F
  BY <1>1 DEF Tallied
<1>3. ASSUME NEW s \in SUBSET S, s # {}, s \ {OneOf(s)} \in F PROVE s \in F
  BY <1>1, <1>3, AnyMember DEF Tallied
<1>4. F \in SUBSET SUBSET S
  OBVIOUS
<1> HIDE DEF F
<1>5. S \in F
  BY <1>2, <1>3, <1>4, AllSubsets
<1> QED BY <1>1, <1>5 DEF F
=============================================================================
