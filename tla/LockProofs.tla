----------------------------- MODULE LockProofs -----------------------------
(***************************************************************************)
(* Proofs about the threads of the server (ServerLocks) and of the client  *)
(* (ClientThreads), for any threads, players, chunks and neighbourhoods:   *)
(* no circle of waiting, and meshes that are current once all is settled.  *)
(*                                                                         *)
(* Both go the same way.  A thread may be in states that say what it has   *)
(* of each lock (and what work it owes); a set of moves says with which    *)
(* step it comes from which state to which.  Every program is shown to     *)
(* lead back to where a thread has nothing, by such moves alone; so what a *)
(* thread still has to do is at all times something that leads there from  *)
(* the locks it has, and what is to be known of a thread that waits, or    *)
(* works, can be read off the moves.                                       *)
(***************************************************************************)
EXTENDS ServerLocks, ClientThreads, CountingLemmas, SequenceTheorems
-----------------------------------------------------------------------------
(***************************************************************************)
(* Programs and the moves <<step, before, after>> of a thread: Leads(D, p, *)
(* m, n) is that p leads from m to n by moves of D.                        *)
(***************************************************************************)
StepsOf(D) == {d[1] : d \in D}
Follows(run, D, p, m, n) ==
  /\ run[0] = m /\ run[Len(p)] = n
  /\ \A j \in 1 .. Len(p) : <<p[j], run[j - 1], run[j]>> \in D
Leads(D, p, m, n) == p \in Seq(StepsOf(D)) /\ \E run : Follows(run, D, p, m, n)

LEMMA LeadsNothing == ASSUME NEW D, NEW m PROVE Leads(D, <<>>, m, m)
<1>1. Follows([j \in 0 .. 0 |-> m], D, <<>>, m, m)
  BY DEF Follows
<1> QED BY <1>1 DEF Leads

LEMMA LeadsStep ==
  ASSUME NEW D, NEW s, NEW m, NEW n, <<s, m, n>> \in D
  PROVE  Leads(D, <<s>>, m, n)
<1> DEFINE run == [j \in 0 .. 1 |-> IF j = 0 THEN m ELSE n]
<1>1. run[0] = m /\ run[1] = n
  OBVIOUS
<1>2. s \in StepsOf(D)
  BY DEF StepsOf
<1>3. Len(<<s>>) = 1 /\ <<s>>[1] = s /\ <<s>> \in Seq(StepsOf(D))
  BY <1>2
<1> HIDE DEF run
<1>4. \A j \in 1 .. 1 : <<<<s>>[j], run[j - 1], run[j]>> \in D
  BY <1>1, <1>3
<1>5. Follows(run, D, <<s>>, m, n)
  BY <1>1, <1>3, <1>4 DEF Follows
<1> QED BY <1>3, <1>5 DEF Leads

LEMMA LeadsThen ==
  ASSUME NEW D, NEW p, NEW q, NEW m, NEW k, NEW n, Leads(D, p, m, k), Leads(D, q, k, n)
  PROVE  Leads(D, p \o q, m, n)
<1>1. p \in Seq(StepsOf(D)) /\ q \in Seq(StepsOf(D)) /\ Len(p) \in Nat /\ Len(q) \in Nat
  BY DEF Leads
<1>2. PICK f : Follows(f, D, p, m, k)
  BY DEF Leads
<1>3. PICK g : Follows(g, D, q, k, n)
  BY DEF Leads
<1> DEFINE a == Len(p)
           b == Len(q)
           run == [j \in 0 .. a + b |-> IF j <= a THEN f[j] ELSE g[j - a]]
<1>4. /\ p \o q \in Seq(StepsOf(D)) /\ Len(p \o q) = a + b
      /\ \A j \in 1 .. a + b : (p \o q)[j] = IF j <= a THEN p[j] ELSE q[j - a]
  BY <1>1
<1>5. \A j \in 0 .. a + b : ~(j <= a) => j - a \in 1 .. b /\ j - a \in 0 .. b
  BY <1>1
<1>7. run[0] = m /\ run[a + b] = n
  <2>1. run[0] = m
    BY <1>1, <1>2 DEF Follows
  <2>2. CASE b = 0
    BY <1>1, <1>2, <1>3, <2>1, <2>2 DEF Follows
  <2>3. CASE b # 0
    BY <1>1, <1>3, <2>1, <2>3 DEF Follows
  <2> QED BY <2>2, <2>3
<1>8. ASSUME NEW j \in 1 .. a + b PROVE <<(p \o q)[j], run[j - 1], run[j]>> \in D
  <2>1. CASE j <= a
    <3>1. run[j] = f[j] /\ run[j - 1] = f[j - 1] /\ (p \o q)[j] = p[j] /\ j \in 1 .. a
      BY <1>1, <1>4, <2>1
    <3> QED BY <1>2, <3>1 DEF Follows
  <2>2. CASE ~(j <= a)
    <3>1. run[j] = g[j - a] /\ (p \o q)[j] = q[j - a] /\ j - a \in 1 .. b
      BY <1>1, <1>4, <1>5, <2>2
    <3>2. run[j - 1] = g[(j - a) - 1]
      <4>1. CASE j - 1 <= a
        <5>1. j - 1 = a /\ (j - a) - 1 = 0 /\ j - 1 \in 0 .. a + b
          BY <1>1, <2>2, <4>1
        <5> QED BY <1>2, <1>3, <4>1, <5>1 DEF Follows
      <4>2. CASE ~(j - 1 <= a)
        <5>1. (j - 1) - a = (j - a) - 1 /\ j - 1 \in 0 .. a + b
          BY <1>1, <2>2, <4>2
        <5> QED BY <4>2, <5>1
      <4> QED BY <4>1, <4>2
    <3> HIDE DEF run, a, b
    <3>3. <<q[j - a], g[(j - a) - 1], g[j - a]>> \in D
      BY <1>3, <3>1 DEF Follows, b
    <3> QED BY <3>1, <3>2, <3>3
  <2> QED BY <2>1, <2>2
<1> HIDE DEF run
<1>9. Follows(run, D, p \o q, m, n)
  BY <1>4, <1>7, <1>8 DEF Follows
<1> QED BY <1>4, <1>9 DEF Leads

\* What is left after the first step.
LEMMA LeadsTail ==
  ASSUME NEW D, NEW p, NEW m, NEW n, Leads(D, p, m, n), p # <<>>
  PROVE  /\ p[1] \in StepsOf(D) /\ Tail(p) \in Seq(StepsOf(D))
         /\ \E k : <<p[1], m, k>> \in D /\ Leads(D, Tail(p), k, n)
<1>1. p \in Seq(StepsOf(D)) /\ Len(p) \in Nat /\ Len(p) # 0
  BY DEF Leads
<1>2. PICK f : Follows(f, D, p, m, n)
  BY DEF Leads
<1> DEFINE run == [j \in 0 .. Len(p) - 1 |-> f[j + 1]]
<1>3. /\ Tail(p) \in Seq(StepsOf(D)) /\ Len(Tail(p)) = Len(p) - 1 /\ p[1] \in StepsOf(D)
      /\ \A j \in 1 .. Len(p) - 1 : Tail(p)[j] = p[j + 1]
  BY <1>1
<1>4. f[0] = m /\ <<p[1], m, f[1]>> \in D
  BY <1>1, <1>2 DEF Follows
<1>5. run[0] = f[1] /\ run[Len(p) - 1] = n
  BY <1>1, <1>2 DEF Follows
<1>6. ASSUME NEW j \in 1 .. Len(p) - 1 PROVE <<Tail(p)[j], run[j - 1], run[j]>> \in D
  <2>1. j + 1 \in 1 .. Len(p) /\ (j + 1) - 1 = j /\ run[j] = f[j + 1] /\ run[j - 1] = f[j]
    BY <1>1
  <2> HIDE DEF run
  <2> QED BY <1>2, <1>3, <2>1 DEF Follows
<1> HIDE DEF run
<1>7. Follows(run, D, Tail(p), f[1], n)
  BY <1>3, <1>5, <1>6 DEF Follows
<1> QED BY <1>3, <1>4, <1>7 DEF Leads

\* Nothing is left to do: the thread is where it is to be in the end.
LEMMA LeadsEnd == ASSUME NEW D, NEW m, NEW n, Leads(D, <<>>, m, n) PROVE m = n
BY DEF Leads, Follows

\* What no move with a step of p leads out of still is the case in the end.
LEMMA LeadsWithin ==
  ASSUME NEW D, NEW p, NEW m, NEW n, Leads(D, p, m, n), NEW Q, m \in Q,
         \A j \in 1 .. Len(p) : \A d \in D : d[1] = p[j] /\ d[2] \in Q => d[3] \in Q
  PROVE  n \in Q
<1>1. Len(p) \in Nat
  BY DEF Leads
<1>2. PICK f : Follows(f, D, p, m, n)
  BY DEF Leads
<1> DEFINE G == {j \in Nat : j <= Len(p) => f[j] \in Q}
<1>3. 0 \in G
  BY <1>2 DEF Follows
<1>4. ASSUME NEW j \in G PROVE j + 1 \in G
  <2> SUFFICES ASSUME j + 1 <= Len(p) PROVE f[j + 1] \in Q
    OBVIOUS
  <2>1. j \in Nat /\ j + 1 \in 1 .. Len(p) /\ (j + 1) - 1 = j /\ f[j] \in Q
    BY <1>1
  <2> DEFINE d == <<p[j + 1], f[j], f[j + 1]>>
  <2>2. d \in D /\ d[1] = p[j + 1] /\ d[2] = f[j] /\ d[3] = f[j + 1]
    BY <1>2, <2>1 DEF Follows
  <2> HIDE DEF d
  <2> QED BY <2>1, <2>2
<1>5. G \in SUBSET Nat
  OBVIOUS
<1> HIDE DEF G
<1>6. Len(p) \in G
  BY <1>1, <1>3, <1>4, <1>5, AllNumbers
<1> QED BY <1>1, <1>2, <1>6 DEF G, Follows
-----------------------------------------------------------------------------
(* One program for each member of a set, in the order of SetToSeq.         *)

\* The recursive function inside FlattenSeq.
Flattened(q) == CHOOSE f : f = [i \in 1 .. Len(q) |-> IF i = 1 THEN q[i] ELSE f[i - 1] \o q[i]]

LEMMA LengthOf ==
  ASSUME NEW n \in Nat, NEW A, NEW q \in [1 .. n -> A] PROVE Len(q) = n
<1>1. q \in Seq(A)
  BY SeqDef
<1>2. DOMAIN q = 1 .. Len(q) /\ Len(q) \in Nat
  BY <1>1, LenProperties
<1> QED BY <1>2

\* A flattened sequence goes from part to part.
Unfolds(f, q, n, A) ==
  /\ f \in [0 .. n -> Seq(A)] /\ f[0] = <<>> /\ FlattenSeq(q) = f[n]
  /\ \A k \in 1 .. n : f[k] = f[k - 1] \o q[k]
LEMMA FlattenUnfolds ==
  ASSUME NEW n \in Nat, NEW A, NEW q \in [1 .. n -> Seq(A)]
  PROVE  \E f : Unfolds(f, q, n, A)
<1> DEFINE T == Seq(A)
           step == [k \in 1 .. n |-> [a \in T |-> a \o q[k]]]
           f == Flattened(q)
<1>1. Len(q) = n
  BY LengthOf
<1>2. \A k \in 1 .. n, a \in T : a \o q[k] \in T
  <2> SUFFICES ASSUME NEW k \in 1 .. n, NEW a \in T PROVE a \o q[k] \in T
    OBVIOUS
  <2>1. q[k] \in Seq(A)
    OBVIOUS
  <2> QED BY <2>1
<1>3. step \in StepsTo(n, T) /\ <<>> \in T
  <2> HIDE DEF T
  <2>1. step \in StepsTo(n, T)
    BY <1>2 DEF StepsTo
  <2> QED BY <2>1 DEF T
<1>4. \A k \in 1 .. n, a \in T : step[k][a] = a \o q[k]
  OBVIOUS
<1> HIDE DEF step, T
<1>5. PICK g : Recursive(g, n, T, <<>>, step)
  BY <1>3, RecursionExists
<1>6. /\ g \in [0 .. n -> T] /\ g[0] = <<>>
      /\ \A k \in 1 .. n : g[k - 1] \in T /\ g[k] = g[k - 1] \o q[k]
  <2>1. g \in [0 .. n -> T] /\ g[0] = <<>> /\ \A k \in 1 .. n : g[k] = step[k][g[k - 1]]
    BY <1>5 DEF Recursive
  <2>2. \A k \in 1 .. n : k - 1 \in 0 .. n
    OBVIOUS
  <2> QED BY <1>4, <2>1, <2>2, Zenon
<1>7. CASE n = 0
  <2>1. FlattenSeq(q) = q /\ q = <<>>
    BY <1>1, <1>7 DEF FlattenSeq
  <2> QED BY <1>6, <1>7, <2>1 DEF T, Unfolds
<1>8. CASE n # 0
  <2>1. 1 \in 1 .. n /\ n \in 1 .. n /\ 1 - 1 = 0
    BY <1>8
  <2>2. g[1] = q[1]
    <3>1. g[1] = <<>> \o q[1] /\ q[1] \in Seq(A)
      BY <1>6, <2>1
    <3> QED BY <3>1
  <2> DEFINE gg == [k \in 1 .. n |-> g[k]]
  <2>3. gg = [i \in 1 .. n |-> IF i = 1 THEN q[i] ELSE gg[i - 1] \o q[i]]
    <3> SUFFICES ASSUME NEW i \in 1 .. n PROVE gg[i] = IF i = 1 THEN q[i] ELSE gg[i - 1] \o q[i]
      OBVIOUS
    <3>1. CASE i = 1
      BY <2>2, <3>1
    <3>2. CASE i # 1
      <4>1. i - 1 \in 1 .. n
        BY <3>2
      <4>2. g[i] = g[i - 1] \o q[i] /\ gg[i] = g[i] /\ gg[i - 1] = g[i - 1]
        BY <1>6, <4>1, Zenon
      <4> HIDE DEF gg
      <4>3. gg[i] = gg[i - 1] \o q[i]
        BY <4>2, Zenon
      <4> QED BY <3>2, <4>3
    <3> QED BY <3>1, <3>2
  <2> HIDE DEF gg
  <2>4. f = [i \in 1 .. n |-> IF i = 1 THEN q[i] ELSE f[i - 1] \o q[i]]
    BY <1>1, <2>3, Zenon DEF Flattened
  <2>5. FlattenSeq(q) = f[n]
    BY <1>1, <1>8 DEF FlattenSeq, Flattened
  <2> HIDE DEF f
  <2> DEFINE h == [k \in 0 .. n |-> IF k = 0 THEN <<>> ELSE f[k]]
  <2>6. \A k \in 1 .. n : h[k - 1] = g[k - 1] => h[k] = g[k]
    <3> SUFFICES ASSUME NEW k \in 1 .. n, h[k - 1] = g[k - 1] PROVE h[k] = g[k]
      OBVIOUS
    <3>1. CASE k = 1
      BY <2>2, <2>4, <3>1
    <3>2. CASE k # 1
      <4>1. k - 1 \in 0 .. n /\ k \in 0 .. n /\ k - 1 # 0 /\ k # 0
        BY <3>2
      <4>2. h[k] = f[k] /\ h[k - 1] = f[k - 1]
        BY <4>1
      <4> HIDE DEF h
      <4>3. f[k] = f[k - 1] \o q[k]
        BY <2>4, <3>2, Zenon
      <4>4. g[k] = g[k - 1] \o q[k]
        BY <1>6, Zenon
      <4>5. f[k - 1] = g[k - 1]
        BY <4>2, Zenon
      <4> QED BY <4>2, <4>3, <4>4, <4>5, Zenon
    <3> QED BY <3>1, <3>2
  <2>7. h[0] = g[0] /\ h[n] = f[n]
    BY <1>6, <1>8
  <2> HIDE DEF h
  <2>8. Alike(h, g, n)
    BY <2>6, <2>7 DEF Alike
  <2>9. h[n] = g[n]
    <3>1. n \in 0 .. n
      OBVIOUS
    <3> QED BY <2>8, <3>1, RecursionUnique
  <2> QED BY <1>6, <2>5, <2>7, <2>9 DEF T, Unfolds
<1> QED BY <1>7, <1>8

\* Programs one after another, each from where the one before it led.
LEMMA ManyLead ==
  ASSUME NEW D, NEW n \in Nat, NEW q, DOMAIN q = 1 .. n, q = [i \in 1 .. n |-> q[i]], NEW st,
         \A i \in 1 .. n : Leads(D, q[i], st[i - 1], st[i])
  PROVE  Leads(D, FlattenSeq(q), st[0], st[n])
<1> DEFINE A == StepsOf(D)
<1>1. q \in [1 .. n -> Seq(A)]
  BY DEF Leads
<1> HIDE DEF A
<1>1a. n \in Nat
  OBVIOUS
<1>2a. PICK f : Unfolds(f, q, n, A)
  BY <1>1, <1>1a, FlattenUnfolds
<1>2. f[0] = <<>> /\ FlattenSeq(q) = f[n] /\ \A k \in 1 .. n : f[k] = f[k - 1] \o q[k]
  BY <1>2a DEF Unfolds
<1> DEFINE G == {k \in Nat : k <= n => Leads(D, f[k], st[0], st[k])}
<1>3. 0 \in G
  BY <1>2, LeadsNothing
<1>4. ASSUME NEW k \in G PROVE k + 1 \in G
  <2> SUFFICES ASSUME k + 1 <= n PROVE Leads(D, f[k + 1], st[0], st[k + 1])
    OBVIOUS
  <2>1. k \in Nat /\ k + 1 \in 1 .. n /\ (k + 1) - 1 = k /\ Leads(D, f[k], st[0], st[k])
    OBVIOUS
  <2>2. Leads(D, q[k + 1], st[k], st[k + 1])
    BY <2>1
  <2>3. f[k + 1] = f[k] \o q[k + 1]
    BY <1>2, <2>1
  <2>4. Leads(D, f[k] \o q[k + 1], st[0], st[k + 1])
    BY <2>1, <2>2, LeadsThen
  <2> QED BY <2>3, <2>4
<1>5. G \in SUBSET Nat
  OBVIOUS
<1> HIDE DEF G
<1>6. n \in G
  BY <1>3, <1>4, <1>5, AllNumbers
<1> QED BY <1>2, <1>6 DEF G

\* A finite set in an order.
LEMMA SetInOrder ==
  ASSUME NEW S, IsFiniteSet(S)
  PROVE  /\ Cardinality(S) \in Nat /\ SetToSeq(S) \in [1 .. Cardinality(S) -> S]
         /\ \A i, j \in 1 .. Cardinality(S) : SetToSeq(S)[i] = SetToSeq(S)[j] => i = j
         /\ \A x \in S : \E i \in 1 .. Cardinality(S) : SetToSeq(S)[i] = x
<1> DEFINE n == Cardinality(S)
           order == SetToSeq(S)
<1>1. n \in Nat
  BY FS_CardinalityType
<1>2. \E f \in [1 .. n -> S] : IsInjective(f)
  <2>1. PICK f : f \in Bijection(1 .. n, S)
    BY FS_NatBijection, FS_CountingElements, FS_CardinalityType DEF ExistsBijection
  <2> QED BY <2>1 DEF Bijection, Injection, IsInjective
<1>3. order \in [1 .. n -> S] /\ IsInjective(order)
  BY <1>2 DEF SetToSeq
<1>4. \A i, j \in 1 .. n : order[i] = order[j] => i = j
  BY <1>3 DEF IsInjective
<1> HIDE DEF order
<1>5. \A x \in S : \E i \in 1 .. n : order[i] = x
  <2> DEFINE R == {order[i] : i \in 1 .. n}
  <2>0. order \in Bijection(1 .. n, R)
    BY <1>3, <1>4 DEF Bijection, Injection, Surjection, IsInjective
  <2>1. IsFiniteSet(1 .. n) /\ Cardinality(1 .. n) = n
    BY <1>1, FS_Interval
  <2>2. Cardinality(R) = n
    BY <2>0, <2>1, FS_Bijection DEF ExistsBijection
  <2>3. R \subseteq S
    BY <1>3
  <2> HIDE DEF R, n
  <2>4. R = S
    BY <2>2, <2>3, FS_Subset DEF n
  <2> QED BY <2>4 DEF R, n
<1> QED BY <1>1, <1>3, <1>4, <1>5 DEF order

\* A program for each member: st[T] is where the thread is when those of T are before it.
LEMMA EachLeads ==
  ASSUME NEW D, NEW S, IsFiniteSet(S), NEW b, NEW st,
         \A x \in S, T \in SUBSET S : x \notin T => Leads(D, b[x], st[T \cup {x}], st[T])
  PROVE  Leads(D, FlattenSeq([i \in 1 .. Cardinality(S) |-> b[SetToSeq(S)[i]]]), st[S], st[{}])
<1> DEFINE n == Cardinality(S)
           order == SetToSeq(S)
           after == [i \in 0 .. n |-> {order[j] : j \in i + 1 .. n}]
           q == [i \in 1 .. n |-> b[order[i]]]
           at == [i \in 0 .. n |-> st[after[i]]]
<1>1. /\ n \in Nat /\ order \in [1 .. n -> S] /\ \A i, j \in 1 .. n : order[i] = order[j] => i = j
      /\ \A x \in S : \E i \in 1 .. n : order[i] = x
  BY SetInOrder
<1> HIDE DEF n, order
<1>2. after[0] = S /\ after[n] = {} /\ 0 \in 0 .. n /\ n \in 0 .. n
  BY <1>1
<1>3. ASSUME NEW i \in 1 .. n
      PROVE  /\ after[i - 1] = after[i] \cup {order[i]} /\ order[i] \notin after[i]
             /\ after[i] \in SUBSET S /\ order[i] \in S /\ i - 1 \in 0 .. n /\ i \in 0 .. n
  <2>1. i - 1 \in 0 .. n /\ i \in 0 .. n /\ (i - 1) + 1 = i /\ order[i] \in S
    BY <1>1
  <2>2. (i .. n) = (i + 1 .. n) \cup {i}
    BY <1>1
  <2>3. after[i - 1] = after[i] \cup {order[i]}
    BY <2>1, <2>2
  <2>4. order[i] \notin after[i] /\ after[i] \in SUBSET S
    BY <1>1, <2>1
  <2> QED BY <2>1, <2>3, <2>4
<1> HIDE DEF after
<1>4. ASSUME NEW i \in 1 .. n PROVE Leads(D, q[i], at[i - 1], at[i])
  <2>1. at[i - 1] = st[after[i] \cup {order[i]}] /\ at[i] = st[after[i]] /\ q[i] = b[order[i]]
    BY <1>3
  <2> QED BY <1>3, <2>1
<1>5. at[0] = st[S] /\ at[n] = st[{}]
  BY <1>2
<1>6. DOMAIN q = 1 .. n /\ q = [i \in 1 .. n |-> q[i]]
  OBVIOUS
<1> HIDE DEF q, at
<1>7. Leads(D, FlattenSeq(q), at[0], at[n])
  BY <1>1, <1>4, <1>6, ManyLead
<1> QED BY <1>5, <1>7 DEF q, n, order
-----------------------------------------------------------------------------
(***************************************************************************)
(* Proofs about ServerLocks, for any threads, players and chunks: the      *)
(* server's tasks never wait for each other in a circle.  Each lock has a  *)
(* rank, and a task is shown to take only locks above all those it has,    *)
(* and to give back what it takes.  What a thread still has to do is then  *)
(* at all times something that can be done with the locks it has, so who   *)
(* waits holds nothing as high as what it waits for.                       *)
(***************************************************************************)
\* What a thread has of each lock, and the order in which the server takes them.
Locks == Mutexes \cup Tables
Modes == {"free", "read", "write"}
Holdings == [Locks -> Modes]
Free == [l \in Locks |-> "free"]
Rank(l) ==
  IF l = "active_players" THEN 1
  ELSE IF l \in PlayerStates THEN 2
  ELSE IF l = "inventories" THEN 3
  ELSE IF l = "live_chunks" THEN 4
  ELSE 5
Above(m, r) == \A l \in Locks : m[l] # "free" => Rank(l) < r

\* A step that a thread with m may take, and what it has after it.
LockStep == [op : LockOps, on : Locks]
Takes(s, m, n) ==
  /\ Above(m, Rank(s.on))
  /\ \/ s.op = "use" /\ s.on \in Mutexes /\ n = m
     \/ s.op = "look" /\ s.on \in Tables /\ n = m
     \/ s.op = "lock" /\ s.on \in Mutexes /\ n = [m EXCEPT ![s.on] = "write"]
     \/ s.op = "write" /\ s.on \in Tables /\ n = [m EXCEPT ![s.on] = "write"]
     \/ s.op = "read" /\ s.on \in Tables /\ n = [m EXCEPT ![s.on] = "read"]
Gives(s, m, n) ==
  \/ s.op = "unlock" /\ m[s.on] = "write" /\ n = [m EXCEPT ![s.on] = "free"]
  \/ s.op = "unread" /\ s.on \in Tables /\ m[s.on] = "read" /\ n = [m EXCEPT ![s.on] = "free"]
  \/ s.op = "downgrade" /\ s.on \in Tables /\ m[s.on] = "write" /\ n = [m EXCEPT ![s.on] = "read"]
Does(s, m, n) == Takes(s, m, n) \/ Gives(s, m, n)

\* A thread with m may do all of p, and has n when it is done.
ServerMoves == {d \in LockStep \X Holdings \X Holdings : Does(d[1], d[2], d[3])}
Runs(p, m, n) == Leads(ServerMoves, p, m, n)

\* A program for a thread whose locks are all below r: it has the same locks after it.
Keeps(p, r) == \A m \in Holdings : Above(m, r) => Runs(p, m, m)
-----------------------------------------------------------------------------
LEMMA LockNames ==
  /\ \A l \in Locks : Rank(l) \in 1 .. 5
  /\ Rank("active_players") = 1 /\ Rank("inventories") = 3 /\ Rank("live_chunks") = 4
  /\ Rank("last_accessed") = 5 /\ (\A p \in PlayerStates : Rank(p) = 2) /\ (\A c \in Chunks : Rank(c) = 5)
  /\ {"active_players", "inventories", "last_accessed"} \cup PlayerStates \cup Chunks = Mutexes
  /\ Tables = {"live_chunks"} /\ Mutexes \subseteq Locks /\ Tables \subseteq Locks
  /\ Mutexes \cap Tables = {}
BY ServerLocksAssumption DEF Rank, Locks, Mutexes, Tables

LEMMA RunsStep ==
  ASSUME NEW s \in LockStep, NEW m \in Holdings, NEW n \in Holdings, Does(s, m, n)
  PROVE  Runs(<<s>>, m, n)
BY LeadsStep DEF Runs, ServerMoves

LEMMA RunsThen ==
  ASSUME NEW p, NEW q, NEW m, NEW k, NEW n, Runs(p, m, k), Runs(q, k, n)
  PROVE  Runs(p \o q, m, n)
BY LeadsThen DEF Runs

LEMMA RunsSteps == ASSUME NEW p, NEW m, NEW n, Runs(p, m, n) PROVE p \in Seq(LockStep)
<1>1. StepsOf(ServerMoves) \subseteq LockStep
  BY DEF StepsOf, ServerMoves
<1> QED BY <1>1 DEF Runs, Leads

LEMMA RunsTail ==
  ASSUME NEW p, NEW m, NEW n, Runs(p, m, n), p # <<>>
  PROVE  /\ p[1] \in LockStep /\ Tail(p) \in Seq(LockStep) /\ m \in Holdings
         /\ \E k \in Holdings : Does(p[1], m, k) /\ Runs(Tail(p), k, n)
<1>1. StepsOf(ServerMoves) \subseteq LockStep
  BY DEF StepsOf, ServerMoves
<1>2. /\ p[1] \in StepsOf(ServerMoves) /\ Tail(p) \in Seq(StepsOf(ServerMoves))
      /\ \E k : <<p[1], m, k>> \in ServerMoves /\ Leads(ServerMoves, Tail(p), k, n)
  BY LeadsTail DEF Runs
<1>3. PICK k : <<p[1], m, k>> \in ServerMoves /\ Leads(ServerMoves, Tail(p), k, n)
  BY <1>2
<1>4. m \in Holdings /\ k \in Holdings /\ Does(p[1], m, k)
  BY <1>3 DEF ServerMoves
<1>5. Tail(p) \in Seq(LockStep)
  BY <1>1, <1>2
<1> QED BY <1>1, <1>2, <1>3, <1>4, <1>5 DEF Runs

-----------------------------------------------------------------------------
LEMMA KeepsNothing == ASSUME NEW r PROVE Keeps(<<>>, r)
BY LeadsNothing DEF Keeps, Runs

LEMMA KeepsThen ==
  ASSUME NEW p, NEW q, NEW r, Keeps(p, r), Keeps(q, r)
  PROVE  Keeps(p \o q, r)
<1> SUFFICES ASSUME NEW m \in Holdings, Above(m, r) PROVE Runs(p \o q, m, m)
  BY DEF Keeps
<1>1. Runs(p, m, m) /\ Runs(q, m, m)
  BY DEF Keeps
<1> QED BY <1>1, RunsThen

LEMMA KeepsBelow ==
  ASSUME NEW p, NEW r \in Nat, NEW q \in Nat, Keeps(p, r), q <= r
  PROVE  Keeps(p, q)
<1> SUFFICES ASSUME NEW m \in Holdings, Above(m, q) PROVE Runs(p, m, m)
  BY DEF Keeps
<1>1. \A l \in Locks : Rank(l) \in Nat
  BY LockNames
<1>2. Above(m, r)
  BY <1>1 DEF Above
<1> QED BY <1>2 DEF Keeps

LEMMA UseKeeps == ASSUME NEW l \in Mutexes PROVE Keeps(Use(l), Rank(l))
<1> SUFFICES ASSUME NEW m \in Holdings, Above(m, Rank(l)) PROVE Runs(Use(l), m, m)
  BY DEF Keeps
<1> DEFINE s == [op |-> "use", on |-> l]
<1>1. s \in LockStep /\ s.op = "use" /\ s.on = l
  BY LockNames DEF LockStep, LockOps
<1>2. Does(s, m, m)
  BY <1>1 DEF Does, Takes
<1> HIDE DEF s
<1>3. Runs(<<s>>, m, m)
  BY <1>1, <1>2, RunsStep
<1> QED BY <1>3 DEF s, Use, Step

LEMMA LookKeeps == ASSUME NEW l \in Tables PROVE Keeps(Look(l), Rank(l))
<1> SUFFICES ASSUME NEW m \in Holdings, Above(m, Rank(l)) PROVE Runs(Look(l), m, m)
  BY DEF Keeps
<1> DEFINE s == [op |-> "look", on |-> l]
<1>1. s \in LockStep /\ s.op = "look" /\ s.on = l
  BY LockNames DEF LockStep, LockOps
<1>2. Does(s, m, m)
  BY <1>1 DEF Does, Takes
<1> HIDE DEF s
<1>3. Runs(<<s>>, m, m)
  BY <1>1, <1>2, RunsStep
<1> QED BY <1>3 DEF s, Look, Step

\* One lock after another, each given back before the next.
LEMMA UseEachKeeps ==
  ASSUME NEW S \in SUBSET Mutexes, IsFiniteSet(S), NEW r \in Nat, \A l \in S : r <= Rank(l)
  PROVE  Keeps(UseEach(S), r)
<1> SUFFICES ASSUME NEW m \in Holdings, Above(m, r) PROVE Runs(UseEach(S), m, m)
  BY DEF Keeps
<1> DEFINE n == Cardinality(S)
           order == SetToSeq(S)
<1>1. n \in Nat /\ order \in [1 .. n -> S]
  BY SetInOrder
<1> HIDE DEF n, order
<1> DEFINE p == [i \in 1 .. n |-> Use(order[i])[1]]
           run == [j \in 0 .. n |-> m]
           A == StepsOf(ServerMoves)
<1>2. UseEach(S) = p
  BY DEF UseEach, n, order
<1>3. ASSUME NEW i \in 1 .. n PROVE p[i] \in A /\ <<p[i], m, m>> \in ServerMoves
  <2> DEFINE o == order[i]
             s == [op |-> "use", on |-> o]
  <2>1. \A l \in Locks : Rank(l) \in Nat
    BY LockNames
  <2>2. o \in Mutexes /\ o \in Locks /\ r <= Rank(o)
    BY <1>1, LockNames
  <2>3. p[i] = s
    BY DEF Use, Step
  <2> HIDE DEF o, p
  <2>4. s \in LockStep /\ s.op = "use" /\ s.on = o
    BY <2>2 DEF LockStep, LockOps
  <2>5. Above(m, Rank(o))
    BY <2>1, <2>2 DEF Above
  <2> HIDE DEF s
  <2>6. Does(s, m, m)
    BY <2>2, <2>4, <2>5 DEF Does, Takes
  <2>7. <<s, m, m>> \in ServerMoves
    BY <2>4, <2>6 DEF ServerMoves
  <2> QED BY <2>3, <2>7 DEF StepsOf
<1> HIDE DEF A
<1>3a. p = [i \in 1 .. n |-> p[i]]
  OBVIOUS
<1> HIDE DEF p
<1>3b. p \in [1 .. n -> A]
  BY <1>3, <1>3a
<1>4. p \in Seq(A) /\ Len(p) = n
  BY <1>1, <1>3b, LengthOf, SeqDef
<1>5. Follows(run, ServerMoves, p, m, m)
  BY <1>1, <1>3, <1>4 DEF Follows
<1> QED BY <1>2, <1>4, <1>5 DEF Runs, Leads, A

\* A lock is taken above all that are held, and given back.
LEMMA TakenAndGiven ==
  ASSUME NEW m \in Holdings, NEW l \in Locks, Above(m, Rank(l)), NEW mode \in Modes,
         NEW n \in Holdings, n[l] = mode, \A k \in Locks \ {l} : n[k] = m[k]
  PROVE  Above(n, Rank(l) + 1) /\ m = [n EXCEPT ![l] = "free"]
<1>1. \A k \in Locks : Rank(k) \in Nat
  BY LockNames
<1>2. m[l] = "free"
  BY <1>1 DEF Above
<1>3. Above(n, Rank(l) + 1)
  BY <1>1 DEF Above
<1>4. m = [n EXCEPT ![l] = "free"]
  BY <1>2 DEF Holdings
<1> QED BY <1>3, <1>4

\* The first and the last step around a body.
LEMMA Around ==
  ASSUME NEW l \in Locks, NEW first, NEW back, NEW body, NEW mode \in {"read", "write"},
         << first, mode >> \in (IF l \in Mutexes THEN {<<"lock", "write">>}
                                ELSE {<<"read", "read">>, <<"write", "write">>}),
         << back, mode >> \in {<<"unlock", "write">>} \cup (IF l \in Tables THEN {<<"unread", "read">>} ELSE {}),
         Keeps(body, Rank(l) + 1)
  PROVE  Keeps((Step(first, l) \o body) \o Step(back, l), Rank(l))
<1> SUFFICES ASSUME NEW m \in Holdings, Above(m, Rank(l))
             PROVE  Runs((Step(first, l) \o body) \o Step(back, l), m, m)
  BY DEF Keeps
<1> DEFINE n == [m EXCEPT ![l] = mode]
           a == [op |-> first, on |-> l]
           b == [op |-> back, on |-> l]
<1>0. first \in LockOps /\ back \in LockOps
  BY DEF LockOps
<1>0a. mode \in Modes /\ (l \in Mutexes \/ l \in Tables) /\ ~(l \in Mutexes /\ l \in Tables)
  BY LockNames DEF Modes, Locks
<1>1. n \in Holdings /\ Above(n, Rank(l) + 1) /\ n[l] = mode /\ m = [n EXCEPT ![l] = "free"]
  <2>1. n \in Holdings /\ n[l] = mode /\ \A k \in Locks \ {l} : n[k] = m[k]
    BY <1>0a DEF Holdings
  <2> HIDE DEF n
  <2> QED BY <1>0a, <2>1, TakenAndGiven
<1>2. a \in LockStep /\ b \in LockStep /\ a.op = first /\ a.on = l /\ b.op = back /\ b.on = l
  BY <1>0 DEF LockStep, LockOps
<1>3. Does(a, m, n)
  <2> SUFFICES Takes(a, m, n)
    BY DEF Does
  <2> HIDE DEF a
  <2>1. CASE l \in Mutexes
    BY <1>2, <2>1 DEF Takes
  <2>2. CASE l \notin Mutexes
    BY <1>0a, <1>2, <2>2 DEF Takes
  <2> QED BY <2>1, <2>2
<1>4. Does(b, n, m)
  <2> HIDE DEF b, n
  <2>1. CASE l \in Tables
    BY <1>1, <1>2, <2>1 DEF Does, Gives
  <2>2. CASE l \notin Tables
    BY <1>1, <1>2, <2>2 DEF Does, Gives
  <2> QED BY <2>1, <2>2
<1> HIDE DEF n, a, b
<1>5. Runs(<<a>>, m, n) /\ Runs(<<b>>, n, m) /\ Runs(body, n, n)
  BY <1>1, <1>2, <1>3, <1>4, RunsStep DEF Keeps
<1>6. Runs(<<a>> \o body, m, n)
  BY <1>5, RunsThen
<1>7. Runs((<<a>> \o body) \o <<b>>, m, m)
  BY <1>5, <1>6, RunsThen
<1> QED BY <1>7 DEF a, b, Step

LEMMA HoldKeeps ==
  ASSUME NEW l \in Mutexes, NEW body, Keeps(body, Rank(l) + 1)
  PROVE  Keeps(Hold(l, body), Rank(l))
<1>1. Keeps((Step("lock", l) \o body) \o Step("unlock", l), Rank(l))
  BY LockNames, Around
<1> QED BY <1>1 DEF Hold

LEMMA ReadingKeeps ==
  ASSUME NEW l \in Tables, NEW body, Keeps(body, Rank(l) + 1)
  PROVE  Keeps(Reading(l, body), Rank(l))
<1>1. Keeps((Step("read", l) \o body) \o Step("unread", l), Rank(l))
  BY LockNames, Around
<1> QED BY <1>1 DEF Reading

LEMMA WritingKeeps ==
  ASSUME NEW l \in Tables, NEW body, Keeps(body, Rank(l) + 1)
  PROVE  Keeps(Writing(l, body), Rank(l))
<1>1. Keeps((Step("write", l) \o body) \o Step("unlock", l), Rank(l))
  BY LockNames, Around
<1> QED BY <1>1 DEF Writing
-----------------------------------------------------------------------------
\* A chunk that is loaded first: the table is written, then read until the chunk is given back.
LEMMA LoadedKeeps ==
  ASSUME NEW c \in Chunks, NEW body, Keeps(body, 6)
  PROVE  Keeps(WithChunk(c, FALSE, body), 4)
<1>0. PICK l \in Tables : l = "live_chunks"
  BY DEF Tables
<1> DEFINE s1 == [op |-> "write", on |-> l]
           s2 == [op |-> "downgrade", on |-> l]
           s3 == [op |-> "unread", on |-> l]
<1>1. l \in Locks /\ l \in Tables /\ Rank(l) = 4 /\ c \in Mutexes /\ Rank(c) = 5
  BY <1>0, LockNames
<1>2. Keeps(Look(l), 4) /\ Keeps(Use(c), 5) /\ Keeps(Hold(c, body), 5)
  BY <1>1, LookKeeps, UseKeeps, HoldKeeps
<1> SUFFICES ASSUME NEW m \in Holdings, Above(m, 4) PROVE Runs(WithChunk(c, FALSE, body), m, m)
  BY DEF Keeps
<1> DEFINE w == [m EXCEPT ![l] = "write"]
           d == [m EXCEPT ![l] = "read"]
<1>3. /\ w \in Holdings /\ w[l] = "write" /\ d = [w EXCEPT ![l] = "read"]
      /\ d \in Holdings /\ d[l] = "read" /\ \A k \in Locks \ {l} : d[k] = m[k]
  BY <1>1 DEF Holdings, Modes
<1>4. /\ s1 \in LockStep /\ s1.op = "write" /\ s1.on = l
      /\ s2 \in LockStep /\ s2.op = "downgrade" /\ s2.on = l
      /\ s3 \in LockStep /\ s3.op = "unread" /\ s3.on = l
  BY <1>1 DEF LockStep, LockOps
<1>5. Does(s1, m, w)
  <2> HIDE DEF s1
  <2> QED BY <1>1, <1>4 DEF Does, Takes
<1> HIDE DEF w, d, s1, s2, s3
<1>6. Does(s2, w, d)
  BY <1>1, <1>3, <1>4 DEF Does, Gives
<1>7. Above(d, 5) /\ m = [d EXCEPT ![l] = "free"]
  <2>1. PICK e \in Holdings : e = d
    BY <1>3
  <2>2. PICK mode \in Modes : e[l] = mode
    BY <1>3, <2>1 DEF Modes
  <2>3. Above(m, Rank(l)) /\ \A k \in Locks \ {l} : e[k] = m[k]
    BY <1>1, <1>3, <2>1
  <2>4. Above(e, Rank(l) + 1)
    BY <1>1, <2>2, <2>3, TakenAndGiven
  <2>5. m = [e EXCEPT ![l] = "free"]
    BY <1>1, <2>2, <2>3, TakenAndGiven
  <2>6. Rank(l) + 1 = 5
    BY <1>1
  <2> QED BY <2>1, <2>4, <2>5, <2>6
<1>8. Does(s3, d, m)
  BY <1>1, <1>3, <1>4, <1>7 DEF Does, Gives
<1>9. Runs(Look(l), m, m) /\ Runs(Use(c), d, d) /\ Runs(Hold(c, body), d, d)
  BY <1>2, <1>3, <1>7 DEF Keeps
<1>10. Runs(<<s1>>, m, w) /\ Runs(<<s2>>, w, d) /\ Runs(<<s3>>, d, m)
  BY <1>3, <1>4, <1>5, <1>6, <1>8, RunsStep
<1>11. Runs(Look(l) \o <<s1>>, m, w)
  BY <1>9, <1>10, RunsThen
<1>12. Runs((Look(l) \o <<s1>>) \o <<s2>>, m, d)
  BY <1>10, <1>11, RunsThen
<1>13. Runs(((Look(l) \o <<s1>>) \o <<s2>>) \o Use(c), m, d)
  BY <1>9, <1>12, RunsThen
<1>14. Runs((((Look(l) \o <<s1>>) \o <<s2>>) \o Use(c)) \o Hold(c, body), m, d)
  BY <1>9, <1>13, RunsThen
<1>15. Runs(((((Look(l) \o <<s1>>) \o <<s2>>) \o Use(c)) \o Hold(c, body)) \o <<s3>>, m, m)
  BY <1>10, <1>14, RunsThen
<1> QED BY <1>0, <1>15 DEF WithChunk, Step, s1, s2, s3

\* What is done to a block takes the live chunks and then one chunk.
LEMMA CallsKeep == ASSUME NEW p \in Calls PROVE Keeps(p, 4)
<1>1. PICK c \in Chunks, cached \in BOOLEAN : p = WithChunk(c, cached, <<>>)
  BY DEF Calls
<1>2. /\ c \in Mutexes /\ Rank(c) = 5 /\ "live_chunks" \in Tables /\ Rank("live_chunks") = 4
      /\ 5 + 1 = 6 /\ 4 + 1 = 5
  BY LockNames
<1>3. Keeps(<<>>, 6)
  BY KeepsNothing
<1>4. Keeps(Hold(c, <<>>), 5)
  BY <1>2, <1>3, HoldKeeps
<1>5. Keeps(Reading("live_chunks", Hold(c, <<>>)), 4)
  BY <1>2, <1>4, ReadingKeeps
<1>6. Keeps(WithChunk(c, FALSE, <<>>), 4)
  BY <1>3, LoadedKeeps
<1> QED BY <1>1, <1>5, <1>6 DEF WithChunk

LEMMA InteractionsKeep == ASSUME NEW p \in Interactions PROVE Keeps(p, 4)
<1>1. CASE p \in Calls
  BY <1>1, CallsKeep
<1>2. ASSUME NEW call \in Calls, NEW after \in Calls, p = call \o after
      PROVE  Keeps(p, 4)
  <2>1. Keeps(call, 4) /\ Keeps(after, 4)
    BY CallsKeep
  <2> QED BY <1>2, <2>1, KeepsThen
<1> QED BY <1>1, <1>2 DEF Interactions

LEMMA OnViewKeeps == ASSUME NEW p \in OnView PROVE Keeps(p, 3)
<1>1. CASE p \in Calls
  <2>1. Keeps(p, 4)
    BY <1>1, CallsKeep
  <2> QED BY <2>1, KeepsBelow
<1>2. CASE p = Use("inventories")
  <2>1. "inventories" \in Mutexes /\ Rank("inventories") = 3
    BY LockNames
  <2>2. Keeps(Use("inventories"), 3)
    BY <2>1, UseKeeps
  <2> QED BY <1>2, <2>2
<1> QED BY <1>1, <1>2 DEF OnView

\* A player's view is used while the player is held.
LEMMA HoldPlayerKeeps ==
  ASSUME NEW p \in PlayerStates, NEW body, Keeps(body, 3)
  PROVE  Keeps(Hold(p, body), 2)
<1>1. p \in Mutexes /\ Rank(p) = 2 /\ 2 + 1 = 3
  BY LockNames
<1> QED BY <1>1, HoldKeeps

\* The table of players is held while the player and its views are made, dropped or saved.
LEMMA HoldTableKeeps ==
  ASSUME NEW body, Keeps(body, 2)
  PROVE  Keeps(Hold("active_players", body), 1)
<1>1. "active_players" \in Mutexes /\ Rank("active_players") = 1 /\ 1 + 1 = 2
  BY LockNames
<1> QED BY <1>1, HoldKeeps

\* The tasks of the map itself: timers, write-back and cleanup.
LEMMA KeepersKeep == Keeps(OverChunks, 1) /\ Keeps(Unloads, 1)
<1>1. /\ Chunks \in SUBSET Mutexes /\ (\A c \in Chunks : 5 <= Rank(c)) /\ IsFiniteSet(Chunks)
      /\ "live_chunks" \in Tables /\ Rank("live_chunks") = 4 /\ 4 + 1 = 5
      /\ "last_accessed" \in Mutexes /\ Rank("last_accessed") = 5
  BY LockNames, ServerLocksAssumption DEF Mutexes
<1>2. Keeps(UseEach(Chunks), 5)
  BY <1>1, UseEachKeeps
<1>3. Keeps(Use("last_accessed"), 5)
  BY <1>1, UseKeeps
<1>4. Keeps(Use("last_accessed") \o UseEach(Chunks), 5)
  BY <1>2, <1>3, KeepsThen
<1>5. Keeps(OverChunks, 4)
  BY <1>1, <1>2, ReadingKeeps DEF OverChunks
<1>6. Keeps(Unloads, 4)
  BY <1>1, <1>4, WritingKeeps DEF Unloads
<1> QED BY <1>5, <1>6, KeepsBelow

\* Every task takes the table of players, a player, the inventories, the live chunks and a
\* chunk in this order, and gives back what it takes.
LEMMA TasksKeep == ASSUME NEW t \in Threads, NEW p \in Tasks(t) PROVE Keeps(p, 1)
<1>1. CASE p \in {OverChunks, Unloads}
  BY <1>1, KeepersKeep
<1>2. CASE p \in Calls
  <2>1. Keeps(p, 4)
    BY <1>2, CallsKeep
  <2> QED BY <2>1, KeepsBelow
<1>3. CASE p \in DigOrTap \cup HandlePlace
  <2>1. PICK body : p = Hold("inventories", body) /\ body \in Interactions
    BY <1>3 DEF DigOrTap, HandlePlace, Interactions
  <2>2. Keeps(body, 4) /\ "inventories" \in Mutexes /\ Rank("inventories") = 3 /\ 3 + 1 = 4
    BY <2>1, InteractionsKeep, LockNames
  <2>3. Keeps(p, 3)
    BY <2>1, <2>2, HoldKeeps
  <2> QED BY <2>3, KeepsBelow
<1>4. CASE p \in HandleInventoryAction
  <2>1. PICK q \in PlayerStates, from \in OnView, to \in OnView : p = Hold(q, from \o to)
    BY <1>4 DEF HandleInventoryAction
  <2>2. Keeps(from, 3) /\ Keeps(to, 3)
    BY OnViewKeeps
  <2>3. Keeps(from \o to, 3)
    BY <2>2, KeepsThen
  <2>4. Keeps(p, 2)
    BY <2>1, <2>3, HoldPlayerKeeps
  <2> QED BY <2>4, KeepsBelow
<1>5. CASE p \in HandlePopupResponse
  <2>1. PICK q \in PlayerStates, back \in OnView : p = Hold(q, Use("inventories") \o back)
    BY <1>5 DEF HandlePopupResponse
  <2>2. Keeps(Use("inventories"), 3) /\ Keeps(back, 3)
    BY OnViewKeeps DEF OnView
  <2>3. Keeps(Use("inventories") \o back, 3)
    BY <2>2, KeepsThen
  <2>4. Keeps(p, 2)
    BY <2>1, <2>3, HoldPlayerKeeps
  <2> QED BY <2>4, KeepsBelow
<1>6. CASE p \in HandleInteractKey
  <2>1. PICK q \in PlayerStates, call \in Calls, shown \in OnView : p = (call \o shown) \o Use(q)
    BY <1>6 DEF HandleInteractKey
  <2>2. Keeps(call, 2) /\ Keeps(shown, 2)
    <3>1. Keeps(call, 4) /\ Keeps(shown, 3)
      BY CallsKeep, OnViewKeeps
    <3> QED BY <3>1, KeepsBelow
  <2>3. Keeps(Use(q), 2)
    <3>1. q \in Mutexes /\ Rank(q) = 2
      BY LockNames
    <3> QED BY <3>1, UseKeeps
  <2>4. Keeps(call \o shown, 2)
    BY <2>2, KeepsThen
  <2>5. Keeps(p, 2)
    BY <2>1, <2>3, <2>4, KeepsThen
  <2> QED BY <2>5, KeepsBelow
<1>7. CASE p \in ShowViews
  <2>1. PICK q \in PlayerStates, shown \in OnView : p = Hold(q, shown)
    BY <1>7 DEF ShowViews
  <2>2. Keeps(shown, 3)
    BY OnViewKeeps
  <2>3. Keeps(p, 2)
    BY <2>1, <2>2, HoldPlayerKeeps
  <2> QED BY <2>3, KeepsBelow
<1>8. CASE p \in LookAtPlayer
  <2>1. PICK q \in PlayerStates : p = Use(q)
    BY <1>8 DEF LookAtPlayer
  <2>2. q \in Mutexes /\ Rank(q) = 2
    BY LockNames
  <2>3. Keeps(p, 2)
    BY <2>1, <2>2, UseKeeps
  <2> QED BY <2>3, KeepsBelow
<1>9. CASE p \in DroppedPlayer
  <2>1. Keeps(p, 3)
    BY <1>9, OnViewKeeps DEF DroppedPlayer
  <2> QED BY <2>1, KeepsBelow
<1>10. ASSUME NEW q \in PlayerStates PROVE Keeps(Use(q), 2)
  <2>1. q \in Mutexes /\ Rank(q) = 2
    BY LockNames
  <2> QED BY <2>1, UseKeeps
<1>11. CASE p \in ConnectPlayer
  <2>1. PICK q \in PlayerStates : p = Hold("active_players", Use("inventories") \o Use(q))
    BY <1>11 DEF ConnectPlayer
  <2>2. Keeps(Use("inventories"), 3)
    BY OnViewKeeps DEF OnView
  <2>3. Keeps(Use("inventories"), 2)
    BY <2>2, KeepsBelow
  <2>4. Keeps(Use("inventories") \o Use(q), 2)
    BY <1>10, <2>3, KeepsThen
  <2> QED BY <2>1, <2>4, HoldTableKeeps
<1>12. CASE p \in DropDisconnect
  BY <1>10, <1>12, HoldTableKeeps DEF DropDisconnect
<1>13. CASE p = Flush
  <2>1. PlayerStates \in SUBSET Mutexes /\ (\A q \in PlayerStates : 2 <= Rank(q)) /\ IsFiniteSet(PlayerStates)
    BY LockNames, ServerLocksAssumption DEF Mutexes
  <2>2. Keeps(UseEach(PlayerStates), 2)
    BY <2>1, UseEachKeeps
  <2> QED BY <1>13, <2>2, HoldTableKeeps DEF Flush
<1>14. CASE p = BumpAccessTime
  <2>1. /\ "last_accessed" \in Mutexes /\ Rank("last_accessed") = 5
        /\ "live_chunks" \in Tables /\ Rank("live_chunks") = 4 /\ 4 + 1 = 5
    BY LockNames
  <2>2. Keeps(Use("last_accessed"), 5)
    BY <2>1, UseKeeps
  <2>3. Keeps(BumpAccessTime, 4)
    BY <2>1, <2>2, ReadingKeeps DEF BumpAccessTime
  <2> QED BY <1>14, <2>3, KeepsBelow
<1> QED BY <1>1, <1>2, <1>3, <1>4, <1>5, <1>6, <1>7, <1>8, <1>9, <1>11, <1>12, <1>13, <1>14 DEF Tasks
-----------------------------------------------------------------------------
(* What each task still has to do may be done with the locks it has.      *)

HasOf(t) ==
  [l \in Locks |->
     IF holder[l] = t THEN "write"
     ELSE IF l \in Tables /\ readers[l][t] # 0 THEN "read" ELSE "free"]

HoldersOK ==
  /\ holder \in [Locks -> Threads \cup {NoThread}]
  /\ readers \in [Tables -> [Threads -> {0, 1}]]
  /\ \A l \in Tables : holder[l] # NoThread => \A t \in Threads : readers[l][t] = 0

LocksInv ==
  /\ todo \in [Threads -> Seq(LockStep)] /\ HoldersOK
  /\ \A t \in Threads : Runs(todo[t], HasOf(t), Free)

\* The step of one thread: the others keep their locks and what they have to do.
LEMMA OneSteps ==
  ASSUME LocksInv, NEW t \in Threads, NEW p \in Seq(LockStep), NEW k,
         todo' = [todo EXCEPT ![t] = p], HoldersOK',
         HasOf(t)' = k, Runs(p, k, Free), \A u \in Threads \ {t} : HasOf(u)' = HasOf(u)
  PROVE  LocksInv'
<1>1. todo' \in [Threads -> Seq(LockStep)]
  BY DEF LocksInv
<1>2. ASSUME NEW u \in Threads PROVE Runs(todo'[u], HasOf(u)', Free)
  <2>1. CASE u = t
    <3>1. todo'[t] = p
      BY DEF LocksInv
    <3> QED BY <2>1, <3>1
  <2>2. CASE u # t
    <3>1. todo'[u] = todo[u] /\ HasOf(u)' = HasOf(u) /\ Runs(todo[u], HasOf(u), Free)
      BY <2>2 DEF LocksInv
    <3> QED BY <3>1
  <2> QED BY <2>1, <2>2
<1> QED BY <1>1, <1>2 DEF LocksInv

\* A thread that has something to do: its next step, and its locks after it.
LEMMA Next1 ==
  ASSUME LocksInv, NEW t \in Threads, todo[t] # <<>>
  PROVE  /\ todo[t][1] \in LockStep /\ On(t) \in Locks /\ Tail(todo[t]) \in Seq(LockStep)
         /\ \E k \in Holdings : Does(todo[t][1], HasOf(t), k) /\ Runs(Tail(todo[t]), k, Free)
<1>1. Runs(todo[t], HasOf(t), Free)
  BY DEF LocksInv
<1>2. /\ todo[t][1] \in LockStep /\ Tail(todo[t]) \in Seq(LockStep)
      /\ \E k \in Holdings : Does(todo[t][1], HasOf(t), k) /\ Runs(Tail(todo[t]), k, Free)
  BY <1>1, RunsTail
<1> QED BY <1>2 DEF On, LockStep

LEMMA StartsKeepsLocks ==
  ASSUME LocksInv, NEW t \in Threads, Starts(t, Tasks(t)) PROVE LocksInv'
<1>1. PICK p \in Tasks(t) : todo' = [todo EXCEPT ![t] = p]
  BY DEF Starts
<1>2. HasOf(t) = Free /\ Free \in Holdings
  <2>1. Runs(<<>>, HasOf(t), Free)
    BY DEF LocksInv, Starts
  <2>2. Free \in Holdings
    BY DEF Free, Holdings, Modes
  <2> QED BY <2>1, <2>2, LeadsEnd DEF Runs
<1>3. Above(Free, 1)
  BY DEF Above, Free
<1>4. Runs(p, Free, Free)
  BY <1>2, <1>3, TasksKeep DEF Keeps
<1>5. p \in Seq(LockStep)
  BY <1>4, RunsSteps
<1>6. HoldersOK' /\ \A u \in Threads : HasOf(u)' = HasOf(u)
  BY DEF Starts, LocksInv, HoldersOK, HasOf
<1>7. HasOf(t)' = Free
  BY <1>2, <1>6
<1> QED BY <1>1, <1>4, <1>5, <1>6, <1>7, OneSteps

LEMMA PassKeepsLocks ==
  ASSUME LocksInv, NEW t \in Threads, Pass(t) PROVE LocksInv'
<1>1. /\ todo[t] # <<>> /\ todo[t][1].op \in {"use", "look"}
      /\ todo' = [todo EXCEPT ![t] = Tail(todo[t])] /\ UNCHANGED <<holder, readers>>
  BY DEF Pass, Now, Moves
<1>2. PICK k \in Holdings : Does(todo[t][1], HasOf(t), k) /\ Runs(Tail(todo[t]), k, Free)
  BY <1>1, Next1
<1>3. k = HasOf(t) /\ Tail(todo[t]) \in Seq(LockStep)
  BY <1>1, <1>2, Next1 DEF Does, Takes, Gives
<1>4. HoldersOK' /\ \A u \in Threads : HasOf(u)' = HasOf(u)
  BY <1>1 DEF LocksInv, HoldersOK, HasOf
<1> QED BY <1>1, <1>2, <1>3, <1>4, OneSteps

LEMMA LockKeepsLocks ==
  ASSUME LocksInv, NEW t \in Threads, Lock(t) PROVE LocksInv'
<1> DEFINE l == On(t)
<1>1. /\ todo[t] # <<>> /\ todo[t][1].op = "lock" /\ todo[t][1].on = l /\ holder[l] = NoThread
      /\ todo' = [todo EXCEPT ![t] = Tail(todo[t])]
      /\ holder' = [holder EXCEPT ![l] = t] /\ readers' = readers
  BY DEF Lock, Now, Moves, On
<1>2. PICK k \in Holdings : Does(todo[t][1], HasOf(t), k) /\ Runs(Tail(todo[t]), k, Free)
  BY <1>1, Next1
<1>3. l \in Mutexes /\ k = [HasOf(t) EXCEPT ![l] = "write"]
  BY <1>1, <1>2 DEF Does, Takes, Gives
<1>4. Tail(todo[t]) \in Seq(LockStep) /\ l \in Locks /\ l \notin Tables
  BY <1>1, <1>3, Next1, LockNames
<1> HIDE DEF l
<1>5. HoldersOK'
  BY <1>1, <1>4, ServerLocksAssumption DEF LocksInv, HoldersOK
<1>6. HasOf(t)' = k
  BY <1>1, <1>3, <1>4 DEF HasOf, LocksInv, HoldersOK
<1>7. ASSUME NEW u \in Threads \ {t} PROVE HasOf(u)' = HasOf(u)
  BY <1>1, <1>4, ServerLocksAssumption DEF HasOf, LocksInv, HoldersOK
<1> QED BY <1>1, <1>2, <1>4, <1>5, <1>6, <1>7, OneSteps

LEMMA WriteKeepsLocks ==
  ASSUME LocksInv, NEW t \in Threads, Write(t) PROVE LocksInv'
<1> DEFINE l == On(t)
<1>1. /\ todo[t] # <<>> /\ todo[t][1].op = "write" /\ todo[t][1].on = l /\ holder[l] = NoThread
      /\ \A u \in Threads : readers[l][u] = 0
      /\ todo' = [todo EXCEPT ![t] = Tail(todo[t])]
      /\ holder' = [holder EXCEPT ![l] = t] /\ readers' = readers
  BY DEF Write, Now, Moves, On
<1>2. PICK k \in Holdings : Does(todo[t][1], HasOf(t), k) /\ Runs(Tail(todo[t]), k, Free)
  BY <1>1, Next1
<1>3. l \in Tables /\ k = [HasOf(t) EXCEPT ![l] = "write"]
  BY <1>1, <1>2 DEF Does, Takes, Gives
<1>4. Tail(todo[t]) \in Seq(LockStep) /\ l \in Locks
  BY <1>1, <1>3, Next1, LockNames
<1> HIDE DEF l
<1>5. HoldersOK'
  BY <1>1, <1>3, <1>4, ServerLocksAssumption DEF LocksInv, HoldersOK
<1>6. HasOf(t)' = k
  BY <1>1, <1>3, <1>4 DEF HasOf, LocksInv, HoldersOK
<1>7. ASSUME NEW u \in Threads \ {t} PROVE HasOf(u)' = HasOf(u)
  BY <1>1, <1>4, ServerLocksAssumption DEF HasOf, LocksInv, HoldersOK
<1> QED BY <1>1, <1>2, <1>4, <1>5, <1>6, <1>7, OneSteps

LEMMA UnlockKeepsLocks ==
  ASSUME LocksInv, NEW t \in Threads, Unlock(t) PROVE LocksInv'
<1> DEFINE l == On(t)
<1>1. /\ todo[t] # <<>> /\ todo[t][1].op = "unlock" /\ todo[t][1].on = l
      /\ todo' = [todo EXCEPT ![t] = Tail(todo[t])]
      /\ holder' = [holder EXCEPT ![l] = NoThread] /\ readers' = readers
  BY DEF Unlock, Now, Moves, On
<1>2. PICK k \in Holdings : Does(todo[t][1], HasOf(t), k) /\ Runs(Tail(todo[t]), k, Free)
  BY <1>1, Next1
<1>3. HasOf(t)[l] = "write" /\ k = [HasOf(t) EXCEPT ![l] = "free"]
  BY <1>1, <1>2 DEF Does, Takes, Gives
<1>4. Tail(todo[t]) \in Seq(LockStep) /\ l \in Locks
  BY <1>1, Next1
<1> HIDE DEF l
<1>5. holder[l] = t /\ (l \in Tables => readers[l][t] = 0)
  BY <1>3, <1>4, ServerLocksAssumption DEF HasOf, LocksInv, HoldersOK
<1>6. HoldersOK'
  BY <1>1, <1>4, ServerLocksAssumption DEF LocksInv, HoldersOK
<1>7. HasOf(t)' = k
  BY <1>1, <1>3, <1>4, <1>5, ServerLocksAssumption DEF HasOf, LocksInv, HoldersOK
<1>8. ASSUME NEW u \in Threads \ {t} PROVE HasOf(u)' = HasOf(u)
  BY <1>1, <1>4, <1>5, ServerLocksAssumption DEF HasOf, LocksInv, HoldersOK
<1> QED BY <1>1, <1>2, <1>4, <1>6, <1>7, <1>8, OneSteps

LEMMA ReadKeepsLocks ==
  ASSUME LocksInv, NEW t \in Threads, Read(t) PROVE LocksInv'
<1> DEFINE l == On(t)
<1>1. /\ todo[t] # <<>> /\ todo[t][1].op \in {"read", "read_recursive"} /\ todo[t][1].on = l
      /\ holder[l] = NoThread
      /\ todo' = [todo EXCEPT ![t] = Tail(todo[t])]
      /\ readers' = [readers EXCEPT ![l][t] = readers[l][t] + 1] /\ holder' = holder
  BY DEF Read, Now, Moves, On
<1>2. PICK k \in Holdings : Does(todo[t][1], HasOf(t), k) /\ Runs(Tail(todo[t]), k, Free)
  BY <1>1, Next1
<1>3. l \in Tables /\ Above(HasOf(t), Rank(l)) /\ k = [HasOf(t) EXCEPT ![l] = "read"]
  BY <1>1, <1>2 DEF Does, Takes, Gives
<1>4. Tail(todo[t]) \in Seq(LockStep) /\ l \in Locks /\ Rank(l) \in Nat
  BY <1>1, <1>3, Next1, LockNames
<1>5. HasOf(t)[l] = "free"
  BY <1>3, <1>4 DEF Above
<1> HIDE DEF l
<1>6. readers[l][t] = 0 /\ readers' = [readers EXCEPT ![l] = [readers[l] EXCEPT ![t] = 1]]
  <2>1. readers[l][t] = 0
    BY <1>1, <1>3, <1>4, <1>5 DEF HasOf, LocksInv, HoldersOK
  <2>2. readers[l][t] + 1 = 1
    BY <2>1
  <2> QED BY <1>1, <2>1, <2>2
<1>7. HoldersOK'
  BY <1>1, <1>3, <1>4, <1>6, ServerLocksAssumption DEF LocksInv, HoldersOK
<1>8. HasOf(t)' = k
  <2>1. ASSUME NEW x \in Locks PROVE HasOf(t)'[x] = k[x]
    <3>1. CASE x = l
      BY <1>1, <1>3, <1>4, <1>6, ServerLocksAssumption, <3>1 DEF HasOf, LocksInv, HoldersOK
    <3>2. CASE x # l
      BY <1>1, <1>3, <1>4, <1>6, ServerLocksAssumption, <3>2 DEF HasOf, LocksInv, HoldersOK
    <3> QED BY <3>1, <3>2
  <2>2. HasOf(t)' = [x \in Locks |-> HasOf(t)'[x]] /\ k = [x \in Locks |-> k[x]]
    BY <1>2 DEF HasOf, Holdings
  <2> QED BY <2>1, <2>2
<1>9. ASSUME NEW u \in Threads \ {t} PROVE HasOf(u)' = HasOf(u)
  BY <1>1, <1>3, <1>4, <1>6 DEF HasOf, LocksInv, HoldersOK
<1> QED BY <1>1, <1>2, <1>4, <1>7, <1>8, <1>9, OneSteps

LEMMA UnreadKeepsLocks ==
  ASSUME LocksInv, NEW t \in Threads, Unread(t) PROVE LocksInv'
<1> DEFINE l == On(t)
<1>1. /\ todo[t] # <<>> /\ todo[t][1].op = "unread" /\ todo[t][1].on = l
      /\ todo' = [todo EXCEPT ![t] = Tail(todo[t])]
      /\ readers' = [readers EXCEPT ![l][t] = readers[l][t] - 1] /\ holder' = holder
  BY DEF Unread, Now, Moves, On
<1>2. PICK k \in Holdings : Does(todo[t][1], HasOf(t), k) /\ Runs(Tail(todo[t]), k, Free)
  BY <1>1, Next1
<1>3. l \in Tables /\ HasOf(t)[l] = "read" /\ k = [HasOf(t) EXCEPT ![l] = "free"]
  BY <1>1, <1>2 DEF Does, Takes, Gives
<1>4. Tail(todo[t]) \in Seq(LockStep) /\ l \in Locks
  BY <1>1, <1>3, Next1, LockNames
<1> HIDE DEF l
<1>5. /\ readers[l][t] = 1 /\ holder[l] # t
      /\ readers' = [readers EXCEPT ![l] = [readers[l] EXCEPT ![t] = 0]]
  <2>1. readers[l][t] = 1 /\ holder[l] # t
    BY <1>1, <1>3, <1>4 DEF HasOf, LocksInv, HoldersOK
  <2>2. readers[l][t] - 1 = 0
    BY <2>1
  <2> QED BY <1>1, <2>1, <2>2
<1>6. HoldersOK'
  BY <1>1, <1>3, <1>4, <1>5, ServerLocksAssumption DEF LocksInv, HoldersOK
<1>7. HasOf(t)' = k
  <2>1. ASSUME NEW x \in Locks PROVE HasOf(t)'[x] = k[x]
    <3>1. CASE x = l
      BY <1>1, <1>3, <1>4, <1>5, ServerLocksAssumption, <3>1 DEF HasOf, LocksInv, HoldersOK
    <3>2. CASE x # l
      BY <1>1, <1>3, <1>4, <1>5, ServerLocksAssumption, <3>2 DEF HasOf, LocksInv, HoldersOK
    <3> QED BY <3>1, <3>2
  <2>2. HasOf(t)' = [x \in Locks |-> HasOf(t)'[x]] /\ k = [x \in Locks |-> k[x]]
    BY <1>2 DEF HasOf, Holdings
  <2> QED BY <2>1, <2>2
<1>8. ASSUME NEW u \in Threads \ {t} PROVE HasOf(u)' = HasOf(u)
  BY <1>1, <1>3, <1>4, <1>5 DEF HasOf, LocksInv, HoldersOK
<1> QED BY <1>1, <1>2, <1>4, <1>6, <1>7, <1>8, OneSteps

LEMMA DowngradeKeepsLocks ==
  ASSUME LocksInv, NEW t \in Threads, Downgrade(t) PROVE LocksInv'
<1> DEFINE l == On(t)
<1>1. /\ todo[t] # <<>> /\ todo[t][1].op = "downgrade" /\ todo[t][1].on = l
      /\ todo' = [todo EXCEPT ![t] = Tail(todo[t])]
      /\ holder' = [holder EXCEPT ![l] = NoThread]
      /\ readers' = [readers EXCEPT ![l][t] = readers[l][t] + 1]
  BY DEF Downgrade, Now, Moves, On
<1>2. PICK k \in Holdings : Does(todo[t][1], HasOf(t), k) /\ Runs(Tail(todo[t]), k, Free)
  BY <1>1, Next1
<1>3. l \in Tables /\ HasOf(t)[l] = "write" /\ k = [HasOf(t) EXCEPT ![l] = "read"]
  BY <1>1, <1>2 DEF Does, Takes, Gives
<1>4. Tail(todo[t]) \in Seq(LockStep) /\ l \in Locks
  BY <1>1, <1>3, Next1, LockNames
<1> HIDE DEF l
<1>5. holder[l] = t /\ \A u \in Threads : readers[l][u] = 0
  BY <1>3, <1>4, ServerLocksAssumption DEF HasOf, LocksInv, HoldersOK
<1>6. readers' = [readers EXCEPT ![l] = [readers[l] EXCEPT ![t] = 1]]
  <2>1. readers[l][t] + 1 = 1
    BY <1>5
  <2> QED BY <1>1, <2>1
<1>7. HoldersOK'
  BY <1>1, <1>3, <1>4, <1>5, <1>6, ServerLocksAssumption DEF LocksInv, HoldersOK
<1>8. HasOf(t)' = k
  <2>1. ASSUME NEW x \in Locks PROVE HasOf(t)'[x] = k[x]
    <3>1. CASE x = l
      BY <1>1, <1>3, <1>4, <1>6, ServerLocksAssumption, <3>1 DEF HasOf, LocksInv, HoldersOK
    <3>2. CASE x # l
      BY <1>1, <1>3, <1>4, <1>6, ServerLocksAssumption, <3>2 DEF HasOf, LocksInv, HoldersOK
    <3> QED BY <3>1, <3>2
  <2>2. HasOf(t)' = [x \in Locks |-> HasOf(t)'[x]] /\ k = [x \in Locks |-> k[x]]
    BY <1>2 DEF HasOf, Holdings
  <2> QED BY <2>1, <2>2
<1>9. ASSUME NEW u \in Threads \ {t} PROVE HasOf(u)' = HasOf(u)
  BY <1>1, <1>3, <1>4, <1>5, <1>6, ServerLocksAssumption DEF HasOf, LocksInv, HoldersOK
<1> QED BY <1>1, <1>2, <1>4, <1>7, <1>8, <1>9, OneSteps

LEMMA LocksInvariant == ServerSpec => []LocksInv
<1>1. ServerInit => LocksInv
  <2> SUFFICES ASSUME ServerInit PROVE LocksInv
    OBVIOUS
  <2>1. /\ todo = [t \in Threads |-> <<>>] /\ holder = [l \in Locks |-> NoThread]
        /\ readers = [l \in Tables |-> [t \in Threads |-> 0]]
    BY DEF ServerInit, LocksFree, Locks
  <2>2. todo \in [Threads -> Seq(LockStep)] /\ HoldersOK /\ Tables \subseteq Locks
    BY <2>1, LockNames DEF HoldersOK
  <2>3. ASSUME NEW t \in Threads PROVE Runs(todo[t], HasOf(t), Free)
    <3>1. HasOf(t) = Free /\ todo[t] = <<>>
      BY <2>1, <2>2, ServerLocksAssumption DEF HasOf, Free
    <3>2. Free \in Holdings
      BY DEF Free, Holdings, Modes
    <3> QED BY <3>1, <3>2, LeadsNothing DEF Runs
  <2> QED BY <2>2, <2>3 DEF LocksInv
<1>2. LocksInv /\ [ServerNext]_lockVars => LocksInv'
  <2>1. ASSUME LocksInv, ServerNext PROVE LocksInv'
    BY <2>1, StartsKeepsLocks, PassKeepsLocks, LockKeepsLocks, UnlockKeepsLocks, ReadKeepsLocks,
       UnreadKeepsLocks, WriteKeepsLocks, DowngradeKeepsLocks DEF ServerNext
  <2>2. ASSUME LocksInv, UNCHANGED lockVars PROVE LocksInv'
    BY <2>2 DEF lockVars, LocksInv, HoldersOK, HasOf
  <2> QED BY <2>1, <2>2
<1> QED BY <1>1, <1>2, PTL DEF ServerSpec

\* Who waits asks for a lock above all it has; who is waited for has that lock, or waits to write it.
LEMMA WaitsAbove ==
  ASSUME LocksInv, NEW t \in Threads, WaitsFor(t) # {}
  PROVE  /\ On(t) \in Locks /\ Above(HasOf(t), Rank(On(t)))
         /\ \A u \in WaitsFor(t) \cap Threads :
              HasOf(u)[On(t)] # "free" \/ (~Now(t, "write") /\ Now(u, "write") /\ On(u) = On(t))
<1> DEFINE l == On(t)
<1>1. todo[t] # <<>>
  BY DEF WaitsFor
<1>2. PICK k \in Holdings : Does(todo[t][1], HasOf(t), k)
  BY <1>1, Next1
<1>3. /\ todo[t][1].on = l /\ l \in Locks
      /\ todo[t][1].op \in {"lock", "use", "read_recursive", "read", "look", "write"}
  BY <1>1, Next1 DEF WaitsFor, Now, On
<1>4. Takes(todo[t][1], HasOf(t), k)
  BY <1>2, <1>3 DEF Does, Gives
<1>5. Above(HasOf(t), Rank(l)) /\ (todo[t][1].op \in {"read", "look", "write"} => l \in Tables)
  BY <1>3, <1>4 DEF Takes
<1> HIDE DEF l
<1>6. ASSUME NEW u \in WaitsFor(t) \cap Threads
      PROVE  HasOf(u)[l] # "free" \/ (~Now(t, "write") /\ Now(u, "write") /\ On(u) = l)
  <2>1. CASE holder[l] = u
    BY <1>3, <2>1 DEF HasOf
  <2>2. CASE holder[l] # u
    <3>1. CASE Now(t, "write")
      <4>1. readers[l][u] > 0 /\ l \in Tables
        BY <1>1, <1>3, <1>5, <1>6, <2>2, <3>1 DEF WaitsFor, Now, l
      <4> QED BY <1>3, <2>2, <4>1 DEF HasOf, LocksInv, HoldersOK
    <3>2. CASE ~Now(t, "write")
      BY <1>1, <1>3, <1>6, <2>2, <3>2 DEF WaitsFor, Now, l
    <3> QED BY <3>1, <3>2
  <2> QED BY <2>1, <2>2
<1> QED BY <1>3, <1>5, <1>6 DEF l

\* Of some threads that wait, one waits for a lock that is not below that of another.
LEMMA HighestWait ==
  ASSUME NEW S, NEW f, S # {}, \A t \in S : f[t] \in 1 .. 5
  PROVE  \E t \in S : \A u \in S : f[u] <= f[t]
<1>1. CASE \E t \in S : f[t] = 5
  BY <1>1
<1>2. CASE (\A t \in S : f[t] # 5) /\ \E t \in S : f[t] = 4
  BY <1>2
<1>3. CASE (\A t \in S : f[t] \notin {4, 5}) /\ \E t \in S : f[t] = 3
  BY <1>3
<1>4. CASE (\A t \in S : f[t] \notin {3, 4, 5}) /\ \E t \in S : f[t] = 2
  BY <1>4
<1>5. CASE \A t \in S : f[t] \notin {2, 3, 4, 5}
  BY <1>5
<1> QED BY <1>1, <1>2, <1>3, <1>4, <1>5

LEMMA NoTaskWaitsInCircle == LocksInv => NoTaskCycle
<1> SUFFICES ASSUME LocksInv, NEW S \in SUBSET Waiting, S # {}
             PROVE  \E t \in S : WaitsFor(t) \cap S = {}
  BY Zenon DEF NoTaskCycle, NoCircle
<1>1. \A t \in S : t \in Threads /\ WaitsFor(t) # {}
  BY DEF Waiting
<1>2. \A t \in S : On(t) \in Locks /\ Above(HasOf(t), Rank(On(t))) /\ Rank(On(t)) \in 1 .. 5
  BY <1>1, WaitsAbove, LockNames
<1> DEFINE f == [t \in S |-> Rank(On(t))]
<1>3. PICK t \in S : \A u \in S : Rank(On(u)) <= Rank(On(t))
  <2>1. \A u \in S : f[u] \in 1 .. 5 /\ f[u] = Rank(On(u))
    BY <1>2
  <2> HIDE DEF f
  <2>2. \E v \in S : \A u \in S : f[u] <= f[v]
    BY <2>1, HighestWait
  <2> QED BY <2>1, <2>2
\* Who is waited for by a highest one has nothing to wait for as high, unless it waits to write.
<1>4. ASSUME NEW v \in S, On(v) = On(t), NEW u \in WaitsFor(v) \cap S
      PROVE  ~Now(v, "write") /\ Now(u, "write") /\ On(u) = On(t)
  <2>1. HasOf(u)[On(v)] # "free" \/ (~Now(v, "write") /\ Now(u, "write") /\ On(u) = On(v))
    BY <1>1, <1>4, WaitsAbove
  <2>2. HasOf(u)[On(v)] = "free"
    <3>1. Above(HasOf(u), Rank(On(u))) /\ On(v) \in Locks /\ Rank(On(u)) <= Rank(On(v))
      BY <1>2, <1>3, <1>4
    <3>2. Rank(On(u)) \in Nat /\ Rank(On(v)) \in Nat
      BY <1>2, <1>4
    <3> QED BY <3>1, <3>2 DEF Above
  <2> QED BY <1>4, <2>1, <2>2
<1>5. CASE WaitsFor(t) \cap S = {}
  BY <1>5
<1>6. CASE WaitsFor(t) \cap S # {}
  <2>1. PICK u \in WaitsFor(t) \cap S : Now(u, "write") /\ On(u) = On(t)
    BY <1>4, <1>6
  <2>2. WaitsFor(u) \cap S = {}
    BY <1>4, <2>1
  <2> QED BY <2>1, <2>2
<1> QED BY <1>5, <1>6

\* ServerSpec: each lock is held by at most one thread, and read or written, never both, by
\* threads with steps of the form the server's code takes them in.
THEOREM ServerLocksTypes == ServerSpec => []ServerTypeOK
<1>1. LocksInv => ServerTypeOK
  <2>1. LocksInv => readers \in [Tables -> [Threads -> Nat]]
    BY DEF LocksInv, HoldersOK
  <2>2. LocksInv => todo \in [Threads -> Seq([op : LockOps, on : Mutexes \cup Tables])]
    BY DEF LocksInv, LockStep, Locks
  <2> QED BY <2>1, <2>2 DEF LocksInv, HoldersOK, ServerTypeOK, LocksOK, Locks
<1> QED BY <1>1, LocksInvariant, PTL

\* ServerSpec: for any players, chunks and threads, the tasks of the server never wait for each
\* other in a circle.
THEOREM ServerHasNoTaskCycle == ServerSpec => []NoTaskCycle
BY LocksInvariant, NoTaskWaitsInCircle, PTL
-----------------------------------------------------------------------------
(***************************************************************************)
(* Proofs about ClientThreads.                                             *)
(*                                                                         *)
(* The locks have ranks again, but for three that nobody but the window    *)
(* thread ever holds: those it takes in any order, so it never waits for   *)
(* them, and the others ask for them with empty hands.  A chunk's guard is *)
(* taken again, and its neighbours' beside it, by who reads chunks and     *)
(* writes none, which waits for the inbound loop alone.                    *)
(*                                                                         *)
(* What a thread owes: the chunk it has a draft of, the chunks it still is *)
(* to queue or to mesh, the one it has dropped, and the one it may change. *)
(***************************************************************************)
ClientLocks == ClientMutexes \cup ClientTables
Own == {"input", "physics", "tool_controller"}
ClientRank(l) ==
  IF l \in Own THEN 0
  ELSE IF l = "egui" THEN 1
  ELSE IF l = "hud" THEN 2
  ELSE IF l = "inventories" THEN 3
  ELSE IF l = "chunks" THEN 4
  ELSE IF l = "queue" THEN 6
  ELSE 5

\* What a thread has of each lock: -1 if it holds or writes it, else how often it reads it.
Hands == [ClientLocks -> Nat \cup {-1}]
EmptyHands == [l \in ClientLocks |-> 0]
Below(h, r) == \A l \in ClientLocks \ Own : h[l] # 0 => ClientRank(l) < r

MaybeChunk == ClientChunks \cup {Absent}
Works ==
  [draft : MaybeChunk, toQueue : SUBSET ClientChunks, toMesh : SUBSET ClientChunks,
   gone : MaybeChunk, room : MaybeChunk, taken : 0 .. 2]
NoWork == [draft |-> Absent, toQueue |-> {}, toMesh |-> {}, gone |-> Absent, room |-> Absent, taken |-> 0]
Over == [NoWork EXCEPT !.taken = 2]

\* The window thread does no work, and the worker changes and queues no chunk.
WorksOf(t) ==
  {w \in Works : /\ t # "inbound" => w.toQueue = {} /\ w.gone = Absent /\ w.room = Absent
                 /\ t = "window" => w.toMesh = {} /\ w.draft = Absent}

\* Locks are taken: an own one that is free, one above all others, or a chunk's for reading.
ClientStep == [op : LockOps \cup WorkOps, on : ClientLocks]
TakesOwn(t, s, h, k) ==
  /\ s.on \in Own /\ h[s.on] = 0
  /\ \/ s.op = "use" /\ (t = "window" \/ Below(h, 0)) /\ k = h
     \/ s.op = "lock" /\ t = "window" /\ k = [h EXCEPT ![s.on] = -1]
TakesNext(t, s, h, k) ==
  /\ s.on \notin Own /\ Below(h, ClientRank(s.on))
  /\ \/ s.op = "use" /\ s.on \in ClientMutexes /\ k = h
     \/ s.op = "look" /\ s.on \in ClientTables /\ k = h
     \/ s.op = "lock" /\ s.on \in ClientMutexes /\ k = [h EXCEPT ![s.on] = -1]
     \/ s.op = "write" /\ s.on \in ClientTables /\ t = "inbound" /\ k = [h EXCEPT ![s.on] = -1]
     \/ s.op = "read" /\ s.on \in ClientTables /\ k = [h EXCEPT ![s.on] = 1]
     \/ s.op = "read_recursive" /\ s.on \in ClientTables /\ k = [h EXCEPT ![s.on] = 1]
TakesAgain(s, h, k) ==
  /\ s.on \in ClientChunks /\ Below(h, 6) /\ \A c \in ClientChunks : h[c] # -1
  /\ \/ s.op = "read_recursive" /\ k = [h EXCEPT ![s.on] = h[s.on] + 1]
     \/ s.op = "look" /\ h[s.on] = 0 /\ k = h
GivesBack(s, h, w, k) ==
  \/ s.op = "unlock" /\ h[s.on] = -1 /\ k = [h EXCEPT ![s.on] = 0]
  \/ /\ s.op = "unread" /\ s.on \in ClientTables /\ h[s.on] \notin {0, -1}
     /\ s.on = "chunks" => w.draft = Absent
     /\ k = [h EXCEPT ![s.on] = h[s.on] - 1]
MovesLock(t, s, h, w, k, v) ==
  \/ /\ w.taken = 0 /\ v = w
     /\ TakesOwn(t, s, h, k) \/ TakesNext(t, s, h, k) \/ TakesAgain(s, h, k) \/ GivesBack(s, h, w, k)
  \/ /\ w.taken = 1 /\ v = [w EXCEPT !.taken = 2]
     /\ s.op = "unlock" /\ s.on = "queue" /\ h[s.on] = -1 /\ k = [h EXCEPT ![s.on] = 0]

\* Work on a chunk, and what has to be done after it.
Beside(c) == {c} \cup Near[c]
WorksOn(t, s, h, w, v) ==
  /\ s.on \in ClientChunks
  /\ \/ /\ s.op = "set" /\ t = "inbound" /\ w.room = s.on /\ w.draft = Absent
        /\ \/ h["chunks"] = -1
              /\ v = [w EXCEPT !.room = Absent, !.gone = Absent, !.toQueue = w.toQueue \cup Beside(s.on)]
           \/ h["chunks"] \notin {0, -1}
              /\ v = [w EXCEPT !.room = Absent, !.gone = Absent, !.toMesh = w.toMesh \cup Beside(s.on)]
     \/ s.op = "remove" /\ t = "inbound" /\ h["chunks"] = -1 /\ v = [w EXCEPT !.gone = s.on]
     \/ s.op = "enqueue" /\ t = "inbound" /\ v = [w EXCEPT !.toQueue = w.toQueue \ {s.on}]
     \/ s.op = "dequeue" /\ w.gone = s.on /\ v = [w EXCEPT !.gone = Absent]
     \/ /\ s.op = "mesh" /\ t # "window" /\ h["chunks"] \notin {0, -1} /\ w.draft = Absent
        /\ v = [w EXCEPT !.draft = s.on, !.toMesh = w.toMesh \ {s.on}]
     \/ s.op = "store" /\ w.draft = s.on /\ v = [w EXCEPT !.draft = Absent]
MovesWork(t, s, h, w, v) ==
  /\ w.taken = 0
  /\ \/ WorksOn(t, s, h, w, v)
     \/ s.op = "take" /\ s.on = "queue" /\ t = "worker" /\ w = NoWork /\ v = [w EXCEPT !.taken = 1]

ClientMoves(t) ==
  {d \in ClientStep \X (Hands \X WorksOf(t)) \X (Hands \X WorksOf(t)) :
     \/ MovesLock(t, d[1], d[2][1], d[2][2], d[3][1], d[3][2])
     \/ MovesWork(t, d[1], d[2][1], d[2][2], d[3][2]) /\ d[3][1] = d[2][1]}
May(t, p, h, w, k, v) == Leads(ClientMoves(t), p, <<h, w>>, <<k, v>>)

\* A program that gives back what it takes and leaves no work, begun with no lock as high as
\* r, none of F, and no draft.
Calm(w) == w.taken = 0 /\ w.draft = Absent
Mild(t, p, r, F) ==
  \A h \in Hands, w \in WorksOf(t) :
    Below(h, r) /\ (\A o \in F : h[o] = 0) /\ Calm(w) => May(t, p, h, w, h, w)
-----------------------------------------------------------------------------
LEMMA ClientNames ==
  /\ \A l \in ClientLocks : ClientRank(l) \in 0 .. 6
  /\ ClientRank("egui") = 1 /\ ClientRank("hud") = 2 /\ ClientRank("inventories") = 3
  /\ ClientRank("chunks") = 4 /\ ClientRank("queue") = 6
  /\ \A c \in ClientChunks : ClientRank(c) = 5 /\ c \notin Own /\ c # "chunks" /\ c # "queue" /\ c # Absent
  /\ \A o \in Own : ClientRank(o) = 0
  /\ ClientMutexes = {"input", "egui", "hud", "inventories", "tool_controller", "physics", "queue"}
  /\ ClientTables = {"chunks"} \cup ClientChunks
  /\ ClientMutexes \subseteq ClientLocks /\ ClientTables \subseteq ClientLocks
  /\ ClientMutexes \cap ClientTables = {} /\ Own \subseteq ClientMutexes
  /\ \A l \in ClientLocks : ClientRank(l) = 5 => l \in ClientChunks
<1> USE DEF ClientRank, ClientLocks, ClientMutexes, ClientTables, Own
<1>1. \A l \in ClientLocks : ClientRank(l) \in 0 .. 6
  OBVIOUS
<1>2. \A c \in ClientChunks : ClientRank(c) = 5 /\ c \notin Own /\ c # "chunks" /\ c # "queue" /\ c # Absent
  BY ClientThreadsAssumption
<1>3. ClientMutexes \cap ClientTables = {}
  BY ClientThreadsAssumption
<1>4. \A l \in ClientLocks : ClientRank(l) = 5 => l \in ClientChunks
  OBVIOUS
<1> QED BY <1>1, <1>2, <1>3, <1>4

LEMMA WorkTypes ==
  /\ \A t : NoWork \in WorksOf(t) /\ Over \in WorksOf(t) /\ Calm(NoWork)
  /\ EmptyHands \in Hands /\ \A r \in Nat : Below(EmptyHands, r)
  /\ \A t : \A w \in WorksOf(t) :
       /\ w \in Works /\ w.draft \in MaybeChunk /\ w.toQueue \in SUBSET ClientChunks
       /\ w.toMesh \in SUBSET ClientChunks /\ w.gone \in MaybeChunk /\ w.room \in MaybeChunk
       /\ w.taken \in 0 .. 2
<1>1. NoWork \in Works /\ Over \in Works /\ Calm(NoWork)
  BY DEF NoWork, Over, Works, MaybeChunk, Calm
<1>2. \A t : NoWork \in WorksOf(t) /\ Over \in WorksOf(t)
  BY <1>1 DEF WorksOf, NoWork, Over
<1>3. EmptyHands \in Hands /\ \A r \in Nat : Below(EmptyHands, r)
  BY DEF EmptyHands, Hands, Below
<1>4. \A t : \A w \in WorksOf(t) : w \in Works
  BY DEF WorksOf
<1>5. \A w \in Works : /\ w.draft \in MaybeChunk /\ w.toQueue \in SUBSET ClientChunks
                       /\ w.toMesh \in SUBSET ClientChunks /\ w.gone \in MaybeChunk /\ w.room \in MaybeChunk
                       /\ w.taken \in 0 .. 2
  BY DEF Works
<1> QED BY <1>1, <1>2, <1>3, <1>4, <1>5

LEMMA MayNothing == \A t, h, w : May(t, <<>>, h, w, h, w)
BY LeadsNothing DEF May

LEMMA MayThen ==
  ASSUME NEW t, NEW p, NEW q, NEW h, NEW w, NEW i, NEW u, NEW k, NEW v,
         May(t, p, h, w, i, u), May(t, q, i, u, k, v)
  PROVE  May(t, p \o q, h, w, k, v)
BY LeadsThen DEF May

LEMMA MayLock ==
  ASSUME NEW t, NEW op \in LockOps, NEW l \in ClientLocks, NEW h \in Hands, NEW k \in Hands,
         NEW w \in WorksOf(t), NEW v \in WorksOf(t), MovesLock(t, [op |-> op, on |-> l], h, w, k, v)
  PROVE  May(t, Step(op, l), h, w, k, v)
<1> DEFINE s == [op |-> op, on |-> l]
           d == <<s, <<h, w>>, <<k, v>>>>
<1>1. s \in ClientStep
  BY DEF ClientStep
<1>2. MovesLock(t, s, h, w, k, v) /\ Step(op, l) = <<s>>
  BY DEF Step
<1> HIDE DEF s
<1>3. d[1] = s /\ d[2][1] = h /\ d[2][2] = w /\ d[3][1] = k /\ d[3][2] = v
  OBVIOUS
<1>4. d \in ClientStep \X (Hands \X WorksOf(t)) \X (Hands \X WorksOf(t))
  BY <1>1
<1> HIDE DEF d
<1>5. d \in ClientMoves(t)
  BY <1>2, <1>3, <1>4 DEF ClientMoves
<1> QED BY <1>2, <1>5, LeadsStep DEF May, d

LEMMA MayWork ==
  ASSUME NEW t, NEW op \in WorkOps, NEW l \in ClientLocks, NEW h \in Hands,
         NEW w \in WorksOf(t), NEW v \in WorksOf(t), MovesWork(t, [op |-> op, on |-> l], h, w, v)
  PROVE  May(t, Step(op, l), h, w, h, v)
<1> DEFINE s == [op |-> op, on |-> l]
           d == <<s, <<h, w>>, <<h, v>>>>
<1>1. s \in ClientStep
  BY DEF ClientStep
<1>2. MovesWork(t, s, h, w, v) /\ Step(op, l) = <<s>>
  BY DEF Step
<1> HIDE DEF s
<1>3. d[1] = s /\ d[2][1] = h /\ d[2][2] = w /\ d[3][1] = h /\ d[3][2] = v
  OBVIOUS
<1>4. d \in ClientStep \X (Hands \X WorksOf(t)) \X (Hands \X WorksOf(t))
  BY <1>1
<1> HIDE DEF d
<1>5. d \in ClientMoves(t)
  BY <1>2, <1>3, <1>4 DEF ClientMoves
<1> QED BY <1>2, <1>5, LeadsStep DEF May, d

\* The step that is next, and what is left after it.
LEMMA MayTail ==
  ASSUME NEW t, NEW p, NEW h, NEW w, NEW k, NEW v, May(t, p, h, w, k, v), p # <<>>
  PROVE  /\ p[1] \in ClientStep /\ Tail(p) \in Seq(ClientStep) /\ h \in Hands /\ w \in WorksOf(t)
         /\ \E i \in Hands, u \in WorksOf(t) :
              /\ May(t, Tail(p), i, u, k, v)
              /\ MovesLock(t, p[1], h, w, i, u) \/ (MovesWork(t, p[1], h, w, u) /\ i = h)
<1> DEFINE D == ClientMoves(t)
<1>1. StepsOf(D) \subseteq ClientStep
  BY DEF StepsOf, ClientMoves
<1>2. D \subseteq ClientStep \X (Hands \X WorksOf(t)) \X (Hands \X WorksOf(t))
  BY DEF ClientMoves
<1> HIDE DEF D
<1>3. /\ p[1] \in StepsOf(D) /\ Tail(p) \in Seq(StepsOf(D))
      /\ \E n : <<p[1], <<h, w>>, n>> \in D /\ Leads(D, Tail(p), n, <<k, v>>)
  BY LeadsTail DEF May, D
<1>4. PICK n : <<p[1], <<h, w>>, n>> \in D /\ Leads(D, Tail(p), n, <<k, v>>)
  BY <1>3
<1> DEFINE d == <<p[1], <<h, w>>, n>>
<1>5. d \in ClientStep \X (Hands \X WorksOf(t)) \X (Hands \X WorksOf(t))
  BY <1>2, <1>4
<1>6. n \in Hands \X WorksOf(t) /\ h \in Hands /\ w \in WorksOf(t)
  BY <1>5
<1>7. PICK i \in Hands, u \in WorksOf(t) : n = <<i, u>>
  BY <1>6
<1>8. d[1] = p[1] /\ d[2][1] = h /\ d[2][2] = w /\ d[3][1] = i /\ d[3][2] = u
  BY <1>7
<1>9. d \in D
  BY <1>4
<1> HIDE DEF d
<1>10. MovesLock(t, p[1], h, w, i, u) \/ (MovesWork(t, p[1], h, w, u) /\ i = h)
  BY <1>8, <1>9 DEF D, ClientMoves
<1>11. May(t, Tail(p), i, u, k, v)
  BY <1>4, <1>7 DEF May, D
<1>12. Tail(p) \in Seq(ClientStep) /\ p[1] \in ClientStep
  BY <1>1, <1>3
<1> QED BY <1>6, <1>10, <1>11, <1>12

LEMMA MayEnd == ASSUME NEW t, NEW h, NEW w, NEW k, NEW v, May(t, <<>>, h, w, k, v) PROVE h = k /\ w = v
BY LeadsEnd DEF May

LEMMA MaySteps == ASSUME NEW t, NEW p, NEW h, NEW w, NEW k, NEW v, May(t, p, h, w, k, v) PROVE p \in Seq(ClientStep)
<1>1. StepsOf(ClientMoves(t)) \subseteq ClientStep
  BY DEF StepsOf, ClientMoves
<1> QED BY <1>1 DEF May, Leads
-----------------------------------------------------------------------------
(* Taking a lock, something inside, giving the lock back.                  *)

LEMMA TakenHands ==
  ASSUME NEW h \in Hands, NEW l \in ClientLocks, NEW x \in Nat \cup {-1}, h[l] = 0
  PROVE  /\ [h EXCEPT ![l] = x] \in Hands /\ [h EXCEPT ![l] = x][l] = x
         /\ \A o \in ClientLocks \ {l} : [h EXCEPT ![l] = x][o] = h[o]
         /\ h = [[h EXCEPT ![l] = x] EXCEPT ![l] = 0]
         /\ l \in Own => \A r : Below(h, r) => Below([h EXCEPT ![l] = x], r)
         /\ Below(h, ClientRank(l)) => Below([h EXCEPT ![l] = x], ClientRank(l) + 1)
<1>1. PICK k : k = [h EXCEPT ![l] = x]
  OBVIOUS
<1>2. /\ k \in Hands /\ k[l] = x /\ \A o \in ClientLocks \ {l} : k[o] = h[o]
  BY <1>1 DEF Hands
<1>3. h = [k EXCEPT ![l] = 0]
  BY <1>1 DEF Hands
<1>4. ASSUME l \in Own, NEW r, Below(h, r) PROVE Below(k, r)
  BY <1>2, <1>4 DEF Below
<1>5. ASSUME Below(h, ClientRank(l)) PROVE Below(k, ClientRank(l) + 1)
  <2>1. \A o \in ClientLocks : ClientRank(o) \in Nat
    BY ClientNames
  <2> QED BY <1>2, <1>5, <2>1 DEF Below
<1> QED BY <1>1, <1>2, <1>3, <1>4, <1>5

\* A lock that is taken in its turn is not held.
LEMMA NextIsFree ==
  ASSUME NEW h \in Hands, NEW l \in ClientLocks \ Own, Below(h, ClientRank(l)) PROVE h[l] = 0
<1>1. \A o \in ClientLocks : ClientRank(o) \in Nat
  BY ClientNames
<1> QED BY <1>1 DEF Below

LEMMA MayAround ==
  ASSUME NEW t, NEW l \in ClientLocks, NEW first \in LockOps, NEW back \in LockOps, NEW body,
         NEW h \in Hands, NEW k \in Hands, NEW w \in WorksOf(t), NEW v \in WorksOf(t),
         w.taken = 0, v.taken = 0,
         MovesLock(t, [op |-> first, on |-> l], h, w, k, w),
         MovesLock(t, [op |-> back, on |-> l], k, v, h, v),
         May(t, body, k, w, k, v)
  PROVE  May(t, (Step(first, l) \o body) \o Step(back, l), h, w, h, v)
<1>1. May(t, Step(first, l), h, w, k, w) /\ May(t, Step(back, l), k, v, h, v)
  BY MayLock
<1>2. May(t, Step(first, l) \o body, h, w, k, v)
  BY <1>1, MayThen
<1> QED BY <1>1, <1>2, MayThen

LEMMA MayHold ==
  ASSUME NEW t, NEW l \in ClientMutexes, NEW body, NEW h \in Hands, h[l] = 0,
         IF l \in Own THEN t = "window" ELSE Below(h, ClientRank(l)),
         NEW w \in WorksOf(t), NEW v \in WorksOf(t), w.taken = 0, v.taken = 0,
         May(t, body, [h EXCEPT ![l] = -1], w, [h EXCEPT ![l] = -1], v)
  PROVE  May(t, Hold(l, body), h, w, h, v)
<1>1. l \in ClientLocks /\ l \notin ClientTables
  BY ClientNames
<1>2. PICK k : k = [h EXCEPT ![l] = -1]
  OBVIOUS
<1>3. k \in Hands /\ k[l] = -1 /\ h = [k EXCEPT ![l] = 0]
  BY <1>1, <1>2, TakenHands
<1> DEFINE a == [op |-> "lock", on |-> l]
           b == [op |-> "unlock", on |-> l]
<1>4. a.op = "lock" /\ a.on = l /\ b.op = "unlock" /\ b.on = l
  OBVIOUS
<1> HIDE DEF a, b
<1>5. MovesLock(t, a, h, w, k, w)
  <2>1. TakesOwn(t, a, h, k) \/ TakesNext(t, a, h, k)
    BY <1>2, <1>4 DEF TakesOwn, TakesNext
  <2> QED BY <2>1 DEF MovesLock
<1>6. MovesLock(t, b, k, v, h, v)
  <2>1. GivesBack(b, k, v, h)
    BY <1>3, <1>4 DEF GivesBack
  <2> QED BY <2>1 DEF MovesLock
<1>7. May(t, (Step("lock", l) \o body) \o Step("unlock", l), h, w, h, v)
  <2>1. "lock" \in LockOps /\ "unlock" \in LockOps
    BY DEF LockOps
  <2> QED BY <1>1, <1>2, <1>3, <1>5, <1>6, <2>1, MayAround DEF a, b
<1> QED BY <1>7 DEF Hold

LEMMA MayWriting ==
  ASSUME NEW l \in ClientTables, NEW body, NEW h \in Hands, Below(h, ClientRank(l)),
         NEW w \in WorksOf("inbound"), NEW v \in WorksOf("inbound"), w.taken = 0, v.taken = 0,
         May("inbound", body, [h EXCEPT ![l] = -1], w, [h EXCEPT ![l] = -1], v)
  PROVE  May("inbound", Writing(l, body), h, w, h, v)
<1>1. l \in ClientLocks /\ l \notin Own
  BY ClientNames
<1>2. PICK k : k = [h EXCEPT ![l] = -1]
  OBVIOUS
<1>3. k \in Hands /\ k[l] = -1 /\ h = [k EXCEPT ![l] = 0]
  BY <1>1, <1>2, TakenHands, NextIsFree
<1> DEFINE a == [op |-> "write", on |-> l]
           b == [op |-> "unlock", on |-> l]
<1>4. a.op = "write" /\ a.on = l /\ b.op = "unlock" /\ b.on = l
  OBVIOUS
<1> HIDE DEF a, b
<1>5. MovesLock("inbound", a, h, w, k, w)
  <2>1. TakesNext("inbound", a, h, k)
    BY <1>1, <1>2, <1>4 DEF TakesNext
  <2> QED BY <2>1 DEF MovesLock
<1>6. MovesLock("inbound", b, k, v, h, v)
  <2>1. GivesBack(b, k, v, h)
    BY <1>3, <1>4 DEF GivesBack
  <2> QED BY <2>1 DEF MovesLock
<1>7. May("inbound", (Step("write", l) \o body) \o Step("unlock", l), h, w, h, v)
  <2>1. "write" \in LockOps /\ "unlock" \in LockOps
    BY DEF LockOps
  <2> QED BY <1>1, <1>2, <1>3, <1>5, <1>6, <2>1, MayAround DEF a, b
<1> QED BY <1>7 DEF Writing

LEMMA MayReading ==
  ASSUME NEW t, NEW l \in ClientTables, NEW body, NEW h \in Hands, Below(h, ClientRank(l)),
         NEW w \in WorksOf(t), NEW v \in WorksOf(t), w.taken = 0, v.taken = 0, v.draft = Absent,
         May(t, body, [h EXCEPT ![l] = 1], w, [h EXCEPT ![l] = 1], v)
  PROVE  May(t, Reading(l, body), h, w, h, v)
<1>1. l \in ClientLocks /\ l \notin Own
  BY ClientNames
<1>2. PICK k : k = [h EXCEPT ![l] = 1]
  OBVIOUS
<1>3. k \in Hands /\ k[l] = 1 /\ h = [k EXCEPT ![l] = k[l] - 1]
  <2>1. k \in Hands /\ k[l] = 1 /\ h = [k EXCEPT ![l] = 0]
    BY <1>1, <1>2, TakenHands, NextIsFree
  <2>2. k[l] - 1 = 0
    BY <2>1
  <2> QED BY <2>1, <2>2
<1> DEFINE a == [op |-> "read", on |-> l]
           b == [op |-> "unread", on |-> l]
<1>4. a.op = "read" /\ a.on = l /\ b.op = "unread" /\ b.on = l
  OBVIOUS
<1> HIDE DEF a, b
<1>5. MovesLock(t, a, h, w, k, w)
  <2>1. TakesNext(t, a, h, k)
    BY <1>1, <1>2, <1>4 DEF TakesNext
  <2> QED BY <2>1 DEF MovesLock
<1>6. MovesLock(t, b, k, v, h, v)
  <2>0. k[l] \notin {0, -1} /\ b.on \in ClientTables
    BY <1>3, <1>4
  <2>1. GivesBack(b, k, v, h)
    <3>1. h = [k EXCEPT ![b.on] = k[b.on] - 1] /\ k[b.on] \notin {0, -1}
      BY <1>3, <1>4, <2>0
    <3> QED BY <1>4, <2>0, <3>1 DEF GivesBack
  <2> QED BY <2>1 DEF MovesLock
<1>7. May(t, (Step("read", l) \o body) \o Step("unread", l), h, w, h, v)
  <2>1. "read" \in LockOps /\ "unread" \in LockOps
    BY DEF LockOps
  <2> QED BY <1>1, <1>2, <1>3, <1>5, <1>6, <2>1, MayAround DEF a, b
<1> QED BY <1>7 DEF Reading
-----------------------------------------------------------------------------
(* Programs that leave no work.                                            *)

LEMMA MildThen ==
  ASSUME NEW t, NEW p, NEW q, NEW r, NEW F, Mild(t, p, r, F), Mild(t, q, r, F)
  PROVE  Mild(t, p \o q, r, F)
<1> SUFFICES ASSUME NEW h \in Hands, NEW w \in WorksOf(t), Below(h, r), \A o \in F : h[o] = 0, Calm(w)
             PROVE  May(t, p \o q, h, w, h, w)
  BY DEF Mild
<1>1. May(t, p, h, w, h, w) /\ May(t, q, h, w, h, w)
  BY DEF Mild
<1> QED BY <1>1, MayThen

LEMMA MildBelow ==
  ASSUME NEW t, NEW p, NEW r \in Nat, NEW q \in Nat, NEW F, NEW G, Mild(t, p, r, F), q <= r, F \subseteq G
  PROVE  Mild(t, p, q, G)
<1> SUFFICES ASSUME NEW h \in Hands, NEW w \in WorksOf(t), Below(h, q), \A o \in G : h[o] = 0, Calm(w)
             PROVE  May(t, p, h, w, h, w)
  BY DEF Mild
<1>1. \A l \in ClientLocks : ClientRank(l) \in Nat
  BY ClientNames
<1>2. Below(h, r)
  BY <1>1 DEF Below
<1> QED BY <1>2 DEF Mild

LEMMA MildUse ==
  ASSUME NEW t, NEW l \in ClientMutexes, NEW r \in Nat, NEW F,
         IF l \in Own THEN l \in F /\ (t = "window" \/ r = 0) ELSE r <= ClientRank(l)
  PROVE  Mild(t, Use(l), r, F)
<1> SUFFICES ASSUME NEW h \in Hands, NEW w \in WorksOf(t), Below(h, r), \A o \in F : h[o] = 0, Calm(w)
             PROVE  May(t, Use(l), h, w, h, w)
  BY DEF Mild
<1> DEFINE s == [op |-> "use", on |-> l]
<1>1. s.op = "use" /\ s.on = l /\ l \in ClientLocks /\ "use" \in LockOps
  BY ClientNames DEF LockOps
<1>2. \A o \in ClientLocks : ClientRank(o) \in Nat
  BY ClientNames
<1> HIDE DEF s
<1>3. TakesOwn(t, s, h, h) \/ TakesNext(t, s, h, h)
  <2>1. CASE l \in Own
    BY <1>1, <2>1 DEF TakesOwn
  <2>2. CASE l \notin Own
    <3>1. Below(h, ClientRank(l))
      BY <1>1, <1>2, <2>2 DEF Below
    <3> QED BY <1>1, <2>2, <3>1 DEF TakesNext
  <2> QED BY <2>1, <2>2
<1>4. MovesLock(t, s, h, w, h, w)
  BY <1>3 DEF MovesLock, Calm
<1> QED BY <1>1, <1>4, MayLock DEF s, Use

LEMMA MildHold ==
  ASSUME NEW t, NEW l \in ClientMutexes \ Own, NEW body, NEW F, F \subseteq Own,
         Mild(t, body, ClientRank(l) + 1, F)
  PROVE  Mild(t, Hold(l, body), ClientRank(l), F)
<1> SUFFICES ASSUME NEW h \in Hands, NEW w \in WorksOf(t), Below(h, ClientRank(l)), \A o \in F : h[o] = 0, Calm(w)
             PROVE  May(t, Hold(l, body), h, w, h, w)
  BY DEF Mild
<1>1. l \in ClientLocks /\ h[l] = 0 /\ \A o \in F : o \in ClientLocks \ {l}
  BY ClientNames, NextIsFree
<1>2. PICK k : k = [h EXCEPT ![l] = -1]
  OBVIOUS
<1>3. k \in Hands /\ Below(k, ClientRank(l) + 1) /\ \A o \in F : k[o] = 0
  BY <1>1, <1>2, TakenHands
<1>4. May(t, body, k, w, k, w)
  BY <1>3 DEF Mild
<1> QED BY <1>1, <1>2, <1>4, MayHold DEF Calm

LEMMA MildHoldOwn ==
  ASSUME NEW l \in Own, NEW body, NEW F, F \subseteq Own \ {l}, NEW r \in Nat,
         Mild("window", body, r, F)
  PROVE  Mild("window", Hold(l, body), r, F \cup {l})
<1> SUFFICES ASSUME NEW h \in Hands, NEW w \in WorksOf("window"), Below(h, r),
                    \A o \in F \cup {l} : h[o] = 0, Calm(w)
             PROVE  May("window", Hold(l, body), h, w, h, w)
  BY DEF Mild
<1>1. l \in ClientLocks /\ l \in ClientMutexes /\ h[l] = 0 /\ \A o \in F : o \in ClientLocks \ {l}
  BY ClientNames
<1>2. PICK k : k = [h EXCEPT ![l] = -1]
  OBVIOUS
<1>3. k \in Hands /\ Below(k, r) /\ \A o \in F : k[o] = 0
  BY <1>1, <1>2, TakenHands
<1>4. May("window", body, k, w, k, w)
  BY <1>3 DEF Mild
<1> QED BY <1>1, <1>2, <1>4, MayHold DEF Calm

\* The table of chunks is read.
LEMMA MildReading ==
  ASSUME NEW t, NEW body, NEW F, F \subseteq Own, Mild(t, body, 5, F)
  PROVE  Mild(t, Reading("chunks", body), 4, F)
<1> SUFFICES ASSUME NEW h \in Hands, NEW w \in WorksOf(t), Below(h, 4), \A o \in F : h[o] = 0, Calm(w)
             PROVE  May(t, Reading("chunks", body), h, w, h, w)
  BY DEF Mild
<1>0. PICK l \in ClientTables : l = "chunks"
  BY ClientNames
<1>1. l \in ClientLocks \ Own /\ ClientRank(l) = 4 /\ 4 + 1 = 5 /\ \A o \in F : o \in ClientLocks \ {l}
  BY <1>0, ClientNames
<1>2. h[l] = 0
  BY <1>1, NextIsFree
<1>3. PICK k : k = [h EXCEPT ![l] = 1]
  OBVIOUS
<1>4. k \in Hands /\ Below(k, 5) /\ \A o \in F : k[o] = 0
  BY <1>1, <1>2, <1>3, TakenHands
<1>5. May(t, body, k, w, k, w)
  BY <1>4 DEF Mild
<1>6. May(t, Reading(l, body), h, w, h, w)
  BY <1>1, <1>3, <1>5, MayReading DEF Calm
<1> QED BY <1>0, <1>6
-----------------------------------------------------------------------------
\* The guards of some chunks, one after another, by a thread that writes none.
LEMMA LooksLead ==
  ASSUME NEW t, NEW S \in SUBSET ClientChunks, NEW h \in Hands, NEW w \in WorksOf(t), w.taken = 0,
         Below(h, 6), \A c \in ClientChunks : h[c] # -1, \A c \in S : h[c] = 0
  PROVE  May(t, EachOf(S, Look), h, w, h, w)
<1> DEFINE b == [c \in S |-> Look(c)]
           st == [T \in SUBSET S |-> <<h, w>>]
           D == ClientMoves(t)
<1>1. IsFiniteSet(S)
  BY ClientThreadsAssumption, FS_Subset
<1>2. ASSUME NEW c \in S PROVE May(t, Look(c), h, w, h, w)
  <2> DEFINE s == [op |-> "look", on |-> c]
  <2>1. s.op = "look" /\ s.on = c /\ c \in ClientLocks /\ c \in ClientChunks /\ "look" \in LockOps
    BY ClientNames DEF LockOps
  <2> HIDE DEF s
  <2>2. TakesAgain(s, h, h)
    BY <2>1 DEF TakesAgain
  <2>3. MovesLock(t, s, h, w, h, w)
    BY <2>2 DEF MovesLock
  <2> QED BY <2>1, <2>3, MayLock DEF s, Look
<1>3. ASSUME NEW x \in S, NEW T \in SUBSET S, x \notin T PROVE Leads(D, b[x], st[T \cup {x}], st[T])
  <2>1. b[x] = Look(x) /\ st[T \cup {x}] = <<h, w>> /\ st[T] = <<h, w>>
    OBVIOUS
  <2> HIDE DEF b, st
  <2> QED BY <1>2, <2>1 DEF May
<1>4. st[S] = <<h, w>> /\ st[{}] = <<h, w>>
  OBVIOUS
<1>5. EachOf(S, Look) = FlattenSeq([i \in 1 .. Cardinality(S) |-> b[SetToSeq(S)[i]]])
  <2>1. \A i \in 1 .. Cardinality(S) : SetToSeq(S)[i] \in S
    BY <1>1, SetInOrder
  <2>2. [i \in 1 .. Cardinality(S) |-> b[SetToSeq(S)[i]]] = [i \in 1 .. Cardinality(S) |-> Look(SetToSeq(S)[i])]
    BY <2>1
  <2> QED BY <2>2 DEF EachOf
<1> HIDE DEF b, st, D
<1>6. Leads(D, FlattenSeq([i \in 1 .. Cardinality(S) |-> b[SetToSeq(S)[i]]]), st[S], st[{}])
  BY <1>1, <1>3, EachLeads
<1> QED BY <1>4, <1>5, <1>6 DEF May, D

LEMMA LookAtBlocksMild == ASSUME NEW t PROVE Mild(t, LookAtBlocks, 4, {})
<1>1. Mild(t, EachOf(ClientChunks, Look), 5, {})
  <2> SUFFICES ASSUME NEW h \in Hands, NEW w \in WorksOf(t), Below(h, 5), Calm(w)
               PROVE  May(t, EachOf(ClientChunks, Look), h, w, h, w)
    BY DEF Mild
  <2>1. \A c \in ClientChunks : h[c] = 0
    BY ClientNames, NextIsFree
  <2>2. Below(h, 6)
    BY ClientNames DEF Below
  <2> QED BY <2>1, <2>2, LooksLead DEF Calm
<1> QED BY <1>1, MildReading DEF LookAtBlocks

\* The window thread: every frame takes and gives back its locks.
LEMMA WindowMild == Mild("window", Event \o Frame, 1, Own)
<1> DEFINE W(p, r, F) == Mild("window", p, r, F)
<1>1. /\ "egui" \in ClientMutexes \ Own /\ "hud" \in ClientMutexes \ Own /\ "inventories" \in ClientMutexes \ Own
      /\ "input" \in Own /\ "physics" \in Own /\ "tool_controller" \in Own
      /\ ClientRank("egui") = 1 /\ ClientRank("hud") = 2 /\ ClientRank("inventories") = 3
      /\ Own \subseteq ClientMutexes
  BY ClientNames DEF Own, ClientMutexes
<1>2. \A r \in Nat : W(Use("input"), r, {"input"}) /\ W(Use("physics"), r, {"physics"})
                       /\ W(Use("tool_controller"), r, {"tool_controller"})
  BY <1>1, MildUse
<1>3. W(Use("egui"), 1, {}) /\ W(Use("inventories"), 3, {})
  BY <1>1, MildUse
<1>4. W(LookAtBlocks, 1, {})
  BY LookAtBlocksMild, MildBelow
<1>5. W(Event, 1, Own)
  <2>1. W(Use("egui"), 1, Own) /\ W(Use("input"), 1, Own)
    BY <1>1, <1>2, <1>3, MildBelow
  <2> QED BY <2>1, MildThen DEF Event
<1>6. W(NextFrame, 1, Own)
  <2>1. W(Hold("input", Use("egui") \o Use("egui")), 1, Own)
    <3>1. W(Use("egui") \o Use("egui"), 1, {})
      BY <1>3, MildThen
    <3>2. W(Hold("input", Use("egui") \o Use("egui")), 1, {} \cup {"input"})
      BY <1>1, <3>1, MildHoldOwn
    <3> QED BY <1>1, <3>2, MildBelow
  <2>2. W(Hold("physics", UpdateAndGet), 1, Own)
    <3>1. W(UpdateAndGet, 1, {} \cup {"input"})
      BY <1>1, <1>4, MildHoldOwn DEF UpdateAndGet
    <3>2. {} \cup {"input"} \subseteq Own \ {"physics"}
      BY DEF Own
    <3>3. W(Hold("physics", UpdateAndGet), 1, ({} \cup {"input"}) \cup {"physics"})
      BY <1>1, <3>1, <3>2, MildHoldOwn
    <3> QED BY <1>1, <3>2, <3>3, MildBelow
  <2>3. W(Hold("tool_controller", UpdateTool), 1, Own)
    <3> DEFINE F == {"physics", "input"}
    <3>1. W(Use("physics"), 1, F) /\ W(LookAtBlocks, 1, F) /\ W(Use("input"), 1, F)
      BY <1>1, <1>2, <1>4, MildBelow
    <3>2. W(UpdateTool, 1, F)
      BY <3>1, MildThen DEF UpdateTool
    <3>3. F \subseteq Own \ {"tool_controller"}
      BY DEF Own
    <3>4. W(Hold("tool_controller", UpdateTool), 1, F \cup {"tool_controller"})
      BY <1>1, <3>2, <3>3, MildHoldOwn
    <3>5. F \cup {"tool_controller"} \subseteq Own
      BY DEF Own
    <3> QED BY <3>4, <3>5, MildBelow
  <2> QED BY <2>1, <2>2, <2>3, MildThen DEF NextFrame
<1>7. W(Look("chunks"), 1, Own)
  <2> SUFFICES ASSUME NEW h \in Hands, NEW w \in WorksOf("window"), Below(h, 1), Calm(w)
               PROVE  May("window", Look("chunks"), h, w, h, w)
    BY DEF Mild
  <2> DEFINE s == [op |-> "look", on |-> "chunks"]
  <2>1. s.op = "look" /\ s.on = "chunks" /\ "look" \in LockOps
    BY DEF LockOps
  <2>2. "chunks" \in ClientTables /\ "chunks" \in ClientLocks /\ "chunks" \notin Own /\ ClientRank("chunks") = 4
    BY ClientNames DEF Own
  <2> HIDE DEF s
  <2>3. Below(h, 4)
    BY ClientNames DEF Below
  <2>4. TakesNext("window", s, h, h)
    BY <2>1, <2>2, <2>3 DEF TakesNext
  <2>5. MovesLock("window", s, h, w, h, w)
    BY <2>4 DEF MovesLock, Calm
  <2> QED BY <2>1, <2>2, <2>5, MayLock DEF s, Look
<1>8. W(Hold("hud", UpdateAndRender), 1, Own)
  <2>1. W(Use("input"), 3, Own) /\ W(Use("inventories"), 3, Own) /\ W(Use("tool_controller"), 3, Own)
    BY <1>1, <1>2, <1>3, MildBelow
  <2>2. W(SetSlot, 3, Own)
    BY <2>1, MildThen DEF SetSlot
  <2>3. W(UpdateAndRender, 3, Own)
    BY <2>1, <2>2, MildThen DEF UpdateAndRender
  <2>4. W(UpdateAndRender, 2 + 1, Own)
    BY <2>3
  <2>5. W(Hold("hud", UpdateAndRender), 2, Own)
    BY <1>1, <2>4, MildHold
  <2> QED BY <2>5, MildBelow
<1>9. W(DrawEgui, 1, Own)
  <2>1. W(Use("inventories"), 1 + 1, Own)
    BY <1>3, MildBelow
  <2>2. W(Use("inventories") \o Use("inventories"), 1 + 1, Own)
    BY <2>1, MildThen
  <2> QED BY <1>1, <2>2, MildHold DEF DrawEgui
<1>10. W(NextFrame \o Look("chunks"), 1, Own)
  BY <1>6, <1>7, MildThen
<1>11. W((NextFrame \o Look("chunks")) \o Hold("hud", UpdateAndRender), 1, Own)
  BY <1>8, <1>10, MildThen
<1>12. W(Frame, 1, Own)
  BY <1>9, <1>11, MildThen DEF Frame
<1> QED BY <1>5, <1>12, MildThen
-----------------------------------------------------------------------------
(* Programs that work on chunks.                                           *)

\* A chunk is meshed by who reads the table: it is no longer to be meshed, and no draft is left.
LEMMA MeshChunkLeads ==
  ASSUME NEW t, t # "window", NEW c \in ClientChunks, NEW h \in Hands, h["chunks"] \notin {0, -1}, Below(h, 5),
         NEW w \in WorksOf(t), Calm(w), NEW v, v = [w EXCEPT !.toMesh = w.toMesh \ {c}]
  PROVE  May(t, MeshChunk(c), h, w, h, v)
<1>1. /\ c \in ClientLocks /\ c \in ClientTables /\ c \notin Own /\ ClientRank(c) = 5 /\ c # "chunks"
      /\ "read_recursive" \in LockOps /\ "unread" \in LockOps /\ "mesh" \in WorkOps /\ "store" \in WorkOps
  BY ClientNames DEF LockOps, WorkOps
<1>2. PICK i : i = [h EXCEPT ![c] = 1]
  OBVIOUS
<1>3. PICK k : k = [i EXCEPT ![c] = 2]
  OBVIOUS
<1>4. PICK u : u = [w EXCEPT !.draft = c, !.toMesh = w.toMesh \ {c}]
  OBVIOUS
<1>5. h[c] = 0 /\ \A o \in ClientChunks : h[o] = 0
  BY ClientNames, NextIsFree
<1>6. /\ i \in Hands /\ i[c] = 1 /\ (\A o \in ClientLocks \ {c} : i[o] = h[o]) /\ Below(i, 6)
      /\ h = [i EXCEPT ![c] = 0]
  BY <1>1, <1>2, <1>5, TakenHands
<1>7. k \in Hands /\ k[c] = 2 /\ (\A o \in ClientLocks \ {c} : k[o] = h[o]) /\ i = [k EXCEPT ![c] = 1]
  BY <1>1, <1>2, <1>3, <1>6 DEF Hands
<1>8. /\ u \in WorksOf(t) /\ v \in WorksOf(t) /\ v = [u EXCEPT !.draft = Absent]
      /\ u.taken = 0 /\ v.taken = 0 /\ u.draft = c
  <2>1. w \in Works /\ u \in Works /\ v \in Works
    BY <1>4 DEF Works, WorksOf, MaybeChunk
  <2>2. v = [u EXCEPT !.draft = Absent]
    BY <1>4, <2>1 DEF Works, Calm
  <2> QED BY <1>4, <2>1, <2>2 DEF WorksOf, Works, Calm
<1>9. May(t, EachOf(Near[c], Look), k, u, k, u)
  <2>1. Near[c] \in SUBSET ClientChunks /\ c \notin Near[c]
    BY ClientThreadsAssumption
  <2>2. \A o \in ClientChunks : o \in ClientLocks
    BY ClientNames DEF ClientLocks
  <2>3. \A o \in ClientChunks : k[o] # -1
    BY <1>5, <1>7, <2>2
  <2>4. \A n \in Near[c] : k[n] = 0
    BY <1>5, <1>7, <2>1, <2>2
  <2>5. Below(k, 6)
    BY <1>6, <1>7 DEF Below
  <2> QED BY <1>7, <1>8, <2>1, <2>3, <2>4, <2>5, LooksLead
<1> DEFINE a == [op |-> "read_recursive", on |-> c]
           b == [op |-> "unread", on |-> c]
           m == [op |-> "mesh", on |-> c]
           s == [op |-> "store", on |-> c]
<1>10. a.op = "read_recursive" /\ a.on = c /\ b.op = "unread" /\ b.on = c
  OBVIOUS
<1>11. m.op = "mesh" /\ m.on = c /\ s.op = "store" /\ s.on = c
  OBVIOUS
<1> HIDE DEF a, b, m, s
<1>12. MovesLock(t, a, h, u, i, u) /\ MovesLock(t, b, i, u, h, u)
  <2>1. TakesNext(t, a, h, i)
    BY <1>1, <1>2, <1>10 DEF TakesNext
  <2>2. i[b.on] \notin {0, -1} /\ h = [i EXCEPT ![b.on] = i[b.on] - 1]
    <3>1. i[c] - 1 = 0 /\ i[c] \notin {0, -1}
      BY <1>6
    <3> QED BY <1>6, <1>10, <3>1
  <2>3. GivesBack(b, i, u, h)
    BY <1>1, <1>10, <2>2 DEF GivesBack
  <2> QED BY <1>8, <2>1, <2>3 DEF MovesLock
<1>13. MovesLock(t, a, i, u, k, u) /\ MovesLock(t, b, k, u, i, u)
  <2>1. \A o \in ClientChunks : i[o] # -1
    BY <1>5, <1>6, ClientNames
  <2>2. k = [i EXCEPT ![a.on] = i[a.on] + 1]
    <3>1. i[c] + 1 = 2
      BY <1>6
    <3> QED BY <1>3, <1>10, <3>1
  <2>3. TakesAgain(a, i, k)
    BY <1>6, <1>10, <2>1, <2>2 DEF TakesAgain
  <2>4. k[b.on] \notin {0, -1} /\ i = [k EXCEPT ![b.on] = k[b.on] - 1]
    <3>1. k[c] - 1 = 1 /\ k[c] \notin {0, -1}
      BY <1>7
    <3> QED BY <1>7, <1>10, <3>1
  <2>5. GivesBack(b, k, u, i)
    BY <1>1, <1>10, <2>4 DEF GivesBack
  <2> QED BY <1>8, <2>3, <2>5 DEF MovesLock
<1>14. May(t, ReadingAgain(c, EachOf(Near[c], Look)), i, u, i, u)
  BY <1>1, <1>6, <1>7, <1>8, <1>9, <1>13, MayAround DEF ReadingAgain, a, b
<1>15. May(t, ReadingAgain(c, ReadingAgain(c, EachOf(Near[c], Look))), h, u, h, u)
  <2> DEFINE X == ReadingAgain(c, EachOf(Near[c], Look))
  <2>1. May(t, X, i, u, i, u)
    BY <1>14
  <2> HIDE DEF X
  <2>2. May(t, (Step("read_recursive", c) \o X) \o Step("unread", c), h, u, h, u)
    BY <1>1, <1>6, <1>8, <1>12, <2>1, MayAround DEF a, b
  <2>3. May(t, ReadingAgain(c, X), h, u, h, u)
    BY <2>2 DEF ReadingAgain
  <2> QED BY <2>3 DEF X
<1>16. May(t, Step("mesh", c), h, w, h, u)
  <2>1. MovesWork(t, m, h, w, u)
    BY <1>4, <1>11 DEF MovesWork, WorksOn, Calm
  <2> QED BY <1>1, <1>8, <2>1, MayWork DEF m
<1>17. May(t, Step("store", c), h, u, h, v)
  <2>1. MovesWork(t, s, h, u, v)
    BY <1>8, <1>11 DEF MovesWork, WorksOn
  <2> QED BY <1>1, <1>8, <2>1, MayWork DEF s
<1>18. May(t, Step("mesh", c) \o ReadingAgain(c, ReadingAgain(c, EachOf(Near[c], Look))), h, w, h, u)
  BY <1>15, <1>16, MayThen
<1> QED BY <1>17, <1>18, MayThen DEF MeshChunk

\* The works of a thread that has some chunks to mesh, or to queue.
Meshing(w, T) == [w EXCEPT !.toMesh = T]
Queueing(w, T) == [w EXCEPT !.toQueue = T]
LEMMA MeshingWork ==
  ASSUME NEW t, NEW w \in WorksOf(t), t # "window", Calm(w), NEW T \in SUBSET ClientChunks
  PROVE  /\ Meshing(w, T) \in WorksOf(t) /\ Calm(Meshing(w, T)) /\ Meshing(w, T).toMesh = T
         /\ t = "inbound" => Queueing(w, T) \in WorksOf(t) /\ Calm(Queueing(w, T)) /\ Queueing(w, T).toQueue = T
<1>1. w \in Works
  BY DEF WorksOf
<1>2. Meshing(w, T) \in WorksOf(t) /\ Calm(Meshing(w, T)) /\ Meshing(w, T).toMesh = T
  BY <1>1 DEF Meshing, WorksOf, Works, Calm
<1>3. t = "inbound" => Queueing(w, T) \in WorksOf(t) /\ Calm(Queueing(w, T)) /\ Queueing(w, T).toQueue = T
  BY <1>1 DEF Queueing, WorksOf, Works, Calm
<1> QED BY <1>2, <1>3

LEMMA OneLess ==
  ASSUME NEW w \in Works, NEW T, NEW c, c \notin T, NEW U, U = T \cup {c}
  PROVE  /\ Meshing(w, T) = [Meshing(w, U) EXCEPT !.toMesh = Meshing(w, U).toMesh \ {c}]
         /\ Queueing(w, T) = [Queueing(w, U) EXCEPT !.toQueue = Queueing(w, U).toQueue \ {c}]
<1>1. U \ {c} = T
  OBVIOUS
<1>2. Meshing(w, U).toMesh = U /\ Queueing(w, U).toQueue = U
  BY DEF Meshing, Queueing, Works
<1>3. Meshing(w, T) = [Meshing(w, U) EXCEPT !.toMesh = T] /\ Queueing(w, T) = [Queueing(w, U) EXCEPT !.toQueue = T]
  BY DEF Meshing, Queueing, Works
<1> QED BY <1>1, <1>2, <1>3

\* map_delta_update_sync: the chunks beside a changed one are meshed while the table is read.
LEMMA MeshesLead ==
  ASSUME NEW t, t # "window", NEW S \in SUBSET ClientChunks, NEW h \in Hands,
         h["chunks"] \notin {0, -1}, Below(h, 5), NEW w \in WorksOf(t), Calm(w)
  PROVE  May(t, EachOf(S, MeshChunk), h, Meshing(w, S), h, Meshing(w, {}))
<1> DEFINE b == [c \in S |-> MeshChunk(c)]
           st == [T \in SUBSET S |-> <<h, Meshing(w, T)>>]
           D == ClientMoves(t)
<1>1. IsFiniteSet(S)
  BY ClientThreadsAssumption, FS_Subset
<1>2. ASSUME NEW x \in S, NEW T \in SUBSET S, x \notin T PROVE Leads(D, b[x], st[T \cup {x}], st[T])
  <2>1. b[x] = MeshChunk(x) /\ st[T \cup {x}] = <<h, Meshing(w, T \cup {x})>> /\ st[T] = <<h, Meshing(w, T)>>
    OBVIOUS
  <2>2. PICK u : u = Meshing(w, T \cup {x})
    OBVIOUS
  <2>3. PICK v : v = Meshing(w, T)
    OBVIOUS
  <2>4. u \in WorksOf(t) /\ Calm(u)
    BY <2>2, MeshingWork
  <2>5. v = [u EXCEPT !.toMesh = u.toMesh \ {x}]
    <3>1. w \in Works
      BY DEF WorksOf
    <3> QED BY <1>2, <2>2, <2>3, <3>1, OneLess
  <2>6. May(t, MeshChunk(x), h, u, h, v)
    BY <2>4, <2>5, MeshChunkLeads
  <2> HIDE DEF b, st
  <2> QED BY <2>1, <2>2, <2>3, <2>6 DEF May
<1>3. st[S] = <<h, Meshing(w, S)>> /\ st[{}] = <<h, Meshing(w, {})>>
  OBVIOUS
<1>4. EachOf(S, MeshChunk) = FlattenSeq([i \in 1 .. Cardinality(S) |-> b[SetToSeq(S)[i]]])
  <2>1. \A i \in 1 .. Cardinality(S) : SetToSeq(S)[i] \in S
    BY <1>1, SetInOrder
  <2>2. [i \in 1 .. Cardinality(S) |-> b[SetToSeq(S)[i]]] = [i \in 1 .. Cardinality(S) |-> MeshChunk(SetToSeq(S)[i])]
    BY <2>1
  <2> QED BY <2>2 DEF EachOf
<1> HIDE DEF b, st, D
<1>5. Leads(D, FlattenSeq([i \in 1 .. Cardinality(S) |-> b[SetToSeq(S)[i]]]), st[S], st[{}])
  BY <1>1, <1>2, EachLeads
<1> QED BY <1>3, <1>4, <1>5 DEF May, D

\* run_mesh_worker: the chunks that were in the queue are meshed one by one.
LEMMA WorkerMeshesLead ==
  ASSUME NEW t, t # "window", NEW S \in SUBSET ClientChunks, NEW w \in WorksOf(t), Calm(w)
  PROVE  May(t, WorkerMeshes(S), EmptyHands, Meshing(w, S), EmptyHands, Meshing(w, {}))
<1> DEFINE b == [c \in S |-> Reading("chunks", MeshChunk(c))]
           st == [T \in SUBSET S |-> <<EmptyHands, Meshing(w, T)>>]
           D == ClientMoves(t)
<1>1. IsFiniteSet(S)
  BY ClientThreadsAssumption, FS_Subset
<1>2. ASSUME NEW x \in S, NEW T \in SUBSET S, x \notin T PROVE Leads(D, b[x], st[T \cup {x}], st[T])
  <2>1. /\ b[x] = Reading("chunks", MeshChunk(x)) /\ st[T \cup {x}] = <<EmptyHands, Meshing(w, T \cup {x})>>
        /\ st[T] = <<EmptyHands, Meshing(w, T)>>
    OBVIOUS
  <2>2. PICK u : u = Meshing(w, T \cup {x})
    OBVIOUS
  <2>3. PICK v : v = Meshing(w, T)
    OBVIOUS
  <2>4. u \in WorksOf(t) /\ Calm(u) /\ v \in WorksOf(t) /\ Calm(v)
    BY <2>2, <2>3, MeshingWork
  <2>5. v = [u EXCEPT !.toMesh = u.toMesh \ {x}]
    <3>1. w \in Works
      BY DEF WorksOf
    <3> QED BY <1>2, <2>2, <2>3, <3>1, OneLess
  <2>6. PICK l \in ClientTables : l = "chunks"
    BY ClientNames
  <2>7. l \in ClientLocks \ Own /\ ClientRank(l) = 4 /\ EmptyHands \in Hands /\ Below(EmptyHands, 4)
    BY <2>6, ClientNames, WorkTypes
  <2>8. PICK k : k = [EmptyHands EXCEPT ![l] = 1]
    OBVIOUS
  <2>9. k \in Hands /\ k[l] = 1 /\ Below(k, 4 + 1)
    BY <2>7, <2>8, NextIsFree, TakenHands
  <2>10. May(t, MeshChunk(x), k, u, k, v)
    <3>1. k["chunks"] \notin {0, -1} /\ Below(k, 5)
      BY <2>6, <2>9
    <3> QED BY <2>4, <2>5, <2>9, <3>1, MeshChunkLeads
  <2>11. May(t, Reading(l, MeshChunk(x)), EmptyHands, u, EmptyHands, v)
    <3>1. u.taken = 0 /\ v.taken = 0 /\ v.draft = Absent /\ Below(EmptyHands, ClientRank(l))
      BY <2>4, <2>7 DEF Calm
    <3> QED BY <2>4, <2>7, <2>8, <2>10, <3>1, MayReading
  <2> HIDE DEF b, st
  <2> QED BY <2>1, <2>2, <2>3, <2>6, <2>11 DEF May
<1>3. st[S] = <<EmptyHands, Meshing(w, S)>> /\ st[{}] = <<EmptyHands, Meshing(w, {})>>
  OBVIOUS
<1>4. WorkerMeshes(S) = FlattenSeq([i \in 1 .. Cardinality(S) |-> b[SetToSeq(S)[i]]])
  <2>1. \A i \in 1 .. Cardinality(S) : SetToSeq(S)[i] \in S
    BY <1>1, SetInOrder
  <2>2. [i \in 1 .. Cardinality(S) |-> b[SetToSeq(S)[i]]]
          = [i \in 1 .. Cardinality(S) |-> Reading("chunks", MeshChunk(SetToSeq(S)[i]))]
    BY <2>1
  <2> QED BY <2>2 DEF WorkerMeshes, EachOf
<1> HIDE DEF b, st, D
<1>5. Leads(D, FlattenSeq([i \in 1 .. Cardinality(S) |-> b[SetToSeq(S)[i]]]), st[S], st[{}])
  BY <1>1, <1>2, EachLeads
<1> QED BY <1>3, <1>4, <1>5 DEF May, D
-----------------------------------------------------------------------------
\* handle_mapchunk queues the chunk and those beside it.
LEMMA QueuesLead ==
  ASSUME NEW S \in SUBSET ClientChunks, NEW w \in WorksOf("inbound"), Calm(w)
  PROVE  May("inbound", EachOf(S, LAMBDA n : Hold("queue", Step("enqueue", n))),
             EmptyHands, Queueing(w, S), EmptyHands, Queueing(w, {}))
<1> DEFINE b == [c \in S |-> Hold("queue", Step("enqueue", c))]
           st == [T \in SUBSET S |-> <<EmptyHands, Queueing(w, T)>>]
           D == ClientMoves("inbound")
<1>1. IsFiniteSet(S)
  BY ClientThreadsAssumption, FS_Subset
<1>2. ASSUME NEW x \in S, NEW T \in SUBSET S, x \notin T PROVE Leads(D, b[x], st[T \cup {x}], st[T])
  <2>1. /\ b[x] = Hold("queue", Step("enqueue", x)) /\ st[T \cup {x}] = <<EmptyHands, Queueing(w, T \cup {x})>>
        /\ st[T] = <<EmptyHands, Queueing(w, T)>>
    OBVIOUS
  <2>2. PICK u : u = Queueing(w, T \cup {x})
    OBVIOUS
  <2>3. PICK v : v = Queueing(w, T)
    OBVIOUS
  <2>4. u \in WorksOf("inbound") /\ Calm(u) /\ v \in WorksOf("inbound") /\ Calm(v)
    BY <2>2, <2>3, MeshingWork
  <2>5. v = [u EXCEPT !.toQueue = u.toQueue \ {x}]
    <3>1. w \in Works
      BY DEF WorksOf
    <3> QED BY <1>2, <2>2, <2>3, <3>1, OneLess
  <2>6. PICK l \in ClientMutexes : l = "queue"
    BY ClientNames
  <2>7. /\ l \in ClientLocks \ Own /\ ClientRank(l) = 6 /\ EmptyHands \in Hands /\ Below(EmptyHands, 6)
        /\ EmptyHands[l] = 0 /\ x \in ClientLocks /\ x \in ClientChunks
    BY <2>6, ClientNames, WorkTypes DEF Own, EmptyHands
  <2>8. PICK k \in Hands : k = [EmptyHands EXCEPT ![l] = -1]
    BY <2>7, TakenHands
  <2>9. May("inbound", Step("enqueue", x), k, u, k, v)
    <3> DEFINE s == [op |-> "enqueue", on |-> x]
    <3>1. s.op = "enqueue" /\ s.on = x
      OBVIOUS
    <3> HIDE DEF s
    <3>2. MovesWork("inbound", s, k, u, v)
      BY <2>4, <2>5, <2>7, <3>1 DEF MovesWork, WorksOn, Calm
    <3> QED BY <2>4, <2>7, <3>2, MayWork DEF s, WorkOps
  <2>10. May("inbound", Hold(l, Step("enqueue", x)), EmptyHands, u, EmptyHands, v)
    <3>1. u.taken = 0 /\ v.taken = 0 /\ Below(EmptyHands, ClientRank(l))
      BY <2>4, <2>7 DEF Calm
    <3> QED BY <2>4, <2>7, <2>8, <2>9, <3>1, MayHold
  <2> HIDE DEF b, st
  <2> QED BY <2>1, <2>2, <2>3, <2>6, <2>10 DEF May
<1>3. st[S] = <<EmptyHands, Queueing(w, S)>> /\ st[{}] = <<EmptyHands, Queueing(w, {})>>
  OBVIOUS
<1>4. EachOf(S, LAMBDA n : Hold("queue", Step("enqueue", n)))
        = FlattenSeq([i \in 1 .. Cardinality(S) |-> b[SetToSeq(S)[i]]])
  <2>1. \A i \in 1 .. Cardinality(S) : SetToSeq(S)[i] \in S
    BY <1>1, SetInOrder
  <2>2. [i \in 1 .. Cardinality(S) |-> b[SetToSeq(S)[i]]]
          = [i \in 1 .. Cardinality(S) |-> Hold("queue", Step("enqueue", SetToSeq(S)[i]))]
    BY <2>1
  <2> QED BY <2>2 DEF EachOf
<1> HIDE DEF b, st, D
<1>5. Leads(D, FlattenSeq([i \in 1 .. Cardinality(S) |-> b[SetToSeq(S)[i]]]), st[S], st[{}])
  BY <1>1, <1>2, EachLeads
<1> QED BY <1>3, <1>4, <1>5 DEF May, D

\* A work is what its parts are.
LEMMA SameWork ==
  ASSUME NEW w \in Works, NEW v \in Works, w.draft = v.draft, w.toQueue = v.toQueue, w.toMesh = v.toMesh,
         w.gone = v.gone, w.room = v.room, w.taken = v.taken
  PROVE  w = v
BY DEF Works

LEMMA NoWorkParts ==
  /\ NoWork \in Works /\ NoWork.draft = Absent /\ NoWork.toQueue = {} /\ NoWork.toMesh = {}
  /\ NoWork.gone = Absent /\ NoWork.room = Absent /\ NoWork.taken = 0
BY DEF NoWork, Works, MaybeChunk

\* update_from, apply_delta: who may change the chunk owes all that is beside it a mesh, by
\* way of the queue if the table is written.
ChangeOf(c) == [NoWork EXCEPT !.room = c]
LEMMA SetBlocksLeads ==
  ASSUME NEW c \in ClientChunks, NEW h \in Hands, Below(h, 5), h["chunks"] # 0,
         NEW v, v = IF h["chunks"] = -1 THEN Queueing(NoWork, Beside(c)) ELSE Meshing(NoWork, Beside(c))
  PROVE  May("inbound", SetBlocks(c), h, ChangeOf(c), h, v)
<1>0. Beside(c) \in SUBSET ClientChunks
  BY ClientThreadsAssumption DEF Beside
<1>1. PICK w : w = ChangeOf(c)
  OBVIOUS
<1>2. /\ NoWork \in WorksOf("inbound") /\ Calm(NoWork)
      /\ v \in WorksOf("inbound") /\ v.taken = 0
  BY <1>0, WorkTypes, MeshingWork DEF Calm
<1>3. w \in WorksOf("inbound") /\ w.taken = 0 /\ w.room = c /\ w.draft = Absent /\ w.gone = Absent
  BY <1>1 DEF ChangeOf, NoWork, WorksOf, Works, MaybeChunk
<1>4. /\ c \in ClientLocks \ Own /\ c \in ClientTables /\ ClientRank(c) = 5 /\ c # "chunks"
      /\ "chunks" \in ClientLocks
  BY ClientNames
<1>5. PICK k : k = [h EXCEPT ![c] = -1]
  OBVIOUS
<1>6. k \in Hands /\ k["chunks"] = h["chunks"]
  BY <1>4, <1>5, NextIsFree, TakenHands
<1> DEFINE s == [op |-> "set", on |-> c]
<1>7. s.op = "set" /\ s.on = c
  OBVIOUS
<1> HIDE DEF s
<1>8. MovesWork("inbound", s, k, w, v)
  <2>0. /\ w \in Works /\ w.draft = Absent /\ w.toQueue = {} /\ w.toMesh = {}
        /\ w.gone = Absent /\ w.room = c /\ w.taken = 0
    BY <1>1, NoWorkParts DEF ChangeOf, Works, MaybeChunk
  <2>1. w.toQueue \cup Beside(c) = Beside(c) /\ w.toMesh \cup Beside(c) = Beside(c)
    BY <2>0
  <2>2. CASE h["chunks"] = -1
    <3>1. v = [w EXCEPT !.room = Absent, !.gone = Absent, !.toQueue = w.toQueue \cup Beside(c)]
      <4>1. PICK x : x = [w EXCEPT !.room = Absent, !.gone = Absent, !.toQueue = Beside(c)]
        OBVIOUS
      <4>2. /\ x \in Works /\ x.draft = Absent /\ x.toQueue = Beside(c) /\ x.toMesh = {}
            /\ x.gone = Absent /\ x.room = Absent /\ x.taken = 0
        BY <1>0, <2>0, <4>1 DEF Works, MaybeChunk
      <4>3. /\ v \in Works /\ v.draft = Absent /\ v.toQueue = Beside(c) /\ v.toMesh = {}
            /\ v.gone = Absent /\ v.room = Absent /\ v.taken = 0
        BY <1>0, <2>2, NoWorkParts DEF Queueing, Works, MaybeChunk
      <4>4. x = v
        BY <4>2, <4>3, SameWork
      <4> QED BY <2>1, <4>1, <4>4
    <3> QED BY <1>3, <1>6, <1>7, <2>2, <3>1 DEF MovesWork, WorksOn
  <2>3. CASE h["chunks"] # -1
    <3>1. v = [w EXCEPT !.room = Absent, !.gone = Absent, !.toMesh = w.toMesh \cup Beside(c)]
      <4>1. PICK x : x = [w EXCEPT !.room = Absent, !.gone = Absent, !.toMesh = Beside(c)]
        OBVIOUS
      <4>2. /\ x \in Works /\ x.draft = Absent /\ x.toMesh = Beside(c) /\ x.toQueue = {}
            /\ x.gone = Absent /\ x.room = Absent /\ x.taken = 0
        BY <1>0, <2>0, <4>1 DEF Works, MaybeChunk
      <4>3. /\ v \in Works /\ v.draft = Absent /\ v.toMesh = Beside(c) /\ v.toQueue = {}
            /\ v.gone = Absent /\ v.room = Absent /\ v.taken = 0
        BY <1>0, <2>3, NoWorkParts DEF Meshing, Works, MaybeChunk
      <4>4. x = v
        BY <4>2, <4>3, SameWork
      <4> QED BY <2>1, <4>1, <4>4
    <3> QED BY <1>3, <1>6, <1>7, <2>3, <3>1 DEF MovesWork, WorksOn
  <2> QED BY <2>2, <2>3
<1>9. May("inbound", Step("set", c), k, w, k, v)
  BY <1>2, <1>3, <1>4, <1>6, <1>8, MayWork DEF s, WorkOps
<1> QED BY <1>1, <1>2, <1>3, <1>4, <1>5, <1>9, MayWriting DEF SetBlocks

LEMMA NothingDue ==
  /\ Queueing(NoWork, {}) = NoWork /\ Meshing(NoWork, {}) = NoWork
  /\ NoWork.taken = 0 /\ NoWork.draft = Absent
  /\ \A c \in ClientChunks : ChangeOf(c) \in WorksOf("inbound") /\ ChangeOf(c).taken = 0
  /\ \A c \in ClientChunks : Beside(c) \in SUBSET ClientChunks
<1>1. \A c \in ClientChunks : ChangeOf(c) \in WorksOf("inbound") /\ ChangeOf(c).taken = 0
  BY DEF ChangeOf, NoWork, WorksOf, Works, MaybeChunk
<1>2. \A c \in ClientChunks : Beside(c) \in SUBSET ClientChunks
  BY ClientThreadsAssumption DEF Beside
<1>3. Queueing(NoWork, {}) = NoWork
  <2>1. PICK x : x = Queueing(NoWork, {})
    OBVIOUS
  <2>2. /\ x \in Works /\ x.draft = Absent /\ x.toQueue = {} /\ x.toMesh = {}
        /\ x.gone = Absent /\ x.room = Absent /\ x.taken = 0
    BY <2>1, NoWorkParts DEF Queueing, Works, MaybeChunk
  <2> QED BY <2>1, <2>2, NoWorkParts, SameWork
<1>4. Meshing(NoWork, {}) = NoWork
  <2>1. PICK x : x = Meshing(NoWork, {})
    OBVIOUS
  <2>2. /\ x \in Works /\ x.draft = Absent /\ x.toQueue = {} /\ x.toMesh = {}
        /\ x.gone = Absent /\ x.room = Absent /\ x.taken = 0
    BY <2>1, NoWorkParts DEF Meshing, Works, MaybeChunk
  <2> QED BY <2>1, <2>2, NoWorkParts, SameWork
<1> QED BY <1>1, <1>2, <1>3, <1>4, NoWorkParts

\* The table of chunks, by empty hands.
LEMMA TakeTable ==
  ASSUME NEW x \in {-1, 1}
  PROVE  \E l \in ClientTables, k \in Hands :
           /\ l = "chunks" /\ k = [EmptyHands EXCEPT ![l] = x] /\ k[l] = x /\ k["chunks"] = x /\ Below(k, 5)
           /\ Below(EmptyHands, ClientRank(l)) /\ EmptyHands \in Hands
<1>1. PICK l \in ClientTables : l = "chunks"
  BY ClientNames
<1>2. /\ l \in ClientLocks \ Own /\ ClientRank(l) = 4 /\ EmptyHands \in Hands /\ Below(EmptyHands, 4)
      /\ x \in Nat \cup {-1}
  BY <1>1, ClientNames, WorkTypes
<1>3. PICK k : k = [EmptyHands EXCEPT ![l] = x]
  OBVIOUS
<1>4. k \in Hands /\ k[l] = x /\ Below(k, 4 + 1)
  BY <1>2, <1>3, NextIsFree, TakenHands
<1>5. Below(k, 5)
  BY <1>4
<1> QED BY <1>1, <1>2, <1>3, <1>4, <1>5

LEMMA HandleMapChunkLeads ==
  ASSUME NEW c \in ClientChunks
  PROVE  May("inbound", HandleMapChunk(c), EmptyHands, ChangeOf(c), EmptyHands, NoWork)
<1>1. PICK l \in ClientTables, k \in Hands :
        /\ l = "chunks" /\ k = [EmptyHands EXCEPT ![l] = -1] /\ k[l] = -1 /\ k["chunks"] = -1 /\ Below(k, 5)
        /\ Below(EmptyHands, ClientRank(l)) /\ EmptyHands \in Hands
  BY TakeTable
<1> DEFINE w == ChangeOf(c)
           v == Queueing(NoWork, Beside(c))
<1>2. /\ NoWork \in WorksOf("inbound") /\ Calm(NoWork) /\ Beside(c) \in SUBSET ClientChunks
      /\ w \in WorksOf("inbound") /\ w.taken = 0
  BY WorkTypes, NothingDue
<1>3. v \in WorksOf("inbound") /\ v.taken = 0
  BY <1>2, MeshingWork DEF Calm
<1>4. May("inbound", SetBlocks(c), k, w, k, v)
  <2>1. k \in Hands /\ k["chunks"] # 0
    BY <1>1
  <2>2. v = IF k["chunks"] = -1 THEN Queueing(NoWork, Beside(c)) ELSE Meshing(NoWork, Beside(c))
    BY <1>1
  <2> HIDE DEF v
  <2>3. May("inbound", SetBlocks(c), k, ChangeOf(c), k, v)
    BY <1>1, <2>1, <2>2, SetBlocksLeads
  <2> QED BY <2>3
<1> HIDE DEF w, v
<1>5. May("inbound", Writing(l, SetBlocks(c)), EmptyHands, w, EmptyHands, v)
  BY <1>1, <1>2, <1>3, <1>4, MayWriting
<1>6. May("inbound", EachOf(Beside(c), LAMBDA n : Hold("queue", Step("enqueue", n))),
          EmptyHands, v, EmptyHands, NoWork)
  BY <1>2, QueuesLead, NothingDue DEF v
<1> QED BY <1>1, <1>5, <1>6, MayThen DEF HandleMapChunk, Beside, w

LEMMA HandleDeltaLeads ==
  ASSUME NEW c \in ClientChunks
  PROVE  May("inbound", HandleDelta(c), EmptyHands, ChangeOf(c), EmptyHands, NoWork)
<1>1. PICK l \in ClientTables, k \in Hands :
        /\ l = "chunks" /\ k = [EmptyHands EXCEPT ![l] = 1] /\ k[l] = 1 /\ k["chunks"] = 1 /\ Below(k, 5)
        /\ Below(EmptyHands, ClientRank(l)) /\ EmptyHands \in Hands
  BY TakeTable
<1> DEFINE w == ChangeOf(c)
           v == Meshing(NoWork, Beside(c))
<1>2. /\ NoWork \in WorksOf("inbound") /\ Calm(NoWork) /\ Beside(c) \in SUBSET ClientChunks
      /\ w \in WorksOf("inbound") /\ w.taken = 0
  BY WorkTypes, NothingDue
<1>3. v \in WorksOf("inbound") /\ v.taken = 0
  BY <1>2, MeshingWork DEF Calm
<1>4. May("inbound", SetBlocks(c), k, w, k, v)
  <2>1. k \in Hands /\ k["chunks"] # 0 /\ k["chunks"] # -1
    BY <1>1
  <2>2. v = IF k["chunks"] = -1 THEN Queueing(NoWork, Beside(c)) ELSE Meshing(NoWork, Beside(c))
    BY <2>1
  <2> HIDE DEF v
  <2>3. May("inbound", SetBlocks(c), k, ChangeOf(c), k, v)
    BY <1>1, <2>1, <2>2, SetBlocksLeads
  <2> QED BY <2>3
<1> HIDE DEF w, v
<1>5. May("inbound", EachOf(Beside(c), MeshChunk), k, v, k, NoWork)
  <2>1. k["chunks"] \notin {0, -1}
    BY <1>1
  <2>2. May("inbound", EachOf(Beside(c), MeshChunk), k, Meshing(NoWork, Beside(c)), k, Meshing(NoWork, {}))
    BY <1>1, <1>2, <2>1, MeshesLead
  <2> QED BY <2>2, NothingDue DEF v
<1>6. May("inbound", SetBlocks(c) \o EachOf(Beside(c), MeshChunk), k, w, k, NoWork)
  BY <1>4, <1>5, MayThen
<1>7. May("inbound", Reading(l, SetBlocks(c) \o EachOf(Beside(c), MeshChunk)), EmptyHands, w, EmptyHands, NoWork)
  BY <1>1, <1>2, <1>6, NothingDue, MayReading
<1> QED BY <1>1, <1>7 DEF HandleDelta, Beside, w

LEMMA HandleUnsubscribeLeads ==
  ASSUME NEW c \in ClientChunks
  PROVE  May("inbound", HandleUnsubscribe(c), EmptyHands, NoWork, EmptyHands, NoWork)
<1>1. PICK l \in ClientTables, k \in Hands :
        /\ l = "chunks" /\ k = [EmptyHands EXCEPT ![l] = -1] /\ k[l] = -1 /\ k["chunks"] = -1 /\ Below(k, 5)
        /\ Below(EmptyHands, ClientRank(l)) /\ EmptyHands \in Hands
  BY TakeTable
<1>2. PICK v : v = [NoWork EXCEPT !.gone = c]
  OBVIOUS
<1>3. /\ NoWork \in WorksOf("inbound") /\ v \in WorksOf("inbound") /\ v.taken = 0 /\ NoWork.taken = 0
      /\ NoWork = [v EXCEPT !.gone = Absent] /\ v.gone = c
  BY <1>2, WorkTypes DEF NoWork, WorksOf, Works, MaybeChunk
<1>4. PICK q \in ClientMutexes : q = "queue"
  BY ClientNames
<1>5. /\ q \in ClientLocks \ Own /\ Below(EmptyHands, ClientRank(q)) /\ EmptyHands[q] = 0
      /\ c \in ClientLocks /\ "remove" \in WorkOps /\ "dequeue" \in WorkOps
  BY <1>4, ClientNames, WorkTypes DEF Own, EmptyHands, WorkOps
<1>6. PICK i \in Hands : i = [EmptyHands EXCEPT ![q] = -1]
  BY <1>1, <1>5, TakenHands
<1> DEFINE s == [op |-> "remove", on |-> c]
           d == [op |-> "dequeue", on |-> c]
<1>7. s.op = "remove" /\ s.on = c /\ d.op = "dequeue" /\ d.on = c
  OBVIOUS
<1> HIDE DEF s, d
<1>8. MovesWork("inbound", s, k, NoWork, v) /\ MovesWork("inbound", d, i, v, NoWork)
  BY <1>1, <1>2, <1>3, <1>7 DEF MovesWork, WorksOn
<1>9. May("inbound", Step("remove", c), k, NoWork, k, v) /\ May("inbound", Step("dequeue", c), i, v, i, NoWork)
  BY <1>3, <1>5, <1>8, MayWork DEF s, d
<1>10. May("inbound", Writing(l, Step("remove", c)), EmptyHands, NoWork, EmptyHands, v)
  BY <1>1, <1>3, <1>9, MayWriting
<1>11. May("inbound", Hold(q, Step("dequeue", c)), EmptyHands, v, EmptyHands, NoWork)
  BY <1>1, <1>3, <1>5, <1>6, <1>9, MayHold
<1> QED BY <1>1, <1>4, <1>10, <1>11, MayThen DEF HandleUnsubscribe

\* What the inbound loop does beside chunks.
LEMMA OtherMessagesMild ==
  /\ \A own \in BOOLEAN : Mild("inbound", HandleInventoryUpdate(own), 0, Own)
  /\ Mild("inbound", HandleClientStateUpdate, 0, Own) /\ Mild("inbound", Use("egui"), 0, Own)
<1>1. /\ "egui" \in ClientMutexes \ Own /\ "hud" \in ClientMutexes \ Own /\ "inventories" \in ClientMutexes \ Own
      /\ "tool_controller" \in Own /\ "physics" \in Own
      /\ ClientRank("egui") = 1 /\ ClientRank("hud") = 2 /\ ClientRank("inventories") = 3
      /\ Own \subseteq ClientMutexes
  BY ClientNames DEF Own, ClientMutexes
<1>2. /\ Mild("inbound", Use("hud"), 2, Own) /\ Mild("inbound", Use("inventories"), 3, Own)
      /\ Mild("inbound", Use("egui"), 0, Own) /\ Mild("inbound", Use("tool_controller"), 0, Own)
      /\ Mild("inbound", Use("physics"), 0, Own)
  BY <1>1, MildUse
<1>3. /\ Mild("inbound", Use("hud"), 0, Own) /\ Mild("inbound", Use("inventories"), 0, Own)
  BY <1>2, MildBelow
<1>4. Mild("inbound", HandleInventoryUpdate(TRUE), 0, Own)
  <2>1. Mild("inbound", Use("hud") \o Use("tool_controller"), 0, Own)
    BY <1>2, <1>3, MildThen
  <2> QED BY <1>3, <2>1, MildThen DEF HandleInventoryUpdate
<1>5. Mild("inbound", HandleInventoryUpdate(FALSE), 0, Own)
  <2>1. Mild("inbound", Use("inventories"), 2 + 1, Own)
    BY <1>2
  <2>2. Mild("inbound", Hold("hud", Use("inventories")), 2, Own)
    BY <1>1, <2>1, MildHold
  <2>3. Mild("inbound", Hold("hud", Use("inventories")), 0, Own)
    BY <2>2, MildBelow
  <2> QED BY <2>3 DEF HandleInventoryUpdate
<1>6. Mild("inbound", HandleClientStateUpdate, 0, Own)
  <2>1. Mild("inbound", Use("hud"), 1 + 1, Own)
    BY <1>2
  <2>2. Mild("inbound", Hold("egui", Use("hud")), 1, Own)
    BY <1>1, <2>1, MildHold
  <2>3. Mild("inbound", Hold("egui", Use("hud")), 0, Own)
    BY <2>2, MildBelow
  <2> QED BY <1>2, <2>3, MildThen DEF HandleClientStateUpdate
<1> QED BY <1>2, <1>4, <1>5, <1>6

\* The worker takes the queue: that is the last it does before it begins with the meshes.
LEMMA WorkerTakesLeads == May("worker", WorkerTakes, EmptyHands, NoWork, EmptyHands, Over)
<1>1. /\ NoWork \in WorksOf("worker") /\ Over \in WorksOf("worker") /\ Calm(NoWork)
      /\ EmptyHands \in Hands /\ Below(EmptyHands, 0) /\ Below(EmptyHands, 6)
  BY WorkTypes
<1>2. PICK q \in ClientMutexes : q = "queue"
  BY ClientNames
<1>3. /\ q \in ClientLocks \ Own /\ ClientRank(q) = 6 /\ EmptyHands[q] = 0
      /\ "lock" \in LockOps /\ "unlock" \in LockOps /\ "take" \in WorkOps /\ "physics" \in Own /\ "physics" \in ClientMutexes
  BY <1>2, ClientNames DEF Own, EmptyHands, LockOps, WorkOps, ClientMutexes
<1>4a. PICK k : k = [EmptyHands EXCEPT ![q] = -1]
  OBVIOUS
<1>4. k \in Hands /\ k = [EmptyHands EXCEPT ![q] = -1] /\ k[q] = -1 /\ EmptyHands = [k EXCEPT ![q] = 0]
  <2>1. -1 \in Nat \cup {-1} /\ q \in ClientLocks
    BY <1>3
  <2> QED BY <1>1, <1>3, <1>4a, <2>1, TakenHands
<1>5. PICK w : w = [NoWork EXCEPT !.taken = 1]
  OBVIOUS
<1>6. w \in WorksOf("worker") /\ w.taken = 1 /\ Over = [w EXCEPT !.taken = 2]
  <2>1. /\ w \in Works /\ w.draft = Absent /\ w.toQueue = {} /\ w.toMesh = {}
        /\ w.gone = Absent /\ w.room = Absent /\ w.taken = 1
    BY <1>5, NoWorkParts DEF Works, MaybeChunk
  <2>2. PICK x : x = [w EXCEPT !.taken = 2]
    OBVIOUS
  <2>3. /\ x \in Works /\ x.draft = Absent /\ x.toQueue = {} /\ x.toMesh = {}
        /\ x.gone = Absent /\ x.room = Absent /\ x.taken = 2
    BY <2>1, <2>2 DEF Works, MaybeChunk
  <2>4. PICK y : y = Over
    OBVIOUS
  <2>5. /\ y \in Works /\ y.draft = Absent /\ y.toQueue = {} /\ y.toMesh = {}
        /\ y.gone = Absent /\ y.room = Absent /\ y.taken = 2
    BY <2>4, NoWorkParts DEF Over, Works, MaybeChunk
  <2>6. x = y
    BY <2>3, <2>5, SameWork
  <2> QED BY <2>1, <2>2, <2>4, <2>6 DEF WorksOf
<1> DEFINE a == [op |-> "lock", on |-> q]
           s == [op |-> "take", on |-> q]
           b == [op |-> "unlock", on |-> q]
<1>7. a.op = "lock" /\ a.on = q /\ s.op = "take" /\ s.on = q /\ b.op = "unlock" /\ b.on = q
  OBVIOUS
<1> HIDE DEF a, s, b
<1>8. MovesLock("worker", a, EmptyHands, NoWork, k, NoWork)
  <2>1. TakesNext("worker", a, EmptyHands, k)
    BY <1>1, <1>3, <1>4, <1>7 DEF TakesNext
  <2> QED BY <1>1, <2>1 DEF MovesLock, Calm
<1>9. MovesWork("worker", s, k, NoWork, w)
  BY <1>1, <1>2, <1>5, <1>7 DEF MovesWork, Calm
<1>10. MovesLock("worker", b, k, w, EmptyHands, Over)
  BY <1>2, <1>4, <1>6, <1>7 DEF MovesLock
<1>11. /\ May("worker", Step("lock", q), EmptyHands, NoWork, k, NoWork)
       /\ May("worker", Step("take", q), k, NoWork, k, w)
       /\ May("worker", Step("unlock", q), k, w, EmptyHands, Over)
  <2>1. q \in ClientLocks
    BY <1>3
  <2>2. May("worker", Step("lock", q), EmptyHands, NoWork, k, NoWork)
    BY <1>1, <1>3, <1>4, <1>8, <2>1, MayLock DEF a
  <2>3. May("worker", Step("take", q), k, NoWork, k, w)
    BY <1>1, <1>3, <1>4, <1>6, <1>9, <2>1, MayWork DEF s
  <2>4. May("worker", Step("unlock", q), k, w, EmptyHands, Over)
    BY <1>1, <1>3, <1>4, <1>6, <1>10, <2>1, MayLock DEF b
  <2> QED BY <2>2, <2>3, <2>4
<1>12. May("worker", Hold(q, Step("take", q)), EmptyHands, NoWork, EmptyHands, Over)
  <2>1. May("worker", Step("lock", q) \o Step("take", q), EmptyHands, NoWork, k, w)
    BY <1>11, MayThen
  <2> QED BY <1>11, <2>1, MayThen DEF Hold
<1>13. May("worker", Use("physics"), EmptyHands, NoWork, EmptyHands, NoWork)
  <2>1. Mild("worker", Use("physics"), 0, Own)
    BY <1>3, MildUse
  <2>2. \A o \in Own : EmptyHands[o] = 0
    BY ClientNames DEF EmptyHands
  <2> QED BY <1>1, <2>1, <2>2 DEF Mild
<1> QED BY <1>2, <1>12, <1>13, MayThen DEF WorkerTakes
-----------------------------------------------------------------------------
(***************************************************************************)
(* The locks of the client: who holds them, and what each thread may still *)
(* do.  g is the work that each thread has.                                *)
(***************************************************************************)
HandsOf(t) ==
  [l \in ClientLocks |-> IF holder[l] = t THEN -1 ELSE IF l \in ClientTables THEN readers[l][t] ELSE 0]

\* A lock is held or read; own locks are the window's, and tables are the inbound loop's to write.
ClientHolders ==
  /\ todo \in [Threads -> Seq(ClientStep)]
  /\ holder \in [ClientLocks -> Threads \cup {NoThread}]
  /\ readers \in [ClientTables -> [Threads -> Nat]]
  /\ \A l \in ClientTables : holder[l] # NoThread => \A t \in Threads : readers[l][t] = 0
  /\ \A o \in Own : holder[o] \in {"window", NoThread}
  /\ \A l \in ClientTables : holder[l] \in {"inbound", NoThread}

MayGoOn(g) ==
  /\ g \in [Threads -> Works]
  /\ \A t \in Threads : /\ g[t] \in WorksOf(t) /\ HandsOf(t) \in Hands
                        /\ \E e \in {NoWork, Over} : May(t, todo[t], HandsOf(t), g[t], EmptyHands, e)

\* The next step of t takes it to k and u, and the rest of its program on from there.
GoesTo(g, t, k, u) ==
  /\ k \in Hands /\ u \in WorksOf(t)
  /\ \E e \in {NoWork, Over} : May(t, Tail(todo[t]), k, u, EmptyHands, e)
  /\ \/ MovesLock(t, todo[t][1], HandsOf(t), g[t], k, u)
     \/ MovesWork(t, todo[t][1], HandsOf(t), g[t], u) /\ k = HandsOf(t)

LEMMA NoThreadIsNone == NoThread \notin Threads
BY ClientThreadsAssumption DEF NoThread

LEMMA HandsOfType == ASSUME ClientHolders, NEW t \in Threads PROVE HandsOf(t) \in Hands
<1>1. \A l \in ClientTables : readers[l][t] \in Nat
  BY DEF ClientHolders
<1> QED BY <1>1 DEF HandsOf, Hands

LEMMA NextMove ==
  ASSUME NEW g, MayGoOn(g), NEW t \in Threads, todo[t] # <<>>
  PROVE  todo[t][1] \in ClientStep /\ Tail(todo[t]) \in Seq(ClientStep) /\ \E k, u : GoesTo(g, t, k, u)
<1>1. PICK e \in {NoWork, Over} : May(t, todo[t], HandsOf(t), g[t], EmptyHands, e)
  BY DEF MayGoOn
<1>2. PICK i \in Hands, u \in WorksOf(t) :
        /\ May(t, Tail(todo[t]), i, u, EmptyHands, e)
        /\ MovesLock(t, todo[t][1], HandsOf(t), g[t], i, u)
             \/ (MovesWork(t, todo[t][1], HandsOf(t), g[t], u) /\ i = HandsOf(t))
  BY <1>1, MayTail
<1>3. GoesTo(g, t, i, u)
  BY <1>2 DEF GoesTo
<1>4. todo[t][1] \in ClientStep /\ Tail(todo[t]) \in Seq(ClientStep)
  BY <1>1, MayTail
<1> QED BY <1>3, <1>4

\* What the moves say of the steps.
LockSays(t, s, h, k) ==
  /\ s.op \in {"use", "look", "lock", "write", "read", "read_recursive", "unlock", "unread"}
  /\ s.op \in {"use", "look"} => k = h
  /\ s.op = "lock" => s.on \in ClientMutexes /\ k = [h EXCEPT ![s.on] = -1] /\ (s.on \in Own => t = "window")
  /\ s.op = "write" => s.on \in ClientTables /\ t = "inbound" /\ k = [h EXCEPT ![s.on] = -1]
  /\ s.op \in {"read", "read_recursive"} =>
       s.on \in ClientTables /\ h[s.on] \in Nat /\ k = [h EXCEPT ![s.on] = h[s.on] + 1]
  /\ s.op = "unlock" => h[s.on] = -1 /\ k = [h EXCEPT ![s.on] = 0]
  /\ s.op = "unread" => s.on \in ClientTables /\ h[s.on] \notin {0, -1} /\ k = [h EXCEPT ![s.on] = h[s.on] - 1]
LEMMA LockMoves ==
  ASSUME NEW t, NEW s \in ClientStep, NEW h \in Hands, NEW k, NEW w, NEW v, MovesLock(t, s, h, w, k, v)
  PROVE  LockSays(t, s, h, k)
<1> USE DEF LockSays
<1>1. s.on \in ClientLocks
  BY DEF ClientStep
<1>2. CASE TakesOwn(t, s, h, k)
  <2>1. s.on \in ClientMutexes
    BY <1>2, ClientNames DEF TakesOwn
  <2> QED BY <1>2, <2>1 DEF TakesOwn
<1>3. CASE TakesNext(t, s, h, k)
  <2>1. h[s.on] = 0 /\ s.on \notin Own
    BY <1>1, <1>3, NextIsFree DEF TakesNext
  <2>2. h[s.on] + 1 = 1
    BY <2>1
  <2> QED BY <1>3, <2>1, <2>2 DEF TakesNext
<1>4. CASE TakesAgain(s, h, k)
  <2>1. s.on \in ClientTables /\ h[s.on] \in Nat
    BY <1>1, <1>4, ClientNames DEF TakesAgain, Hands
  <2> QED BY <1>4, <2>1 DEF TakesAgain
<1>5. CASE GivesBack(s, h, w, k)
  BY <1>5 DEF GivesBack
<1>6. CASE s.op = "unlock" /\ s.on = "queue" /\ h[s.on] = -1 /\ k = [h EXCEPT ![s.on] = 0]
  BY <1>6
<1> QED BY <1>2, <1>3, <1>4, <1>5, <1>6 DEF MovesLock

\* Moves of the locks leave the work as it is, and whoever reads the table does so while it
\* has a draft.
LEMMA LockMovesWork ==
  ASSUME NEW t, NEW s \in ClientStep, NEW h \in Hands, NEW k, NEW w \in Works, NEW v, MovesLock(t, s, h, w, k, v)
  PROVE  /\ v \in Works /\ v.draft = w.draft /\ v.toQueue = w.toQueue /\ v.toMesh = w.toMesh
         /\ v.gone = w.gone /\ v.room = w.room
         /\ w.draft # Absent /\ h["chunks"] \notin {0, -1} => k["chunks"] \notin {0, -1}
<1>1. /\ v \in Works /\ v.draft = w.draft /\ v.toQueue = w.toQueue /\ v.toMesh = w.toMesh
      /\ v.gone = w.gone /\ v.room = w.room
  <2>1. CASE v = w
    BY <2>1
  <2>2. CASE v = [w EXCEPT !.taken = 2]
    BY <2>2 DEF Works
  <2> QED BY <2>1, <2>2 DEF MovesLock
<1>2. ASSUME w.draft # Absent, h["chunks"] \notin {0, -1} PROVE k["chunks"] \notin {0, -1}
  <2>0. PICK l \in ClientTables : l = "chunks"
    BY ClientNames
  <2>1. l \in ClientLocks \ Own /\ s.on \in ClientLocks /\ l \notin ClientChunks /\ l # "queue"
    BY <2>0, ClientNames DEF ClientStep
  <2>2. s.on # l => k = h \/ \E x : k = [h EXCEPT ![s.on] = x]
    <3>1. CASE TakesOwn(t, s, h, k)
      BY <3>1 DEF TakesOwn
    <3>2. CASE TakesNext(t, s, h, k)
      BY <3>2 DEF TakesNext
    <3>3. CASE TakesAgain(s, h, k)
      BY <3>3 DEF TakesAgain
    <3>4. CASE GivesBack(s, h, w, k)
      BY <3>4 DEF GivesBack
    <3>5. CASE k = [h EXCEPT ![s.on] = 0]
      BY <3>5
    <3> QED BY <3>1, <3>2, <3>3, <3>4, <3>5 DEF MovesLock
  <2>3. s.on # l
    <3> SUFFICES ASSUME s.on = l PROVE FALSE
      OBVIOUS
    <3>1. ~TakesOwn(t, s, h, k)
      BY <2>1 DEF TakesOwn
    <3>2. ~TakesNext(t, s, h, k)
      BY <1>2, <2>0, <2>1, NextIsFree DEF TakesNext
    <3>3. ~TakesAgain(s, h, k)
      BY <2>1 DEF TakesAgain
    <3>4. ~GivesBack(s, h, w, k)
      BY <1>2, <2>0 DEF GivesBack
    <3> QED BY <2>1, <3>1, <3>2, <3>3, <3>4 DEF MovesLock
  <2>4. CASE k = h
    BY <1>2, <2>4
  <2>5. ASSUME NEW x, k = [h EXCEPT ![s.on] = x] PROVE k[l] = h[l]
    BY <2>1, <2>3, <2>5 DEF Hands
  <2> QED BY <1>2, <2>0, <2>2, <2>3, <2>4, <2>5
<1> QED BY <1>1, <1>2
-----------------------------------------------------------------------------
(* The steps of the locks.                                                 *)

LEMMA OneGoesOn ==
  ASSUME NEW g, MayGoOn(g), ClientHolders, NEW t \in Threads, NEW p \in Seq(ClientStep), NEW u \in WorksOf(t),
         todo' = [todo EXCEPT ![t] = p], HandsOf(t)' \in Hands,
         NEW e \in {NoWork, Over}, May(t, p, HandsOf(t)', u, EmptyHands, e),
         \A o \in Threads \ {t} : HandsOf(o)' = HandsOf(o)
  PROVE  MayGoOn([g EXCEPT ![t] = u])' /\ todo' \in [Threads -> Seq(ClientStep)]
<1>1. PICK f : f = [g EXCEPT ![t] = u]
  OBVIOUS
<1>2. todo \in [Threads -> Seq(ClientStep)] /\ g \in [Threads -> Works] /\ u \in Works
  BY WorkTypes DEF ClientHolders, MayGoOn
<1>3. f \in [Threads -> Works] /\ f[t] = u /\ \A o \in Threads \ {t} : f[o] = g[o]
  BY <1>1, <1>2
<1>4. /\ todo' \in [Threads -> Seq(ClientStep)] /\ todo'[t] = p
      /\ \A o \in Threads \ {t} : todo'[o] = todo[o]
  BY <1>2
<1>5. ASSUME NEW o \in Threads
      PROVE  /\ f[o] \in WorksOf(o) /\ HandsOf(o)' \in Hands
             /\ \E d \in {NoWork, Over} : May(o, todo'[o], HandsOf(o)', f[o], EmptyHands, d)
  <2>1. CASE o = t
    BY <1>3, <1>4, <2>1
  <2>2. CASE o # t
    BY <1>3, <1>4, <2>2 DEF MayGoOn
  <2> QED BY <2>1, <2>2
<1>6. MayGoOn(f)'
  BY <1>3, <1>5 DEF MayGoOn
<1> QED BY <1>1, <1>4, <1>6

\* A step of the locks moves what the thread has of them, and the invariant holds after it.
MovesOn(g, t, u) ==
  /\ u \in WorksOf(t) /\ MovesLock(t, todo[t][1], HandsOf(t), g[t], HandsOf(t)', u)
  /\ todo[t][1] \in ClientStep /\ HandsOf(t) \in Hands
  /\ \A o \in Threads \ {t} : HandsOf(o)' = HandsOf(o)
  /\ ClientHolders' /\ MayGoOn([g EXCEPT ![t] = u])'
LEMMA MovesOnTo ==
  ASSUME NEW g, MayGoOn(g), ClientHolders, NEW t \in Threads, todo[t] # <<>>, NEW k, NEW u, GoesTo(g, t, k, u),
         MovesLock(t, todo[t][1], HandsOf(t), g[t], k, u), HandsOf(t)' = k,
         todo' = [todo EXCEPT ![t] = Tail(todo[t])],
         todo' \in [Threads -> Seq(ClientStep)] => ClientHolders',
         \A o \in Threads \ {t} : HandsOf(o)' = HandsOf(o)
  PROVE  MovesOn(g, t, u)
<1>1. PICK e \in {NoWork, Over} : May(t, Tail(todo[t]), k, u, EmptyHands, e)
  BY DEF GoesTo
<1>2. k \in Hands /\ u \in WorksOf(t) /\ Tail(todo[t]) \in Seq(ClientStep) /\ todo[t][1] \in ClientStep
  BY NextMove DEF GoesTo
<1>3. MayGoOn([g EXCEPT ![t] = u])' /\ todo' \in [Threads -> Seq(ClientStep)]
  BY <1>1, <1>2, OneGoesOn
<1> QED BY <1>2, <1>3, HandsOfType DEF MovesOn

\* The next step is one of the locks.
LEMMA NextLockMove ==
  ASSUME NEW g, MayGoOn(g), NEW t \in Threads, todo[t] # <<>>, todo[t][1].op \in LockOps
  PROVE  \E k, u : GoesTo(g, t, k, u) /\ MovesLock(t, todo[t][1], HandsOf(t), g[t], k, u)
<1>1. PICK k, u : GoesTo(g, t, k, u)
  BY NextMove
<1>2. ~MovesWork(t, todo[t][1], HandsOf(t), g[t], u)
  BY DEF MovesWork, WorksOn, LockOps
<1> QED BY <1>1, <1>2 DEF GoesTo
-----------------------------------------------------------------------------
LEMMA PassMoves ==
  ASSUME NEW g, MayGoOn(g), ClientHolders, NEW t \in Threads, Pass(t) PROVE \E u : MovesOn(g, t, u)
<1>1. /\ todo[t] # <<>> /\ todo[t][1].op \in {"use", "look"}
      /\ todo' = [todo EXCEPT ![t] = Tail(todo[t])] /\ UNCHANGED <<holder, readers>>
  BY DEF Pass, Now, Moves
<1>2. PICK k, u : GoesTo(g, t, k, u) /\ MovesLock(t, todo[t][1], HandsOf(t), g[t], k, u)
  BY <1>1, NextLockMove DEF LockOps
<1>3. k = HandsOf(t)
  <2>1. todo[t][1] \in ClientStep /\ HandsOf(t) \in Hands
    BY <1>1, NextMove, HandsOfType
  <2>2. LockSays(t, todo[t][1], HandsOf(t), k)
    BY <1>2, <2>1, LockMoves
  <2> QED BY <1>1, <2>2 DEF LockSays
<1>4. \A o : HandsOf(o)' = HandsOf(o)
  BY <1>1 DEF HandsOf
<1>5. todo' \in [Threads -> Seq(ClientStep)] => ClientHolders'
  BY <1>1 DEF ClientHolders
<1> QED BY <1>1, <1>2, <1>3, <1>4, <1>5, MovesOnTo

LEMMA LockMovesOn ==
  ASSUME NEW g, MayGoOn(g), ClientHolders, NEW t \in Threads, Lock(t) \/ Write(t) PROVE \E u : MovesOn(g, t, u)
<1> DEFINE l == On(t)
<1>1. /\ todo[t] # <<>> /\ todo[t][1].op \in {"lock", "write"} /\ todo[t][1].on = l /\ holder[l] = NoThread
      /\ todo[t][1].op = "write" => \A u \in Threads : readers[l][u] = 0
      /\ todo' = [todo EXCEPT ![t] = Tail(todo[t])]
      /\ holder' = [holder EXCEPT ![l] = t] /\ readers' = readers
  BY DEF Lock, Write, Now, Moves, On
<1>2. PICK k, u : GoesTo(g, t, k, u) /\ MovesLock(t, todo[t][1], HandsOf(t), g[t], k, u)
  BY <1>1, NextLockMove DEF LockOps
<1>3. todo[t][1] \in ClientStep /\ l \in ClientLocks /\ HandsOf(t) \in Hands
  BY <1>1, NextMove, HandsOfType DEF ClientStep
<1>4. /\ k = [HandsOf(t) EXCEPT ![l] = -1]
      /\ todo[t][1].op = "lock" => l \in ClientMutexes /\ l \notin ClientTables /\ (l \in Own => t = "window")
      /\ todo[t][1].op = "write" => l \in ClientTables /\ l \notin Own /\ t = "inbound"
  <2>1. LockSays(t, todo[t][1], HandsOf(t), k)
    BY <1>2, <1>3, LockMoves
  <2>2. /\ ClientMutexes \cap ClientTables = {} /\ Own \subseteq ClientMutexes
    BY ClientNames
  <2> HIDE DEF l
  <2> QED BY <1>1, <2>1, <2>2 DEF LockSays
<1> HIDE DEF l
<1>5. todo' \in [Threads -> Seq(ClientStep)] => ClientHolders'
  BY <1>1, <1>3, <1>4, NoThreadIsNone DEF ClientHolders
<1>6. HandsOf(t)' = k
  BY <1>1, <1>3, <1>4 DEF HandsOf, ClientHolders
<1>7. ASSUME NEW o \in Threads \ {t} PROVE HandsOf(o)' = HandsOf(o)
  BY <1>1, <1>3, NoThreadIsNone DEF HandsOf, ClientHolders
<1> QED BY <1>1, <1>2, <1>5, <1>6, <1>7, MovesOnTo

LEMMA UnlockMovesOn ==
  ASSUME NEW g, MayGoOn(g), ClientHolders, NEW t \in Threads, Unlock(t) PROVE \E u : MovesOn(g, t, u)
<1> DEFINE l == On(t)
<1>1. /\ todo[t] # <<>> /\ todo[t][1].op = "unlock" /\ todo[t][1].on = l
      /\ todo' = [todo EXCEPT ![t] = Tail(todo[t])]
      /\ holder' = [holder EXCEPT ![l] = NoThread] /\ readers' = readers
  BY DEF Unlock, Now, Moves, On
<1>2. PICK k, u : GoesTo(g, t, k, u) /\ MovesLock(t, todo[t][1], HandsOf(t), g[t], k, u)
  BY <1>1, NextLockMove DEF LockOps
<1>3. todo[t][1] \in ClientStep /\ l \in ClientLocks /\ HandsOf(t) \in Hands
  BY <1>1, NextMove, HandsOfType DEF ClientStep
<1>4. k = [HandsOf(t) EXCEPT ![l] = 0] /\ HandsOf(t)[l] = -1
  <2>1. LockSays(t, todo[t][1], HandsOf(t), k)
    BY <1>2, <1>3, LockMoves
  <2> HIDE DEF l
  <2> QED BY <1>1, <2>1 DEF LockSays
<1> HIDE DEF l
<1>5. holder[l] = t /\ (l \in ClientTables => readers[l][t] = 0)
  <2>1. l \in ClientTables => readers[l][t] \in Nat
    BY DEF ClientHolders
  <2>2. holder[l] = t
    BY <1>3, <1>4, <2>1 DEF HandsOf
  <2> QED BY <2>2, NoThreadIsNone DEF ClientHolders
<1>6. todo' \in [Threads -> Seq(ClientStep)] => ClientHolders'
  BY <1>1, <1>3, NoThreadIsNone DEF ClientHolders
<1>7. HandsOf(t)' = k
  BY <1>1, <1>3, <1>4, <1>5, NoThreadIsNone DEF HandsOf, ClientHolders
<1>8. ASSUME NEW o \in Threads \ {t} PROVE HandsOf(o)' = HandsOf(o)
  BY <1>1, <1>3, <1>5, NoThreadIsNone DEF HandsOf, ClientHolders
<1> QED BY <1>1, <1>2, <1>6, <1>7, <1>8, MovesOnTo

LEMMA ReadMovesOn ==
  ASSUME NEW g, MayGoOn(g), ClientHolders, NEW t \in Threads, Read(t) \/ Unread(t) PROVE \E u : MovesOn(g, t, u)
<1> DEFINE l == On(t)
<1>1. /\ todo[t] # <<>> /\ todo[t][1].op \in {"read", "read_recursive", "unread"} /\ todo[t][1].on = l
      /\ todo[t][1].op \in {"read", "read_recursive"} =>
           holder[l] = NoThread /\ readers' = [readers EXCEPT ![l][t] = readers[l][t] + 1]
      /\ todo[t][1].op = "unread" => readers' = [readers EXCEPT ![l][t] = readers[l][t] - 1]
      /\ todo' = [todo EXCEPT ![t] = Tail(todo[t])] /\ holder' = holder
  BY DEF Read, Unread, Now, Moves, On
<1>2. PICK k, u : GoesTo(g, t, k, u) /\ MovesLock(t, todo[t][1], HandsOf(t), g[t], k, u)
  BY <1>1, NextLockMove DEF LockOps
<1>3. todo[t][1] \in ClientStep /\ l \in ClientLocks /\ HandsOf(t) \in Hands
  BY <1>1, NextMove, HandsOfType DEF ClientStep
<1>4. /\ l \in ClientTables
      /\ todo[t][1].op \in {"read", "read_recursive"} =>
           HandsOf(t)[l] \in Nat /\ k = [HandsOf(t) EXCEPT ![l] = HandsOf(t)[l] + 1]
      /\ todo[t][1].op = "unread" =>
           HandsOf(t)[l] \notin {0, -1} /\ k = [HandsOf(t) EXCEPT ![l] = HandsOf(t)[l] - 1]
  <2>1. LockSays(t, todo[t][1], HandsOf(t), k)
    BY <1>2, <1>3, LockMoves
  <2> HIDE DEF l
  <2> QED BY <1>1, <2>1 DEF LockSays
<1> HIDE DEF l
\* Whoever reads more or less does not write, and nobody does.
<1>5. PICK n \in Nat :
        /\ readers' = [readers EXCEPT ![l] = [readers[l] EXCEPT ![t] = n]]
        /\ k = [HandsOf(t) EXCEPT ![l] = n] /\ holder[l] = NoThread
  <2>0. readers[l][t] \in Nat
    BY <1>4 DEF ClientHolders
  <2>1. CASE todo[t][1].op \in {"read", "read_recursive"}
    <3>1. HandsOf(t)[l] = readers[l][t]
      BY <1>1, <1>3, <1>4, <2>1, NoThreadIsNone DEF HandsOf
    <3>2. readers[l][t] + 1 \in Nat
      BY <2>0
    <3> QED BY <1>1, <1>4, <2>1, <3>1, <3>2
  <2>2. CASE todo[t][1].op = "unread"
    <3>1. HandsOf(t)[l] = readers[l][t] /\ readers[l][t] # 0
      BY <1>3, <1>4, <2>2 DEF HandsOf
    <3>2. readers[l][t] - 1 \in Nat
      BY <2>0, <3>1
    <3>3. holder[l] = NoThread
      BY <1>4, <3>1 DEF ClientHolders
    <3> QED BY <1>1, <1>4, <2>2, <3>1, <3>2, <3>3
  <2> QED BY <1>1, <2>1, <2>2
<1>6. todo' \in [Threads -> Seq(ClientStep)] => ClientHolders'
  BY <1>1, <1>4, <1>5 DEF ClientHolders
<1>7. HandsOf(t)' = k
  <2>1. ASSUME NEW x \in ClientLocks PROVE HandsOf(t)'[x] = k[x]
    <3>1. CASE x = l
      BY <1>1, <1>3, <1>4, <1>5, NoThreadIsNone, <3>1 DEF HandsOf, ClientHolders
    <3>2. CASE x # l
      BY <1>1, <1>3, <1>4, <1>5, <3>2 DEF HandsOf, ClientHolders
    <3> QED BY <3>1, <3>2
  <2>2. HandsOf(t)' = [x \in ClientLocks |-> HandsOf(t)'[x]] /\ k = [x \in ClientLocks |-> k[x]]
    BY <1>2 DEF HandsOf, GoesTo, Hands
  <2> QED BY <2>1, <2>2
<1>8. ASSUME NEW o \in Threads \ {t} PROVE HandsOf(o)' = HandsOf(o)
  BY <1>1, <1>4, <1>5 DEF HandsOf, ClientHolders
<1> QED BY <1>1, <1>2, <1>6, <1>7, <1>8, MovesOnTo

LEMMA LockingMovesOn ==
  ASSUME NEW g, MayGoOn(g), ClientHolders, NEW t \in Threads, Locking(t) PROVE \E u : MovesOn(g, t, u)
BY PassMoves, LockMovesOn, UnlockMovesOn, ReadMovesOn DEF Locking
-----------------------------------------------------------------------------
(* The work, and the beginning of a program.                               *)

\* A step of the work moves what the thread has to do, and no lock.
WorksAway(g, t, u) ==
  /\ u \in WorksOf(t) /\ MovesWork(t, todo[t][1], HandsOf(t), g[t], u)
  /\ todo[t][1] \in ClientStep /\ HandsOf(t) \in Hands
  /\ \A o \in Threads : HandsOf(o)' = HandsOf(o)
  /\ ClientHolders' /\ MayGoOn([g EXCEPT ![t] = u])'
LEMMA WorkMovesOn ==
  ASSUME NEW g, MayGoOn(g), ClientHolders, NEW t \in Threads, todo[t] # <<>>,
         todo[t][1].op \in WorkOps \ {"take"}, Moves(t), UNCHANGED <<holder, readers>>
  PROVE  \E u : WorksAway(g, t, u)
<1>1. PICK k, u : GoesTo(g, t, k, u)
  BY NextMove
<1>2. todo[t][1] \in ClientStep /\ HandsOf(t) \in Hands /\ Tail(todo[t]) \in Seq(ClientStep)
  BY NextMove, HandsOfType
<1>3. ~MovesLock(t, todo[t][1], HandsOf(t), g[t], k, u)
  <2>1. ~LockSays(t, todo[t][1], HandsOf(t), k)
    BY DEF LockSays, WorkOps
  <2> QED BY <1>2, <2>1, LockMoves
<1>4. MovesWork(t, todo[t][1], HandsOf(t), g[t], u) /\ k = HandsOf(t) /\ u \in WorksOf(t) /\ k \in Hands
  BY <1>1, <1>3 DEF GoesTo
<1>5. \A o : HandsOf(o)' = HandsOf(o)
  BY DEF HandsOf
<1>6. PICK e \in {NoWork, Over} : May(t, Tail(todo[t]), k, u, EmptyHands, e)
  BY <1>1 DEF GoesTo
<1>7. todo' = [todo EXCEPT ![t] = Tail(todo[t])]
  BY DEF Moves
<1>8. MayGoOn([g EXCEPT ![t] = u])' /\ todo' \in [Threads -> Seq(ClientStep)]
  <2>1. HandsOf(t)' \in Hands /\ May(t, Tail(todo[t]), HandsOf(t)', u, EmptyHands, e)
    BY <1>4, <1>5, <1>6
  <2> QED BY <1>2, <1>4, <1>5, <1>6, <1>7, <2>1, OneGoesOn
<1>9. ClientHolders'
  BY <1>8 DEF ClientHolders
<1> QED BY <1>2, <1>4, <1>5, <1>8, <1>9 DEF WorksAway

\* The worker takes the queue: no other step is before it but to unlock it.
TakesAll(g, t, u) ==
  /\ t = "worker" /\ g[t] = NoWork /\ u = Meshing(NoWork, queue) /\ u \in WorksOf(t)
  /\ \A o \in Threads : HandsOf(o)' = HandsOf(o)
  /\ ClientHolders' /\ MayGoOn([g EXCEPT ![t] = u])'
LEMMA TakeMovesOn ==
  ASSUME NEW g, MayGoOn(g), ClientHolders, NEW t \in Threads, Take(t), queue \in SUBSET ClientChunks
  PROVE  \E u : TakesAll(g, t, u)
<1>1. /\ todo[t] # <<>> /\ todo[t][1].op = "take" /\ UNCHANGED <<holder, readers>>
      /\ todo' = [todo EXCEPT ![t] = Tail(todo[t]) \o WorkerMeshes(queue)]
  BY DEF Take, Now
<1>2. PICK e \in {NoWork, Over} : May(t, todo[t], HandsOf(t), g[t], EmptyHands, e)
  BY DEF MayGoOn
<1>3. PICK i \in Hands, u \in WorksOf(t) :
        /\ May(t, Tail(todo[t]), i, u, EmptyHands, e)
        /\ MovesLock(t, todo[t][1], HandsOf(t), g[t], i, u)
             \/ (MovesWork(t, todo[t][1], HandsOf(t), g[t], u) /\ i = HandsOf(t))
  BY <1>1, <1>2, MayTail
<1>4. todo[t][1] \in ClientStep /\ Tail(todo[t]) \in Seq(ClientStep) /\ HandsOf(t) \in Hands
  BY <1>1, NextMove, HandsOfType
<1>5. /\ i = HandsOf(t) /\ t = "worker" /\ g[t] = NoWork /\ u = [NoWork EXCEPT !.taken = 1]
  <2>1. ~MovesLock(t, todo[t][1], HandsOf(t), g[t], i, u)
    <3>1. ~LockSays(t, todo[t][1], HandsOf(t), i)
      BY <1>1 DEF LockSays
    <3> QED BY <1>4, <3>1, LockMoves
  <2> QED BY <1>1, <1>3, <2>1 DEF MovesWork, WorksOn
<1>6. u.taken = 1
  BY <1>5, NoWorkParts DEF Works
<1> DEFINE p == Tail(todo[t])
<1> HIDE DEF p
<1>7. p # <<>>
  <2>1. u # e
    BY <1>6, NoWorkParts DEF Over, Works
  <2> QED BY <1>3, <2>1, MayEnd DEF p
<1>8. PICK k \in Hands, v \in WorksOf(t) :
        /\ May(t, Tail(p), k, v, EmptyHands, e)
        /\ MovesLock(t, p[1], i, u, k, v) \/ (MovesWork(t, p[1], i, u, v) /\ k = i)
  <2>1. May(t, p, i, u, EmptyHands, e)
    BY <1>3 DEF p
  <2> QED BY <1>7, <2>1, MayTail
<1>9. /\ p[1].op = "unlock" /\ p[1].on = "queue" /\ i[p[1].on] = -1 /\ k = [i EXCEPT ![p[1].on] = 0]
      /\ v = [u EXCEPT !.taken = 2]
  BY <1>6, <1>8 DEF MovesLock, MovesWork
<1>10. v.taken = 2
  <2>1. u \in Works
    BY <1>3, WorkTypes
  <2> QED BY <1>9, <2>1 DEF Works
<1>11. Tail(p) = <<>>
  <2> SUFFICES ASSUME Tail(p) # <<>> PROVE FALSE
    OBVIOUS
  <2>1. PICK k2 \in Hands, v2 \in WorksOf(t) :
          MovesLock(t, Tail(p)[1], k, v, k2, v2) \/ (MovesWork(t, Tail(p)[1], k, v, v2) /\ k2 = k)
    BY <1>8, MayTail
  <2> QED BY <1>10, <2>1 DEF MovesLock, MovesWork
<1>12. k = EmptyHands
  BY <1>8, <1>11, MayEnd
\* That step, without the mark, leads where the meshes begin.
<1>13. p = Step("unlock", p[1].on)
  <2>1. p \in Seq(ClientStep) /\ p[1] \in ClientStep
    BY <1>4, <1>7 DEF p
  <2>2. p = <<p[1]>>
    <3>1. Len(Tail(p)) = Len(p) - 1 /\ Len(p) \in Nat
      BY <1>7, <2>1
    <3>2. Len(Tail(p)) = 0
      <4>1. Len(<<>>) = 0
        OBVIOUS
      <4> QED BY <1>11, <4>1, Zenon
    <3>3. Len(p) = 1
      BY <3>1, <3>2
    <3> QED BY <2>1, <3>3
  <2>3. p[1] = [op |-> "unlock", on |-> p[1].on]
    BY <1>9, <2>1 DEF ClientStep
  <2> QED BY <2>2, <2>3 DEF Step
<1>14. PICK l : l = p[1].on
  OBVIOUS
<1>15. PICK w : w = Meshing(NoWork, queue)   \* as the queue is before it is taken
  OBVIOUS
<1>16. w \in WorksOf(t) /\ w.taken = 0 /\ l \in ClientLocks /\ NoWork \in WorksOf(t) /\ Calm(NoWork)
  <2>1. NoWork \in WorksOf(t) /\ Calm(NoWork)
    BY WorkTypes
  <2>2. w \in WorksOf(t) /\ Calm(w)
    BY <1>5, <1>15, <2>1, MeshingWork
  <2> QED BY <1>9, <1>14, <2>1, <2>2, ClientNames DEF Calm
<1>17. May(t, Step("unlock", l), i, w, EmptyHands, w)
  <2> DEFINE s == [op |-> "unlock", on |-> l]
  <2>1. s.op = "unlock" /\ s.on = l /\ "unlock" \in LockOps
    BY DEF LockOps
  <2> HIDE DEF s
  <2>2. GivesBack(s, i, w, EmptyHands)
    BY <1>9, <1>12, <1>14, <2>1 DEF GivesBack
  <2>3. MovesLock(t, s, i, w, EmptyHands, w)
    BY <1>16, <2>2 DEF MovesLock
  <2>4. EmptyHands \in Hands
    BY WorkTypes
  <2> QED BY <1>3, <1>16, <2>1, <2>3, <2>4, MayLock DEF s
<1>18. May(t, WorkerMeshes(queue), EmptyHands, w, EmptyHands, NoWork)
  <2>1. t # "window"
    BY <1>5
  <2>2. May(t, WorkerMeshes(queue), EmptyHands, Meshing(NoWork, queue), EmptyHands, Meshing(NoWork, {}))
    BY <1>16, <2>1, WorkerMeshesLead
  <2> QED BY <1>15, <2>2, NothingDue
<1>19. May(t, p \o WorkerMeshes(queue), HandsOf(t), w, EmptyHands, NoWork)
  BY <1>5, <1>13, <1>14, <1>17, <1>18, MayThen
<1>20. \A o : HandsOf(o)' = HandsOf(o)
  BY <1>1 DEF HandsOf
<1>21. MayGoOn([g EXCEPT ![t] = w])' /\ todo' \in [Threads -> Seq(ClientStep)]
  <2>1. p \o WorkerMeshes(queue) \in Seq(ClientStep)
    BY <1>19, MaySteps
  <2>2. HandsOf(t)' \in Hands /\ May(t, p \o WorkerMeshes(queue), HandsOf(t)', w, EmptyHands, NoWork)
    BY <1>4, <1>19, <1>20
  <2>3. todo' = [todo EXCEPT ![t] = p \o WorkerMeshes(queue)]
    BY <1>1 DEF p
  <2> QED BY <1>16, <1>20, <2>1, <2>2, <2>3, OneGoesOn
<1>22. ClientHolders'
  BY <1>1, <1>21 DEF ClientHolders
<1> QED BY <1>5, <1>15, <1>16, <1>20, <1>21, <1>22 DEF TakesAll

\* A program begins: the work is none, or that the chunk may be changed that has room for it.
BeginsWith(g, t, u) ==
  /\ g[t] \in {NoWork, Over} /\ u \in WorksOf(t)
  /\ u = NoWork \/ \E c \in ClientChunks : u = ChangeOf(c) /\ t = "inbound" /\ ids[c] # MaxChanges
  /\ \A o \in Threads : HandsOf(o)' = HandsOf(o)
  /\ ClientHolders' /\ MayGoOn([g EXCEPT ![t] = u])'
LEMMA BeginMovesOn ==
  ASSUME NEW g, MayGoOn(g), ClientHolders, NEW t \in Threads, Begin(t) PROVE \E u : BeginsWith(g, t, u)
<1>1. PICK p \in Programs(t) : todo' = [todo EXCEPT ![t] = p]
  BY DEF Begin, Starts
<1>2. todo[t] = <<>> /\ UNCHANGED <<holder, readers>>
  BY DEF Begin, Starts
<1>3. HandsOf(t) = EmptyHands /\ g[t] \in {NoWork, Over}
  BY <1>2, MayEnd DEF MayGoOn
<1>4. \A o : HandsOf(o)' = HandsOf(o)
  BY <1>2 DEF HandsOf
<1>5. /\ EmptyHands \in Hands /\ Below(EmptyHands, 0) /\ Below(EmptyHands, 1)
      /\ \A o \in Own : EmptyHands[o] = 0
  BY WorkTypes, ClientNames DEF EmptyHands
<1>6. NoWork \in WorksOf(t) /\ Calm(NoWork)
  BY WorkTypes
<1>7. \E u \in WorksOf(t) :
        /\ u = NoWork \/ \E c \in ClientChunks : u = ChangeOf(c) /\ t = "inbound" /\ ids[c] # MaxChanges
        /\ \E e \in {NoWork, Over} : May(t, p, EmptyHands, u, EmptyHands, e)
  <2>1. CASE t = "window"
    <3>1. p = Event \o Frame
      BY <2>1 DEF Programs
    <3>2. May(t, p, EmptyHands, NoWork, EmptyHands, NoWork)
      BY <1>5, <1>6, <2>1, <3>1, WindowMild DEF Mild
    <3> QED BY <1>6, <3>2
  <2>2. CASE t = "worker"
    <3>1. p = WorkerTakes
      BY <2>2 DEF Programs
    <3> QED BY <1>6, <2>2, <3>1, WorkerTakesLeads
  <2>3. CASE t = "inbound"
    <3>1. p \in InboundHandleMessage
      BY <2>3 DEF Programs
    <3>2. ASSUME NEW c \in ClientChunks, p = HandleMapChunk(c) \/ p = HandleDelta(c), ids[c] # MaxChanges
          PROVE  ChangeOf(c) \in WorksOf(t) /\ May(t, p, EmptyHands, ChangeOf(c), EmptyHands, NoWork)
      BY <2>3, <3>2, HandleMapChunkLeads, HandleDeltaLeads, NothingDue
    <3>3. ASSUME NEW c \in ClientChunks, p = HandleUnsubscribe(c)
          PROVE  May(t, p, EmptyHands, NoWork, EmptyHands, NoWork)
      BY <2>3, <3>3, HandleUnsubscribeLeads
    <3>4. ASSUME p \in {HandleInventoryUpdate(own) : own \in BOOLEAN} \cup {HandleClientStateUpdate, Use("egui")}
          PROVE  May(t, p, EmptyHands, NoWork, EmptyHands, NoWork)
      <4>1. Mild(t, p, 0, Own)
        BY <2>3, <3>4, OtherMessagesMild
      <4> QED BY <1>5, <1>6, <4>1 DEF Mild
    <3>5. \/ \E c \in ClientChunks : p = HandleMapChunk(c) /\ ids[c] # MaxChanges
          \/ \E c \in ClientChunks : p = HandleUnsubscribe(c)
          \/ \E c \in ClientChunks : p = HandleDelta(c) /\ ids[c] # MaxChanges
          \/ p \in {HandleInventoryUpdate(own) : own \in BOOLEAN} \cup {HandleClientStateUpdate, Use("egui")}
      <4>1. \A c \in ClientChunks : ids[c] \in 0 .. MaxChanges - 1 => ids[c] # MaxChanges
        BY ClientThreadsAssumption
      <4> QED BY <3>1, <4>1 DEF InboundHandleMessage
    <3> QED BY <1>6, <2>3, <3>2, <3>3, <3>4, <3>5
  <2> QED BY <2>1, <2>2, <2>3, ClientThreadsAssumption
<1>8. PICK u \in WorksOf(t), e \in {NoWork, Over} :
        /\ u = NoWork \/ \E c \in ClientChunks : u = ChangeOf(c) /\ t = "inbound" /\ ids[c] # MaxChanges
        /\ May(t, p, EmptyHands, u, EmptyHands, e)
  BY <1>7
<1>9. MayGoOn([g EXCEPT ![t] = u])' /\ todo' \in [Threads -> Seq(ClientStep)]
  <2>1. HandsOf(t)' = EmptyHands /\ p \in Seq(ClientStep)
    BY <1>3, <1>4, <1>8, MaySteps
  <2> QED BY <1>1, <1>4, <1>5, <1>8, <2>1, OneGoesOn
<1>10. ClientHolders'
  BY <1>2, <1>9 DEF ClientHolders
<1> QED BY <1>3, <1>4, <1>8, <1>9, <1>10 DEF BeginsWith
-----------------------------------------------------------------------------
(* Waiting.                                                                *)

\* What a thread that waits asks for.
AsksOwn(t) ==
  /\ On(t) \in Own /\ HandsOf(t)[On(t)] = 0 /\ (t = "window" \/ Below(HandsOf(t), 0))
  /\ Now(t, "use") \/ Now(t, "lock")
AsksNext(t) ==
  /\ On(t) \in ClientLocks \ Own /\ Below(HandsOf(t), ClientRank(On(t)))
  /\ Now(t, "write") => t = "inbound" /\ On(t) \in ClientTables
AsksAgain(t) ==
  /\ On(t) \in ClientChunks /\ Below(HandsOf(t), 6) /\ \A c \in ClientChunks : HandsOf(t)[c] # -1
  /\ Now(t, "read_recursive") \/ (Now(t, "look") /\ HandsOf(t)[On(t)] = 0)

LEMMA WaitsAndAsks ==
  ASSUME NEW g, MayGoOn(g), ClientHolders, NEW t \in Threads, WaitsFor(t) # {}
  PROVE  On(t) \in ClientLocks /\ (AsksOwn(t) \/ AsksNext(t) \/ AsksAgain(t))
<1> DEFINE s == todo[t][1]
<1>1. todo[t] # <<>> /\ s.op \in {"lock", "use", "read_recursive", "read", "look", "write"}
  BY DEF WaitsFor, Now
<1>2. PICK k, u : MovesLock(t, s, HandsOf(t), g[t], k, u)
  BY <1>1, NextLockMove DEF LockOps
<1>3. s \in ClientStep /\ On(t) = s.on /\ s.on \in ClientLocks
  BY <1>1, NextMove DEF On, ClientStep
<1>4. \A op : Now(t, op) <=> s.op = op
  BY <1>1 DEF Now
<1> HIDE DEF s
<1>5. TakesOwn(t, s, HandsOf(t), k) \/ TakesNext(t, s, HandsOf(t), k) \/ TakesAgain(s, HandsOf(t), k)
  BY <1>1, <1>2 DEF MovesLock, GivesBack
<1>6. CASE TakesOwn(t, s, HandsOf(t), k)
  BY <1>3, <1>4, <1>6 DEF TakesOwn, AsksOwn
<1>7. CASE TakesNext(t, s, HandsOf(t), k)
  BY <1>3, <1>4, <1>7 DEF TakesNext, AsksNext
<1>8. CASE TakesAgain(s, HandsOf(t), k)
  BY <1>3, <1>4, <1>8 DEF TakesAgain, AsksAgain
<1> QED BY <1>3, <1>5, <1>6, <1>7, <1>8

\* Who is waited for: the holder, a reader, or the one that waits to write.
LEMMA WaitsForWhom ==
  ASSUME ClientHolders, NEW t \in Threads, On(t) \in ClientLocks, Now(t, "write") => On(t) \in ClientTables,
         NEW u \in WaitsFor(t)
  PROVE  \/ holder[On(t)] = u /\ u \in Threads /\ HandsOf(u)[On(t)] = -1
         \/ /\ Now(t, "write") /\ On(t) \in ClientTables /\ u \in Threads /\ HandsOf(u)[On(t)] # 0
         \/ (Now(t, "read") \/ Now(t, "look")) /\ u \in Threads /\ Now(u, "write") /\ On(u) = On(t)
<1> DEFINE l == On(t)
<1>1. todo[t] # <<>>
  BY DEF WaitsFor
<1>2. CASE holder[l] = u /\ u # NoThread
  <2>1. u \in Threads
    BY <1>2 DEF ClientHolders
  <2> QED BY <1>2, <2>1 DEF HandsOf
<1>3. CASE ~(holder[l] = u /\ u # NoThread) /\ Now(t, "write")
  <2>1. u \in Threads /\ readers[l][u] > 0
    BY <1>1, <1>3 DEF WaitsFor, Now
  <2>2. readers[l][u] \in Nat /\ l \in ClientTables
    BY <1>3, <2>1 DEF ClientHolders
  <2>3. HandsOf(u)[l] # 0
    BY <2>1, <2>2 DEF HandsOf
  <2> QED BY <1>3, <2>1, <2>2, <2>3
<1>4. CASE ~(holder[l] = u /\ u # NoThread) /\ ~Now(t, "write")
  BY <1>1, <1>4 DEF WaitsFor, Now
<1> QED BY <1>2, <1>3, <1>4

\* The window thread does not wait for its own locks.
LEMMA OwnIsFree ==
  ASSUME NEW g, MayGoOn(g), ClientHolders, NEW t \in Threads, WaitsFor(t) # {}, AsksOwn(t)
  PROVE  t # "window" /\ WaitsFor(t) \subseteq {"window"}
<1>1. ASSUME NEW u \in WaitsFor(t) PROVE u = "window" /\ holder[On(t)] = u
  <2>1. ~Now(t, "write") /\ ~Now(t, "read") /\ ~Now(t, "look")
    BY DEF AsksOwn, Now
  <2>2. On(t) \in ClientLocks
    BY WaitsAndAsks
  <2>3. holder[On(t)] = u /\ u \in Threads
    BY <2>1, <2>2, WaitsForWhom
  <2> QED BY <2>3, NoThreadIsNone DEF ClientHolders, AsksOwn
<1>2. ASSUME t = "window" PROVE FALSE
  <2>1. PICK u \in WaitsFor(t) : TRUE
    OBVIOUS
  <2>2. holder[On(t)] = t /\ On(t) \in ClientLocks
    BY <1>1, <1>2, <2>1, WaitsAndAsks
  <2>3. HandsOf(t)[On(t)] = -1
    BY <2>2 DEF HandsOf
  <2>4. HandsOf(t)[On(t)] = 0
    BY DEF AsksOwn
  <2> QED BY <2>3, <2>4
<1> QED BY <1>1, <1>2

\* Who has a lock that is not the window's does not wait for one that is not above it.
LEMMA HighestIsNotWaiting ==
  ASSUME NEW g, MayGoOn(g), ClientHolders, NEW t \in Threads, WaitsFor(t) # {}, On(t) \notin Own,
         NEW u \in WaitsFor(t), u \in Threads, HandsOf(u)[On(t)] # 0, WaitsFor(u) # {},
         ClientRank(On(u)) <= ClientRank(On(t))
  PROVE  FALSE
<1> DEFINE l == On(t)
           m == On(u)
<1>1. /\ l \in ClientLocks \ Own /\ (AsksNext(t) \/ AsksAgain(t))
      /\ m \in ClientLocks /\ (AsksOwn(u) \/ AsksNext(u) \/ AsksAgain(u))
  <2>1. l \in ClientLocks /\ (AsksOwn(t) \/ AsksNext(t) \/ AsksAgain(t))
    BY WaitsAndAsks
  <2> QED BY <2>1, WaitsAndAsks DEF AsksOwn
<1>2. ClientRank(l) \in 0 .. 6 /\ ClientRank(m) \in 0 .. 6
  BY <1>1, ClientNames
<1>3. CASE AsksOwn(u)
  <2>1. ~Below(HandsOf(u), 0)
    BY <1>1, <1>2 DEF Below
  <2>2. u = "window"
    BY <1>3, <2>1 DEF AsksOwn
  <2> QED BY <1>3, <2>2, OwnIsFree
<1>4. CASE AsksNext(u)
  <2>1. Below(HandsOf(u), ClientRank(m))
    BY <1>4 DEF AsksNext
  <2>2. ClientRank(l) < ClientRank(m)
    BY <1>1, <2>1 DEF Below
  <2> QED BY <1>2, <2>2
<1>5. CASE AsksAgain(u)
  <2>1. m \in ClientChunks /\ ClientRank(m) = 5 /\ m \notin Own
    BY <1>5, ClientNames DEF AsksAgain
  <2>2. ClientRank(l) < 6
    BY <1>1, <1>5 DEF AsksAgain, Below
  <2>3. l \in ClientChunks
    <3>1. ClientRank(l) = 5
      BY <1>2, <2>1, <2>2
    <3> QED BY <1>1, <3>1, ClientNames
  <2>4. HandsOf(u)[l] # -1
    BY <1>5, <2>3 DEF AsksAgain
  <2>5. ~Now(u, "write") /\ ~Now(u, "read")
    BY <1>5 DEF AsksAgain, Now
  <2>6. Now(t, "write") /\ l \in ClientTables
    <3>1. Now(t, "write") => l \in ClientTables
      BY <2>3, ClientNames
    <3> QED BY <1>1, <2>4, <2>5, <3>1, WaitsForWhom
  <2>7. t = "inbound" /\ Below(HandsOf(t), 5)
    <3>1. ~AsksAgain(t)
      BY <2>6 DEF AsksAgain, Now
    <3>2. AsksNext(t) /\ ClientRank(l) = 5
      BY <1>1, <2>3, <3>1, ClientNames
    <3> QED BY <2>6, <3>2 DEF AsksNext
  <2>8. PICK v \in WaitsFor(u) : TRUE
    OBVIOUS
  <2>9. CASE holder[m] = v /\ v \in Threads /\ HandsOf(v)[m] = -1
    <3>1. m \in ClientTables
      BY <2>1, ClientNames
    <3>2. v = "inbound"
      BY <2>9, <3>1, NoThreadIsNone DEF ClientHolders
    <3>3. HandsOf(t)[m] # 0
      BY <2>7, <2>9, <3>2
    <3> QED BY <1>1, <2>1, <2>7, <3>3 DEF Below
  <2>10. CASE Now(u, "look") /\ v \in Threads /\ Now(v, "write") /\ On(v) = m
    <3>1. todo[v] # <<>> /\ todo[v][1].op = "write" /\ todo[v][1].on = m
      BY <2>10 DEF Now, On
    <3>2. PICK k, w : GoesTo(g, v, k, w) /\ MovesLock(v, todo[v][1], HandsOf(v), g[v], k, w)
      BY <2>10, <3>1, NextLockMove DEF LockOps
    <3>3. LockSays(v, todo[v][1], HandsOf(v), k)
      BY <2>10, <3>1, <3>2, NextMove, HandsOfType, LockMoves
    <3>4. v = "inbound"
      BY <3>1, <3>3 DEF LockSays
    <3>5. l = m
      BY <2>7, <2>10, <3>4
    <3>6. HandsOf(u)[m] = 0
      BY <1>5, <2>10 DEF AsksAgain, Now
    <3> QED BY <3>5, <3>6
  <2> QED BY <1>1, <2>5, <2>8, <2>9, <2>10, WaitsForWhom
<1> QED BY <1>1, <1>3, <1>4, <1>5

LEMMA HighestAsk ==
  ASSUME NEW S, NEW f, S # {}, \A t \in S : f[t] \in 0 .. 6
  PROVE  \E t \in S : \A u \in S : f[u] <= f[t]
<1>1. CASE \E t \in S : f[t] \in 1 .. 5
  <2>1. CASE \E t \in S : f[t] = 6
    BY <2>1
  <2>2. CASE \A t \in S : f[t] # 6
    <3> DEFINE R == {t \in S : f[t] \in 1 .. 5}
    <3>1. PICK t \in R : \A u \in R : f[u] <= f[t]
      <4>1. R # {} /\ \A t \in R : f[t] \in 1 .. 5
        BY <1>1
      <4> HIDE DEF R
      <4> QED BY <4>1, HighestWait
    <3>2. \A u \in S : f[u] <= f[t]
      BY <2>2, <3>1
    <3> QED BY <3>1, <3>2
  <2> QED BY <2>1, <2>2
<1>2. CASE \A t \in S : f[t] \notin 1 .. 5
  <2>1. CASE \E t \in S : f[t] = 6
    BY <2>1
  <2>2. CASE \A t \in S : f[t] = 0
    BY <2>2
  <2> QED BY <1>2, <2>1, <2>2
<1> QED BY <1>1, <1>2

LEMMA NoThreadWaitsInCircle ==
  ASSUME NEW g, MayGoOn(g), ClientHolders PROVE NoLockCycle
<1> SUFFICES ASSUME NEW S \in SUBSET Waiting, S # {}, \A t \in S : WaitsFor(t) \cap S # {}
             PROVE  FALSE
  BY Zenon DEF NoLockCycle, NoCircle
<1>1. \A t \in S : t \in Threads /\ WaitsFor(t) # {}
  BY DEF Waiting
<1>2. \A t \in S : On(t) \in ClientLocks /\ ClientRank(On(t)) \in 0 .. 6
  BY <1>1, WaitsAndAsks, ClientNames
<1> DEFINE f == [t \in S |-> ClientRank(On(t))]
<1>3. PICK t \in S : \A u \in S : ClientRank(On(u)) <= ClientRank(On(t))
  <2>1. \A u \in S : f[u] \in 0 .. 6 /\ f[u] = ClientRank(On(u))
    BY <1>2
  <2> HIDE DEF f
  <2>2. \E v \in S : \A u \in S : f[u] <= f[v]
    BY <2>1, HighestAsk
  <2> QED BY <2>1, <2>2
\* Nobody who waits has the lock of the highest.
<1>4. ASSUME NEW v \in S, On(v) = On(t), On(t) \notin Own, NEW u \in WaitsFor(v) \cap S PROVE HandsOf(u)[On(v)] = 0
  <2>1. ClientRank(On(u)) <= ClientRank(On(v))
    BY <1>3, <1>4
  <2> QED BY <1>1, <1>4, <2>1, HighestIsNotWaiting
<1>5. CASE On(t) \in Own
  <2>1. \A u \in S : On(u) \in Own
    <3> SUFFICES ASSUME NEW u \in S PROVE On(u) \in Own
      OBVIOUS
    <3>1. ClientRank(On(t)) = 0
      BY <1>5, ClientNames
    <3>2. ClientRank(On(u)) <= 0
      BY <1>3, <3>1
    <3>3. \A n \in 1 .. 6 : ~(n <= 0)
      OBVIOUS
    <3> QED BY <1>2, <3>2, <3>3 DEF ClientRank
  <2>2. ASSUME NEW u \in S PROVE AsksOwn(u)
    <3>1. AsksOwn(u) \/ AsksNext(u) \/ AsksAgain(u)
      BY <1>1, WaitsAndAsks
    <3>2. ~AsksNext(u) /\ ~AsksAgain(u)
      BY <2>1, ClientNames DEF AsksNext, AsksAgain
    <3> QED BY <3>1, <3>2
  <2>3. PICK u \in WaitsFor(t) \cap S : TRUE
    OBVIOUS
  <2>4. u = "window"
    BY <1>1, <2>2, <2>3, OwnIsFree
  <2> QED BY <1>1, <2>2, <2>3, <2>4, OwnIsFree
<1>6. CASE On(t) \notin Own
  <2>1. PICK u \in WaitsFor(t) \cap S : TRUE
    OBVIOUS
  <2>2. ASSUME NEW v \in S, On(v) = On(t), NEW x \in WaitsFor(v) \cap S
        PROVE  (Now(v, "read") \/ Now(v, "look")) /\ Now(x, "write") /\ On(x) = On(v)
    <3>1. HandsOf(x)[On(v)] = 0
      BY <1>4, <1>6, <2>2
    <3>2. v \in Threads /\ On(v) \in ClientLocks /\ (Now(v, "write") => On(v) \in ClientTables)
      <4>1. AsksOwn(v) \/ AsksNext(v) \/ AsksAgain(v)
        BY <1>1, WaitsAndAsks
      <4> QED BY <1>1, <1>2, <4>1 DEF AsksOwn, AsksNext, AsksAgain, Now
    <3>3. x \in WaitsFor(v) /\ HandsOf(x)[On(v)] # -1
      BY <3>1
    <3> QED BY <3>1, <3>2, <3>3, WaitsForWhom
  <2>3. Now(u, "write") /\ On(u) = On(t) /\ u \in S
    BY <2>1, <2>2
  <2>4. PICK x \in WaitsFor(u) \cap S : TRUE
    BY <2>3
  <2>5. Now(u, "read") \/ Now(u, "look")
    BY <2>2, <2>3, <2>4
  <2> QED BY <2>3, <2>5 DEF Now
<1> QED BY <1>5, <1>6
-----------------------------------------------------------------------------
(***************************************************************************)
(* The chunks of the client: what is due to them.                          *)
(***************************************************************************)
LooksRight(c) == mesh[c] # Absent /\ \A n \in Beside(c) : ids[n] # Absent => mesh[c][n] = ids[n]
Fresh(g, t, c) == g[t].draft = c /\ draft[t] = Shows(c)

AnyMesh == UNION {ChunkMeshes(c) : c \in ClientChunks}
ChunkTypes ==
  /\ ids \in [ClientChunks -> ChunkContents \cup {Absent}]
  /\ mesh \in [ClientChunks -> AnyMesh \cup {Absent}]
  /\ \A c \in ClientChunks : mesh[c] \in ChunkMeshes(c) \cup {Absent}
  /\ draft \in [Threads -> AnyMesh \cup {Absent}]
  /\ queue \subseteq ClientChunks /\ overtaken \subseteq ClientChunks

\* Who has a draft of a chunk reads the table; what has been dropped is not there; what may
\* be changed has room for the change.
DueOK(g) ==
  \A t \in Threads :
    /\ g[t].draft # Absent => HandsOf(t)["chunks"] \notin {0, -1} /\ draft[t] \in ChunkMeshes(g[t].draft)
    /\ g[t].gone # Absent => ids[g[t].gone] = Absent
    /\ g[t].room # Absent => ids[g[t].room] # MaxChanges

\* A chunk looks as it is, or somebody is to mesh it, or has just done so.
Pending(g) ==
  \A c \in ClientChunks : ids[c] # Absent /\ c \notin overtaken =>
    \/ LooksRight(c) \/ c \in queue
    \/ \E t \in Threads : c \in g[t].toQueue \/ c \in g[t].toMesh \/ Fresh(g, t, c)

\* Who stores a draft that is out of date replaces a newer mesh, or somebody will replace it.
StaleOK(g) ==
  \A t \in Threads, c \in ClientChunks : ids[c] # Absent /\ g[t].draft = c /\ draft[t] # Shows(c) =>
    \/ mesh[c] = Shows(c) \/ c \in overtaken
    \/ \E u \in Threads : c \in g[u].toMesh \/ Fresh(g, u, c)

ChunksOK(g) == ChunkTypes /\ DueOK(g) /\ Pending(g) /\ StaleOK(g)

After(f, g, t, u) == f = [g EXCEPT ![t] = u]
LEMMA OneWork ==
  ASSUME NEW g, MayGoOn(g), NEW t \in Threads, NEW u \in WorksOf(t), NEW f, After(f, g, t, u)
  PROVE  /\ f[t] = u /\ (\A o \in Threads \ {t} : f[o] = g[o]) /\ \A o \in Threads : g[o] \in Works /\ f[o] \in Works
         /\ \A o \in Threads : o # "inbound" => /\ g[o].toQueue = {} /\ g[o].gone = Absent /\ g[o].room = Absent
                                                /\ f[o].toQueue = {} /\ f[o].gone = Absent /\ f[o].room = Absent
<1>1. g \in [Threads -> Works] /\ \A o \in Threads : g[o] \in WorksOf(o)
  BY DEF MayGoOn
<1>2. u \in Works
  BY WorkTypes
<1>3. f[t] = u /\ (\A o \in Threads \ {t} : f[o] = g[o]) /\ \A o \in Threads : f[o] \in Works
  BY <1>1, <1>2 DEF After
<1>4. \A o \in Threads : g[o] \in WorksOf(o) /\ f[o] \in WorksOf(o)
  BY <1>1, <1>3
<1> QED BY <1>1, <1>3, <1>4 DEF WorksOf

LEMMA BesideNames ==
  /\ \A c \in ClientChunks : c \in Beside(c) /\ Beside(c) \subseteq ClientChunks /\ c # Absent
  /\ \A c \in ClientChunks, n \in ClientChunks : c \in Beside(n) <=> n \in Beside(c)
BY ClientThreadsAssumption DEF Beside

\* While the table is written nobody has a draft.
LEMMA WriterIsAlone ==
  ASSUME NEW g, MayGoOn(g), ClientHolders, DueOK(g), NEW t \in Threads, HandsOf(t)["chunks"] = -1
  PROVE  \A o \in Threads : g[o].draft = Absent
<1>1. PICK l \in ClientTables : l = "chunks"
  BY ClientNames
<1>2. l \in ClientLocks
  BY <1>1, ClientNames
<1>3. holder[l] = t
  <2>1. readers[l][t] \in Nat
    BY <1>1 DEF ClientHolders
  <2> QED BY <1>1, <1>2, <2>1 DEF HandsOf
<1>4. \A o \in Threads : HandsOf(o)[l] \in {0, -1}
  BY <1>1, <1>2, <1>3, NoThreadIsNone DEF HandsOf, ClientHolders
<1> QED BY <1>1, <1>4 DEF DueOK

\* Locks are taken and given back, a program begins: nothing is done to a chunk.
LEMMA RestKeepsChunks ==
  ASSUME NEW g, NEW f, ChunksOK(g), UNCHANGED chunkVars,
         \A o \in Threads : f[o].draft = g[o].draft /\ f[o].toQueue = g[o].toQueue /\ f[o].toMesh = g[o].toMesh
                            /\ f[o].gone = g[o].gone,
         \A o \in Threads : f[o].room = g[o].room \/ f[o].room = Absent \/ ids[f[o].room] # MaxChanges,
         \A o \in Threads : g[o].draft # Absent /\ HandsOf(o)["chunks"] \notin {0, -1}
                              => HandsOf(o)'["chunks"] \notin {0, -1}
  PROVE  ChunksOK(f)'
<1>1. UNCHANGED <<ids, mesh, draft, queue, overtaken>>
  BY DEF chunkVars
<1>2. ChunkTypes'
  BY <1>1 DEF ChunksOK, ChunkTypes
<1>3. DueOK(f)'
  BY <1>1 DEF ChunksOK, DueOK
<1>4. \A c \in ClientChunks : Shows(c)' = Shows(c) /\ (LooksRight(c)' <=> LooksRight(c))
  BY <1>1 DEF Shows, LooksRight
<1>5. \A o \in Threads, c \in ClientChunks : Fresh(f, o, c)' <=> Fresh(g, o, c)
  BY <1>1, <1>4 DEF Fresh
<1>6. Pending(f)'
  BY <1>1, <1>4, <1>5 DEF ChunksOK, Pending
<1>7. StaleOK(f)'
  BY <1>1, <1>4, <1>5 DEF ChunksOK, StaleOK
<1> QED BY <1>2, <1>3, <1>6, <1>7 DEF ChunksOK

LEMMA LockingKeepsChunks ==
  ASSUME NEW g, MayGoOn(g), ChunksOK(g), NEW t \in Threads, NEW u, MovesOn(g, t, u), UNCHANGED chunkVars
  PROVE  ChunksOK([g EXCEPT ![t] = u])'
<1>1. PICK f : After(f, g, t, u)
  BY DEF After
<1>2. u \in WorksOf(t) /\ \A o \in Threads \ {t} : HandsOf(o)' = HandsOf(o)
  BY DEF MovesOn
<1>3. /\ f[t] = u /\ (\A o \in Threads \ {t} : f[o] = g[o]) /\ \A o \in Threads : g[o] \in Works /\ f[o] \in Works
  BY <1>1, <1>2, OneWork
<1>4. /\ u.draft = g[t].draft /\ u.toQueue = g[t].toQueue /\ u.toMesh = g[t].toMesh
      /\ u.gone = g[t].gone /\ u.room = g[t].room
      /\ g[t].draft # Absent /\ HandsOf(t)["chunks"] \notin {0, -1} => HandsOf(t)'["chunks"] \notin {0, -1}
  <2>1. /\ todo[t][1] \in ClientStep /\ HandsOf(t) \in Hands /\ g[t] \in Works
        /\ MovesLock(t, todo[t][1], HandsOf(t), g[t], HandsOf(t)', u)
    BY <1>3 DEF MovesOn
  <2> QED BY <2>1, LockMovesWork
<1>5. ChunksOK(f)'
  <2>1. \A o \in Threads : /\ f[o].draft = g[o].draft /\ f[o].toQueue = g[o].toQueue /\ f[o].toMesh = g[o].toMesh
                           /\ f[o].gone = g[o].gone /\ f[o].room = g[o].room
    BY <1>3, <1>4
  <2>2. \A o \in Threads : g[o].draft # Absent /\ HandsOf(o)["chunks"] \notin {0, -1}
                             => HandsOf(o)'["chunks"] \notin {0, -1}
    BY <1>2, <1>4
  <2> QED BY <2>1, <2>2, RestKeepsChunks
<1> QED BY <1>1, <1>5 DEF After

LEMMA BeginKeepsChunks ==
  ASSUME NEW g, MayGoOn(g), ChunksOK(g), NEW t \in Threads, NEW u, BeginsWith(g, t, u), UNCHANGED chunkVars
  PROVE  ChunksOK([g EXCEPT ![t] = u])'
<1>1. PICK f : After(f, g, t, u)
  BY DEF After
<1>2. u \in WorksOf(t) /\ \A o \in Threads : HandsOf(o)' = HandsOf(o)
  BY DEF BeginsWith
<1>3. /\ f[t] = u /\ (\A o \in Threads \ {t} : f[o] = g[o]) /\ \A o \in Threads : g[o] \in Works /\ f[o] \in Works
  BY <1>1, <1>2, OneWork
<1>4. /\ Over.draft = Absent /\ Over.toQueue = {} /\ Over.toMesh = {} /\ Over.gone = Absent
      /\ \A c : LET w == ChangeOf(c)
                IN  w.draft = Absent /\ w.toQueue = {} /\ w.toMesh = {} /\ w.gone = Absent /\ w.room = c
  BY NoWorkParts DEF Over, ChangeOf, Works
<1>5. /\ u.draft = g[t].draft /\ u.toQueue = g[t].toQueue /\ u.toMesh = g[t].toMesh /\ u.gone = g[t].gone
      /\ u.room = Absent \/ ids[u.room] # MaxChanges
  BY <1>4, NoWorkParts DEF BeginsWith
<1>6. ChunksOK(f)'
  <2>1. \A o \in Threads : /\ f[o].draft = g[o].draft /\ f[o].toQueue = g[o].toQueue /\ f[o].toMesh = g[o].toMesh
                           /\ f[o].gone = g[o].gone
    BY <1>3, <1>5
  <2>2. \A o \in Threads : f[o].room = g[o].room \/ f[o].room = Absent \/ ids[f[o].room] # MaxChanges
    BY <1>3, <1>5
  <2> QED BY <1>2, <2>1, <2>2, RestKeepsChunks
<1> QED BY <1>1, <1>6 DEF After
-----------------------------------------------------------------------------
(* The work on a chunk.                                                    *)

LEMMA SetKeepsChunks ==
  ASSUME NEW g, MayGoOn(g), ClientHolders, ChunksOK(g), NEW t \in Threads, Set(t), NEW u, WorksAway(g, t, u)
  PROVE  ChunksOK([g EXCEPT ![t] = u])'
<1> DEFINE h == HandsOf(t)
<1>0. PICK w : w = g[t]
  OBVIOUS
<1>1. PICK f : After(f, g, t, u)
  BY DEF After
<1>2. PICK c : c = On(t)
  OBVIOUS
<1>3. /\ todo[t][1].op = "set" /\ todo[t][1].on = c
      /\ ids' = [ids EXCEPT ![c] = IF ids[c] = Absent THEN 0 ELSE ids[c] + 1]
      /\ UNCHANGED <<mesh, draft, queue, overtaken>>
  BY <1>2 DEF Set, Now, On
<1>4. u \in WorksOf(t) /\ (\A o \in Threads : HandsOf(o)' = HandsOf(o)) /\ MovesWork(t, todo[t][1], h, w, u)
  BY <1>0 DEF WorksAway
<1>5. /\ c \in ClientChunks /\ t = "inbound" /\ w.room = c /\ w.draft = Absent
      /\ \/ h["chunks"] = -1
            /\ u = [w EXCEPT !.room = Absent, !.gone = Absent, !.toQueue = w.toQueue \cup Beside(c)]
         \/ h["chunks"] \notin {0, -1}
            /\ u = [w EXCEPT !.room = Absent, !.gone = Absent, !.toMesh = w.toMesh \cup Beside(c)]
  BY <1>3, <1>4 DEF MovesWork, WorksOn
<1> HIDE DEF h
<1>6. /\ f[t] = u /\ (\A o \in Threads \ {t} : f[o] = g[o]) /\ \A o \in Threads : g[o] \in Works /\ f[o] \in Works
      /\ \A o \in Threads : o # t => f[o].gone = Absent /\ f[o].room = Absent
  BY <1>1, <1>4, <1>5, OneWork
<1>7. /\ u.room = Absent /\ u.gone = Absent /\ u.draft = Absent
      /\ w.toQueue \subseteq u.toQueue /\ w.toMesh \subseteq u.toMesh
      /\ Beside(c) \subseteq u.toQueue \/ (Beside(c) \subseteq u.toMesh /\ h["chunks"] # -1)
      /\ h["chunks"] # -1 => Beside(c) \subseteq u.toMesh
  <2>1. w \in Works
    BY <1>0, <1>6
  <2>2. ASSUME u = [w EXCEPT !.room = Absent, !.gone = Absent, !.toQueue = w.toQueue \cup Beside(c)]
        PROVE  /\ u.room = Absent /\ u.gone = Absent /\ u.draft = Absent
               /\ w.toQueue \subseteq u.toQueue /\ w.toMesh \subseteq u.toMesh /\ Beside(c) \subseteq u.toQueue
    BY <1>5, <2>1, <2>2 DEF Works
  <2>3. ASSUME u = [w EXCEPT !.room = Absent, !.gone = Absent, !.toMesh = w.toMesh \cup Beside(c)]
        PROVE  /\ u.room = Absent /\ u.gone = Absent /\ u.draft = Absent
               /\ w.toQueue \subseteq u.toQueue /\ w.toMesh \subseteq u.toMesh /\ Beside(c) \subseteq u.toMesh
    BY <1>5, <2>1, <2>3 DEF Works
  <2> QED BY <1>5, <2>2, <2>3
<1>8. ids[c] # MaxChanges /\ ids[c] \in ChunkContents \cup {Absent} /\ ids \in [ClientChunks -> ChunkContents \cup {Absent}]
  <2>1. w.room # Absent
    BY <1>5, BesideNames
  <2> QED BY <1>0, <1>5, <2>1 DEF ChunksOK, DueOK, ChunkTypes
<1>9. ids' \in [ClientChunks -> ChunkContents \cup {Absent}] /\ \A n \in ClientChunks \ {c} : ids'[n] = ids[n]
  <2>1. (IF ids[c] = Absent THEN 0 ELSE ids[c] + 1) \in ChunkContents
    BY <1>8, ClientThreadsAssumption DEF ChunkContents
  <2> QED BY <1>3, <1>8, <2>1
<1>10. ChunkTypes'
  BY <1>3, <1>9 DEF ChunksOK, ChunkTypes
<1>11. DueOK(f)'
  <2> SUFFICES ASSUME NEW o \in Threads
               PROVE  /\ f[o].draft # Absent => HandsOf(o)'["chunks"] \notin {0, -1} /\ draft'[o] \in ChunkMeshes(f[o].draft)
                      /\ f[o].gone = Absent /\ f[o].room = Absent
    BY DEF DueOK
  <2>1. f[o].gone = Absent /\ f[o].room = Absent
    BY <1>6, <1>7
  <2>2. f[o].draft # Absent => o # t
    BY <1>6, <1>7
  <2> QED BY <1>3, <1>4, <1>6, <2>1, <2>2 DEF ChunksOK, DueOK
<1>12. ASSUME NEW n \in ClientChunks \ Beside(c)
       PROVE  /\ ids'[n] = ids[n] /\ Shows(n)' = Shows(n) /\ (LooksRight(n)' <=> LooksRight(n))
              /\ \A o \in Threads : Fresh(g, o, n) => Fresh(f, o, n)'
              /\ \A o \in Threads : f[o].draft = n => g[o].draft = n
              /\ \A o \in Threads : (n \in g[o].toQueue => n \in f[o].toQueue) /\ (n \in g[o].toMesh => n \in f[o].toMesh)
  <2>1. c \notin Beside(n) /\ Beside(n) \subseteq ClientChunks /\ n # c /\ n # Absent
    BY <1>5, BesideNames
  <2>2. \A x \in Beside(n) : ids'[x] = ids[x]
    BY <1>9, <2>1
  <2>3. ids'[n] = ids[n] /\ Shows(n)' = Shows(n) /\ (LooksRight(n)' <=> LooksRight(n))
    BY <1>3, <1>9, <2>1, <2>2 DEF Shows, LooksRight, Beside
  <2>4. \A o \in Threads : (n \in g[o].toQueue => n \in f[o].toQueue) /\ (n \in g[o].toMesh => n \in f[o].toMesh)
    BY <1>0, <1>6, <1>7
  <2>5. \A o \in Threads : f[o].draft = n => g[o].draft = n
    BY <1>6, <1>7, <2>1
  <2>6. \A o \in Threads : g[o].draft = n => f[o].draft = n
    BY <1>0, <1>5, <1>6, <2>1
  <2> QED BY <1>3, <2>3, <2>4, <2>5, <2>6 DEF Fresh
<1>13. Pending(f)'
  <2> SUFFICES ASSUME NEW n \in ClientChunks, ids'[n] # Absent, n \notin overtaken'
               PROVE  \/ LooksRight(n)' \/ n \in queue'
                      \/ \E o \in Threads : n \in f[o].toQueue \/ n \in f[o].toMesh \/ Fresh(f, o, n)'
    BY DEF Pending
  <2>1. CASE n \in Beside(c)
    BY <1>6, <1>7, <2>1
  <2>2. CASE n \notin Beside(c)
    <3>1. ids[n] # Absent /\ n \notin overtaken
      BY <1>3, <1>12, <2>2
    <3>2. \/ LooksRight(n) \/ n \in queue
          \/ \E o \in Threads : n \in g[o].toQueue \/ n \in g[o].toMesh \/ Fresh(g, o, n)
      BY <3>1 DEF ChunksOK, Pending
    <3> QED BY <1>3, <1>12, <2>2, <3>2
  <2> QED BY <2>1, <2>2
<1>14. StaleOK(f)'
  <2> SUFFICES ASSUME NEW o \in Threads, NEW n \in ClientChunks, ids'[n] # Absent, f[o].draft = n, draft'[o] # Shows(n)'
               PROVE  \/ mesh'[n] = Shows(n)' \/ n \in overtaken'
                      \/ \E x \in Threads : n \in f[x].toMesh \/ Fresh(f, x, n)'
    BY DEF StaleOK
  <2>0. h["chunks"] # -1
    <3> SUFFICES ASSUME h["chunks"] = -1 PROVE FALSE
      OBVIOUS
    <3>1. g[o].draft = Absent
      BY WriterIsAlone DEF ChunksOK, h
    <3>2. f[o].draft = Absent
      BY <1>6, <1>7, <3>1
    <3> QED BY <3>2, BesideNames
  <2>1. CASE n \in Beside(c)
    BY <1>6, <1>7, <2>0, <2>1
  <2>2. CASE n \notin Beside(c)
    <3>1. ids[n] # Absent /\ g[o].draft = n /\ draft[o] # Shows(n)
      BY <1>3, <1>12, <2>2
    <3>2. \/ mesh[n] = Shows(n) \/ n \in overtaken
          \/ \E x \in Threads : n \in g[x].toMesh \/ Fresh(g, x, n)
      BY <3>1 DEF ChunksOK, StaleOK
    <3> QED BY <1>3, <1>12, <2>2, <3>2
  <2> QED BY <2>1, <2>2
<1>15. ChunksOK(f)'
  BY <1>10, <1>11, <1>13, <1>14 DEF ChunksOK
<1> QED BY <1>1, <1>15 DEF After

LEMMA UnsubscribeKeepsChunks ==
  ASSUME NEW g, MayGoOn(g), ClientHolders, ChunksOK(g), NEW t \in Threads, Unsubscribe(t), NEW u, WorksAway(g, t, u)
  PROVE  ChunksOK([g EXCEPT ![t] = u])'
<1> DEFINE h == HandsOf(t)
<1>0. PICK w : w = g[t]
  OBVIOUS
<1>1. PICK f : After(f, g, t, u)
  BY DEF After
<1>2. PICK c : c = On(t)
  OBVIOUS
<1>3. /\ todo[t][1].op = "remove" /\ todo[t][1].on = c
      /\ ids' = [ids EXCEPT ![c] = Absent] /\ mesh' = [mesh EXCEPT ![c] = Absent] /\ overtaken' = overtaken \ {c}
      /\ UNCHANGED <<draft, queue>>
  BY <1>2 DEF Unsubscribe, Now, On
<1>4. u \in WorksOf(t) /\ (\A o \in Threads : HandsOf(o)' = HandsOf(o)) /\ MovesWork(t, todo[t][1], h, w, u)
  BY <1>0 DEF WorksAway
<1>5. c \in ClientChunks /\ t = "inbound" /\ h["chunks"] = -1 /\ u = [w EXCEPT !.gone = c]
  BY <1>3, <1>4 DEF MovesWork, WorksOn
<1>6. /\ f[t] = u /\ (\A o \in Threads \ {t} : f[o] = g[o]) /\ \A o \in Threads : g[o] \in Works /\ f[o] \in Works
      /\ \A o \in Threads : o # t => f[o].gone = Absent /\ f[o].room = Absent
  BY <1>1, <1>4, <1>5, OneWork
<1>7. \A o \in Threads : g[o].draft = Absent
  BY <1>5, WriterIsAlone DEF ChunksOK
<1> HIDE DEF h
<1>8. u.gone = c /\ u.draft = w.draft /\ u.toQueue = w.toQueue /\ u.toMesh = w.toMesh /\ u.room = w.room
  BY <1>0, <1>5, <1>6 DEF Works
<1>9. \A o \in Threads : /\ f[o].draft = Absent /\ f[o].toQueue = g[o].toQueue /\ f[o].toMesh = g[o].toMesh
                         /\ f[o].room = g[o].room
  BY <1>0, <1>6, <1>7, <1>8
<1>10. ids'[c] = Absent /\ (\A n \in ClientChunks \ {c} : ids'[n] = ids[n] /\ mesh'[n] = mesh[n]) /\ mesh'[c] = Absent
  BY <1>3, <1>5 DEF ChunksOK, ChunkTypes
<1>11. ChunkTypes'
  <2>1. ids \in [ClientChunks -> ChunkContents \cup {Absent}] /\ mesh \in [ClientChunks -> AnyMesh \cup {Absent}]
    BY DEF ChunksOK, ChunkTypes
  <2>2. ids' \in [ClientChunks -> ChunkContents \cup {Absent}] /\ mesh' \in [ClientChunks -> AnyMesh \cup {Absent}]
    BY <1>3, <1>5, <2>1
  <2>3. \A n \in ClientChunks : mesh'[n] \in ChunkMeshes(n) \cup {Absent}
    BY <1>10 DEF ChunksOK, ChunkTypes
  <2> QED BY <1>3, <2>2, <2>3 DEF ChunksOK, ChunkTypes
<1>12. DueOK(f)'
  <2> SUFFICES ASSUME NEW o \in Threads
               PROVE  /\ f[o].gone # Absent => ids'[f[o].gone] = Absent
                      /\ f[o].room # Absent => ids'[f[o].room] # MaxChanges
    BY <1>9 DEF DueOK
  <2>1. f[o].gone # Absent => ids'[f[o].gone] = Absent
    BY <1>6, <1>8, <1>10
  <2>2. f[o].room # Absent => ids'[f[o].room] # MaxChanges
    <3> SUFFICES ASSUME f[o].room # Absent PROVE ids'[f[o].room] # MaxChanges
      OBVIOUS
    <3>1. f[o].room \in ClientChunks /\ ids[f[o].room] # MaxChanges
      BY <1>6, <1>9 DEF ChunksOK, DueOK, Works, MaybeChunk
    <3>2. Absent # MaxChanges
      BY ClientThreadsAssumption
    <3> QED BY <1>10, <3>1, <3>2
  <2> QED BY <2>1, <2>2
<1>13. Pending(f)'
  <2> SUFFICES ASSUME NEW n \in ClientChunks, ids'[n] # Absent, n \notin overtaken'
               PROVE  \/ LooksRight(n)' \/ n \in queue'
                      \/ \E o \in Threads : n \in f[o].toQueue \/ n \in f[o].toMesh \/ Fresh(f, o, n)'
    BY DEF Pending
  <2>1. n # c /\ ids[n] # Absent /\ n \notin overtaken /\ mesh'[n] = mesh[n]
    BY <1>3, <1>10
  <2>2. LooksRight(n) => LooksRight(n)'
    <3>1. \A x \in Beside(n) : ids'[x] # Absent => ids'[x] = ids[x]
      BY <1>10, BesideNames
    <3> QED BY <2>1, <3>1 DEF LooksRight
  <2>3. \/ LooksRight(n) \/ n \in queue
        \/ \E o \in Threads : n \in g[o].toQueue \/ n \in g[o].toMesh \/ Fresh(g, o, n)
    BY <2>1 DEF ChunksOK, Pending
  <2>4. \A o \in Threads : ~Fresh(g, o, n)
    BY <1>7, BesideNames DEF Fresh
  <2> QED BY <1>3, <1>9, <2>2, <2>3, <2>4
<1>14. StaleOK(f)'
  BY <1>9, BesideNames DEF StaleOK
<1>15. ChunksOK(f)'
  BY <1>11, <1>12, <1>13, <1>14 DEF ChunksOK
<1> QED BY <1>1, <1>15 DEF After

LEMMA QueueKeepsChunks ==
  ASSUME NEW g, MayGoOn(g), ClientHolders, ChunksOK(g), NEW t \in Threads, Queue(t), NEW u, WorksAway(g, t, u)
  PROVE  ChunksOK([g EXCEPT ![t] = u])'
<1>0. PICK w : w = g[t]
  OBVIOUS
<1>1. PICK f : After(f, g, t, u)
  BY DEF After
<1>2. PICK c : c = On(t)
  OBVIOUS
<1>3. /\ todo[t][1].on = c /\ UNCHANGED <<ids, mesh, draft, overtaken>>
      /\ \/ todo[t][1].op = "enqueue" /\ queue' = queue \cup {c}
         \/ todo[t][1].op = "dequeue" /\ queue' = queue \ {c}
  BY <1>2 DEF Queue, Now, On
<1>4. u \in WorksOf(t) /\ (\A o \in Threads : HandsOf(o)' = HandsOf(o)) /\ MovesWork(t, todo[t][1], HandsOf(t), w, u)
  BY <1>0 DEF WorksAway
<1>5. /\ c \in ClientChunks
      /\ \/ queue' = queue \cup {c} /\ u = [w EXCEPT !.toQueue = w.toQueue \ {c}]
         \/ queue' = queue \ {c} /\ w.gone = c /\ u = [w EXCEPT !.gone = Absent]
  BY <1>3, <1>4 DEF MovesWork, WorksOn
<1>6. /\ f[t] = u /\ (\A o \in Threads \ {t} : f[o] = g[o]) /\ \A o \in Threads : g[o] \in Works /\ f[o] \in Works
  BY <1>1, <1>4, OneWork
<1>7. /\ u.draft = w.draft /\ u.toMesh = w.toMesh /\ u.room = w.room
      /\ u.gone = Absent \/ u.gone = w.gone
      /\ w.toQueue \subseteq u.toQueue \cup queue'
      /\ queue' = queue \cup {c} \/ (queue' = queue \ {c} /\ ids[c] = Absent)
  <2>1. w \in Works
    BY <1>0, <1>6
  <2>2. CASE queue' = queue \cup {c} /\ u = [w EXCEPT !.toQueue = w.toQueue \ {c}]
    <3>1. u.draft = w.draft /\ u.toMesh = w.toMesh /\ u.room = w.room /\ u.gone = w.gone /\ u.toQueue = w.toQueue \ {c}
      BY <2>1, <2>2 DEF Works
    <3> QED BY <2>2, <3>1
  <2>3. CASE queue' = queue \ {c} /\ w.gone = c /\ u = [w EXCEPT !.gone = Absent]
    <3>1. u.draft = w.draft /\ u.toMesh = w.toMesh /\ u.room = w.room /\ u.gone = Absent /\ u.toQueue = w.toQueue
      BY <2>1, <2>3 DEF Works
    <3>2. ids[c] = Absent
      BY <1>0, <1>5, <2>3, BesideNames DEF ChunksOK, DueOK
    <3> QED BY <2>3, <3>1, <3>2
  <2> QED BY <1>5, <2>2, <2>3
<1>8. \A o \in Threads : /\ f[o].draft = g[o].draft /\ f[o].toMesh = g[o].toMesh /\ f[o].room = g[o].room
                         /\ f[o].gone = Absent \/ f[o].gone = g[o].gone
                         /\ g[o].toQueue \subseteq f[o].toQueue \cup queue'
  BY <1>0, <1>6, <1>7
<1>9. ChunkTypes'
  BY <1>3, <1>5 DEF ChunksOK, ChunkTypes
<1>10. DueOK(f)'
  BY <1>3, <1>4, <1>8 DEF ChunksOK, DueOK
<1>11. \A n \in ClientChunks : /\ Shows(n)' = Shows(n) /\ (LooksRight(n)' <=> LooksRight(n))
                               /\ ids[n] # Absent /\ n \in queue => n \in queue'
  BY <1>3, <1>7 DEF Shows, LooksRight
<1>12. \A n \in ClientChunks, o \in Threads : Fresh(f, o, n)' <=> Fresh(g, o, n)
  BY <1>3, <1>8, <1>11 DEF Fresh
<1>13. Pending(f)'
  BY <1>3, <1>8, <1>11, <1>12 DEF ChunksOK, Pending
<1>14. StaleOK(f)'
  BY <1>3, <1>8, <1>11, <1>12 DEF ChunksOK, StaleOK
<1>15. ChunksOK(f)'
  BY <1>9, <1>10, <1>13, <1>14 DEF ChunksOK
<1> QED BY <1>1, <1>15 DEF After

LEMMA TakeKeepsChunks ==
  ASSUME NEW g, MayGoOn(g), ClientHolders, ChunksOK(g), NEW t \in Threads, Take(t), NEW u, TakesAll(g, t, u)
  PROVE  ChunksOK([g EXCEPT ![t] = u])'
<1>1. PICK f : After(f, g, t, u)
  BY DEF After
<1>2. queue' = {} /\ UNCHANGED <<ids, mesh, draft, overtaken>>
  BY DEF Take
<1>3. u \in WorksOf(t) /\ (\A o \in Threads : HandsOf(o)' = HandsOf(o)) /\ g[t] = NoWork /\ u = Meshing(NoWork, queue)
  BY DEF TakesAll
<1>4. /\ f[t] = u /\ (\A o \in Threads \ {t} : f[o] = g[o])
  BY <1>1, <1>3, OneWork
<1>5. u.draft = Absent /\ u.toQueue = {} /\ u.toMesh = queue /\ u.gone = Absent /\ u.room = Absent
  BY <1>3, NoWorkParts DEF Meshing, Works
<1>6. \A o \in Threads : /\ f[o].draft = g[o].draft /\ f[o].toQueue = g[o].toQueue /\ g[o].toMesh \subseteq f[o].toMesh
                         /\ f[o].gone = g[o].gone /\ f[o].room = g[o].room
  BY <1>3, <1>4, <1>5, NoWorkParts
<1>7. ChunkTypes'
  BY <1>2 DEF ChunksOK, ChunkTypes
<1>8. DueOK(f)'
  BY <1>2, <1>3, <1>6 DEF ChunksOK, DueOK
<1>9. \A n \in ClientChunks : Shows(n)' = Shows(n) /\ (LooksRight(n)' <=> LooksRight(n))
  BY <1>2 DEF Shows, LooksRight
<1>10. \A n \in ClientChunks, o \in Threads : Fresh(f, o, n)' <=> Fresh(g, o, n)
  BY <1>2, <1>6, <1>9 DEF Fresh
<1>11. Pending(f)'
  <2> SUFFICES ASSUME NEW n \in ClientChunks, ids'[n] # Absent, n \notin overtaken'
               PROVE  \/ LooksRight(n)' \/ n \in queue'
                      \/ \E o \in Threads : n \in f[o].toQueue \/ n \in f[o].toMesh \/ Fresh(f, o, n)'
    BY DEF Pending
  <2>1. \/ LooksRight(n) \/ n \in queue
        \/ \E o \in Threads : n \in g[o].toQueue \/ n \in g[o].toMesh \/ Fresh(g, o, n)
    BY <1>2 DEF ChunksOK, Pending
  <2>2. CASE n \in queue
    BY <1>4, <1>5, <2>2
  <2>3. CASE n \notin queue
    BY <1>6, <1>9, <1>10, <2>1, <2>3
  <2> QED BY <2>2, <2>3
<1>12. StaleOK(f)'
  BY <1>2, <1>6, <1>9, <1>10 DEF ChunksOK, StaleOK
<1>13. ChunksOK(f)'
  BY <1>7, <1>8, <1>11, <1>12 DEF ChunksOK
<1> QED BY <1>1, <1>13 DEF After

LEMMA MeshKeepsChunks ==
  ASSUME NEW g, MayGoOn(g), ClientHolders, ChunksOK(g), NEW t \in Threads, Mesh(t), NEW u, WorksAway(g, t, u)
  PROVE  ChunksOK([g EXCEPT ![t] = u])'
<1>0. PICK w : w = g[t]
  OBVIOUS
<1>1. PICK f : After(f, g, t, u)
  BY DEF After
<1>2. PICK c : c = On(t)
  OBVIOUS
<1>3. /\ todo[t][1].op = "mesh" /\ todo[t][1].on = c
      /\ draft' = [draft EXCEPT ![t] = Shows(c)] /\ UNCHANGED <<ids, mesh, queue, overtaken>>
  BY <1>2 DEF Mesh, Now, On
<1>4. u \in WorksOf(t) /\ (\A o \in Threads : HandsOf(o)' = HandsOf(o)) /\ MovesWork(t, todo[t][1], HandsOf(t), w, u)
  BY <1>0 DEF WorksAway
<1>5. /\ c \in ClientChunks /\ HandsOf(t)["chunks"] \notin {0, -1} /\ w.draft = Absent
      /\ u = [w EXCEPT !.draft = c, !.toMesh = w.toMesh \ {c}]
  BY <1>3, <1>4 DEF MovesWork, WorksOn
<1>6. /\ f[t] = u /\ (\A o \in Threads \ {t} : f[o] = g[o]) /\ \A o \in Threads : g[o] \in Works /\ f[o] \in Works
  BY <1>1, <1>4, OneWork
<1>7. u.draft = c /\ u.toQueue = w.toQueue /\ u.toMesh = w.toMesh \ {c} /\ u.gone = w.gone /\ u.room = w.room
  BY <1>0, <1>5, <1>6 DEF Works
<1>8. Shows(c) \in ChunkMeshes(c) /\ \A n \in ClientChunks : Shows(n)' = Shows(n) /\ (LooksRight(n)' <=> LooksRight(n))
  <2>1. Shows(c) \in ChunkMeshes(c)
    <3>1. \A n \in Beside(c) : ids[n] \in ChunkContents \cup {Absent}
      BY <1>5, BesideNames DEF ChunksOK, ChunkTypes
    <3> QED BY <3>1 DEF Shows, ChunkMeshes, Beside
  <2> QED BY <1>3, <2>1 DEF Shows, LooksRight
<1>9. draft'[t] = Shows(c) /\ \A o \in Threads \ {t} : draft'[o] = draft[o]
  BY <1>3 DEF ChunksOK, ChunkTypes
<1>10. Fresh(f, t, c)' /\ \A o \in Threads, n \in ClientChunks : Fresh(g, o, n) => Fresh(f, o, n)'
  <2>1. Fresh(f, t, c)'
    BY <1>5, <1>6, <1>7, <1>8, <1>9 DEF Fresh
  <2>2. \A o \in Threads, n \in ClientChunks : Fresh(g, o, n) => o # t
    BY <1>0, <1>5, BesideNames DEF Fresh
  <2> QED BY <1>6, <1>8, <1>9, <2>1, <2>2 DEF Fresh
<1>11. \A o \in Threads, n \in ClientChunks :
         /\ n \in g[o].toQueue => n \in f[o].toQueue
         /\ n \in g[o].toMesh => n \in f[o].toMesh \/ n = c
  BY <1>0, <1>6, <1>7
<1>12. ChunkTypes'
  <2>0. Shows(c) \in AnyMesh
    BY <1>5, <1>8 DEF AnyMesh
  <2>1. draft' \in [Threads -> AnyMesh \cup {Absent}]
    BY <1>3, <2>0 DEF ChunksOK, ChunkTypes
  <2> QED BY <1>3, <2>1 DEF ChunksOK, ChunkTypes
<1>13. DueOK(f)'
  <2> SUFFICES ASSUME NEW o \in Threads
               PROVE  /\ f[o].draft # Absent => HandsOf(o)'["chunks"] \notin {0, -1} /\ draft'[o] \in ChunkMeshes(f[o].draft)
                      /\ f[o].gone # Absent => ids'[f[o].gone] = Absent
                      /\ f[o].room # Absent => ids'[f[o].room] # MaxChanges
    BY DEF DueOK
  <2>1. CASE o = t
    <3>1. HandsOf(o)'["chunks"] \notin {0, -1} /\ draft'[o] \in ChunkMeshes(f[o].draft)
      BY <1>4, <1>5, <1>6, <1>7, <1>8, <1>9, <2>1
    <3>2. f[o].gone = g[o].gone /\ f[o].room = g[o].room
      BY <1>0, <1>6, <1>7, <2>1
    <3> QED BY <1>3, <3>1, <3>2 DEF ChunksOK, DueOK
  <2>2. CASE o # t
    BY <1>3, <1>4, <1>6, <1>9, <2>2 DEF ChunksOK, DueOK
  <2> QED BY <2>1, <2>2
<1>14. Pending(f)'
  <2> SUFFICES ASSUME NEW n \in ClientChunks, ids'[n] # Absent, n \notin overtaken'
               PROVE  \/ LooksRight(n)' \/ n \in queue'
                      \/ \E o \in Threads : n \in f[o].toQueue \/ n \in f[o].toMesh \/ Fresh(f, o, n)'
    BY DEF Pending
  <2>1. \/ LooksRight(n) \/ n \in queue
        \/ \E o \in Threads : n \in g[o].toQueue \/ n \in g[o].toMesh \/ Fresh(g, o, n)
    BY <1>3 DEF ChunksOK, Pending
  <2>2. CASE n = c
    BY <1>10, <2>2
  <2>3. CASE n # c
    BY <1>3, <1>8, <1>10, <1>11, <2>1, <2>3
  <2> QED BY <2>2, <2>3
<1>15. StaleOK(f)'
  <2> SUFFICES ASSUME NEW o \in Threads, NEW n \in ClientChunks, ids'[n] # Absent, f[o].draft = n, draft'[o] # Shows(n)'
               PROVE  \/ mesh'[n] = Shows(n)' \/ n \in overtaken'
                      \/ \E x \in Threads : n \in f[x].toMesh \/ Fresh(f, x, n)'
    BY DEF StaleOK
  <2>1. CASE n = c
    BY <1>10, <2>1
  <2>2. CASE n # c
    <3>1. o # t
      BY <1>6, <1>7, <2>2
    <3>2. ids[n] # Absent /\ g[o].draft = n /\ draft[o] # Shows(n)
      BY <1>3, <1>6, <1>8, <1>9, <3>1
    <3>3. \/ mesh[n] = Shows(n) \/ n \in overtaken
          \/ \E x \in Threads : n \in g[x].toMesh \/ Fresh(g, x, n)
      BY <3>2 DEF ChunksOK, StaleOK
    <3> QED BY <1>3, <1>8, <1>10, <1>11, <2>2, <3>3
  <2> QED BY <2>1, <2>2
<1>16. ChunksOK(f)'
  BY <1>12, <1>13, <1>14, <1>15 DEF ChunksOK
<1> QED BY <1>1, <1>16 DEF After

LEMMA StoreKeepsChunks ==
  ASSUME NEW g, MayGoOn(g), ClientHolders, ChunksOK(g), NEW t \in Threads, Store(t), NEW u, WorksAway(g, t, u)
  PROVE  ChunksOK([g EXCEPT ![t] = u])'
<1>0. PICK w : w = g[t]
  OBVIOUS
<1>1. PICK f : After(f, g, t, u)
  BY DEF After
<1>2. PICK c : c = On(t)
  OBVIOUS
<1>3. /\ todo[t][1].op = "store" /\ todo[t][1].on = c
      /\ draft' = [draft EXCEPT ![t] = Absent] /\ UNCHANGED <<ids, queue>>
      /\ ids[c] = Absent => UNCHANGED <<mesh, overtaken>>
      /\ ids[c] # Absent =>
           /\ mesh' = [mesh EXCEPT ![c] = draft[t]]
           /\ overtaken' = IF draft[t] = Shows(c) THEN overtaken \ {c}
                           ELSE IF mesh[c] = Shows(c) THEN overtaken \cup {c}
                           ELSE overtaken
  BY <1>2 DEF Store, Now, On
<1>4. u \in WorksOf(t) /\ (\A o \in Threads : HandsOf(o)' = HandsOf(o)) /\ MovesWork(t, todo[t][1], HandsOf(t), w, u)
  BY <1>0 DEF WorksAway
<1>5. c \in ClientChunks /\ w.draft = c /\ u = [w EXCEPT !.draft = Absent]
  BY <1>3, <1>4 DEF MovesWork, WorksOn
<1>6. /\ f[t] = u /\ (\A o \in Threads \ {t} : f[o] = g[o]) /\ \A o \in Threads : g[o] \in Works /\ f[o] \in Works
  BY <1>1, <1>4, OneWork
<1>7. u.draft = Absent /\ u.toQueue = w.toQueue /\ u.toMesh = w.toMesh /\ u.gone = w.gone /\ u.room = w.room
  BY <1>0, <1>5, <1>6 DEF Works
<1>8. \A o \in Threads : /\ f[o].toQueue = g[o].toQueue /\ f[o].toMesh = g[o].toMesh
                         /\ f[o].gone = g[o].gone /\ f[o].room = g[o].room
                         /\ f[o].draft = g[o].draft \/ (o = t /\ f[o].draft = Absent)
  BY <1>0, <1>6, <1>7
<1>9. draft'[t] = Absent /\ (\A o \in Threads \ {t} : draft'[o] = draft[o]) /\ draft[t] \in ChunkMeshes(c)
  <2>1. draft'[t] = Absent /\ \A o \in Threads \ {t} : draft'[o] = draft[o]
    BY <1>3 DEF ChunksOK, ChunkTypes
  <2>2. draft[t] \in ChunkMeshes(c)
    BY <1>0, <1>5, BesideNames DEF ChunksOK, DueOK
  <2> QED BY <2>1, <2>2
<1>10. \A n \in ClientChunks : ids'[n] = ids[n] /\ Shows(n)' = Shows(n)
  BY <1>3 DEF Shows
<1>11. ASSUME NEW n \in ClientChunks, n # c
       PROVE  /\ mesh'[n] = mesh[n] /\ (LooksRight(n)' <=> LooksRight(n)) /\ (n \in overtaken' <=> n \in overtaken)
              /\ \A o \in Threads : Fresh(g, o, n) => Fresh(f, o, n)'
  <2>1. mesh'[n] = mesh[n] /\ (n \in overtaken' <=> n \in overtaken)
    BY <1>3, <1>11 DEF ChunksOK, ChunkTypes
  <2>2. LooksRight(n)' <=> LooksRight(n)
    BY <1>3, <2>1 DEF LooksRight
  <2>3. \A o \in Threads : Fresh(g, o, n) => o # t
    BY <1>0, <1>5, <1>11 DEF Fresh
  <2>4. \A o \in Threads : Fresh(g, o, n) => Fresh(f, o, n)'
    BY <1>6, <1>9, <1>10, <2>3 DEF Fresh
  <2> QED BY <2>1, <2>2, <2>4
\* What is to be known of the chunk itself: it looks right now, or the older mesh is known to
\* have come later, or somebody still is to make a newer one.
<1>12. ids[c] # Absent =>
         \/ LooksRight(c)' /\ mesh'[c] = Shows(c)
         \/ c \in overtaken'
         \/ \E o \in Threads : c \in f[o].toMesh \/ Fresh(f, o, c)'
  <2> SUFFICES ASSUME ids[c] # Absent
               PROVE  \/ LooksRight(c)' /\ mesh'[c] = Shows(c)
                      \/ c \in overtaken'
                      \/ \E o \in Threads : c \in f[o].toMesh \/ Fresh(f, o, c)'
    OBVIOUS
  <2>1. mesh'[c] = draft[t]
    BY <1>3, <1>5 DEF ChunksOK, ChunkTypes
  <2>2. CASE draft[t] = Shows(c)
    <3>1. mesh'[c] = Shows(c) /\ mesh'[c] # Absent
      BY <1>5, <1>9, <2>1, <2>2, ClientThreadsAssumption DEF ChunkMeshes, ChunkContents
    <3>2. \A n \in Beside(c) : mesh'[c][n] = ids'[n]
      BY <1>3, <3>1 DEF Shows, Beside
    <3> QED BY <3>1, <3>2 DEF LooksRight
  <2>3. CASE draft[t] # Shows(c)
    <3>1. \/ mesh[c] = Shows(c) \/ c \in overtaken
          \/ \E o \in Threads : c \in g[o].toMesh \/ Fresh(g, o, c)
      BY <1>0, <1>5, <2>3 DEF ChunksOK, StaleOK
    <3>2. CASE mesh[c] = Shows(c) \/ c \in overtaken
      BY <1>3, <2>3, <3>2
    <3>3. ASSUME NEW o \in Threads, Fresh(g, o, c) PROVE Fresh(f, o, c)'
      <4>1. o # t
        BY <2>3, <3>3 DEF Fresh
      <4> QED BY <1>5, <1>6, <1>9, <1>10, <3>3, <4>1 DEF Fresh
    <3> QED BY <1>8, <3>1, <3>2, <3>3
  <2> QED BY <2>2, <2>3
<1>13. ChunkTypes'
  <2>1. draft \in [Threads -> AnyMesh \cup {Absent}] /\ mesh \in [ClientChunks -> AnyMesh \cup {Absent}]
    BY DEF ChunksOK, ChunkTypes
  <2>2. draft[t] \in AnyMesh
    BY <1>5, <1>9 DEF AnyMesh
  <2>3. draft' \in [Threads -> AnyMesh \cup {Absent}]
    BY <1>3, <2>1
  <2>4. mesh' \in [ClientChunks -> AnyMesh \cup {Absent}]
    BY <1>3, <2>1, <2>2
  <2>5. \A n \in ClientChunks : mesh'[n] \in ChunkMeshes(n) \cup {Absent}
    <3>1. ids[c] # Absent => mesh'[c] = draft[t]
      BY <1>3, <1>5, <2>1
    <3>2. ids[c] = Absent => mesh'[c] = mesh[c]
      BY <1>3
    <3>3. mesh'[c] \in ChunkMeshes(c) \cup {Absent}
      BY <1>5, <1>9, <3>1, <3>2 DEF ChunksOK, ChunkTypes
    <3> QED BY <1>11, <3>3 DEF ChunksOK, ChunkTypes
  <2>6. overtaken' \subseteq ClientChunks
    BY <1>3, <1>5 DEF ChunksOK, ChunkTypes
  <2> QED BY <1>3, <2>3, <2>4, <2>5, <2>6 DEF ChunksOK, ChunkTypes
<1>14. DueOK(f)'
  <2> SUFFICES ASSUME NEW o \in Threads
               PROVE  /\ f[o].draft # Absent => HandsOf(o)'["chunks"] \notin {0, -1} /\ draft'[o] \in ChunkMeshes(f[o].draft)
                      /\ f[o].gone # Absent => ids'[f[o].gone] = Absent
                      /\ f[o].room # Absent => ids'[f[o].room] # MaxChanges
    BY DEF DueOK
  <2>1. f[o].draft # Absent => o # t /\ f[o].draft = g[o].draft
    BY <1>6, <1>7, <1>8
  <2>2. f[o].draft # Absent => HandsOf(o)'["chunks"] \notin {0, -1} /\ draft'[o] \in ChunkMeshes(f[o].draft)
    BY <1>4, <1>9, <2>1 DEF ChunksOK, DueOK
  <2> QED BY <1>3, <1>8, <2>2 DEF ChunksOK, DueOK
<1>15. Pending(f)'
  <2> SUFFICES ASSUME NEW n \in ClientChunks, ids'[n] # Absent, n \notin overtaken'
               PROVE  \/ LooksRight(n)' \/ n \in queue'
                      \/ \E o \in Threads : n \in f[o].toQueue \/ n \in f[o].toMesh \/ Fresh(f, o, n)'
    BY DEF Pending
  <2>1. CASE n = c
    BY <1>10, <1>12, <2>1
  <2>2. CASE n # c
    <3>1. \/ LooksRight(n) \/ n \in queue
          \/ \E o \in Threads : n \in g[o].toQueue \/ n \in g[o].toMesh \/ Fresh(g, o, n)
      BY <1>10, <1>11, <2>2 DEF ChunksOK, Pending
    <3> QED BY <1>3, <1>8, <1>11, <2>2, <3>1
  <2> QED BY <2>1, <2>2
<1>16. StaleOK(f)'
  <2> SUFFICES ASSUME NEW o \in Threads, NEW n \in ClientChunks, ids'[n] # Absent, f[o].draft = n, draft'[o] # Shows(n)'
               PROVE  \/ mesh'[n] = Shows(n)' \/ n \in overtaken'
                      \/ \E x \in Threads : n \in f[x].toMesh \/ Fresh(f, x, n)'
    BY DEF StaleOK
  <2>1. CASE n = c
    BY <1>10, <1>12, <2>1
  <2>2. CASE n # c
    <3>1. o # t
      BY <1>6, <1>7, BesideNames
    <3>2. ids[n] # Absent /\ g[o].draft = n /\ draft[o] # Shows(n)
      BY <1>6, <1>9, <1>10, <3>1
    <3>3. \/ mesh[n] = Shows(n) \/ n \in overtaken
          \/ \E x \in Threads : n \in g[x].toMesh \/ Fresh(g, x, n)
      BY <3>2 DEF ChunksOK, StaleOK
    <3> QED BY <1>8, <1>10, <1>11, <2>2, <3>3
  <2> QED BY <2>1, <2>2
<1>17. ChunksOK(f)'
  BY <1>13, <1>14, <1>15, <1>16 DEF ChunksOK
<1> QED BY <1>1, <1>17 DEF After
-----------------------------------------------------------------------------
(* The invariant, and what follows from it.                                *)

ClientInv == ClientHolders /\ \E g : MayGoOn(g) /\ ChunksOK(g)

LEMMA WorkKeepsClient ==
  ASSUME NEW g, MayGoOn(g), ClientHolders, ChunksOK(g), NEW t \in Threads,
         Set(t) \/ Unsubscribe(t) \/ Queue(t) \/ Mesh(t) \/ Store(t)
  PROVE  ClientInv'
<1>1. /\ todo[t] # <<>> /\ todo[t][1].op \in WorkOps \ {"take"} /\ Moves(t) /\ UNCHANGED <<holder, readers>>
  BY DEF Set, Unsubscribe, Queue, Mesh, Store, Now, WorkOps
<1>2. PICK u : WorksAway(g, t, u)
  BY <1>1, WorkMovesOn
<1>3. ChunksOK([g EXCEPT ![t] = u])'
  BY <1>2, SetKeepsChunks, UnsubscribeKeepsChunks, QueueKeepsChunks, MeshKeepsChunks, StoreKeepsChunks
<1> QED BY <1>2, <1>3 DEF WorksAway, ClientInv

LEMMA StepKeepsClient == ClientInv /\ [ThreadsNext]_threadsVars => ClientInv'
<1> SUFFICES ASSUME ClientInv, [ThreadsNext]_threadsVars PROVE ClientInv'
  OBVIOUS
<1>1. PICK g : MayGoOn(g) /\ ChunksOK(g)
  BY DEF ClientInv
<1>2. ClientHolders
  BY DEF ClientInv
<1>3. ASSUME NEW t \in Threads, Begin(t) PROVE ClientInv'
  <2>1. PICK u : BeginsWith(g, t, u)
    BY <1>1, <1>2, <1>3, BeginMovesOn
  <2>2. ChunksOK([g EXCEPT ![t] = u])'
    BY <1>1, <1>3, <2>1, BeginKeepsChunks DEF Begin
  <2> QED BY <2>1, <2>2 DEF BeginsWith, ClientInv
<1>4. ASSUME NEW t \in Threads, Locking(t) PROVE ClientInv'
  <2>1. PICK u : MovesOn(g, t, u)
    BY <1>1, <1>2, <1>4, LockingMovesOn
  <2>2. ChunksOK([g EXCEPT ![t] = u])'
    BY <1>1, <1>4, <2>1, LockingKeepsChunks DEF Locking
  <2> QED BY <2>1, <2>2 DEF MovesOn, ClientInv
<1>5. ASSUME NEW t \in Threads, Take(t) PROVE ClientInv'
  <2>1. PICK u : TakesAll(g, t, u)
    BY <1>1, <1>2, <1>5, TakeMovesOn DEF ChunksOK, ChunkTypes
  <2>2. ChunksOK([g EXCEPT ![t] = u])'
    BY <1>1, <1>2, <1>5, <2>1, TakeKeepsChunks
  <2> QED BY <2>1, <2>2 DEF TakesAll, ClientInv
<1>6. CASE UNCHANGED threadsVars
  <2>1. UNCHANGED <<todo, holder, readers, ids, mesh, draft, queue, overtaken>>
    BY <1>6 DEF threadsVars, lockVars, chunkVars
  <2>2. \A t : HandsOf(t)' = HandsOf(t)
    BY <2>1 DEF HandsOf
  <2>3. ClientHolders' /\ MayGoOn(g)'
    BY <1>1, <1>2, <2>1, <2>2 DEF ClientHolders, MayGoOn
  <2>4. ChunksOK(g)'
    BY <1>1, <2>1, <2>2, RestKeepsChunks DEF chunkVars
  <2> QED BY <2>3, <2>4 DEF ClientInv
<1> QED BY <1>1, <1>2, <1>3, <1>4, <1>5, <1>6, WorkKeepsClient DEF ThreadsNext

LEMMA ClientInvariant == ThreadsSpec => []ClientInv
<1>1. ThreadsInit => ClientInv
  <2> SUFFICES ASSUME ThreadsInit PROVE ClientInv
    OBVIOUS
  <2>1. /\ todo = [t \in Threads |-> <<>>] /\ holder = [l \in ClientLocks |-> NoThread]
        /\ readers = [l \in ClientTables |-> [t \in Threads |-> 0]]
    BY DEF ThreadsInit, LocksFree, ClientLocks
  <2>2. ClientHolders
    BY <2>1, ClientNames DEF ClientHolders
  <2>3. \A t \in Threads : HandsOf(t) = EmptyHands
    BY <2>1, NoThreadIsNone, ClientNames DEF HandsOf, EmptyHands
  <2> DEFINE g == [t \in Threads |-> NoWork]
  <2>4. \A t \in Threads : g[t] = NoWork
    OBVIOUS
  <2>5. g \in [Threads -> Works]
    BY NoWorkParts
  <2> HIDE DEF g
  <2>6. MayGoOn(g)
    <3> SUFFICES ASSUME NEW t \in Threads
                 PROVE  /\ g[t] \in WorksOf(t) /\ HandsOf(t) \in Hands
                        /\ \E e \in {NoWork, Over} : May(t, todo[t], HandsOf(t), g[t], EmptyHands, e)
      BY <2>5 DEF MayGoOn
    <3>1. May(t, todo[t], HandsOf(t), g[t], EmptyHands, NoWork)
      BY <2>1, <2>3, <2>4, MayNothing
    <3> QED BY <2>3, <2>4, <3>1, WorkTypes
  <2>7. ChunksOK(g)
    <3>1. /\ ids = [c \in ClientChunks |-> Absent] /\ mesh = [c \in ClientChunks |-> Absent]
          /\ draft = [t \in Threads |-> Absent] /\ queue = {} /\ overtaken = {}
      BY DEF ThreadsInit, NoChunks
    <3>2. ChunkTypes
      BY <3>1 DEF ChunkTypes
    <3>3. DueOK(g)
      BY <2>4, NoWorkParts DEF DueOK
    <3>4. \A c \in ClientChunks : ids[c] = Absent
      BY <3>1
    <3> QED BY <3>2, <3>3, <3>4 DEF ChunksOK, Pending, StaleOK
  <2> QED BY <2>2, <2>6, <2>7 DEF ClientInv
<1> QED BY <1>1, StepKeepsClient, PTL DEF ThreadsSpec

\* Who has a chunk to mesh, or a draft to store, has a step to do so before it.
LEMMA MeshesAreToCome ==
  ASSUME NEW t \in Threads, NEW p, NEW h, NEW w, NEW k, NEW e \in {NoWork, Over},
         May(t, p, h, w, k, e), NEW c \in ClientChunks, c \in w.toMesh \/ w.draft = c
  PROVE  \E i \in DOMAIN p : p[i].op \in {"mesh", "store"}
<1> SUFFICES ASSUME \A i \in DOMAIN p : p[i].op \notin {"mesh", "store"} PROVE FALSE
  OBVIOUS
<1> DEFINE D == ClientMoves(t)
           Q == {n \in Hands \X WorksOf(t) : c \in n[2].toMesh \/ n[2].draft = c}
<1>1. p \in Seq(ClientStep)
  BY MaySteps
<1>2. p # <<>>
  <2>1. e.toMesh = {} /\ e.draft = Absent
    BY NoWorkParts DEF Over, Works
  <2> QED BY <2>1, MayEnd, BesideNames
<1>3. h \in Hands /\ w \in WorksOf(t)
  BY <1>2, MayTail
<1>4. <<h, w>> \in Q
  BY <1>3
<1>5. ASSUME NEW j \in 1 .. Len(p), NEW d \in D, d[1] = p[j], d[2] \in Q PROVE d[3] \in Q
  <2>1. PICK s : s = d[1]
    OBVIOUS
  <2>2. /\ s \in ClientStep /\ d[2] \in Hands \X WorksOf(t) /\ d[3] \in Hands \X WorksOf(t)
        /\ MovesLock(t, s, d[2][1], d[2][2], d[3][1], d[3][2]) \/ MovesWork(t, s, d[2][1], d[2][2], d[3][2])
    BY <1>5, <2>1 DEF ClientMoves
  <2>3. PICK h1 \in Hands, w1 \in WorksOf(t), h2 \in Hands, w2 \in WorksOf(t) :
          d[2][1] = h1 /\ d[2][2] = w1 /\ d[3][1] = h2 /\ d[3][2] = w2
    BY <2>2
  <2>4. s.op \notin {"mesh", "store"}
    BY <1>1, <1>5, <2>1
  <2>5. w1 \in Works /\ w2 \in Works /\ (c \in w1.toMesh \/ w1.draft = c)
    BY <1>5, <2>3, WorkTypes
  <2>6. c \in w2.toMesh \/ w2.draft = c
    <3>1. CASE MovesLock(t, s, h1, w1, h2, w2)
      BY <2>2, <2>5, <3>1, LockMovesWork
    <3>2. CASE MovesWork(t, s, h1, w1, w2)
      <4>1. w1 # NoWork
        BY <2>5, NoWorkParts, BesideNames
      <4>2. WorksOn(t, s, h1, w1, w2)
        BY <3>2, <4>1 DEF MovesWork
      <4>3. w2.draft = w1.draft /\ w1.toMesh \subseteq w2.toMesh
        <5>1. CASE s.op = "set"
          <6>1. CASE w2 = [w1 EXCEPT !.room = Absent, !.gone = Absent, !.toQueue = w1.toQueue \cup Beside(s.on)]
            BY <2>5, <6>1 DEF Works
          <6>2. CASE w2 = [w1 EXCEPT !.room = Absent, !.gone = Absent, !.toMesh = w1.toMesh \cup Beside(s.on)]
            BY <2>5, <6>2 DEF Works
          <6> QED BY <4>2, <5>1, <6>1, <6>2 DEF WorksOn
        <5>2. CASE s.op # "set"
          <6>1. \/ w2 = [w1 EXCEPT !.gone = s.on] \/ w2 = [w1 EXCEPT !.gone = Absent]
                \/ w2 = [w1 EXCEPT !.toQueue = w1.toQueue \ {s.on}]
            BY <2>4, <4>2, <5>2 DEF WorksOn
          <6> QED BY <2>5, <6>1 DEF Works
        <5> QED BY <5>1, <5>2
      <4> QED BY <2>5, <4>3
    <3> QED BY <2>2, <2>3, <3>1, <3>2
  <2> QED BY <2>2, <2>3, <2>6
<1>6. Leads(D, p, <<h, w>>, <<k, e>>)
  BY DEF May
<1> HIDE DEF D, Q
<1>7. <<k, e>> \in Q
  BY <1>4, <1>5, <1>6, LeadsWithin
<1> QED BY <1>7, NoWorkParts, BesideNames DEF Q, Over, Works

LEMMA SettledIsCurrent == ClientInv => MeshIsCurrent
<1> SUFFICES ASSUME ClientInv, Settled, NEW c \in ClientChunks, ids[c] # Absent, c \notin overtaken
             PROVE  mesh[c] # Absent /\ \A n \in DOMAIN Shows(c) : ids[n] # Absent => mesh[c][n] = ids[n]
  BY DEF MeshIsCurrent
<1>1. PICK g : MayGoOn(g) /\ ChunksOK(g)
  BY DEF ClientInv
<1>2. DOMAIN Shows(c) = Beside(c)
  BY DEF Shows, Beside
<1>3. ASSUME NEW t \in Threads PROVE ~(c \in g[t].toQueue \/ c \in g[t].toMesh \/ Fresh(g, t, c))
  <2>1. PICK e \in {NoWork, Over} : May(t, todo[t], HandsOf(t), g[t], EmptyHands, e)
    BY <1>1 DEF MayGoOn
  <2>2. g[t] \in WorksOf(t) /\ c # Absent
    BY <1>1, BesideNames DEF MayGoOn
  <2>3. CASE t = "window"
    BY <2>2, <2>3 DEF WorksOf, Fresh
  <2>4. CASE t = "inbound"
    <3>1. g[t] \in {NoWork, Over}
      BY <2>1, <2>4, MayEnd DEF Settled
    <3>2. Over.draft = Absent /\ Over.toQueue = {} /\ Over.toMesh = {}
      BY NoWorkParts DEF Over, Works
    <3> QED BY <2>2, <3>1, <3>2, NoWorkParts DEF Fresh
  <2>5. CASE t = "worker"
    <3>1. g[t].toQueue = {}
      BY <2>2, <2>5 DEF WorksOf
    <3>2. ~(c \in g[t].toMesh \/ g[t].draft = c)
      BY <2>1, <2>5, MeshesAreToCome DEF Settled
    <3> QED BY <3>1, <3>2 DEF Fresh
  <2> QED BY <2>3, <2>4, <2>5, ClientThreadsAssumption
<1>4. LooksRight(c)
  BY <1>1, <1>3 DEF ChunksOK, Pending, Settled
<1> QED BY <1>2, <1>4 DEF LooksRight

\* ThreadsSpec: each lock of the client is held by at most one thread, and read or written, never
\* both; and what is queued, drawn and drafted are chunks and meshes of them.
THEOREM ClientThreadsTypes == ThreadsSpec => []ThreadsTypeOK
<1>1. ClientInv => ThreadsTypeOK
  <2> SUFFICES ASSUME ClientInv PROVE ThreadsTypeOK
    OBVIOUS
  <2>1. ClientHolders /\ ChunkTypes
    BY DEF ClientInv, ChunksOK
  <2>2. LocksOK(LockOps \cup WorkOps, ClientMutexes, ClientTables)
    BY <2>1 DEF ClientHolders, LocksOK, ClientStep, ClientLocks
  <2> QED BY <2>1, <2>2 DEF ChunkTypes, AnyMesh, ThreadsTypeOK
<1> QED BY <1>1, ClientInvariant, PTL

\* ThreadsSpec: for any chunks and neighbours, the window thread, the inbound loop and the mesh
\* worker never wait for each other in a circle, nor one for itself.
THEOREM ClientHasNoLockCycle == ThreadsSpec => []NoLockCycle
<1>1. ClientInv => NoLockCycle
  BY NoThreadWaitsInCircle DEF ClientInv
<1> QED BY <1>1, ClientInvariant, PTL

\* ThreadsSpec: for any chunks, neighbours and number of changes, once the queue is empty and
\* nobody is meshing, every chunk looks as it is, but for those whose newer mesh was overtaken.
THEOREM ClientMeshIsCurrent == ThreadsSpec => []MeshIsCurrent
BY ClientInvariant, SettledIsCurrent, PTL
=============================================================================
