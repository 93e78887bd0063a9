-------------------------- MODULE ClientSyncProofs --------------------------
(***************************************************************************)
(* Theorems about ClientSync, for any number of chunks, blocks and places  *)
(* and any size of the batches and channels.                               *)
(***************************************************************************)
EXTENDS ClientSync, NaturalsInduction, WellFoundedInduction, TLAPS

-----------------------------------------------------------------------------
(* Sequences *)

\* A message put at the end of a channel leaves those before it in place.
LEMMA AppendAt ==
  ASSUME NEW M, NEW w \in Seq(M), NEW m \in M
  PROVE  /\ Append(w, m) \in Seq(M)
         /\ Len(w) \in Nat
         /\ Len(Append(w, m)) = Len(w) + 1
         /\ \A i \in 1 .. Len(w) : Append(w, m)[i] = w[i]
         /\ Append(w, m)[Len(w) + 1] = m
OBVIOUS

\* Taking the first message moves the others up by one.
LEMMA TailAt ==
  ASSUME NEW M, NEW w \in Seq(M), w # <<>>
  PROVE  /\ Tail(w) \in Seq(M)
         /\ Len(w) \in Nat \ {0}
         /\ Len(Tail(w)) = Len(w) - 1
         /\ \A i \in 1 .. Len(w) - 1 : Tail(w)[i] = w[i + 1]
         /\ Head(w) = w[1] /\ Head(w) \in M
OBVIOUS

\* A nonempty set of positions has a last one.
Less == {ss \in Nat \X Nat : ss[1] < ss[2]}

LEMMA LastOf ==
  ASSUME NEW n \in Nat, NEW T \in SUBSET (1 .. n), T # {}
  PROVE  \E i \in T : \A j \in T : j <= i
<1> DEFINE U == {n - i : i \in T}
<1>1. \A i \in T : n - i \in Nat
  OBVIOUS
<1>2. U \subseteq Nat /\ U # {}
  BY <1>1
<1>3. IsWellFoundedOn(Less, Nat)
  <2>1. Less = OpToRel(<, Nat)
    BY DEF Less, OpToRel
  <2> QED BY <2>1, NatLessThanWellFounded
<1>4. PICK m \in U : \A y \in U : ~(<<y, m>> \in Less)
  <2> HIDE DEF U
  <2> QED BY <1>2, <1>3, WFMin
<1>5. PICK i \in T : m = n - i
  OBVIOUS
<1>6. ASSUME NEW j \in T
      PROVE  j <= i
  <2>1. n - j \in U
    OBVIOUS
  <2>2. ~(n - j < m)
    BY <1>4, <2>1, <1>2 DEF Less
  <2> QED BY <2>2, <1>5
<1> QED BY <1>6

-----------------------------------------------------------------------------
(* What a sequence of updates says of a block *)

\* Touched, without the range of a function.
LEMMA TouchedBy ==
  ASSUME NEW s \in Seq(Update)
  PROVE  Touched(s) = {s[i].block : i \in 1 .. Len(s)}
BY DEF Touched, Range

\* After is the id of the last update of the block.
LEMMA AfterIsLast ==
  ASSUME NEW s \in Seq(Update), NEW k \in 1 .. Len(s), NEW id,
         \A j \in k + 1 .. Len(s) : s[j].block # s[k].block
  PROVE  After(s, s[k].block, id) = s[k].id
<1> DEFINE about == {i \in DOMAIN s : s[i].block = s[k].block}
<1>1. k \in about /\ \A j \in about : j <= k
  OBVIOUS
<1>2. \A i \in about : (\A j \in about : j <= i) => i = k
  BY <1>1
<1>3. (CHOOSE i \in about : \A j \in about : j <= i) = k
  BY <1>1, <1>2
<1> QED BY <1>1, <1>3 DEF After

\* A block that is touched has a last update.
LEMMA LastUpdate ==
  ASSUME NEW s \in Seq(Update), NEW b \in Touched(s)
  PROVE  \E k \in 1 .. Len(s) :
           s[k].block = b /\ \A j \in k + 1 .. Len(s) : s[j].block # b
<1> DEFINE T == {i \in 1 .. Len(s) : s[i].block = b}
<1>1. T # {} /\ T \subseteq 1 .. Len(s) /\ Len(s) \in Nat
  BY TouchedBy
<1>2. PICK i \in T : \A j \in T : j <= i
  <2> HIDE DEF T
  <2> QED BY <1>1, LastOf
<1> QED BY <1>2

LEMMA AfterTouched ==
  ASSUME NEW s \in Seq(Update), NEW b \in Touched(s), NEW x, NEW y
  PROVE  After(s, b, x) = After(s, b, y)
<1>1. PICK k \in 1 .. Len(s) :
        s[k].block = b /\ \A j \in k + 1 .. Len(s) : s[j].block # b
  BY LastUpdate
<1> QED BY <1>1, AfterIsLast

LEMMA AfterUntouched ==
  ASSUME NEW s \in Seq(Update), NEW b, b \notin Touched(s), NEW x
  PROVE  After(s, b, x) = x
<1> DEFINE about == {i \in DOMAIN s : s[i].block = b}
<1>1. about = {}
  BY TouchedBy
<1> QED BY <1>1 DEF After

LEMMA AfterAppend ==
  ASSUME NEW s \in Seq(Update), NEW u \in Update, NEW b, NEW x
  PROVE  /\ Touched(Append(s, u)) = Touched(s) \cup {u.block}
         /\ After(Append(s, u), u.block, x) = u.id
         /\ b # u.block => After(Append(s, u), b, x) = After(s, b, x)
<1> DEFINE t == Append(s, u)
<1>1. /\ t \in Seq(Update) /\ Len(t) = Len(s) + 1 /\ Len(s) \in Nat
      /\ \A i \in 1 .. Len(s) : t[i] = s[i]
      /\ t[Len(s) + 1] = u
  BY AppendAt
<1> HIDE DEF t
<1>2. Touched(t) = Touched(s) \cup {u.block}
  <2>1. Touched(t) = {t[i].block : i \in 1 .. Len(t)}
    BY <1>1, TouchedBy
  <2>2. Touched(s) = {s[i].block : i \in 1 .. Len(s)}
    BY TouchedBy
  <2>3. 1 .. Len(t) = 1 .. Len(s) \cup {Len(s) + 1}
    BY <1>1
  <2> QED BY <2>1, <2>2, <2>3, <1>1
<1>3. After(t, u.block, x) = u.id
  <2>1. Len(t) \in 1 .. Len(t) /\ t[Len(t)] = u
    BY <1>1
  <2>2. \A j \in Len(t) + 1 .. Len(t) : t[j].block # t[Len(t)].block
    BY <1>1
  <2> QED BY <1>1, <2>1, <2>2, AfterIsLast
<1>4. ASSUME b # u.block
      PROVE  After(t, b, x) = After(s, b, x)
  <2>1. CASE b \in Touched(s)
    <3>1. PICK k \in 1 .. Len(s) :
            s[k].block = b /\ \A j \in k + 1 .. Len(s) : s[j].block # b
      BY <2>1, LastUpdate
    <3>2. After(s, b, x) = s[k].id
      BY <3>1, AfterIsLast
    <3>3. k \in 1 .. Len(t) /\ t[k] = s[k]
      BY <1>1
    <3>4. \A j \in k + 1 .. Len(t) : t[j].block # b
      BY <1>1, <1>4, <3>1
    <3>5. t \in Seq(Update) /\ t[k].block = b
      BY <1>1, <3>1, <3>3
    <3>6. \A j \in k + 1 .. Len(t) : t[j].block # t[k].block
      BY <3>4, <3>5
    <3>7. After(t, t[k].block, x) = t[k].id
      BY <3>3, <3>5, <3>6, AfterIsLast
    <3> QED BY <3>2, <3>3, <3>5, <3>7
  <2>2. CASE b \notin Touched(s)
    BY <1>1, <1>2, <1>4, <2>2, AfterUntouched
  <2> QED BY <2>1, <2>2
<1> QED BY <1>2, <1>3, <1>4 DEF t

LEMMA AfterTail ==
  ASSUME NEW s \in Seq(Update), s # <<>>, NEW x
  PROVE  /\ Touched(s) = Touched(Tail(s)) \cup {Head(s).block}
         /\ Head(s).block \notin Touched(Tail(s)) => After(s, Head(s).block, x) = Head(s).id
         /\ \A b \in Touched(Tail(s)) : After(Tail(s), b, x) = After(s, b, x)
<1> DEFINE t == Tail(s)
<1>1. /\ t \in Seq(Update) /\ Len(t) = Len(s) - 1 /\ Len(s) \in Nat \ {0}
      /\ \A i \in 1 .. Len(s) - 1 : t[i] = s[i + 1]
      /\ Head(s) = s[1]
  BY TailAt
<1> HIDE DEF t
<1>2. Touched(s) = {s[i].block : i \in 1 .. Len(s)} /\ Touched(t) = {t[i].block : i \in 1 .. Len(t)}
  BY <1>1, TouchedBy
<1>3. Touched(s) = Touched(t) \cup {Head(s).block}
  <2>1. \A i \in 1 .. Len(t) : i + 1 \in 1 .. Len(s) /\ t[i] = s[i + 1]
    BY <1>1
  <2>2. \A i \in 1 .. Len(s) : i = 1 \/ (i - 1 \in 1 .. Len(t) /\ t[i - 1] = s[i])
    BY <1>1
  <2>3. 1 \in 1 .. Len(s)
    BY <1>1
  <2> QED BY <1>1, <1>2, <2>1, <2>2, <2>3
<1>4. ASSUME Head(s).block \notin Touched(t)
      PROVE  After(s, Head(s).block, x) = Head(s).id
  <2>1. \A j \in 1 + 1 .. Len(s) : s[j].block # s[1].block
    <3>1. \A j \in 1 + 1 .. Len(s) : j - 1 \in 1 .. Len(t) /\ t[j - 1] = s[j]
      BY <1>1
    <3>2. \A j \in 1 + 1 .. Len(s) : s[j].block \in Touched(t)
      BY <1>2, <3>1
    <3> QED BY <1>1, <1>4, <3>2
  <2>2. 1 \in 1 .. Len(s)
    BY <1>1
  <2>3. After(s, s[1].block, x) = s[1].id
    BY <2>1, <2>2, AfterIsLast
  <2> QED BY <1>1, <2>3
<1>5. ASSUME NEW b \in Touched(t)
      PROVE  After(t, b, x) = After(s, b, x)
  <2>1. PICK k \in 1 .. Len(t) :
          t[k].block = b /\ \A j \in k + 1 .. Len(t) : t[j].block # b
    BY <1>1, LastUpdate
  <2>2. After(t, b, x) = t[k].id
    BY <1>1, <2>1, AfterIsLast
  <2>3. k + 1 \in 1 .. Len(s) /\ s[k + 1] = t[k]
    BY <1>1
  <2>4. \A j \in (k + 1) + 1 .. Len(s) : j - 1 \in k + 1 .. Len(t) /\ t[j - 1] = s[j]
    BY <1>1
  <2>5. \A j \in (k + 1) + 1 .. Len(s) : s[j].block # b
    BY <2>1, <2>4
  <2>6. After(s, b, x) = s[k + 1].id
    BY <2>1, <2>3, <2>5, AfterIsLast
  <2> QED BY <2>2, <2>3, <2>6
<1> QED BY <1>3, <1>4, <1>5 DEF t

-----------------------------------------------------------------------------
(* What the client has when it comes to a message *)

\* What is sent later makes no difference to what the client has earlier.
LEMMA HeldBefore ==
  ASSUME NEW w \in Seq(Message), NEW m \in Message, NEW have, NEW c,
         NEW i \in 1 .. Len(w) + 1
  PROVE  Held(Append(w, m), have, i, c) <=> Held(w, have, i, c)
<1> DEFINE v == Append(w, m)
<1>1. Len(w) \in Nat /\ \A j \in 1 .. Len(w) : v[j] = w[j]
  BY AppendAt
<1> HIDE DEF v
<1>2. \A j \in 1 .. i - 1 : v[j] = w[j]
  BY <1>1
<1>3. \A j \in 1 .. i - 1 : \A k \in j + 1 .. i - 1 : v[k] = w[k]
  BY <1>2
<1> QED BY <1>2, <1>3 DEF Held, v

LEMMA HeldGiven ==
  ASSUME NEW w \in Seq(Message), NEW m \in Message, NEW have, NEW c, Gives(m, c)
  PROVE  Held(Append(w, m), have, Len(Append(w, m)) + 1, c)
<1> DEFINE v == Append(w, m)
<1>1. Len(w) \in Nat /\ Len(v) = Len(w) + 1 /\ v[Len(v)] = m
  BY AppendAt
<1> HIDE DEF v
<1>2. Len(v) \in 1 .. (Len(v) + 1) - 1 /\ Gives(v[Len(v)], c)
  BY <1>1
<1>3. \A k \in Len(v) + 1 .. (Len(v) + 1) - 1 : ~Takes(v[k], c)
  BY <1>1
<1> QED BY <1>2, <1>3 DEF Held, v

LEMMA HeldKept ==
  ASSUME NEW w \in Seq(Message), NEW m \in Message, NEW have, NEW c,
         ~Takes(m, c), Held(w, have, Len(w) + 1, c)
  PROVE  Held(Append(w, m), have, Len(Append(w, m)) + 1, c)
<1> DEFINE v == Append(w, m)
           n == Len(w)
<1>1. /\ n \in Nat /\ Len(v) = n + 1 /\ v[n + 1] = m
      /\ \A j \in 1 .. n : v[j] = w[j]
  BY AppendAt
<1> HIDE DEF v
<1>2. (n + 1) - 1 = n /\ (Len(v) + 1) - 1 = n + 1
  BY <1>1
<1>3. CASE c \in have /\ \A j \in 1 .. n : ~Takes(w[j], c)
  <2>1. \A j \in 1 .. n + 1 : ~Takes(v[j], c)
    BY <1>1, <1>3
  <2> QED BY <1>2, <1>3, <2>1 DEF Held, v
<1>4. CASE \E j \in 1 .. n : Gives(w[j], c) /\ \A k \in j + 1 .. n : ~Takes(w[k], c)
  <2>1. PICK j \in 1 .. n : Gives(w[j], c) /\ \A k \in j + 1 .. n : ~Takes(w[k], c)
    BY <1>4
  <2>2. j \in 1 .. n + 1 /\ Gives(v[j], c)
    BY <1>1, <2>1
  <2>3. \A k \in j + 1 .. n + 1 : ~Takes(v[k], c)
    BY <1>1, <2>1
  <2> QED BY <1>2, <2>2, <2>3 DEF Held, v
<1> QED BY <1>2, <1>3, <1>4 DEF Held

\* When the client has handled the first message, it has what it will have.
LEMMA HeldAfter ==
  ASSUME NEW w \in Seq(Message), w # <<>>, NEW have, NEW now, NEW c,
         NEW i \in 1 .. Len(w),
         Held(w, have, i + 1, c),
         (c \in have \/ Gives(w[1], c)) /\ ~Takes(w[1], c) => c \in now
  PROVE  Held(Tail(w), now, i, c)
<1> DEFINE v == Tail(w)
<1>1. /\ Len(w) \in Nat \ {0} /\ Len(v) = Len(w) - 1
      /\ \A j \in 1 .. Len(w) - 1 : v[j] = w[j + 1]
  BY TailAt
<1> HIDE DEF v
<1>2. (i + 1) - 1 = i /\ i \in Nat \ {0}
  BY <1>1
<1>3. \A j \in 1 .. i - 1 : v[j] = w[j + 1] /\ j + 1 \in 1 .. i
  BY <1>1
<1>4. CASE c \in have /\ \A j \in 1 .. i : ~Takes(w[j], c)
  <2>1. 1 \in 1 .. i
    BY <1>2
  <2>2. c \in now
    BY <1>4, <2>1
  <2>3. \A j \in 1 .. i - 1 : ~Takes(v[j], c)
    BY <1>3, <1>4
  <2> QED BY <2>2, <2>3 DEF Held, v
<1>5. CASE \E j \in 1 .. i : Gives(w[j], c) /\ \A k \in j + 1 .. i : ~Takes(w[k], c)
  <2>1. PICK j \in 1 .. i : Gives(w[j], c) /\ \A k \in j + 1 .. i : ~Takes(w[k], c)
    BY <1>5
  <2>2. CASE j = 1
    <3>1. c \in now
      BY <2>1, <2>2 DEF Gives, Takes
    <3>2. \A k \in 1 .. i - 1 : ~Takes(v[k], c)
      <4>1. \A k \in 1 .. i - 1 : k + 1 \in j + 1 .. i
        BY <2>2, <1>2
      <4> QED BY <1>3, <2>1, <4>1
    <3> QED BY <3>1, <3>2 DEF Held, v
  <2>3. CASE j # 1
    <3>1. j - 1 \in 1 .. i - 1 /\ v[j - 1] = w[j]
      <4>1. j - 1 \in 1 .. i - 1 /\ (j - 1) + 1 = j
        BY <1>2, <2>3
      <4> QED BY <1>3, <4>1
    <3>2. \A k \in (j - 1) + 1 .. i - 1 : ~Takes(v[k], c)
      <4>1. \A k \in (j - 1) + 1 .. i - 1 : k \in 1 .. i - 1 /\ k + 1 \in j + 1 .. i
        BY <1>2
      <4> QED BY <1>3, <2>1, <4>1
    <3> QED BY <2>1, <3>1, <3>2 DEF Held, v
  <2> QED BY <2>2, <2>3
<1> QED BY <1>2, <1>4, <1>5 DEF Held

\* A message that fits at the end, after messages that fit.
LEMMA FitsAppend ==
  ASSUME NEW w \in Seq(Message), NEW m \in Message, NEW have,
         \A i \in 1 .. Len(w) : Fits(w, have, i),
         m.type = "MapDeltaUpdate" =>
           \A c \in ChunksOf(m.updates) : Held(w, have, Len(w) + 1, c),
         m.type = "MapChunkUnsubscribe" =>
           \A c \in m.chunks : Held(w, have, Len(w) + 1, c)
  PROVE  \A i \in 1 .. Len(Append(w, m)) : Fits(Append(w, m), have, i)
<1> DEFINE v == Append(w, m)
<1>1. /\ Len(w) \in Nat /\ Len(v) = Len(w) + 1 /\ v[Len(w) + 1] = m
      /\ \A j \in 1 .. Len(w) : v[j] = w[j]
  BY AppendAt
<1>2. \A i \in 1 .. Len(w) + 1 : \A c : Held(v, have, i, c) <=> Held(w, have, i, c)
  BY HeldBefore
<1> HIDE DEF v
<1>3. ASSUME NEW i \in 1 .. Len(w)
      PROVE  Fits(v, have, i)
  <2>1. Fits(w, have, i) /\ v[i] = w[i] /\ i \in 1 .. Len(w) + 1
    BY <1>1
  <2> QED BY <1>2, <2>1 DEF Fits
<1>4. Fits(v, have, Len(w) + 1)
  <2>1. Len(w) + 1 \in 1 .. Len(w) + 1
    BY <1>1
  <2> QED BY <1>1, <1>2, <2>1 DEF Fits
<1>5. \A i \in 1 .. Len(v) : i \in 1 .. Len(w) \/ i = Len(w) + 1
  BY <1>1
<1> QED BY <1>3, <1>4, <1>5 DEF v

\* The other messages still fit when the first has been handled.
LEMMA FitsAfter ==
  ASSUME NEW w \in Seq(Message), w # <<>>, NEW have, NEW now,
         \A i \in 1 .. Len(w) : Fits(w, have, i),
         \A c : (c \in have \/ Gives(w[1], c)) /\ ~Takes(w[1], c) => c \in now
  PROVE  \A i \in 1 .. Len(Tail(w)) : Fits(Tail(w), now, i)
<1> DEFINE v == Tail(w)
<1>1. /\ Len(w) \in Nat \ {0} /\ Len(v) = Len(w) - 1
      /\ \A j \in 1 .. Len(w) - 1 : v[j] = w[j + 1]
  BY TailAt
<1>2. \A i \in 1 .. Len(w) : \A c : Held(w, have, i + 1, c) => Held(v, now, i, c)
  BY HeldAfter
<1> HIDE DEF v
<1>3. ASSUME NEW i \in 1 .. Len(v)
      PROVE  Fits(v, now, i)
  <2>1. i \in 1 .. Len(w) /\ i + 1 \in 1 .. Len(w) /\ v[i] = w[i + 1]
    BY <1>1
  <2>2. Fits(w, have, i + 1)
    BY <2>1
  <2> QED BY <1>2, <2>1, <2>2 DEF Fits
<1> QED BY <1>3 DEF v

-----------------------------------------------------------------------------
(* What the client will have for a block *)

\* Later updates of other blocks leave it right; one of this block must be right.
LEMMA RightAppend ==
  ASSUME wire \in Seq(Message), NEW m \in Message, NEW b \in Blocks,
         wire' = Append(wire, m), UNCHANGED <<world, client>>,
         Tells(m, b) => Told(m, b) = world[b],
         Tells(m, b) \/ WillBeRight(b)
  PROVE  WillBeRight(b)'
<1>n. PICK n : n = Len(wire)
  OBVIOUS
<1>1. /\ n \in Nat /\ Len(wire') = n + 1 /\ wire'[n + 1] = m
      /\ \A j \in 1 .. n : wire'[j] = wire[j]
  BY <1>n, AppendAt
<1>2. CASE Tells(m, b)
  <2>1. n + 1 \in 1 .. Len(wire') /\ \A j \in (n + 1) + 1 .. Len(wire') : ~Tells(wire[j], b)'
    BY <1>1
  <2>2. Tells(wire[n + 1], b)' /\ Told(wire[n + 1], b)' = world'[b]
    BY <1>1, <1>2 DEF Told, Tells, Gives
  <2> QED BY <2>1, <2>2 DEF WillBeRight, Tells, Gives
<1>3. CASE ~Tells(m, b)
  <2>1. CASE \E i \in 1 .. n : /\ Tells(wire[i], b) /\ Told(wire[i], b) = world[b]
                               /\ \A j \in i + 1 .. n : ~Tells(wire[j], b)
    <3>1. PICK i \in 1 .. n : /\ Tells(wire[i], b) /\ Told(wire[i], b) = world[b]
                              /\ \A j \in i + 1 .. n : ~Tells(wire[j], b)
      BY <2>1
    <3>2. i \in 1 .. Len(wire') /\ wire'[i] = wire[i]
      BY <1>1
    <3>3. \A j \in i + 1 .. Len(wire') : ~Tells(wire[j], b)'
      BY <1>1, <1>3, <3>1
    <3>4. Tells(wire[i], b)' /\ Told(wire[i], b)' = world'[b]
      BY <3>1, <3>2 DEF Told, Tells, Gives
    <3> QED BY <3>2, <3>3, <3>4 DEF WillBeRight, Tells, Gives
  <2>2. CASE /\ \A i \in 1 .. n : ~Tells(wire[i], b)
             /\ ChunkOf[b] \in DOMAIN client /\ client[ChunkOf[b]][b] = world[b]
    <3>1. \A i \in 1 .. Len(wire') : ~Tells(wire[i], b)'
      BY <1>1, <1>3, <2>2
    <3> QED BY <2>2, <3>1 DEF WillBeRight, Tells, Gives
  <2> QED BY <1>n, <1>3, <2>1, <2>2 DEF WillBeRight
<1> QED BY <1>2, <1>3

\* Handling the first message makes good what it told, unless it takes the
\* chunk away.
LEMMA RightAfter ==
  ASSUME wire \in Seq(Message), wire # <<>>, wire' = Tail(wire), world' = world,
         NEW b \in Blocks, WillBeRight(b),
         Tells(wire[1], b) => /\ ChunkOf[b] \in DOMAIN client'
                              /\ client'[ChunkOf[b]][b] = Told(wire[1], b),
         ChunkOf[b] \in DOMAIN client /\ ~Tells(wire[1], b)
           /\ (\A i \in 1 .. Len(wire) : ~Tells(wire[i], b))
           => /\ ChunkOf[b] \in DOMAIN client'
              /\ client'[ChunkOf[b]][b] = client[ChunkOf[b]][b]
  PROVE  WillBeRight(b)'
<1> DEFINE n == Len(wire)
<1>1. /\ n \in Nat \ {0} /\ Len(wire') = n - 1 /\ 1 \in 1 .. n
      /\ \A j \in 1 .. n - 1 : wire'[j] = wire[j + 1] /\ j + 1 \in 1 .. n
  BY TailAt
<1>2. CASE \E i \in 1 .. n : /\ Tells(wire[i], b) /\ Told(wire[i], b) = world[b]
                             /\ \A j \in i + 1 .. n : ~Tells(wire[j], b)
  <2>1. PICK i \in 1 .. n : /\ Tells(wire[i], b) /\ Told(wire[i], b) = world[b]
                            /\ \A j \in i + 1 .. n : ~Tells(wire[j], b)
    BY <1>2
  <2>2. CASE i = 1
    <3>1. \A j \in 1 .. Len(wire') : ~Tells(wire[j], b)'
      <4>1. \A j \in 1 .. n - 1 : j + 1 \in i + 1 .. n
        BY <2>2, <1>1
      <4> QED BY <1>1, <2>1, <4>1
    <3> QED BY <2>1, <2>2, <3>1 DEF WillBeRight, Tells, Gives
  <2>3. CASE i # 1
    <3>1. i - 1 \in 1 .. Len(wire') /\ wire'[i - 1] = wire[i]
      <4>1. i - 1 \in 1 .. n - 1 /\ (i - 1) + 1 = i
        BY <1>1, <2>3
      <4> QED BY <1>1, <4>1
    <3>2. \A j \in (i - 1) + 1 .. Len(wire') : ~Tells(wire[j], b)'
      <4>1. \A j \in (i - 1) + 1 .. n - 1 : j \in 1 .. n - 1 /\ j + 1 \in i + 1 .. n
        BY <1>1
      <4> QED BY <1>1, <2>1, <4>1
    <3>3. Tells(wire[i - 1], b)' /\ Told(wire[i - 1], b)' = world'[b]
      BY <2>1, <3>1 DEF Told, Tells, Gives
    <3> QED BY <3>1, <3>2, <3>3 DEF WillBeRight, Tells, Gives
  <2> QED BY <2>2, <2>3
<1>3. CASE /\ \A i \in 1 .. n : ~Tells(wire[i], b)
           /\ ChunkOf[b] \in DOMAIN client /\ client[ChunkOf[b]][b] = world[b]
  <2>1. \A j \in 1 .. Len(wire') : ~Tells(wire[j], b)'
    BY <1>1, <1>3
  <2>2. ChunkOf[b] \in DOMAIN client' /\ client'[ChunkOf[b]][b] = world'[b]
    BY <1>1, <1>3
  <2> QED BY <2>1, <2>2 DEF WillBeRight, Tells, Gives
<1> QED BY <1>2, <1>3 DEF WillBeRight

-----------------------------------------------------------------------------
(* Types *)

LEMMA MessageTypes ==
  /\ \A full \in FullChunk : ChunkMessage(full) \in Message
  /\ \A updates \in Seq(Update) : DeltaMessage(updates) \in Message
  /\ \A cs \in SUBSET Chunks : UnsubscribeMessage(cs) \in Message
  /\ AckMessage \in Message
BY DEF Message, ChunkMessage, DeltaMessage, UnsubscribeMessage, AckMessage

LEMMA FullChunkType ==
  ASSUME NEW full
  PROVE  full \in FullChunk <=>
           \E c \in Chunks : full \in [chunk : {c}, content : Content(c)]
BY DEF FullChunk

LEMMA FetchedType ==
  ASSUME world \in [Blocks -> Ids], NEW c \in Chunks
  PROVE  /\ Fetched(c) \in FullChunk
         /\ Fetched(c).chunk = c
         /\ \A b \in BlocksIn(c) : Fetched(c).content[b] = world[b]
<1>1. [b \in BlocksIn(c) |-> world[b]] \in Content(c)
  BY DEF Content, BlocksIn
<1> QED BY <1>1, FullChunkType DEF Fetched

LEMMA FullChunkParts ==
  ASSUME NEW full \in FullChunk
  PROVE  full.chunk \in Chunks /\ full.content \in Content(full.chunk)
BY FullChunkType

LEMMA TouchedType ==
  ASSUME NEW s \in Seq(Update)
  PROVE  /\ Touched(s) \subseteq Blocks /\ ChunksOf(s) \subseteq Chunks
         /\ s = <<>> => Touched(s) = {}
         /\ \A b \in Touched(s) : ChunkOf[b] \in ChunksOf(s)
<1>1. Touched(s) = {s[i].block : i \in 1 .. Len(s)}
  BY TouchedBy
<1>2. \A i \in 1 .. Len(s) : s[i].block \in Blocks
  <2>1. \A i \in 1 .. Len(s) : s[i] \in Update
    OBVIOUS
  <2> QED BY <2>1 DEF Update
<1> QED BY <1>1, <1>2, ClientSyncAssumption DEF ChunksOf

LEMMA BlocksInOwnChunk ==
  ASSUME NEW b \in Blocks
  PROVE  /\ ChunkOf[b] \in Chunks
         /\ \A c : b \in BlocksIn(c) <=> c = ChunkOf[b]
BY ClientSyncAssumption DEF BlocksIn

-----------------------------------------------------------------------------
(* What an action leaves alone *)

LEMMA WireFrame ==
  ASSUME UNCHANGED <<wire, client>>
  PROVE  /\ WireFits <=> WireFits'
         /\ \A c : Held(wire, DOMAIN client, Len(wire) + 1, c)'
                     <=> Held(wire, DOMAIN client, Len(wire) + 1, c)
BY DEF WireFits, Fits, Held, Gives, Takes

LEMMA AcksFrame ==
  ASSUME UNCHANGED <<wire, uplink, inbound, withheld>>
  PROVE  AcksOK <=> AcksOK'
BY DEF AcksOK

LEMMA RightFrame ==
  ASSUME UNCHANGED <<world, wire, client>>, NEW b
  PROVE  WillBeRight(b) <=> WillBeRight(b)'
BY DEF WillBeRight, Tells, Told, Gives

\* An action of the loop that neither sends nor tells it more about the client.
LEMMA LoopFrame ==
  ASSUME UNCHANGED <<world, wire, client>>, WireFits, KnownIsHeld, KnownWillBeRight,
         (known \ InHand)' \subseteq known \ InHand,
         unsub' \subseteq (known \ InHand) \cup unsub,
         \A c \in (known \ InHand)' : \A b \in BlocksIn(c) :
           b \in Unsettled \cup Touched(batch) => b \in (Unsettled \cup Touched(batch))'
  PROVE  WireFits' /\ KnownIsHeld' /\ KnownWillBeRight'
<1>1. WireFits'
  BY WireFrame
<1>2. KnownIsHeld'
  BY WireFrame DEF KnownIsHeld
<1>3. KnownWillBeRight'
  <2> SUFFICES ASSUME NEW c \in (known \ InHand)',
                      NEW b \in BlocksIn(c) \ (Unsettled \cup Touched(batch))'
               PROVE  WillBeRight(b)'
    BY DEF KnownWillBeRight
  <2>1. WillBeRight(b)
    BY DEF KnownWillBeRight
  <2> QED BY <2>1, RightFrame
<1> QED BY <1>1, <1>2, <1>3

-----------------------------------------------------------------------------
(* The map and the positions *)

LEMMA InitInv == Init => IInv
<1> SUFFICES ASSUME Init PROVE IInv
  OBVIOUS
<1> USE ClientSyncAssumption
<1>1. TypeOK
  <2>1. events \in Seq(Update) /\ batch \in Seq(Update) /\ wire \in Seq(Message)
        /\ Len(events) = 0 /\ Len(batch) = 0 /\ Len(wire) = 0
    BY DEF Init
  <2>2. visit \in [place : Places \cup {NoPlace}, left : Nat]
    BY DEF Init
  <2>3. DOMAIN client = {}
    BY DEF Init
  <2>4. pos \in [place : Places, pace : Paces] /\ at \in Places
    BY DEF Init
  <2>5. Len(events) <= BroadcastSize /\ Len(batch) <= MaxBatch /\ Len(wire) <= WireSize
    BY <2>1
  <2> QED BY <2>1, <2>2, <2>3, <2>4, <2>5 DEF Init, TypeOK
<1>2. Len(wire) = 0 /\ Touched(events) = {} /\ Touched(batch) = {}
  BY <1>1, TouchedType DEF Init, TypeOK
<1>3. LoopOK /\ NeverComplains
  BY DEF Init, LoopOK, NeverComplains
<1>4. AcksOK /\ WireFits
  BY <1>2 DEF Init, AcksOK, WireFits
<1>5. KnownIsHeld /\ KnownWillBeRight
  BY DEF Init, KnownIsHeld, KnownWillBeRight, InHand
<1>6. EventsEndRight /\ BatchEndsRight /\ PendingIsRight
  BY <1>2 DEF EventsEndRight, BatchEndsRight, PendingIsRight, Init
<1> QED BY <1>1, <1>3, <1>4, <1>5, <1>6 DEF IInv

LEMMA ChangeInv ==
  ASSUME IInv, NEW b \in Blocks, NEW id \in Ids, Change(b, id)
  PROVE  IInv'
<1> DEFINE new == [block |-> b, id |-> id]
           full == Len(events) = BroadcastSize
           rest == IF full THEN Tail(events) ELSE events
<1> USE ClientSyncAssumption DEF IInv
<1>1. /\ new \in Update /\ new.block = b /\ new.id = id
      /\ events' = Append(rest, new)
      /\ UNCHANGED <<posVars, loopVars, wire, clientVars, missed>>
      /\ world' = [world EXCEPT ![b] = id]
      /\ lost' = IF full THEN lost \cup {Head(events).block} ELSE lost
  BY DEF Change, Update
<1>2. events \in Seq(Update) /\ world \in [Blocks -> Ids]
  BY DEF TypeOK
<1>3. /\ rest \in Seq(Update)
      /\ Len(rest) < BroadcastSize
      /\ Touched(events) \cup lost \subseteq Touched(rest) \cup lost'
      /\ \A x \in Touched(rest) : \A y : x \in Touched(events) /\ After(rest, x, y) = After(events, x, y)
      /\ full => Head(events).block \in Blocks
  <2>1. CASE full
    <3>1. events # <<>> /\ Len(events) = BroadcastSize
      BY <1>2, <2>1
    <3>2. /\ Tail(events) \in Seq(Update) /\ Len(Tail(events)) = Len(events) - 1
          /\ Head(events) \in Update
      BY <1>2, <3>1, TailAt
    <3>3. /\ Touched(events) = Touched(Tail(events)) \cup {Head(events).block}
          /\ \A x \in Touched(Tail(events)) : \A y : After(Tail(events), x, y) = After(events, x, y)
      BY <1>2, <3>1, AfterTail
    <3> QED BY <1>1, <2>1, <3>1, <3>2, <3>3 DEF Update
  <2>2. CASE ~full
    BY <1>1, <1>2, <2>2 DEF TypeOK
  <2> QED BY <2>1, <2>2
<1> HIDE DEF new, full, rest
<1>4. /\ events' \in Seq(Update) /\ Len(events') = Len(rest) + 1
      /\ Touched(events') = Touched(rest) \cup {b}
      /\ \A y : After(events', b, y) = id
      /\ \A x, y : x # b => After(events', x, y) = After(rest, x, y)
  <2>1. events' \in Seq(Update) /\ Len(events') = Len(rest) + 1
    BY <1>1, <1>3, AppendAt
  <2>2. \A x, y : /\ Touched(Append(rest, new)) = Touched(rest) \cup {new.block}
                  /\ After(Append(rest, new), new.block, y) = new.id
                  /\ x # new.block => After(Append(rest, new), x, y) = After(rest, x, y)
    BY <1>1, <1>3, AfterAppend
  <2> QED BY <1>1, <2>1, <2>2
<1>5. TypeOK'
  <2>1. events' \in Seq(Update) /\ Len(events') <= BroadcastSize /\ world' \in [Blocks -> Ids]
    BY <1>1, <1>2, <1>3, <1>4
  <2>2. lost' \subseteq Blocks
    BY <1>1, <1>3 DEF TypeOK
  <2> QED BY <1>1, <2>1, <2>2 DEF TypeOK, posVars, loopVars, clientVars
<1>6. LoopOK' /\ AcksOK' /\ NeverComplains'
  BY <1>1 DEF LoopOK, AcksOK, NeverComplains, InHand, posVars, loopVars, clientVars
<1>7. WireFits' /\ KnownIsHeld'
  BY <1>1, WireFrame DEF KnownIsHeld, InHand, posVars, loopVars, clientVars
<1>8. \A x \in Blocks : x \notin Unsettled' => x # b /\ x \notin Unsettled /\ world'[x] = world[x]
  BY <1>1, <1>2, <1>3, <1>4 DEF Unsettled
<1>9. EventsEndRight'
  <2> SUFFICES ASSUME NEW x \in Touched(events)'
               PROVE  After(events', x, world'[x]) = world'[x]
    BY DEF EventsEndRight
  <2>1. CASE x = b
    BY <1>1, <1>2, <1>4, <2>1
  <2>2. CASE x # b
    <3>1. x \in Touched(rest) /\ x \in Blocks
      BY <1>3, <1>4, <2>2, TouchedType
    <3>2. world'[x] = world[x]
      BY <1>1, <1>2, <2>2, <3>1
    <3>3. After(rest, x, world[x]) = world[x]
      BY <1>3, <3>1 DEF EventsEndRight
    <3> QED BY <1>4, <2>2, <3>2, <3>3
  <2> QED BY <2>1, <2>2
<1>10. BatchEndsRight'
  <2> SUFFICES ASSUME NEW x \in Touched(batch') \ Unsettled'
               PROVE  After(batch', x, world'[x]) = world'[x]
    BY DEF BatchEndsRight
  <2>1. batch' = batch /\ batch \in Seq(Update)
    BY <1>1 DEF TypeOK, loopVars
  <2>2. x \in Touched(batch) \ Unsettled /\ world'[x] = world[x]
    BY <1>8, <2>1, TouchedType
  <2> QED BY <2>1, <2>2 DEF BatchEndsRight
<1>11. PendingIsRight'
  <2>1. UNCHANGED <<pc, pending, batch>>
    BY <1>1 DEF loopVars
  <2> SUFFICES ASSUME pc \in {"fillSend", "loadSend"},
                      NEW x \in BlocksIn(pending.chunk), x \notin Unsettled', x \notin Touched(batch)
               PROVE  pending.content[x] = world'[x]
    BY <2>1 DEF PendingIsRight
  <2>2. x \notin Unsettled /\ world'[x] = world[x]
    BY <1>8 DEF BlocksIn
  <2> QED BY <2>2 DEF PendingIsRight
<1>12. KnownWillBeRight'
  <2>1. UNCHANGED <<pc, pending, batch, known, wire, client>>
    BY <1>1 DEF loopVars, clientVars
  <2> SUFFICES ASSUME NEW c \in known \ InHand,
                      NEW x \in BlocksIn(c), x \notin Unsettled', x \notin Touched(batch)
               PROVE  WillBeRight(x)'
    BY <2>1 DEF KnownWillBeRight, InHand
  <2>2. x \notin Unsettled /\ world'[x] = world[x]
    BY <1>8 DEF BlocksIn
  <2>3. WillBeRight(x)
    BY <2>2 DEF KnownWillBeRight
  <2> QED BY <2>1, <2>2, <2>3 DEF WillBeRight, Tells, Told, Gives
<1> QED BY <1>5, <1>6, <1>7, <1>9, <1>10, <1>11, <1>12 DEF IInv

\* Actions on positions leave the loop and the client alone.
LEMMA PositionFrame ==
  ASSUME IInv, UNCHANGED <<mapVars, loopVars, wire, clientVars, missed>>,
         TypeOK', AcksOK'
  PROVE  IInv'
<1>1. UNCHANGED <<world, events, lost, pc, batch, known, interested, pending, visit, unsub,
                  wire, client, complained, missed>>
  BY DEF mapVars, loopVars, clientVars
<1>2. LoopOK' /\ NeverComplains'
  BY <1>1 DEF IInv, LoopOK, NeverComplains, InHand
<1>3. InHand' = InHand /\ Unsettled' = Unsettled
  BY <1>1 DEF InHand, Unsettled
<1>4. WireFits' /\ KnownIsHeld' /\ KnownWillBeRight'
  BY <1>1, <1>3, LoopFrame DEF IInv
<1>5. EventsEndRight' /\ BatchEndsRight' /\ PendingIsRight'
  BY <1>1, <1>3 DEF IInv, EventsEndRight, BatchEndsRight, PendingIsRight
<1> QED BY <1>2, <1>4, <1>5 DEF IInv

LEMMA MoveInv ==
  ASSUME IInv, NEW p \in Places, Move(p)
  PROVE  IInv'
<1>1. TypeOK'
  BY DEF IInv, TypeOK, Move, mapVars, loopVars, clientVars
<1>2. AcksOK'
  BY AcksFrame DEF IInv, Move
<1> QED BY <1>1, <1>2, PositionFrame DEF Move

LEMMA SendPositionInv ==
  ASSUME IInv, SendPosition
  PROVE  IInv'
<1>1. TypeOK'
  BY DEF IInv, TypeOK, SendPosition, mapVars, loopVars, clientVars
<1>2. AcksOK'
  <2>1. {i \in 1 .. Len(wire) : wire[i].type = "HandledSequence"} = {} /\ inbound = "idle"
    BY DEF IInv, TypeOK, AcksOK, SendPosition
  <2> QED BY <2>1 DEF AcksOK, SendPosition
<1> QED BY <1>1, <1>2, PositionFrame DEF SendPosition

LEMMA HandlePositionInv ==
  ASSUME IInv, NEW pace \in Paces, HandlePosition(pace)
  PROVE  IInv'
<1>1. TypeOK'
  <2>1. pos' \in [place : Places, pace : Paces]
    BY DEF IInv, TypeOK, HandlePosition
  <2> QED BY <2>1 DEF IInv, TypeOK, HandlePosition, mapVars, loopVars, clientVars
<1>2. AcksOK'
  BY DEF IInv, AcksOK, HandlePosition
<1> QED BY <1>1, <1>2, PositionFrame DEF HandlePosition

-----------------------------------------------------------------------------
(* Sending to the client *)

\* A message that fits, put at the end of the wire.
LEMMA SentFits ==
  ASSUME TypeOK, WireFits, NEW m \in Message, Send(m), UNCHANGED client,
         m.type = "MapDeltaUpdate" =>
           \A c \in ChunksOf(m.updates) : Held(wire, DOMAIN client, Len(wire) + 1, c),
         m.type = "MapChunkUnsubscribe" =>
           \A c \in m.chunks : Held(wire, DOMAIN client, Len(wire) + 1, c)
  PROVE  /\ wire' \in Seq(Message) /\ Len(wire') <= WireSize
         /\ WireFits'
         /\ \A c : Gives(m, c) \/ (~Takes(m, c) /\ Held(wire, DOMAIN client, Len(wire) + 1, c))
                     => Held(wire, DOMAIN client, Len(wire) + 1, c)'
<1>1. wire \in Seq(Message) /\ wire' = Append(wire, m) /\ Len(wire) < WireSize
  BY DEF TypeOK, Send
<1>2. wire' \in Seq(Message) /\ Len(wire') <= WireSize
  BY <1>1, AppendAt, ClientSyncAssumption
<1>3. \A i \in 1 .. Len(wire) : Fits(wire, DOMAIN client, i)
  BY DEF WireFits
<1>4. \A i \in 1 .. Len(wire') : Fits(wire', DOMAIN client, i)
  BY <1>1, <1>3, FitsAppend
<1>5. WireFits'
  BY <1>4 DEF WireFits, Fits, Held, Gives, Takes
<1>6. ASSUME NEW c,
             Gives(m, c) \/ (~Takes(m, c) /\ Held(wire, DOMAIN client, Len(wire) + 1, c))
      PROVE  Held(wire, DOMAIN client, Len(wire) + 1, c)'
  <2>1. Held(wire', DOMAIN client, Len(wire') + 1, c)
    BY <1>1, <1>6, HeldGiven, HeldKept
  <2> QED BY <2>1 DEF Held, Gives, Takes
<1> QED BY <1>2, <1>5, <1>6

\* The acknowledgements on the wire stay the same.
LEMMA SentAcks ==
  ASSUME TypeOK, AcksOK, NEW m \in Message, m.type # "HandledSequence", Send(m),
         UNCHANGED <<uplink, inbound, withheld>>
  PROVE  AcksOK'
<1>1. /\ Len(wire) \in Nat /\ Len(wire') = Len(wire) + 1 /\ wire'[Len(wire) + 1] = m
      /\ \A i \in 1 .. Len(wire) : wire'[i] = wire[i]
  BY AppendAt DEF TypeOK, Send
<1>2. {i \in 1 .. Len(wire') : wire'[i].type = "HandledSequence"}
        = {i \in 1 .. Len(wire) : wire[i].type = "HandledSequence"}
  <2>1. \A i \in 1 .. Len(wire') : i \in 1 .. Len(wire) \/ i = Len(wire) + 1
    BY <1>1
  <2>2. \A i \in 1 .. Len(wire) : i \in 1 .. Len(wire')
    BY <1>1
  <2> QED BY <1>1, <2>1, <2>2
<1> QED BY <1>2 DEF AcksOK

LEMMA SendAckInv ==
  ASSUME IInv, SendAck
  PROVE  IInv'
<1> DEFINE m == AckMessage
<1>1. /\ m \in Message /\ m.type = "HandledSequence" /\ Send(m)
      /\ UNCHANGED <<world, events, lost, pc, batch, known, interested, pending, visit, unsub,
                     client, complained, missed, pos, posNew, uplink, at, withheld>>
      /\ inbound = "ack" /\ inbound' = "idle"
  BY MessageTypes DEF SendAck, AckMessage, mapVars, loopVars, clientVars
<1>2. /\ wire' \in Seq(Message) /\ Len(wire') <= WireSize /\ WireFits'
      /\ \A c : Held(wire, DOMAIN client, Len(wire) + 1, c)
                  => Held(wire, DOMAIN client, Len(wire) + 1, c)'
  BY <1>1, SentFits DEF IInv, Takes
<1>3. /\ Len(wire) \in Nat /\ wire \in Seq(Message) /\ wire' = Append(wire, m)
      /\ Len(wire') = Len(wire) + 1 /\ wire'[Len(wire) + 1] = m
      /\ \A i \in 1 .. Len(wire) : wire'[i] = wire[i]
  BY <1>1, AppendAt DEF IInv, TypeOK, Send
<1> HIDE DEF m
<1>4. TypeOK'
  BY <1>1, <1>2 DEF IInv, TypeOK
<1>5. LoopOK' /\ NeverComplains'
  BY <1>1 DEF IInv, LoopOK, NeverComplains, InHand
<1>6. AcksOK'
  <2>1. {i \in 1 .. Len(wire) : wire[i].type = "HandledSequence"} = {} /\ withheld
        /\ uplink = NoPlace
    BY <1>1 DEF IInv, AcksOK
  <2>2. \A i \in 1 .. Len(wire') : wire'[i].type = "HandledSequence" => i = Len(wire) + 1
    BY <1>3, <2>1
  <2> QED BY <1>1, <2>1, <2>2 DEF AcksOK
<1>7. InHand' = InHand /\ Unsettled' = Unsettled
  BY <1>1 DEF InHand, Unsettled
<1>8. KnownIsHeld'
  BY <1>1, <1>2, <1>7 DEF IInv, KnownIsHeld
<1>9. KnownWillBeRight'
  <2> SUFFICES ASSUME NEW c \in known \ InHand,
                      NEW b \in BlocksIn(c) \ (Unsettled \cup Touched(batch))
               PROVE  WillBeRight(b)'
    BY <1>1, <1>7 DEF KnownWillBeRight
  <2>1. b \in Blocks /\ WillBeRight(b)
    BY DEF IInv, KnownWillBeRight, BlocksIn
  <2>2. ~Tells(m, b)
    BY <1>1 DEF Tells, Gives
  <2> QED BY <1>1, <1>3, <2>1, <2>2, RightAppend
<1>10. EventsEndRight' /\ BatchEndsRight' /\ PendingIsRight'
  BY <1>1, <1>7 DEF IInv, EventsEndRight, BatchEndsRight, PendingIsRight
<1> QED BY <1>2, <1>4, <1>5, <1>6, <1>8, <1>9, <1>10 DEF IInv

-----------------------------------------------------------------------------
(* The outbound loop on block updates *)

\* The update that comes out of the receiver tells how the block is, unless
\* there are newer ones behind it.
LEMMA HeadUpdate ==
  ASSUME IInv, events # <<>>, events' = Tail(events), world' = world
  PROVE  /\ Head(events) \in Update
         /\ events' \in Seq(Update) /\ Len(events') <= BroadcastSize
         /\ Touched(events) = Touched(events') \cup {Head(events).block}
         /\ Head(events).block \notin Touched(events')
              => Head(events).id = world[Head(events).block]
         /\ EventsEndRight'
<1>1. events \in Seq(Update) /\ Len(events) <= BroadcastSize
  BY DEF IInv, TypeOK
<1>2. /\ Tail(events) \in Seq(Update) /\ Len(Tail(events)) = Len(events) - 1
      /\ Head(events) \in Update /\ Len(events) \in Nat
  BY <1>1, TailAt
<1>3. /\ Touched(events) = Touched(Tail(events)) \cup {Head(events).block}
      /\ \A x : Head(events).block \notin Touched(Tail(events))
                  => After(events, Head(events).block, x) = Head(events).id
      /\ \A x : \A b \in Touched(Tail(events)) :
           After(Tail(events), b, x) = After(events, b, x)
  BY <1>1, AfterTail
<1>4. \A b \in Touched(events) : After(events, b, world[b]) = world[b]
  BY DEF IInv, EventsEndRight
<1>5. EventsEndRight'
  BY <1>3, <1>4 DEF EventsEndRight
<1>6. Len(events') <= BroadcastSize
  BY <1>1, <1>2, ClientSyncAssumption
<1>7. Head(events).block \notin Touched(events') => Head(events).id = world[Head(events).block]
  BY <1>3, <1>4
<1> QED BY <1>2, <1>3, <1>5, <1>6, <1>7

LEMMA TakeUpdateInv ==
  ASSUME IInv, TakeUpdate
  PROVE  IInv'
<1> DEFINE u == Head(events)
<1>1. /\ pc = "select" /\ pc' = "drain" /\ events # <<>> /\ events' = Tail(events)
      /\ batch' = <<u>> /\ missed' = missed \ {u.block}
      /\ UNCHANGED <<world, lost, pos, posNew, inbound, uplink, at, withheld, known, interested,
                     pending, visit, unsub, wire, client, complained>>
  BY DEF TakeUpdate, posVars, clientVars
<1>2. /\ u \in Update /\ events' \in Seq(Update) /\ Len(events') <= BroadcastSize
      /\ Touched(events) = Touched(events') \cup {u.block}
      /\ u.block \notin Touched(events') => u.id = world[u.block]
      /\ EventsEndRight'
  BY <1>1, HeadUpdate
<1> HIDE DEF u
<1>3. /\ batch = <<>> /\ Touched(batch) = {}
      /\ batch' \in Seq(Update) /\ Len(batch') = 1 /\ Touched(batch') = {u.block}
      /\ \A x : After(batch', u.block, x) = u.id
  <2>1. batch = <<>> /\ <<>> \in Seq(Update) /\ <<u>> = Append(<<>>, u)
    BY <1>1, <1>2 DEF IInv, LoopOK
  <2>2. /\ Touched(Append(<<>>, u)) = Touched(<<>>) \cup {u.block}
        /\ \A x : After(Append(<<>>, u), u.block, x) = u.id
    BY <1>2, <2>1, AfterAppend
  <2>3. Touched(<<>>) = {}
    BY <2>1, TouchedType
  <2> QED BY <1>1, <1>2, <2>1, <2>2, <2>3
<1>4. TypeOK'
  BY <1>1, <1>2, <1>3, ClientSyncAssumption DEF IInv, TypeOK
<1>5. LoopOK' /\ NeverComplains' /\ InHand = {} /\ InHand' = {}
  BY <1>1 DEF IInv, LoopOK, NeverComplains, InHand
<1>6. AcksOK'
  BY <1>1, AcksFrame DEF IInv
<1>7. Unsettled \subseteq Unsettled' \cup {u.block}
  BY <1>1, <1>2 DEF Unsettled
<1>8. WireFits' /\ KnownIsHeld' /\ KnownWillBeRight'
  BY <1>1, <1>3, <1>5, <1>7, LoopFrame DEF IInv
<1>9. BatchEndsRight'
  BY <1>1, <1>2, <1>3 DEF BatchEndsRight, Unsettled
<1>10. PendingIsRight'
  BY <1>1 DEF PendingIsRight
<1> QED BY <1>2, <1>4, <1>5, <1>6, <1>8, <1>9, <1>10 DEF IInv

LEMMA TakeLaggedInv ==
  ASSUME IInv, TakeLagged
  PROVE  IInv'
<1>1. /\ pc = "select" /\ lost' = {} /\ known' = {} /\ interested' = {}
      /\ UNCHANGED <<world, events, pos, posNew, inbound, uplink, at, withheld, pc, batch,
                     pending, visit, unsub, wire, client, complained, missed>>
  BY DEF TakeLagged, posVars, clientVars
<1>2. TypeOK'
  BY <1>1 DEF IInv, TypeOK
<1>3. batch = <<>> /\ Touched(batch) = {} /\ unsub = {} /\ InHand = {} /\ InHand' = {}
  BY <1>1, TouchedType DEF IInv, TypeOK, LoopOK, InHand
<1>4. LoopOK' /\ NeverComplains'
  BY <1>1, <1>3 DEF IInv, LoopOK, NeverComplains
<1>5. AcksOK' /\ WireFits'
  BY <1>1, AcksFrame, WireFrame DEF IInv
<1>6. KnownIsHeld' /\ KnownWillBeRight'
  BY <1>1, <1>3 DEF KnownIsHeld, KnownWillBeRight
<1>7. EventsEndRight' /\ BatchEndsRight' /\ PendingIsRight'
  BY <1>1, <1>3 DEF IInv, EventsEndRight, BatchEndsRight, PendingIsRight
<1> QED BY <1>2, <1>4, <1>5, <1>6, <1>7 DEF IInv

LEMMA DrainInv ==
  ASSUME IInv, Drain
  PROVE  IInv'
<1> DEFINE u == Head(events)
<1>1. /\ pc = "drain" /\ Len(batch) < MaxBatch /\ events # <<>> /\ events' = Tail(events)
      /\ \/ batch' = Append(batch, u) /\ missed' = missed \ {u.block}
         \/ batch' = batch /\ missed' = missed \cup {u.block}
      /\ UNCHANGED <<world, lost, pos, posNew, inbound, uplink, at, withheld, pc, known,
                     interested, pending, visit, unsub, wire, client, complained>>
  BY DEF Drain, posVars, clientVars
<1>2. /\ u \in Update /\ events' \in Seq(Update) /\ Len(events') <= BroadcastSize
      /\ Touched(events) = Touched(events') \cup {u.block}
      /\ u.block \notin Touched(events') => u.id = world[u.block]
      /\ EventsEndRight'
  BY <1>1, HeadUpdate
<1> HIDE DEF u
<1>3. /\ batch \in Seq(Update)
      /\ Touched(Append(batch, u)) = Touched(batch) \cup {u.block}
      /\ \A x, y : /\ After(Append(batch, u), u.block, x) = u.id
                   /\ y # u.block => After(Append(batch, u), y, x) = After(batch, y, x)
  <2>1. batch \in Seq(Update)
    BY DEF IInv, TypeOK
  <2> QED BY <1>2, <2>1, AfterAppend
<1>4. batch' \in Seq(Update) /\ Len(batch') <= MaxBatch
  <2>1. Append(batch, u) \in Seq(Update) /\ Len(Append(batch, u)) = Len(batch) + 1
        /\ Len(batch) \in Nat
    BY <1>2, <1>3, AppendAt
  <2>2. Len(batch) + 1 <= MaxBatch /\ Len(batch) <= MaxBatch
    BY <1>1, <2>1, ClientSyncAssumption
  <2> QED BY <1>1, <1>3, <2>1, <2>2
<1>5. TypeOK'
  <2>1. missed' \subseteq Blocks
    BY <1>1, <1>2 DEF IInv, TypeOK, Update
  <2> QED BY <1>1, <1>2, <1>4, <2>1 DEF IInv, TypeOK
<1>6. LoopOK' /\ NeverComplains' /\ InHand = {} /\ InHand' = {}
  BY <1>1 DEF IInv, LoopOK, NeverComplains, InHand
<1>7. AcksOK'
  BY <1>1, AcksFrame DEF IInv
<1>8. Unsettled \cup Touched(batch) \subseteq (Unsettled \cup Touched(batch))'
  BY <1>1, <1>2, <1>3 DEF Unsettled
<1>9. WireFits' /\ KnownIsHeld' /\ KnownWillBeRight'
  BY <1>1, <1>6, <1>8, LoopFrame DEF IInv
<1>10. BatchEndsRight'
  <2> SUFFICES ASSUME NEW b \in Touched(batch') \ Unsettled'
               PROVE  After(batch', b, world[b]) = world[b]
    BY <1>1 DEF BatchEndsRight
  <2>1. CASE batch' = Append(batch, u) /\ missed' = missed \ {u.block}
    <3>1. CASE b = u.block
      BY <1>2, <1>3, <2>1, <3>1 DEF Unsettled
    <3>2. CASE b # u.block
      <4>1. b \in Touched(batch) \ Unsettled
        BY <1>1, <1>2, <1>3, <2>1, <3>2 DEF Unsettled
      <4> QED BY <1>3, <2>1, <3>2, <4>1 DEF IInv, BatchEndsRight
    <3> QED BY <3>1, <3>2
  <2>2. CASE batch' = batch /\ missed' = missed \cup {u.block}
    <3>1. b \in Touched(batch) \ Unsettled
      BY <1>1, <1>2, <2>2 DEF Unsettled
    <3> QED BY <2>2, <3>1 DEF IInv, BatchEndsRight
  <2> QED BY <1>1, <2>1, <2>2
<1>11. PendingIsRight'
  BY <1>1 DEF PendingIsRight
<1> QED BY <1>2, <1>5, <1>6, <1>7, <1>9, <1>10, <1>11 DEF IInv

LEMMA DrainLaggedInv ==
  ASSUME IInv, DrainLagged
  PROVE  IInv'
<1>1. /\ pc = "drain" /\ lost' = {} /\ missed' = missed \cup lost
      /\ UNCHANGED <<world, events, pos, posNew, inbound, uplink, at, withheld, pc, batch, known,
                     interested, pending, visit, unsub, wire, client, complained>>
  BY DEF DrainLagged, posVars, loopVars, clientVars
<1>2. TypeOK'
  BY <1>1 DEF IInv, TypeOK
<1>3. LoopOK' /\ NeverComplains' /\ InHand' = InHand
  BY <1>1 DEF IInv, LoopOK, NeverComplains, InHand
<1>4. AcksOK'
  BY <1>1, AcksFrame DEF IInv
<1>5. Unsettled' = Unsettled
  BY <1>1 DEF Unsettled
<1>6. WireFits' /\ KnownIsHeld' /\ KnownWillBeRight'
  BY <1>1, <1>3, <1>5, LoopFrame DEF IInv
<1>7. EventsEndRight' /\ BatchEndsRight' /\ PendingIsRight'
  BY <1>1, <1>5 DEF IInv, EventsEndRight, BatchEndsRight, PendingIsRight
<1> QED BY <1>2, <1>3, <1>4, <1>6, <1>7 DEF IInv

LEMMA DrainEndsInv ==
  ASSUME IInv, DrainEnds
  PROVE  IInv'
<1>1. /\ pc = "drain" /\ pc' = "fill"
      /\ UNCHANGED <<world, events, lost, pos, posNew, inbound, uplink, at, withheld, batch,
                     known, interested, pending, visit, unsub, wire, client, complained, missed>>
  BY DEF DrainEnds, mapVars, posVars, clientVars
<1>2. TypeOK'
  BY <1>1 DEF IInv, TypeOK
<1>3. LoopOK' /\ NeverComplains' /\ InHand = {} /\ InHand' = {}
  BY <1>1 DEF IInv, LoopOK, NeverComplains, InHand
<1>4. AcksOK'
  BY <1>1, AcksFrame DEF IInv
<1>5. Unsettled' = Unsettled
  BY <1>1 DEF Unsettled
<1>6. WireFits' /\ KnownIsHeld' /\ KnownWillBeRight'
  BY <1>1, <1>3, <1>5, LoopFrame DEF IInv
<1>7. EventsEndRight' /\ BatchEndsRight' /\ PendingIsRight'
  BY <1>1, <1>5 DEF IInv, EventsEndRight, BatchEndsRight, PendingIsRight
<1> QED BY <1>2, <1>3, <1>4, <1>6, <1>7 DEF IInv

LEMMA FillInv ==
  ASSUME IInv, NEW c \in Chunks, Fill(c)
  PROVE  IInv'
<1>1. /\ pc = "fill" /\ pc' = "fillSend" /\ c \notin known
      /\ pending' = Fetched(c) /\ known' = known \cup {c} /\ missed' = missed \ Refreshed(c)
      /\ UNCHANGED <<world, events, lost, pos, posNew, inbound, uplink, at, withheld, batch,
                     interested, visit, unsub, wire, client, complained>>
  BY DEF Fill, mapVars, posVars, clientVars
<1>2. /\ pending' \in FullChunk /\ pending'.chunk = c
      /\ \A b \in BlocksIn(c) : pending'.content[b] = world[b]
  BY <1>1, FetchedType DEF IInv, TypeOK
<1>3. TypeOK'
  BY <1>1, <1>2 DEF IInv, TypeOK
<1>4. LoopOK' /\ NeverComplains'
  BY <1>1, <1>2 DEF IInv, LoopOK, NeverComplains
<1>5. AcksOK'
  BY <1>1, AcksFrame DEF IInv
<1>6. InHand = {} /\ InHand' = {c} /\ (known \ InHand)' = known
  BY <1>1, <1>2 DEF InHand
<1>7. \A b \in Unsettled \ Unsettled' : b \in BlocksIn(c) \ Touched(batch)
  BY <1>1 DEF Unsettled, Refreshed
<1>8. WireFits' /\ KnownIsHeld' /\ KnownWillBeRight'
  <2>1. \A d \in known : \A b \in BlocksIn(d) : b \in Unsettled => b \in Unsettled'
    BY <1>1, <1>7, BlocksInOwnChunk DEF BlocksIn
  <2> QED BY <1>1, <1>6, <2>1, LoopFrame DEF IInv
<1>9. EventsEndRight' /\ BatchEndsRight'
  BY <1>1, <1>7 DEF IInv, EventsEndRight, BatchEndsRight
<1>10. PendingIsRight'
  BY <1>1, <1>2 DEF PendingIsRight
<1> QED BY <1>3, <1>4, <1>5, <1>8, <1>9, <1>10 DEF IInv

LEMMA FillSendInv ==
  ASSUME IInv, FillSend
  PROVE  IInv'
<1> DEFINE m == ChunkMessage(pending)
<1>1. /\ pc = "fillSend" /\ pc' = "fill" /\ pending' = NoChunk /\ Send(m)
      /\ UNCHANGED <<world, events, lost, pos, posNew, inbound, uplink, at, withheld, batch,
                     known, interested, visit, unsub, client, complained, missed>>
  BY DEF FillSend, mapVars, posVars, clientVars
<1>2. /\ pending \in FullChunk /\ m \in Message /\ m.type = "MapChunk" /\ m.full = pending
      /\ wire \in Seq(Message) /\ wire' = Append(wire, m)
  BY <1>1, MessageTypes DEF IInv, TypeOK, LoopOK, ChunkMessage, Send
<1> HIDE DEF m
<1>3. /\ wire' \in Seq(Message) /\ Len(wire') <= WireSize /\ WireFits'
      /\ \A c : c = pending.chunk \/ Held(wire, DOMAIN client, Len(wire) + 1, c)
                  => Held(wire, DOMAIN client, Len(wire) + 1, c)'
  <2>1. \A c : (Gives(m, c) <=> c = pending.chunk) /\ ~Takes(m, c)
    BY <1>2 DEF Gives, Takes
  <2>2. /\ wire' \in Seq(Message) /\ Len(wire') <= WireSize /\ WireFits'
        /\ \A c : Gives(m, c) \/ (~Takes(m, c) /\ Held(wire, DOMAIN client, Len(wire) + 1, c))
                    => Held(wire, DOMAIN client, Len(wire) + 1, c)'
    <3>1. m.type # "MapDeltaUpdate" /\ m.type # "MapChunkUnsubscribe"
      BY <1>2
    <3> QED BY <1>1, <1>2, <3>1, SentFits DEF IInv
  <2> QED BY <2>1, <2>2
<1>4. TypeOK'
  BY <1>1, <1>3 DEF IInv, TypeOK
<1>5. LoopOK' /\ NeverComplains'
  BY <1>1 DEF IInv, LoopOK, NeverComplains
<1>6. AcksOK'
  BY <1>1, <1>2, SentAcks DEF IInv
<1>7. Unsettled' = Unsettled /\ InHand = {pending.chunk} /\ InHand' = {}
  BY <1>1 DEF Unsettled, InHand
<1>8. KnownIsHeld'
  BY <1>1, <1>3, <1>7 DEF IInv, KnownIsHeld
<1>9. KnownWillBeRight'
  <2> SUFFICES ASSUME NEW c \in known, NEW b \in BlocksIn(c) \ (Unsettled \cup Touched(batch))
               PROVE  WillBeRight(b)'
    BY <1>1, <1>7 DEF KnownWillBeRight
  <2>1. b \in Blocks /\ c = ChunkOf[b]
    BY DEF BlocksIn
  <2>2. Tells(m, b) => c = pending.chunk /\ Told(m, b) = pending.content[b]
    BY <1>2, <2>1 DEF Tells, Told, Gives
  <2>3. c = pending.chunk => Tells(m, b) /\ pending.content[b] = world[b]
    BY <1>1, <1>2, <2>1 DEF IInv, PendingIsRight, Tells, Gives
  <2>4. c # pending.chunk => WillBeRight(b)
    BY <1>7 DEF IInv, KnownWillBeRight
  <2> QED BY <1>1, <1>2, <2>1, <2>2, <2>3, <2>4, RightAppend
<1>10. EventsEndRight' /\ BatchEndsRight' /\ PendingIsRight'
  BY <1>1, <1>7 DEF IInv, EventsEndRight, BatchEndsRight, PendingIsRight
<1> QED BY <1>3, <1>4, <1>5, <1>6, <1>8, <1>9, <1>10 DEF IInv

LEMMA SendBatchInv ==
  ASSUME IInv, SendBatch
  PROVE  IInv'
<1> DEFINE m == DeltaMessage(batch)
<1>1. /\ pc = "fill" /\ pc' = "select" /\ ChunksOf(batch) \subseteq known
      /\ batch' = <<>> /\ Send(m)
      /\ UNCHANGED <<world, events, lost, pos, posNew, inbound, uplink, at, withheld, known,
                     interested, pending, visit, unsub, client, complained, missed>>
  BY DEF SendBatch, mapVars, posVars, clientVars
<1>2. /\ batch \in Seq(Update) /\ m \in Message
      /\ m.type = "MapDeltaUpdate" /\ m.updates = batch
      /\ wire \in Seq(Message) /\ wire' = Append(wire, m)
  BY <1>1, MessageTypes DEF IInv, TypeOK, DeltaMessage, Send
<1> HIDE DEF m
<1>3. InHand = {} /\ InHand' = {} /\ unsub = {} /\ Unsettled' = Unsettled
  BY <1>1 DEF IInv, LoopOK, InHand, Unsettled
<1>4. \A c \in ChunksOf(batch) : Held(wire, DOMAIN client, Len(wire) + 1, c)
  BY <1>1, <1>3 DEF IInv, KnownIsHeld
<1>5. /\ wire' \in Seq(Message) /\ Len(wire') <= WireSize /\ WireFits'
      /\ \A c : Held(wire, DOMAIN client, Len(wire) + 1, c)
                  => Held(wire, DOMAIN client, Len(wire) + 1, c)'
  BY <1>1, <1>2, <1>4, SentFits DEF IInv, Takes
<1>6. batch' \in Seq(Update) /\ Len(batch') <= MaxBatch /\ Touched(batch') = {}
  <2>1. batch' \in Seq(Update) /\ Len(batch') = 0
    BY <1>1
  <2>2. Len(batch') <= MaxBatch
    BY <2>1, ClientSyncAssumption
  <2> QED BY <1>1, <2>1, <2>2, TouchedType
<1>7. TypeOK'
  BY <1>1, <1>5, <1>6 DEF IInv, TypeOK
<1>8. LoopOK' /\ NeverComplains'
  BY <1>1, <1>3 DEF IInv, LoopOK, NeverComplains
<1>9. AcksOK'
  BY <1>1, <1>2, SentAcks DEF IInv
<1>10. KnownIsHeld'
  BY <1>1, <1>3, <1>5 DEF IInv, KnownIsHeld
<1>11. KnownWillBeRight'
  <2> SUFFICES ASSUME NEW c \in known, NEW b \in BlocksIn(c) \ Unsettled
               PROVE  WillBeRight(b)'
    BY <1>1, <1>3, <1>6 DEF KnownWillBeRight
  <2>1. b \in Blocks
    BY DEF BlocksIn
  <2>2. Tells(m, b) <=> b \in Touched(batch)
    BY <1>2 DEF Tells, Gives
  <2>3. Tells(m, b) => Told(m, b) = world[b]
    BY <1>2, <2>2 DEF IInv, BatchEndsRight, Told
  <2>4. b \notin Touched(batch) => WillBeRight(b)
    BY <1>3 DEF IInv, KnownWillBeRight
  <2> QED BY <1>1, <1>2, <2>1, <2>2, <2>3, <2>4, RightAppend
<1>12. EventsEndRight' /\ BatchEndsRight' /\ PendingIsRight'
  BY <1>1, <1>3, <1>6 DEF IInv, EventsEndRight, BatchEndsRight, PendingIsRight
<1> QED BY <1>5, <1>7, <1>8, <1>9, <1>10, <1>11, <1>12 DEF IInv

-----------------------------------------------------------------------------
(* The outbound loop on position updates *)

LEMMA TakePositionInv ==
  ASSUME IInv, TakePosition
  PROVE  IInv'
<1>1. /\ pc = "select" /\ pc' = "load" /\ posNew' = FALSE
      /\ unsub' = known \ Keep[pos.place] /\ known' = known \cap Keep[pos.place]
      /\ interested' = interested \cap Keep[pos.place]
      /\ visit' = [place |-> pos.place, left |-> pos.pace + 1]
      /\ UNCHANGED <<world, events, lost, pos, inbound, uplink, at, withheld, batch, pending, wire,
                     client, complained, missed>>
  BY DEF TakePosition, mapVars, clientVars
<1>2. /\ pos.place \in Places /\ pos.pace + 1 \in Nat
      /\ visit' \in [place : Places \cup {NoPlace}, left : Nat] /\ visit'.place = pos.place
  <2>1. pos.place \in Places /\ pos.pace \in Paces /\ Paces \subseteq Nat
    BY ClientSyncAssumption DEF IInv, TypeOK
  <2>2. pos.pace \in Nat
    BY <2>1
  <2>3. pos.pace + 1 \in Nat
    BY <2>2
  <2> QED BY <1>1, <2>1, <2>3
<1>3. TypeOK'
  BY <1>1, <1>2 DEF IInv, TypeOK
<1>4. InHand = {} /\ InHand' = {} /\ Unsettled' = Unsettled
  BY <1>1 DEF InHand, Unsettled
<1>5. LoopOK' /\ NeverComplains'
  BY <1>1, <1>2, <1>4 DEF IInv, LoopOK, NeverComplains
<1>6. AcksOK'
  BY <1>1, AcksFrame DEF IInv
<1>7. WireFits' /\ KnownIsHeld' /\ KnownWillBeRight'
  BY <1>1, <1>4, LoopFrame DEF IInv
<1>8. EventsEndRight' /\ BatchEndsRight' /\ PendingIsRight'
  BY <1>1, <1>4 DEF IInv, EventsEndRight, BatchEndsRight, PendingIsRight
<1> QED BY <1>3, <1>5, <1>6, <1>7, <1>8 DEF IInv

LEMMA LoadInv ==
  ASSUME IInv, NEW c \in Chunks, Load(c)
  PROVE  IInv'
<1>1. /\ pc = "load" /\ pc' = "loadSend" /\ c \notin known /\ c \in Eager[visit.place]
      /\ visit.left > 0
      /\ pending' = Fetched(c) /\ missed' = missed \ Refreshed(c)
      /\ UNCHANGED <<world, events, lost, pos, posNew, inbound, uplink, at, withheld, batch, known,
                     interested, visit, unsub, wire, client, complained>>
  BY DEF Load, ToLoad, mapVars, posVars, clientVars
<1>2. /\ pending' \in FullChunk /\ pending'.chunk = c
      /\ \A b \in BlocksIn(c) : pending'.content[b] = world[b]
  BY <1>1, FetchedType DEF IInv, TypeOK
<1>3. TypeOK'
  BY <1>1, <1>2 DEF IInv, TypeOK
<1>4. InHand = {} /\ InHand' = {}
  BY <1>1 DEF InHand
<1>5. LoopOK' /\ NeverComplains'
  BY <1>1, <1>2, <1>4 DEF IInv, LoopOK, NeverComplains
<1>6. AcksOK'
  BY <1>1, AcksFrame DEF IInv
<1>7. \A b \in Unsettled \ Unsettled' : b \in BlocksIn(c) \ Touched(batch)
  BY <1>1 DEF Unsettled, Refreshed
<1>8. WireFits' /\ KnownIsHeld' /\ KnownWillBeRight'
  <2>1. \A d \in known : \A b \in BlocksIn(d) : b \in Unsettled => b \in Unsettled'
    BY <1>1, <1>7, BlocksInOwnChunk DEF BlocksIn
  <2> QED BY <1>1, <1>4, <2>1, LoopFrame DEF IInv
<1>9. EventsEndRight' /\ BatchEndsRight'
  BY <1>1, <1>7 DEF IInv, EventsEndRight, BatchEndsRight
<1>10. PendingIsRight'
  BY <1>1, <1>2 DEF PendingIsRight
<1> QED BY <1>3, <1>5, <1>6, <1>8, <1>9, <1>10 DEF IInv

LEMMA LoadSendInv ==
  ASSUME IInv, LoadSend
  PROVE  IInv'
<1> DEFINE m == ChunkMessage(pending)
           c == pending.chunk
<1>1. /\ pc = "loadSend" /\ pc' = "load" /\ pending' = NoChunk /\ Send(m)
      /\ known' = known \cup {c} /\ visit' = [visit EXCEPT !.left = @ - 1]
      /\ UNCHANGED <<world, events, lost, pos, posNew, inbound, uplink, at, withheld, batch,
                     interested, unsub, client, complained, missed>>
  BY DEF LoadSend, mapVars, posVars, clientVars
<1>2. /\ pending \in FullChunk /\ c \in Chunks
      /\ m \in Message /\ m.type = "MapChunk" /\ m.full = pending
      /\ wire \in Seq(Message) /\ wire' = Append(wire, m)
  BY <1>1, MessageTypes, FullChunkParts DEF IInv, TypeOK, LoopOK, ChunkMessage, Send
<1>3. /\ c \in Eager[visit.place] /\ visit.place \in Places /\ visit.left > 0
      /\ Keep[visit.place] \cap unsub = {} /\ known \cap unsub = {} /\ batch = <<>>
  BY <1>1 DEF IInv, LoopOK
<1>4. c \notin unsub
  BY <1>3, ClientSyncAssumption
<1>5. /\ visit' \in [place : Places \cup {NoPlace}, left : Nat]
      /\ visit'.place = visit.place
  BY <1>1, <1>3 DEF IInv, TypeOK
<1> HIDE DEF m, c
<1>6. /\ wire' \in Seq(Message) /\ Len(wire') <= WireSize /\ WireFits'
      /\ \A d : d = c \/ Held(wire, DOMAIN client, Len(wire) + 1, d)
                  => Held(wire, DOMAIN client, Len(wire) + 1, d)'
  <2>1. \A d : (Gives(m, d) <=> d = c) /\ ~Takes(m, d)
    BY <1>2 DEF Gives, Takes, c
  <2>2. m.type # "MapDeltaUpdate" /\ m.type # "MapChunkUnsubscribe"
    BY <1>2
  <2> QED BY <1>1, <1>2, <2>1, <2>2, SentFits DEF IInv
<1>7. TypeOK'
  BY <1>1, <1>2, <1>5, <1>6 DEF IInv, TypeOK
<1>8. Unsettled' = Unsettled /\ InHand = {} /\ InHand' = {}
  BY <1>1 DEF Unsettled, InHand
<1>9. LoopOK' /\ NeverComplains'
  BY <1>1, <1>3, <1>4, <1>5, <1>8 DEF IInv, LoopOK, NeverComplains
<1>10. AcksOK'
  BY <1>1, <1>2, SentAcks DEF IInv
<1>11. KnownIsHeld'
  BY <1>1, <1>6, <1>8 DEF IInv, KnownIsHeld
<1>12. Touched(batch) = {}
  BY <1>3, TouchedType DEF IInv, TypeOK
<1>13. KnownWillBeRight'
  <2> SUFFICES ASSUME NEW d \in known \cup {c}, NEW b \in BlocksIn(d) \ Unsettled
               PROVE  WillBeRight(b)'
    BY <1>1, <1>8 DEF KnownWillBeRight
  <2>1. b \in Blocks /\ d = ChunkOf[b]
    BY DEF BlocksIn
  <2>2. Tells(m, b) => d = c /\ Told(m, b) = pending.content[b]
    BY <1>2, <2>1 DEF Tells, Told, Gives, c
  <2>3. d = c => Tells(m, b) /\ pending.content[b] = world[b]
    BY <1>1, <1>2, <1>12, <2>1 DEF IInv, PendingIsRight, Tells, Gives, c
  <2>4. d # c => WillBeRight(b)
    BY <1>8, <1>12 DEF IInv, KnownWillBeRight
  <2> QED BY <1>1, <1>2, <2>1, <2>2, <2>3, <2>4, RightAppend
<1>14. EventsEndRight' /\ BatchEndsRight' /\ PendingIsRight'
  BY <1>1, <1>8 DEF IInv, EventsEndRight, BatchEndsRight, PendingIsRight
<1> QED BY <1>6, <1>7, <1>9, <1>10, <1>11, <1>13, <1>14 DEF IInv

LEMMA LoadEndsInv ==
  ASSUME IInv, LoadEnds
  PROVE  IInv'
<1> DEFINE m == UnsubscribeMessage(unsub)
<1>1. /\ pc = "load" /\ pc' = "select" /\ unsub' = {}
      /\ visit' = [place |-> NoPlace, left |-> 0]
      /\ \/ unsub = {} /\ UNCHANGED wire
         \/ Send(m)
      /\ UNCHANGED <<world, events, lost, pos, posNew, inbound, uplink, at, withheld, batch, known,
                     interested, pending, client, complained, missed>>
  BY DEF LoadEnds, mapVars, posVars, clientVars
<1>2. /\ wire \in Seq(Message) /\ m \in Message
      /\ m.type = "MapChunkUnsubscribe" /\ m.chunks = unsub
  BY <1>1, MessageTypes DEF IInv, TypeOK, UnsubscribeMessage
<1> HIDE DEF m
<1>3. /\ batch = <<>> /\ InHand = {} /\ InHand' = {} /\ known \cap unsub = {}
      /\ Unsettled' = Unsettled
  BY <1>1 DEF IInv, LoopOK, InHand, Unsettled
<1>4. \A c \in known \cup unsub : Held(wire, DOMAIN client, Len(wire) + 1, c)
  BY <1>3 DEF IInv, KnownIsHeld
<1>5. /\ wire' \in Seq(Message) /\ Len(wire') <= WireSize /\ WireFits'
      /\ \A c \in known : Held(wire, DOMAIN client, Len(wire) + 1, c)'
  <2>1. CASE UNCHANGED wire
    BY <1>1, <1>4, <2>1, WireFrame DEF IInv, TypeOK
  <2>2. CASE Send(m)
    <3>1. \A c \in known : ~Takes(m, c)
      BY <1>2, <1>3 DEF Takes
    <3>2. m.type # "MapDeltaUpdate" /\ \A c \in m.chunks : Held(wire, DOMAIN client, Len(wire) + 1, c)
      BY <1>2, <1>4
    <3> QED BY <1>1, <1>2, <1>4, <2>2, <3>1, <3>2, SentFits DEF IInv
  <2> QED BY <1>1, <2>1, <2>2
<1>6. TypeOK'
  <2>1. visit' \in [place : Places \cup {NoPlace}, left : Nat]
    BY <1>1
  <2> QED BY <1>1, <1>5, <2>1 DEF IInv, TypeOK
<1>7. LoopOK' /\ NeverComplains'
  BY <1>1, <1>3 DEF IInv, LoopOK, NeverComplains
<1>8. AcksOK'
  <2>1. CASE UNCHANGED wire
    BY <1>1, <2>1, AcksFrame DEF IInv
  <2>2. CASE Send(m)
    BY <1>1, <1>2, <2>2, SentAcks DEF IInv
  <2> QED BY <1>1, <2>1, <2>2
<1>9. KnownIsHeld'
  BY <1>1, <1>3, <1>5 DEF KnownIsHeld
<1>10. KnownWillBeRight'
  <2> SUFFICES ASSUME NEW c \in known, NEW b \in BlocksIn(c) \ (Unsettled \cup Touched(batch))
               PROVE  WillBeRight(b)'
    BY <1>1, <1>3 DEF KnownWillBeRight
  <2>1. b \in Blocks /\ WillBeRight(b)
    BY <1>3 DEF IInv, KnownWillBeRight, BlocksIn
  <2>2. CASE UNCHANGED wire
    BY <1>1, <2>1, <2>2, RightFrame
  <2>3. CASE Send(m)
    <3>1. ~Tells(m, b) /\ wire' = Append(wire, m)
      BY <1>2, <2>3 DEF Tells, Gives, Send
    <3> QED BY <1>1, <1>2, <2>1, <3>1, RightAppend
  <2> QED BY <1>1, <2>2, <2>3
<1>11. EventsEndRight' /\ BatchEndsRight' /\ PendingIsRight'
  BY <1>1, <1>3 DEF IInv, EventsEndRight, BatchEndsRight, PendingIsRight
<1> QED BY <1>5, <1>6, <1>7, <1>8, <1>9, <1>10, <1>11 DEF IInv

-----------------------------------------------------------------------------
(* The client *)

LEMMA AfterType ==
  ASSUME NEW s \in Seq(Update), NEW b, NEW x \in Ids
  PROVE  After(s, b, x) \in Ids
<1>1. CASE b \in Touched(s)
  <2>1. PICK k \in 1 .. Len(s) :
          s[k].block = b /\ \A j \in k + 1 .. Len(s) : s[j].block # b
    BY <1>1, LastUpdate
  <2>2. After(s, b, x) = s[k].id /\ s[k] \in Update
    BY <2>1, AfterIsLast
  <2> QED BY <2>2 DEF Update
<1>2. CASE b \notin Touched(s)
  BY <1>2, AfterUntouched
<1> QED BY <1>1, <1>2

LEMMA MessageParts ==
  ASSUME NEW m \in Message
  PROVE  /\ m.type = "MapChunk" => m.full \in FullChunk
         /\ m.type = "MapDeltaUpdate" => m.updates \in Seq(Update)
BY DEF Message, AckMessage

\* What the message at the head of the wire makes of the client.
LEMMA Handled ==
  ASSUME IInv, Receive
  PROVE  /\ ~complained'
         /\ DOMAIN client' \subseteq Chunks
         /\ \A c \in DOMAIN client' : client'[c] \in Content(c)
         /\ \A c : (c \in DOMAIN client \/ Gives(Received, c)) /\ ~Takes(Received, c)
                     => c \in DOMAIN client'
         /\ \A b \in Blocks : Tells(Received, b) =>
              ChunkOf[b] \in DOMAIN client' /\ client'[ChunkOf[b]][b] = Told(Received, b)
         /\ \A b \in Blocks :
              ChunkOf[b] \in DOMAIN client /\ ~Tells(Received, b) /\ ~Takes(Received, ChunkOf[b])
                => ChunkOf[b] \in DOMAIN client' /\ client'[ChunkOf[b]][b] = client[ChunkOf[b]][b]
<1> DEFINE r == Received
<1>1. wire \in Seq(Message) /\ wire # <<>> /\ r = wire[1] /\ r \in Message /\ 1 \in 1 .. Len(wire)
  BY TailAt DEF IInv, TypeOK, Receive, Received
<1>2. /\ DOMAIN client \subseteq Chunks /\ \A c \in DOMAIN client : client[c] \in Content(c)
      /\ ~complained
  BY DEF IInv, TypeOK, NeverComplains
<1>3. /\ r.type = "MapDeltaUpdate" => ChunksOf(r.updates) \subseteq DOMAIN client
      /\ r.type = "MapChunkUnsubscribe" => r.chunks \subseteq DOMAIN client
  <2>1. Fits(wire, DOMAIN client, 1)
    BY <1>1 DEF IInv, WireFits
  <2>2. \A c : Held(wire, DOMAIN client, 1, c) => c \in DOMAIN client
    BY DEF Held
  <2> QED BY <1>1, <2>1, <2>2 DEF Fits
<1>4. CASE TakeChunk
  <2> DEFINE d == r.full.chunk
  <2>1. /\ r.type = "MapChunk" /\ complained' = complained
        /\ client' = [c \in DOMAIN client \cup {d} |-> IF c = d THEN r.full.content ELSE client[c]]
    BY <1>4 DEF TakeChunk
  <2>2. d \in Chunks /\ r.full.content \in Content(d)
    BY <1>1, <2>1, MessageParts, FullChunkParts
  <2>3. /\ DOMAIN client' = DOMAIN client \cup {d} /\ client'[d] = r.full.content
        /\ \A c \in DOMAIN client : c # d => client'[c] = client[c]
    BY <2>1
  <2>4. \A b \in Blocks : /\ Tells(r, b) <=> ChunkOf[b] = d
                          /\ Told(r, b) = r.full.content[b]
    BY <2>1 DEF Tells, Told, Gives
  <2>5. \A c : Gives(r, c) <=> c = d
    BY <2>1 DEF Gives
  <2> HIDE DEF d, r
  <2> QED BY <1>2, <2>1, <2>2, <2>3, <2>4, <2>5 DEF r
<1>5. CASE TakeDeltas
  <2> DEFINE s == r.updates
  <2>1. /\ r.type = "MapDeltaUpdate" /\ s \in Seq(Update)
        /\ client' = [c \in DOMAIN client |-> [b \in BlocksIn(c) |-> After(s, b, client[c][b])]]
        /\ ~complained'
    BY <1>1, <1>2, <1>3, <1>5, MessageParts DEF TakeDeltas
  <2>2. \A b : /\ Tells(r, b) <=> b \in Touched(s)
               /\ Told(r, b) = After(s, b, world[b])
    BY <2>1 DEF Tells, Told, Gives
  <2>3. \A c : ~Gives(r, c)
    BY <2>1 DEF Gives
  <2> HIDE DEF r, s
  <2>4. \A c \in DOMAIN client : client'[c] \in Content(c)
    <3> SUFFICES ASSUME NEW c \in DOMAIN client
                 PROVE  client'[c] \in Content(c)
      OBVIOUS
    <3>1. \A b \in BlocksIn(c) : client[c][b] \in Ids
      BY <1>2 DEF Content
    <3>2. \A b \in BlocksIn(c) : After(s, b, client[c][b]) \in Ids
      BY <2>1, <3>1, AfterType
    <3> QED BY <2>1, <3>2 DEF Content
  <2>5. ASSUME NEW b \in Blocks, ChunkOf[b] \in DOMAIN client
        PROVE  client'[ChunkOf[b]][b] = After(s, b, client[ChunkOf[b]][b])
    BY <2>1, <2>5, BlocksInOwnChunk
  <2>6. \A b \in Touched(s) : ChunkOf[b] \in DOMAIN client
    BY <1>3, <2>1, TouchedType DEF s
  <2>7. DOMAIN client' = DOMAIN client
    BY <2>1
  <2>8. \A b \in Touched(s) : After(s, b, client[ChunkOf[b]][b]) = After(s, b, world[b])
    BY <2>1, AfterTouched
  <2>9. \A b, x : b \notin Touched(s) => After(s, b, x) = x
    BY <2>1, AfterUntouched
  <2> QED BY <1>2, <2>1, <2>2, <2>3, <2>4, <2>5, <2>6, <2>7, <2>8, <2>9 DEF r
<1>6. CASE TakeUnsubscribe
  <2>1. /\ r.type = "MapChunkUnsubscribe" /\ ~complained'
        /\ client' = [c \in DOMAIN client \ r.chunks |-> client[c]]
    BY <1>2, <1>3, <1>6 DEF TakeUnsubscribe
  <2>2. /\ \A b : ~Tells(r, b)
        /\ \A c : ~Gives(r, c) /\ (Takes(r, c) <=> c \in r.chunks)
    BY <2>1 DEF Tells, Gives, Takes
  <2>3. DOMAIN client' = DOMAIN client \ r.chunks /\ \A c \in DOMAIN client' : client'[c] = client[c]
    BY <2>1
  <2> HIDE DEF r
  <2> QED BY <1>2, <2>1, <2>2, <2>3 DEF r
<1>7. CASE TakeAck
  <2>1. r.type = "HandledSequence" /\ client' = client
    BY <1>7 DEF TakeAck
  <2>2. withheld
    BY <1>1, <2>1 DEF IInv, AcksOK
  <2>3. ~complained'
    BY <1>2, <1>7, <2>2 DEF TakeAck
  <2>4. (\A b : ~Tells(r, b)) /\ \A c : ~Gives(r, c)
    BY <2>1 DEF Tells, Gives
  <2> QED BY <1>2, <2>1, <2>3, <2>4
<1> QED BY <1>4, <1>5, <1>6, <1>7 DEF Receive

LEMMA ReceiveInv ==
  ASSUME IInv, Receive
  PROVE  IInv'
<1> DEFINE r == Received
<1>1. /\ wire \in Seq(Message) /\ wire # <<>> /\ wire' = Tail(wire) /\ r = wire[1]
      /\ Len(wire) \in Nat \ {0} /\ wire' \in Seq(Message) /\ Len(wire') = Len(wire) - 1
      /\ \A i \in 1 .. Len(wire) - 1 : wire'[i] = wire[i + 1]
  BY TailAt DEF IInv, TypeOK, Receive, Received
<1>2. /\ UNCHANGED <<world, events, lost, pos, posNew, inbound, uplink, at, pc, batch, known,
                     interested, pending, visit, unsub, missed>>
      /\ withheld' \in BOOLEAN /\ complained' \in BOOLEAN
      /\ r.type # "HandledSequence" => withheld' = withheld
      /\ r.type = "HandledSequence" => withheld' = FALSE
  BY DEF IInv, TypeOK, Receive, Received, TakeChunk, TakeDeltas, TakeUnsubscribe, TakeAck,
         mapVars, loopVars
<1>3. /\ ~complained'
      /\ DOMAIN client' \subseteq Chunks /\ \A c \in DOMAIN client' : client'[c] \in Content(c)
      /\ \A c : (c \in DOMAIN client \/ Gives(r, c)) /\ ~Takes(r, c) => c \in DOMAIN client'
      /\ \A b \in Blocks : Tells(r, b) =>
           ChunkOf[b] \in DOMAIN client' /\ client'[ChunkOf[b]][b] = Told(r, b)
      /\ \A b \in Blocks :
           ChunkOf[b] \in DOMAIN client /\ ~Tells(r, b) /\ ~Takes(r, ChunkOf[b])
             => ChunkOf[b] \in DOMAIN client' /\ client'[ChunkOf[b]][b] = client[ChunkOf[b]][b]
  BY Handled
<1> HIDE DEF r
<1>4. TypeOK'
  <2>1. Len(wire') <= WireSize
    BY <1>1, ClientSyncAssumption DEF IInv, TypeOK
  <2> QED BY <1>1, <1>2, <1>3, <2>1 DEF IInv, TypeOK
<1>5. LoopOK' /\ NeverComplains' /\ InHand' = InHand /\ Unsettled' = Unsettled
  BY <1>2, <1>3 DEF IInv, LoopOK, NeverComplains, InHand, Unsettled
<1>6. AcksOK'
  <2> DEFINE acks == {i \in 1 .. Len(wire) : wire[i].type = "HandledSequence"}
  <2>1. \A i \in 1 .. Len(wire') : wire'[i].type = "HandledSequence" => i + 1 \in acks
    BY <1>1
  <2>2. CASE r.type = "HandledSequence"
    <3>1. 1 \in acks
      BY <1>1, <2>2
    <3>2. \A i \in acks : i = 1
      BY <3>1 DEF IInv, AcksOK
    <3>3. \A i \in 1 .. Len(wire') : wire'[i].type # "HandledSequence"
      BY <1>1, <2>1, <3>2
    <3>4. uplink = NoPlace /\ inbound # "ack"
      BY <3>1 DEF IInv, AcksOK
    <3> QED BY <1>2, <3>3, <3>4 DEF AcksOK
  <2>3. CASE r.type # "HandledSequence"
    <3>1. withheld' = withheld
      BY <1>2, <2>3
    <3>2. \A i, j \in acks : i = j
      BY DEF IInv, AcksOK
    <3>3. \A i, j \in 1 .. Len(wire') :
            wire'[i].type = "HandledSequence" /\ wire'[j].type = "HandledSequence" => i = j
      BY <1>1, <2>1, <3>2
    <3> QED BY <1>2, <2>1, <3>1, <3>3 DEF IInv, AcksOK
  <2> QED BY <2>2, <2>3
<1>7. WireFits'
  <2>1. \A i \in 1 .. Len(wire) : Fits(wire, DOMAIN client, i)
    BY DEF IInv, WireFits
  <2>2. \A i \in 1 .. Len(wire') : Fits(wire', DOMAIN client', i)
    BY <1>1, <1>3, <2>1, FitsAfter
  <2> QED BY <2>2 DEF WireFits, Fits, Held, Gives, Takes
<1>8. KnownIsHeld'
  <2> SUFFICES ASSUME NEW c \in (known \ InHand) \cup unsub
               PROVE  Held(wire', DOMAIN client', Len(wire') + 1, c)
    BY <1>2, <1>5 DEF KnownIsHeld, Held, Gives, Takes
  <2>1. Held(wire, DOMAIN client, Len(wire) + 1, c)
    BY DEF IInv, KnownIsHeld
  <2>2. Len(wire) \in 1 .. Len(wire) /\ Len(wire') + 1 = Len(wire)
    BY <1>1
  <2> QED BY <1>1, <1>3, <2>1, <2>2, HeldAfter
<1>9. KnownWillBeRight'
  <2> SUFFICES ASSUME NEW c \in known \ InHand,
                      NEW b \in BlocksIn(c) \ (Unsettled \cup Touched(batch))
               PROVE  WillBeRight(b)'
    BY <1>2, <1>5 DEF KnownWillBeRight
  <2>1. b \in Blocks /\ c = ChunkOf[b] /\ WillBeRight(b)
    BY DEF IInv, KnownWillBeRight, BlocksIn
  <2>2. (\A i \in 1 .. Len(wire) : ~Tells(wire[i], b)) => ~Takes(r, c)
    <3>1. Held(wire, DOMAIN client, Len(wire) + 1, c)
      BY DEF IInv, KnownIsHeld
    <3>2. (\A i \in 1 .. Len(wire) : ~Tells(wire[i], b))
            => \A i \in 1 .. Len(wire) : ~Gives(wire[i], c)
      BY <2>1 DEF Tells
    <3>3. (Len(wire) + 1) - 1 = Len(wire) /\ 1 \in 1 .. Len(wire)
      BY <1>1
    <3> QED BY <1>1, <3>1, <3>2, <3>3 DEF Held
  <2> QED BY <1>1, <1>2, <1>3, <2>1, <2>2, RightAfter
<1>10. EventsEndRight' /\ BatchEndsRight' /\ PendingIsRight'
  BY <1>2, <1>5 DEF IInv, EventsEndRight, BatchEndsRight, PendingIsRight
<1> QED BY <1>4, <1>5, <1>6, <1>7, <1>8, <1>9, <1>10 DEF IInv

-----------------------------------------------------------------------------
(* The theorems *)

LEMMA StutterInv ==
  ASSUME IInv, UNCHANGED vars
  PROVE  IInv'
<1>1. UNCHANGED <<mapVars, loopVars, wire, clientVars, missed, pos, posNew, inbound, uplink, at,
                  withheld>>
  BY DEF vars, posVars
<1>2. TypeOK'
  BY <1>1 DEF IInv, TypeOK, mapVars, loopVars, clientVars
<1>3. AcksOK'
  BY <1>1, AcksFrame DEF IInv
<1> QED BY <1>1, <1>2, <1>3, PositionFrame

LEMMA NextInv ==
  ASSUME IInv, [Next]_vars
  PROVE  IInv'
<1>1. CASE Changes
  BY <1>1, ChangeInv DEF Changes
<1>2. CASE \E p \in Places : Move(p)
  BY <1>2, MoveInv
<1>3. CASE SendPosition
  BY <1>3, SendPositionInv
<1>4. CASE \E pace \in Paces : HandlePosition(pace)
  BY <1>4, HandlePositionInv
<1>5. CASE SendAck
  BY <1>5, SendAckInv
<1>6. CASE BlockEvent
  BY <1>6, TakeUpdateInv, TakeLaggedInv DEF BlockEvent
<1>7. CASE TakePosition
  BY <1>7, TakePositionInv
<1>8. CASE Handling
  BY <1>8, DrainInv, DrainLaggedInv, DrainEndsInv, FillInv, LoadInv, LoadEndsInv DEF Handling
<1>9. CASE Sending
  BY <1>9, FillSendInv, SendBatchInv, LoadSendInv DEF Sending
<1>10. CASE Receive
  BY <1>10, ReceiveInv
<1>11. CASE UNCHANGED vars
  BY <1>11, StutterInv
<1> QED BY <1>1, <1>2, <1>3, <1>4, <1>5, <1>6, <1>7, <1>8, <1>9, <1>10, <1>11 DEF Next

\* The inductive invariant: the loop and the client agree on which chunks the
\* client has, messages on the wire fit it, and for every block of a known chunk
\* something newer is under way or what is under way ends with the block as it is.
THEOREM Invariance == Spec => []IInv
<1>1. Init => IInv
  BY InitInv
<1>2. IInv /\ [Next]_vars => IInv'
  BY NextInv
<1> QED BY <1>1, <1>2, PTL DEF Spec

\* Every variable keeps its type; the batch and the channels keep their bounds.
THEOREM TypeCorrect == Spec => []TypeOK
<1>1. IInv => TypeOK
  BY DEF IInv
<1> QED BY <1>1, Invariance, PTL

\* The client is never told of a chunk it does not have, nor asked to drop one,
\* nor does it get an acknowledgement it does not wait for (the BugChecks in
\* map_delta_update_sync, handle_unsubscribe and handle_ack).
THEOREM ClientNeverComplains == Spec => []NeverComplains
<1>1. IInv => NeverComplains
  BY DEF IInv
<1> QED BY <1>1, Invariance, PTL

\* When everything sent has arrived, the copies of the known chunks are right but
\* for the blocks whose updates the drain loop of handle_block_update dropped.
THEOREM StaleOnlyWhereMissed == Spec => []StaleOnlyIfMissed
<1>1. IInv => StaleOnlyIfMissed
  <2> SUFFICES ASSUME IInv, Quiet, NEW c \in known
               PROVE  /\ c \in DOMAIN client
                      /\ \A b \in BlocksIn(c) : client[c][b] = world[b] \/ b \in missed
    BY DEF StaleOnlyIfMissed
  <2>1. /\ events = <<>> /\ lost = {} /\ wire = <<>> /\ batch = <<>> /\ InHand = {}
        /\ Len(wire) = 0
    BY DEF IInv, LoopOK, Quiet, Lagged, InHand
  <2>2. Unsettled = missed /\ Touched(batch) = {}
    BY <2>1, TouchedType DEF IInv, TypeOK, Unsettled
  <2>3. c \in DOMAIN client
    <3>1. Held(wire, DOMAIN client, 1, c)
      BY <2>1 DEF IInv, KnownIsHeld
    <3> QED BY <3>1 DEF Held
  <2>4. ASSUME NEW b \in BlocksIn(c), b \notin missed
        PROVE  client[c][b] = world[b]
    <3>1. WillBeRight(b) /\ ChunkOf[b] = c
      BY <2>1, <2>2, <2>4 DEF IInv, KnownWillBeRight, BlocksIn
    <3> QED BY <2>1, <3>1 DEF WillBeRight
  <2> QED BY <2>3, <2>4
<1> QED BY <1>1, Invariance, PTL
=============================================================================
