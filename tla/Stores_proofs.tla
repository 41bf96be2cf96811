----------------------------- MODULE Stores_proofs -----------------------------
(***************************************************************************)
(* What the two event stores keep, for any constants: the rows of the      *)
(* SQLite database carry the acknowledged events one after another however *)
(* a batch was packed, and the frames of the JSONL file hold them, so that *)
(* a read returns what was written, after faults, repairs and crashes too. *)
(***************************************************************************)
EXTENDS Services, SequenceTheorems, WellFoundedInduction, TLAPS

-----------------------------------------------------------------------------
(* Loops and sequences. *)

(* The loops of the code are recursive functions over 0 .. n, and their     *)
(* facts need induction: over the naturals, from the well-foundedness of < .*)
LEMMA SetInduction ==
    ASSUME NEW A \in SUBSET Nat, 0 \in A, \A n \in A : n + 1 \in A
    PROVE  A = Nat
<1> SUFFICES ASSUME Nat \ A # {} PROVE FALSE
  OBVIOUS
<1>1. PICK m \in Nat \ A : \A k \in Nat \ A : ~(<<k, m>> \in OpToRel(<, Nat))
  BY WFMin, NatLessThanWellFounded, Zenon
<1>2. \A k \in Nat \ A : ~(k < m)
  BY <1>1, Zenon DEF OpToRel
<1> HIDE DEF OpToRel
<1>3. m # 0 /\ m - 1 \in Nat
  BY <1>2
<1>4. m - 1 \in A
  BY <1>2, <1>3
<1>5. QED
  BY <1>3, <1>4

(* A loop of n rounds: it starts with base, and round i turns t into        *)
(* step[i][t].                                                              *)
IsLoop(F, base, step, n) ==
    /\ F = [i \in 0 .. n |-> F[i]]
    /\ F[0] = base /\ \A i \in 1 .. n : F[i] = step[i][F[i - 1]]

LEMMA LoopRuns ==
    ASSUME NEW T, NEW base \in T, NEW step \in [Nat -> [T -> T]]
    PROVE  \A n \in Nat : \E F : IsLoop(F, base, step, n) /\ \A i \in 0 .. n : F[i] \in T
<1> DEFINE A == {n \in Nat : \E F : IsLoop(F, base, step, n) /\ \A i \in 0 .. n : F[i] \in T}
<1>1. 0 \in A
  <2> DEFINE F == [i \in 0 .. 0 |-> base]
  <2>1. IsLoop(F, base, step, 0) /\ \A i \in 0 .. 0 : F[i] \in T
    BY DEF IsLoop
  <2>2. QED
    BY <2>1
<1>2. ASSUME NEW n \in A PROVE n + 1 \in A
  <2>1. PICK F : IsLoop(F, base, step, n) /\ \A i \in 0 .. n : F[i] \in T
    OBVIOUS
  <2> DEFINE last == step[n + 1][F[n]]
             G == [i \in 0 .. n + 1 |-> IF i = n + 1 THEN last ELSE F[i]]
  <2>2. n \in Nat /\ F[n] \in T /\ last \in T
    BY <2>1
  <2> HIDE DEF last
  <2>3. G[0] = base /\ \A i \in 0 .. n + 1 : G[i] \in T
    BY <2>1, <2>2 DEF IsLoop
  <2>4. ASSUME NEW i \in 1 .. n + 1 PROVE G[i] = step[i][G[i - 1]]
    <3>1. CASE i = n + 1
      BY <2>2, <3>1 DEF last
    <3>2. CASE i # n + 1
      <4>1. i \in 1 .. n /\ i - 1 \in 0 .. n + 1 /\ i - 1 # n + 1 /\ i \in 0 .. n + 1
        BY <2>2, <3>2
      <4>2. G[i] = F[i] /\ G[i - 1] = F[i - 1]
        BY <3>2, <4>1
      <4>3. QED
        BY <2>1, <4>1, <4>2 DEF IsLoop
    <3>3. QED
      BY <3>1, <3>2
  <2>5. G = [i \in 0 .. n + 1 |-> G[i]]
    OBVIOUS
  <2> HIDE DEF G
  <2>6. IsLoop(G, base, step, n + 1)
    <3>1. G[0] = base
      BY <2>3
    <3>2. QED
      BY <2>4, <2>5, <3>1, Zenon DEF IsLoop
  <2>7. QED
    BY <2>2, <2>3, <2>6
<1>3. A = Nat
  <2> HIDE DEF A
  <2>1. A \in SUBSET Nat
    BY DEF A
  <2>2. QED
    BY <1>1, <1>2, <2>1, SetInduction
<1>4. QED
  BY <1>3, Zenon

LEMMA NatMin ==
    ASSUME NEW S \in SUBSET Nat, S # {}
    PROVE  \E m \in S : \A k \in S : m <= k
<1>1. PICK m \in S : \A k \in S : ~(<<k, m>> \in OpToRel(<, Nat))
  BY WFMin, NatLessThanWellFounded, Zenon
<1>2. \A k \in S : ~(k < m)
  <2>1. SUFFICES ASSUME NEW k \in S, k < m PROVE FALSE
    OBVIOUS
  <2>2. k \in Nat /\ m \in Nat
    OBVIOUS
  <2>3. <<k, m>> \in OpToRel(<, Nat)
    BY <2>1, <2>2, Zenon DEF OpToRel
  <2>4. QED
    BY <1>1, <2>3, Zenon
<1>3. QED
  BY <1>2

LEMMA AppendOf ==
    ASSUME NEW S, NEW q \in Seq(S), NEW e \in S
    PROVE  /\ Append(q, e) \in Seq(S) /\ Len(q) \in Nat /\ Len(Append(q, e)) = Len(q) + 1
           /\ DOMAIN q = 1 .. Len(q) /\ DOMAIN Append(q, e) = 1 .. Len(q) + 1
           /\ \A i \in 1 .. Len(q) : Append(q, e)[i] = q[i]
           /\ Append(q, e)[Len(q) + 1] = e /\ Append(q, e) # <<>>
OBVIOUS

(* Two loops that take the same steps agree.                                *)
SameSteps(F, G, n) == F[0] = G[0] /\ \A i \in 1 .. n : F[i - 1] = G[i - 1] => F[i] = G[i]

LEMMA SameLoop ==
    ASSUME NEW F, NEW G, NEW n \in Nat, SameSteps(F, G, n)
    PROVE  \A i \in 0 .. n : F[i] = G[i]
<1> USE DEF SameSteps
<1> DEFINE A == {i \in Nat : i <= n => F[i] = G[i]}
<1>1. 0 \in A
  OBVIOUS
<1>2. ASSUME NEW i \in A PROVE i + 1 \in A
  <2>1. i \in Nat /\ (i <= n => F[i] = G[i])
    OBVIOUS
  <2>2. i + 1 <= n => i + 1 \in 1 .. n /\ (i + 1) - 1 = i /\ i <= n
    BY <2>1
  <2>3. i + 1 <= n => F[i + 1] = G[i + 1]
    BY <2>1, <2>2
  <2>4. QED
    BY <2>1, <2>3
<1>3. A = Nat
  <2>1. A \in SUBSET Nat
    OBVIOUS
  <2> HIDE DEF A
  <2>2. QED
    BY <1>1, <1>2, <2>1, SetInduction
<1>4. ASSUME NEW i \in 0 .. n PROVE F[i] = G[i]
  <2>1. i \in A /\ i <= n
    BY <1>3
  <2>2. QED
    BY <2>1
<1>5. QED
  BY <1>4, Zenon

(* A sequence of sequences, end to end.                                     *)
Flat(q) ==
    IF Len(q) = 0 THEN q
    ELSE LET flatten[i \in 1 .. Len(q)] == IF i = 1 THEN q[i] ELSE flatten[i - 1] \o q[i]
         IN flatten[Len(q)]

IsFlat(F, q) == F[1] = q[1] /\ \A i \in 2 .. Len(q) : F[i] = F[i - 1] \o q[i]

LEMMA FlatExists ==
    ASSUME NEW T, NEW q \in Seq(Seq(T)), q # <<>>
    PROVE  \E F : IsFlat(F, q) /\ Flat(q) = F[Len(q)] /\ \A i \in 1 .. Len(q) : F[i] \in Seq(T)
<1> DEFINE step == [i \in Nat |-> [t \in Seq(T) |-> IF i \in 1 .. Len(q) THEN (IF i = 1 THEN q[i] ELSE t \o q[i]) ELSE t]]
           start == <<>>
           flatten == CHOOSE F : F = [i \in 1 .. Len(q) |-> IF i = 1 THEN q[i] ELSE F[i - 1] \o q[i]]
           n == Len(q)
           S == Seq(T)
<1>1. n \in Nat /\ n # 0 /\ \A i \in 1 .. n : q[i] \in S /\ i \in Nat
  OBVIOUS
<1>2. start \in S
  OBVIOUS
<1>3. step \in [Nat -> [S -> S]]
  BY <1>1
<1>4. PICK L : IsLoop(L, start, step, n) /\ \A i \in 0 .. n : L[i] \in S
  <2> HIDE DEF start, step, S, n
  <2>1. QED
    BY <1>1, <1>2, <1>3, LoopRuns
<1> DEFINE G == [i \in 1 .. n |-> L[i]]
<1>5. ASSUME NEW i \in 1 .. n PROVE G[i] = (IF i = 1 THEN q[i] ELSE G[i - 1] \o q[i]) /\ G[i] \in S
  <2>1. i \in 0 .. n /\ i - 1 \in 0 .. n /\ i \in Nat /\ (i # 1 => i - 1 \in 1 .. n)
    BY <1>1
  <2>2. L[i] = step[i][L[i - 1]] /\ L[i - 1] \in S
    BY <1>4, <2>1, Zenon DEF IsLoop
  <2>3. step[i][L[i - 1]] = IF i = 1 THEN q[i] ELSE L[i - 1] \o q[i]
    BY <2>1, <2>2
  <2>4. i # 1 => G[i - 1] = L[i - 1]
    BY <2>1
  <2>5. G[i] = L[i]
    OBVIOUS
  <2>6. G[i] \in S
    BY <1>4, <2>1, <2>5, Zenon
  <2> HIDE DEF G, step
  <2>7. QED
    BY <2>2, <2>3, <2>4, <2>5, <2>6
<1>6. G = [i \in 1 .. n |-> IF i = 1 THEN q[i] ELSE G[i - 1] \o q[i]]
  <2>1. G = [i \in 1 .. n |-> G[i]]
    OBVIOUS
  <2> HIDE DEF G
  <2>2. [i \in 1 .. n |-> G[i]] = [i \in 1 .. n |-> IF i = 1 THEN q[i] ELSE G[i - 1] \o q[i]]
    BY <1>5, Zenon
  <2>3. QED
    BY <2>1, <2>2, Zenon
<1>7. flatten = [i \in 1 .. n |-> IF i = 1 THEN q[i] ELSE flatten[i - 1] \o q[i]]
  <2> HIDE DEF G
  <2>1. QED
    BY <1>6, Zenon
<1>8. Flat(q) = flatten[n]
  BY <1>1 DEF Flat
<1> HIDE DEF flatten, step, G
<1>9. \A i \in 1 .. n : flatten[i] = IF i = 1 THEN q[i] ELSE flatten[i - 1] \o q[i]
  <2>1. ASSUME NEW i \in 1 .. n PROVE flatten[i] = IF i = 1 THEN q[i] ELSE flatten[i - 1] \o q[i]
    BY <1>7, Zenon
  <2>2. QED
    BY <2>1, Zenon
<1>10. IsFlat(flatten, q)
  <2>1. 1 \in 1 .. n /\ \A i \in 2 .. n : i \in 1 .. n /\ i # 1
    BY <1>1
  <2>2. flatten[1] = q[1]
    BY <1>9, <2>1
  <2>3. \A i \in 2 .. n : flatten[i] = flatten[i - 1] \o q[i]
    BY <1>9, <2>1, Zenon
  <2>4. QED
    BY <2>2, <2>3, Zenon DEF IsFlat
<1>11. \A i \in 1 .. n : flatten[i] \in S
  <2> DEFINE A == {i \in Nat : i < n => flatten[i + 1] \in S}
  <2>1. 0 \in A
    <3>1. 1 \in 1 .. n /\ flatten[1] = q[1]
      BY <1>1, <1>9
    <3>2. flatten[0 + 1] \in S
      <4>1. 0 + 1 = 1
        OBVIOUS
      <4>2. QED
        BY <1>1, <3>1, <4>1, Zenon
    <3> HIDE DEF S
    <3>3. QED
      BY <3>2
  <2>2. ASSUME NEW i \in A PROVE i + 1 \in A
    <3>1. i \in Nat /\ (i < n => flatten[i + 1] \in S)
      OBVIOUS
    <3>2. ASSUME i + 1 < n PROVE flatten[(i + 1) + 1] \in S
      <4>1. i < n /\ (i + 1) + 1 \in 1 .. n /\ (i + 1) + 1 # 1 /\ ((i + 1) + 1) - 1 = i + 1
        BY <1>1, <3>1, <3>2
      <4>2. flatten[(i + 1) + 1] = flatten[i + 1] \o q[(i + 1) + 1]
        BY <1>9, <4>1
      <4>3. flatten[i + 1] \in S /\ q[(i + 1) + 1] \in S
        BY <1>1, <3>1, <4>1, Zenon
      <4>4. \A a, b \in S : a \o b \in S
        OBVIOUS
      <4> HIDE DEF S
      <4>5. QED
        BY <4>2, <4>3, <4>4, Zenon
    <3>3. QED
      BY <3>1, <3>2
  <2>3. A = Nat
    <3>1. A \in SUBSET Nat
      OBVIOUS
    <3> HIDE DEF A
    <3>2. QED
      BY <2>1, <2>2, <3>1, SetInduction
  <2>4. ASSUME NEW i \in 1 .. n PROVE flatten[i] \in S
    <3>1. i - 1 \in A /\ i - 1 < n /\ (i - 1) + 1 = i
      <4> HIDE DEF A
      <4>1. QED
        BY <1>1, <2>3
    <3> HIDE DEF S
    <3>2. QED
      BY <3>1
  <2>5. QED
    BY <2>4, Zenon
<1>12. QED
  BY <1>8, <1>10, <1>11, Zenon

LEMMA FlatOf ==
    ASSUME NEW T, NEW q \in Seq(Seq(T))
    PROVE  Flat(q) \in Seq(T) /\ Flat(<<>>) = <<>>
<1>1. Flat(<<>>) = <<>>
  <2>1. Len(<<>>) = 0
    OBVIOUS
  <2>2. QED
    BY <2>1 DEF Flat
<1>2. CASE q = <<>>
  <2>1. <<>> \in Seq(T)
    OBVIOUS
  <2>2. QED
    BY <1>1, <1>2, <2>1, Zenon
<1>3. CASE q # <<>>
  <2>1. PICK F : IsFlat(F, q) /\ Flat(q) = F[Len(q)] /\ \A i \in 1 .. Len(q) : F[i] \in Seq(T)
    BY <1>3, FlatExists
  <2>2. Len(q) \in 1 .. Len(q)
    BY <1>3
  <2>3. QED
    BY <1>1, <2>1, <2>2
<1>4. QED
  BY <1>2, <1>3

LEMMA FlatAppend ==
    ASSUME NEW T, NEW q \in Seq(Seq(T)), NEW x \in Seq(T)
    PROVE  Flat(Append(q, x)) = Flat(q) \o x
<1> DEFINE S == Seq(T)
           longer == Append(q, x)
<1>1. /\ longer \in Seq(S) /\ Len(q) \in Nat /\ Len(longer) = Len(q) + 1 /\ longer # <<>>
      /\ \A i \in 1 .. Len(q) : longer[i] = q[i]
      /\ longer[Len(q) + 1] = x
  <2> HIDE DEF S
  <2>1. q \in Seq(S) /\ x \in S
    BY DEF S
  <2>2. QED
    BY <2>1, AppendOf
<1> HIDE DEF longer
<1>2. PICK G : IsFlat(G, longer) /\ Flat(longer) = G[Len(longer)]
  BY <1>1, FlatExists
<1>3. CASE q = <<>>
  <2>1. Flat(longer) = x
    BY <1>1, <1>2, <1>3 DEF IsFlat
  <2>2. Flat(q) = <<>>
    BY <1>3, FlatOf
  <2>3. <<>> \o x = x
    OBVIOUS
  <2>4. QED
    BY <2>1, <2>2, <2>3, Zenon DEF longer
<1>4. CASE q # <<>>
  <2>1. PICK F : IsFlat(F, q) /\ Flat(q) = F[Len(q)]
    BY <1>4, FlatExists
  <2> DEFINE n == Len(q)
  <2>2. n \in Nat /\ n # 0
    BY <1>4
  <2> DEFINE A == [i \in 0 .. n - 1 |-> F[i + 1]]
             B == [i \in 0 .. n - 1 |-> G[i + 1]]
  <2>3. SameSteps(A, B, n - 1)
    <3>1. A[0] = B[0]
      <4>1. F[1] = q[1] /\ G[1] = longer[1] /\ 1 \in 1 .. n
        <5>1. F[1] = q[1] /\ G[1] = longer[1]
          BY <1>2, <2>1, Zenon DEF IsFlat
        <5>2. QED
          BY <2>2, <5>1
      <4>2. 0 \in 0 .. n - 1 /\ 0 + 1 = 1
        BY <2>2
      <4>3. QED
        BY <1>1, <4>1, <4>2
    <3>2. ASSUME NEW i \in 1 .. n - 1, A[i - 1] = B[i - 1] PROVE A[i] = B[i]
      <4>1. i \in 0 .. n - 1 /\ i - 1 \in 0 .. n - 1 /\ (i - 1) + 1 = i /\ i + 1 \in 2 .. n /\ i + 1 \in 2 .. Len(longer)
            /\ (i + 1) - 1 = i /\ i + 1 \in 1 .. n
        BY <1>1, <2>2
      <4>2. F[i] = G[i]
        BY <3>2, <4>1
      <4>3. F[i + 1] = F[(i + 1) - 1] \o q[i + 1] /\ G[i + 1] = G[(i + 1) - 1] \o longer[i + 1]
        BY <1>2, <2>1, <4>1, Zenon DEF IsFlat
      <4>4. longer[i + 1] = q[i + 1]
        BY <1>1, <4>1
      <4>5. F[i + 1] = G[i + 1]
        BY <4>1, <4>2, <4>3, <4>4
      <4>6. QED
        BY <4>1, <4>5
    <3> HIDE DEF A, B
    <3>3. QED
      BY <3>1, <3>2, Zenon DEF SameSteps
  <2>4. F[n] = G[n]
    <3>1. n - 1 \in Nat /\ n - 1 \in 0 .. n - 1 /\ (n - 1) + 1 = n
      BY <2>2
    <3>2. A[n - 1] = B[n - 1]
      <4> HIDE DEF A, B, n
      <4>1. QED
        BY <2>3, <3>1, SameLoop, Zenon
    <3>3. QED
      BY <3>1, <3>2
  <2>5. G[n + 1] = G[n] \o x
    <3>1. n + 1 \in 2 .. Len(longer) /\ (n + 1) - 1 = n
      BY <1>1, <2>2
    <3>2. QED
      BY <1>1, <1>2, <3>1 DEF IsFlat
  <2>6. QED
    BY <1>1, <1>2, <2>1, <2>4, <2>5 DEF longer
<1>5. QED
  BY <1>3, <1>4

(* Sequences cut and joined.                                                *)
LEMMA CutTwo ==
    ASSUME NEW T, NEW q \in Seq(T), NEW n \in 0 .. Len(q)
    PROVE  /\ SubSeq(q, 1, n) \in Seq(T) /\ Len(SubSeq(q, 1, n)) = n
           /\ SubSeq(q, n + 1, Len(q)) \in Seq(T) /\ Len(SubSeq(q, n + 1, Len(q))) = Len(q) - n
           /\ \A i \in 1 .. n : SubSeq(q, 1, n)[i] = q[i]
           /\ \A i \in 1 .. Len(q) - n : SubSeq(q, n + 1, Len(q))[i] = q[n + i]
           /\ q = SubSeq(q, 1, n) \o SubSeq(q, n + 1, Len(q))
<1> DEFINE a == SubSeq(q, 1, n)
           b == SubSeq(q, n + 1, Len(q))
<1>1. Len(q) \in Nat /\ n \in Nat
  OBVIOUS
<1>2. a \in Seq(T) /\ Len(a) = n /\ \A i \in 1 .. n : a[i] = q[i]
  OBVIOUS
<1>3. b \in Seq(T) /\ Len(b) = Len(q) - n /\ \A i \in 1 .. Len(q) - n : b[i] = q[n + i]
  <2>1. n + 1 \in 1 .. Len(q) + 1
    BY <1>1
  <2>2. b \in Seq(T)
    BY <1>1, <2>1
  <2>3. Len(b) = IF n + 1 <= Len(q) THEN Len(q) - (n + 1) + 1 ELSE 0
    BY <1>1
  <2>4. \A i \in 1 .. Len(q) - n : b[i] = q[n + i]
    BY <1>1
  <2>5. QED
    BY <1>1, <2>2, <2>3, <2>4
<1> HIDE DEF a, b
<1>4. q = a \o b
  <2>1. /\ a \o b \in Seq(T) /\ Len(a \o b) = Len(a) + Len(b)
        /\ \A i \in 1 .. Len(a) + Len(b) : (a \o b)[i] = IF i <= Len(a) THEN a[i] ELSE b[i - Len(a)]
    BY <1>2, <1>3, ConcatProperties
  <2> DEFINE c == a \o b
  <2> HIDE DEF c
  <2>2. c \in Seq(T) /\ Len(c) = Len(q)
    BY <1>1, <1>2, <1>3, <2>1 DEF c
  <2>3. ASSUME NEW i \in 1 .. Len(q) PROVE q[i] = c[i]
    <3>1. c[i] = IF i <= n THEN a[i] ELSE b[i - n]
      BY <1>1, <1>2, <1>3, <2>1 DEF c
    <3>2. i <= n => a[i] = q[i]
      BY <1>1, <1>2
    <3>3. ~(i <= n) => i - n \in 1 .. Len(q) - n /\ n + (i - n) = i
      BY <1>1
    <3>4. ~(i <= n) => b[i - n] = q[i]
      BY <1>3, <3>3
    <3>5. QED
      BY <3>1, <3>2, <3>4
  <2>4. q = c
    BY <2>2, <2>3
  <2>5. QED
    BY <2>4 DEF c
<1>5. QED
  BY <1>2, <1>3, <1>4 DEF a, b

LEMMA CutConcat ==
    ASSUME NEW T, NEW p \in Seq(T), NEW q \in Seq(T), NEW j \in 0 .. Len(q)
    PROVE  SubSeq(p \o q, 1, Len(p) + j) = p \o SubSeq(q, 1, j) /\ SubSeq(q, 1, j) \in Seq(T)
<1> DEFINE r == p \o q
           s == SubSeq(q, 1, j)
           t == p \o s
           u == SubSeq(r, 1, Len(p) + j)
<1>1. Len(p) \in Nat /\ Len(q) \in Nat /\ j \in Nat
  OBVIOUS
<1>2. r \in Seq(T) /\ Len(r) = Len(p) + Len(q) /\ \A i \in 1 .. Len(p) + Len(q) : r[i] = IF i <= Len(p) THEN p[i] ELSE q[i - Len(p)]
  BY ConcatProperties
<1>3. s \in Seq(T) /\ Len(s) = j /\ \A i \in 1 .. j : s[i] = q[i]
  BY CutTwo
<1> HIDE DEF r, s
<1>4. t \in Seq(T) /\ Len(t) = Len(p) + j /\ \A i \in 1 .. Len(p) + j : t[i] = IF i <= Len(p) THEN p[i] ELSE s[i - Len(p)]
  BY <1>3, ConcatProperties
<1>5. u \in Seq(T) /\ Len(u) = Len(p) + j /\ \A i \in 1 .. Len(p) + j : u[i] = r[i]
  <2>1. Len(p) + j \in 0 .. Len(r)
    BY <1>1, <1>2
  <2>2. QED
    BY <1>2, <2>1, CutTwo
<1> HIDE DEF t, u
<1>6. ASSUME NEW i \in 1 .. Len(p) + j PROVE t[i] = u[i]
  <2>1. u[i] = IF i <= Len(p) THEN p[i] ELSE q[i - Len(p)]
    BY <1>1, <1>2, <1>5
  <2>2. t[i] = IF i <= Len(p) THEN p[i] ELSE s[i - Len(p)]
    BY <1>4
  <2>3. ~(i <= Len(p)) => i - Len(p) \in 1 .. j
    BY <1>1
  <2>4. QED
    BY <1>3, <2>1, <2>2, <2>3
<1>7. t = u
  BY <1>1, <1>4, <1>5, <1>6
<1>8. QED
  BY <1>3, <1>7 DEF t, u, r, s

LEMMA LenConcat ==
    ASSUME NEW T, NEW a \in Seq(T), NEW b \in Seq(T)
    PROVE  a \o b \in Seq(T) /\ Len(a \o b) = Len(a) + Len(b) /\ Len(a) \in Nat /\ Len(b) \in Nat
  BY ConcatProperties

PastFirst(p, q, j, T) ==
    /\ (p \o q)[Len(p) + j] = q[j]
    /\ SubSeq(p \o q, 1, (Len(p) + j) - 1) = p \o SubSeq(q, 1, j - 1) /\ SubSeq(q, 1, j - 1) \in Seq(T)

LEMMA CutPast ==
    ASSUME NEW T, NEW p \in Seq(T), NEW q \in Seq(T), NEW j \in 1 .. Len(q)
    PROVE  PastFirst(p, q, j, T)
<1>1. j - 1 \in 0 .. Len(q) /\ (Len(p) + j) - 1 = Len(p) + (j - 1) /\ Len(p) \in Nat
  OBVIOUS
<1>2. SubSeq(p \o q, 1, Len(p) + (j - 1)) = p \o SubSeq(q, 1, j - 1) /\ SubSeq(q, 1, j - 1) \in Seq(T)
  BY <1>1, CutConcat
<1>3. (p \o q)[Len(p) + j] = q[j]
  <2>1. \A i \in 1 .. Len(p) + Len(q) : (p \o q)[i] = IF i <= Len(p) THEN p[i] ELSE q[i - Len(p)]
    BY ConcatProperties
  <2>2. Len(p) + j \in 1 .. Len(p) + Len(q) /\ ~(Len(p) + j <= Len(p)) /\ (Len(p) + j) - Len(p) = j
    BY <1>1
  <2>3. QED
    BY <2>1, <2>2
<1>4. QED
  BY <1>1, <1>2, <1>3 DEF PastFirst

LEMMA CutRest ==
    ASSUME NEW T, NEW w \in Seq(T), NEW k \in 0 .. Len(w), NEW i \in 1 .. Len(SubSeq(w, k + 1, Len(w)))
    PROVE  /\ SubSeq(w, k + 1, Len(w))[i] = w[k + i] /\ k + i \in 1 .. Len(w)
           /\ SubSeq(w, 1, (k + i) - 1) = SubSeq(w, 1, k) \o SubSeq(SubSeq(w, k + 1, Len(w)), 1, i - 1)
           /\ SubSeq(SubSeq(w, k + 1, Len(w)), 1, i - 1) \in Seq(T)
<1> DEFINE p == SubSeq(w, 1, k)
           q == SubSeq(w, k + 1, Len(w))
<1>1. p \in Seq(T) /\ q \in Seq(T) /\ Len(p) = k /\ Len(q) = Len(w) - k /\ w = p \o q
  BY CutTwo, Zenon
<1>2. i \in 1 .. Len(q) /\ k \in Nat /\ Len(w) \in Nat
  OBVIOUS
<1> HIDE DEF p, q
<1>3. PastFirst(p, q, i, T)
  BY <1>1, <1>2, CutPast, Zenon
<1>4. w[k + i] = q[i] /\ SubSeq(w, 1, (k + i) - 1) = p \o SubSeq(q, 1, i - 1) /\ SubSeq(q, 1, i - 1) \in Seq(T)
  BY <1>1, <1>3 DEF PastFirst
<1>5. k + i \in 1 .. Len(w)
  BY <1>1, <1>2
<1>6. QED
  BY <1>4, <1>5 DEF p, q

Middle(w, o, k, T) ==
    /\ SubSeq(w, o + 1, o + k) \in Seq(T) /\ Len(SubSeq(w, o + 1, o + k)) = k
    /\ \A i \in 1 .. k : SubSeq(w, o + 1, o + k)[i] = w[o + i] /\ o + i \in 1 .. Len(w)
    /\ SubSeq(w, 1, o) \o SubSeq(w, o + 1, o + k) = SubSeq(w, 1, o + k)
    /\ Len(SubSeq(w, 1, o)) = o

LEMMA CutMiddle ==
    ASSUME NEW T, NEW w \in Seq(T), NEW o \in Nat, NEW k \in Nat \ {0}, o + k <= Len(w)
    PROVE  Middle(w, o, k, T)
<1> DEFINE p == SubSeq(w, o + 1, o + k)
           a == SubSeq(w, 1, o)
           c == SubSeq(w, 1, o + k)
<1>1. Len(w) \in Nat /\ o \in 0 .. Len(w) /\ o + k \in 0 .. Len(w)
  OBVIOUS
<1>2. \A i \in 1 .. k : o + i \in 1 .. Len(w)
  BY <1>1
<1>3. o + 1 \in 1 .. Len(w) /\ o + k \in 1 .. Len(w) /\ o + 1 <= o + k /\ (o + k) - (o + 1) + 1 = k
  BY <1>1
<1>4. p \in Seq(T) /\ Len(p) = k /\ \A i \in 1 .. k : p[i] = w[o + i]
  <2>1. p = [i \in 1 .. (o + k) - (o + 1) + 1 |-> w[i + (o + 1) - 1]]
    OBVIOUS
  <2>2. \A i \in 1 .. k : i + (o + 1) - 1 = o + i
    OBVIOUS
  <2>3. p = [i \in 1 .. k |-> w[i + (o + 1) - 1]]
    BY <1>3, <2>1, Zenon
  <2>4. p = [i \in 1 .. k |-> w[o + i]]
    BY <2>2, <2>3, Zenon
  <2>5. \A i \in 1 .. k : w[o + i] \in T
    BY <1>2
  <2> HIDE DEF p
  <2>6. QED
    BY <2>4, <2>5
<1>5. a \in Seq(T) /\ Len(a) = o /\ \A i \in 1 .. o : a[i] = w[i]
  BY <1>1, CutTwo
<1>6. c \in Seq(T) /\ Len(c) = o + k /\ \A i \in 1 .. o + k : c[i] = w[i]
  BY <1>1, CutTwo
<1> HIDE DEF p, a, c
<1>7. a \o p = c
  <2> DEFINE d == a \o p
  <2>1. /\ d \in Seq(T) /\ Len(d) = Len(a) + Len(p)
        /\ \A i \in 1 .. Len(a) + Len(p) : d[i] = IF i <= Len(a) THEN a[i] ELSE p[i - Len(a)]
    BY <1>4, <1>5, ConcatProperties
  <2> HIDE DEF d
  <2>2. ASSUME NEW i \in 1 .. o + k PROVE d[i] = c[i]
    <3>1. d[i] = IF i <= o THEN a[i] ELSE p[i - o]
      BY <1>4, <1>5, <2>1
    <3>2. i <= o => a[i] = w[i]
      BY <1>5
    <3>3. ~(i <= o) => i - o \in 1 .. k /\ o + (i - o) = i
      OBVIOUS
    <3>4. ~(i <= o) => p[i - o] = w[i]
      BY <1>4, <3>3
    <3>5. QED
      BY <1>6, <3>1, <3>2, <3>4
  <2>3. d = c
    BY <1>4, <1>5, <1>6, <2>1, <2>2
  <2>4. QED
    BY <2>3 DEF d
<1>8. QED
  BY <1>2, <1>4, <1>5, <1>7, Zenon DEF p, a, c, Middle

(* A loop whose rounds lead from the good states of one to the next's.      *)
LEMMA LoopKeeps ==
    ASSUME NEW T, NEW Good \in [Nat -> SUBSET T], NEW base \in Good[0], NEW step \in [Nat -> [T -> T]], NEW n \in Nat,
           \A i \in 1 .. n : \A t \in Good[i - 1] : step[i][t] \in Good[i]
    PROVE  \E F : IsLoop(F, base, step, n) /\ \A i \in 0 .. n : F[i] \in Good[i] /\ F[i] \in T
<1>1. base \in T
  OBVIOUS
<1>2. PICK F : IsLoop(F, base, step, n) /\ \A i \in 0 .. n : F[i] \in T
  BY <1>1, LoopRuns
<1> DEFINE A == {i \in Nat : i <= n => F[i] \in Good[i]}
<1>3. 0 \in A
  BY <1>2 DEF IsLoop
<1>4. ASSUME NEW i \in A PROVE i + 1 \in A
  <2>1. i \in Nat /\ (i <= n => F[i] \in Good[i])
    OBVIOUS
  <2>2. ASSUME i + 1 <= n PROVE F[i + 1] \in Good[i + 1]
    <3>1. i + 1 \in 1 .. n /\ (i + 1) - 1 = i /\ i <= n
      BY <2>1, <2>2
    <3>2. F[i + 1] = step[i + 1][F[(i + 1) - 1]]
      BY <1>2, <3>1, Zenon DEF IsLoop
    <3>3. F[(i + 1) - 1] \in Good[(i + 1) - 1]
      BY <2>1, <3>1
    <3>4. QED
      BY <3>1, <3>2, <3>3, Zenon
  <2>3. QED
    BY <2>1, <2>2
<1>5. A = Nat
  <2>1. A \in SUBSET Nat
    OBVIOUS
  <2> HIDE DEF A
  <2>2. QED
    BY <1>3, <1>4, <2>1, SetInduction
<1>6. ASSUME NEW i \in 0 .. n PROVE F[i] \in Good[i]
  <2>1. i \in A /\ i <= n
    BY <1>5
  <2>2. QED
    BY <2>1
<1>7. QED
  BY <1>2, <1>6

-----------------------------------------------------------------------------
(* JsonlStore: the frames of the file.                                      *)

Rec == [seq : Nat, kind : RecordKinds \cup {"turn/end"}]
Frame == [evs : Seq(Rec), whole : BOOLEAN]
Call == [pc : {"materialize", "write", "sync", "rollback"}, batch : Seq(Rec), before : Nat]

(* evs go on from sequence number n.                                        *)
GoesOn(n, evs) == evs \in Seq(Rec) /\ \A i \in 1 .. Len(evs) : evs[i].seq = n + i - 1

Parts(fs, n) == [i \in 1 .. n |-> fs[i].evs]

(* The first n frames are whole and hold the events of the log.             *)
Holds(fs, n, log) ==
    /\ n \in 0 .. Len(fs) /\ \A i \in 1 .. n : fs[i].whole
    /\ Flat(Parts(fs, n)) = log

(* The last frame is one whose append nobody has been told of.              *)
Trails(fs, log) ==
    fs # <<>> /\ Holds(fs, Len(fs) - 1, log) /\ GoesOn(Len(log), fs[Len(fs)].evs)

Readable(fs, log) == Holds(fs, Len(fs), log) \/ Trails(fs, log)

(* A write is in the file, and not yet acknowledged or taken back.          *)
Behind == writer.pc \in {"sync", "rollback"}

JournalOk ==
    /\ frames \in Seq(Frame) /\ GoesOn(0, acked) /\ Readable(frames, acked)
    /\ writer.pc # "idle" => ready /\ writer \in Call /\ GoesOn(Len(acked), writer.batch)
    /\ writer.pc = "materialize" => frames = <<>>
    /\ writer.pc = "write" => writer.before = Len(frames)
    /\ Behind => /\ Len(frames) = writer.before + 1 /\ frames[Len(frames)].evs = writer.batch
                 /\ Holds(frames, writer.before, acked)
    /\ writer.pc = "sync" => frames[Len(frames)].whole
    /\ ready /\ ~Behind => Holds(frames, Len(frames), acked)

(* Once a rollback has failed, the file is only as good as its next delete. *)
JournalInv == unrolled \/ JournalOk

LEMMA PartsTyped ==
    ASSUME NEW fs \in Seq(Frame), NEW n \in 0 .. Len(fs)
    PROVE  Parts(fs, n) \in Seq(Seq(Rec)) /\ Len(Parts(fs, n)) = n /\ \A i \in 1 .. n : fs[i] \in Frame /\ fs[i].evs \in Seq(Rec)
<1>1. \A i \in 1 .. n : fs[i] \in Frame
  OBVIOUS
<1>2. \A i \in 1 .. n : fs[i].evs \in Seq(Rec)
  BY <1>1 DEF Frame
<1> DEFINE S == Seq(Rec)
<1>3. \A i \in 1 .. n : fs[i].evs \in S
  BY <1>2
<1>4. Parts(fs, n) \in Seq(S) /\ Len(Parts(fs, n)) = n
  <2> HIDE DEF S
  <2>1. QED
    BY <1>3 DEF Parts
<1>5. QED
  BY <1>1, <1>2, <1>4

(* One frame more.                                                          *)
LEMMA FrameAdded ==
    ASSUME NEW fs \in Seq(Frame), NEW n \in 1 .. Len(fs)
    PROVE  Flat(Parts(fs, n)) = Flat(Parts(fs, n - 1)) \o fs[n].evs
<1>1. n - 1 \in 0 .. Len(fs) /\ n \in 0 .. Len(fs) /\ n \in 1 .. n
  OBVIOUS
<1> DEFINE S == Seq(Rec)
           less == Parts(fs, n - 1)
           more == Parts(fs, n)
           x == fs[n].evs
<1>2. less \in Seq(S) /\ more \in Seq(S) /\ Len(less) = n - 1 /\ Len(more) = n /\ x \in S
  BY <1>1, PartsTyped
<1>3. \A i \in 1 .. n : more[i] = IF i = n THEN x ELSE less[i]
  BY <1>1 DEF Parts
<1>4. more = Append(less, x)
  <2> HIDE DEF S, less, more, x
  <2>1. QED
    BY <1>2, <1>3
<1>5. QED
  BY <1>2, <1>4, FlatAppend

LEMMA HoldsTyped ==
    ASSUME NEW fs \in Seq(Frame), NEW n, NEW log, Holds(fs, n, log)
    PROVE  log \in Seq(Rec)
  BY PartsTyped, FlatOf DEF Holds

(* Frames that agree hold the same.                                         *)
LEMMA HoldsSame ==
    ASSUME NEW fs \in Seq(Frame), NEW gs \in Seq(Frame), NEW n, NEW log, Holds(fs, n, log),
           n <= Len(gs), \A i \in 1 .. n : fs[i] = gs[i]
    PROVE  Holds(gs, n, log)
<1>1. Parts(gs, n) = Parts(fs, n)
  BY Zenon DEF Parts
<1>2. QED
  BY <1>1 DEF Holds

LEMMA HoldsMore ==
    ASSUME NEW fs \in Seq(Frame), fs # <<>>, NEW log, Holds(fs, Len(fs) - 1, log), fs[Len(fs)].whole
    PROVE  Holds(fs, Len(fs), log \o fs[Len(fs)].evs)
<1>1. Len(fs) \in 1 .. Len(fs) /\ Len(fs) \in 0 .. Len(fs)
  OBVIOUS
<1>2. Flat(Parts(fs, Len(fs))) = log \o fs[Len(fs)].evs
  BY <1>1, FrameAdded DEF Holds
<1>3. \A i \in 1 .. Len(fs) : i = Len(fs) \/ i \in 1 .. Len(fs) - 1
  OBVIOUS
<1>4. QED
  BY <1>1, <1>2, <1>3 DEF Holds

LEMMA HoldsLess ==
    ASSUME NEW fs \in Seq(Frame), NEW n \in 0 .. Len(fs), NEW log, Holds(fs, n, log)
    PROVE  SubSeq(fs, 1, n) \in Seq(Frame) /\ Len(SubSeq(fs, 1, n)) = n /\ Holds(SubSeq(fs, 1, n), n, log)
<1> DEFINE gs == SubSeq(fs, 1, n)
<1>1. gs \in Seq(Frame) /\ Len(gs) = n /\ \A i \in 1 .. n : gs[i] = fs[i]
  OBVIOUS
<1> HIDE DEF gs
<1>2. n <= Len(gs) /\ \A i \in 1 .. n : fs[i] = gs[i]
  BY <1>1
<1>3. Holds(gs, n, log)
  BY <1>1, <1>2, HoldsSame
<1>4. QED
  BY <1>1, <1>3 DEF gs

LEMMA GoesOnTyped ==
    ASSUME NEW n \in Nat, NEW a, NEW b, GoesOn(n, a), GoesOn(n + Len(a), b)
    PROVE  GoesOn(n, a \o b) /\ Len(a \o b) = Len(a) + Len(b) /\ Len(a) \in Nat /\ Len(b) \in Nat
<1>1. a \in Seq(Rec) /\ b \in Seq(Rec) /\ Len(a) \in Nat /\ Len(b) \in Nat
  BY DEF GoesOn
<1>2. /\ a \o b \in Seq(Rec) /\ Len(a \o b) = Len(a) + Len(b)
      /\ \A i \in 1 .. Len(a) + Len(b) : (a \o b)[i] = IF i <= Len(a) THEN a[i] ELSE b[i - Len(a)]
  BY <1>1, ConcatProperties
<1> DEFINE c == a \o b
<1> HIDE DEF c
<1>3. ASSUME NEW i \in 1 .. Len(a) + Len(b) PROVE c[i].seq = n + i - 1
  <2>1. CASE i <= Len(a)
    <3>1. c[i] = a[i] /\ i \in 1 .. Len(a)
      BY <1>1, <1>2, <2>1 DEF c
    <3>2. QED
      BY <3>1 DEF GoesOn
  <2>2. CASE ~(i <= Len(a))
    <3>1. c[i] = b[i - Len(a)] /\ i - Len(a) \in 1 .. Len(b)
      BY <1>1, <1>2, <2>2 DEF c
    <3>2. b[i - Len(a)].seq = (n + Len(a)) + (i - Len(a)) - 1
      BY <3>1 DEF GoesOn
    <3>3. QED
      BY <1>1, <3>1, <3>2
  <2>3. QED
    BY <2>1, <2>2
<1>4. c \in Seq(Rec) /\ Len(c) = Len(a) + Len(b)
  BY <1>2 DEF c
<1>5. GoesOn(n, c)
  BY <1>3, <1>4 DEF GoesOn
<1>6. QED
  BY <1>1, <1>4, <1>5 DEF c

-----------------------------------------------------------------------------
(* Reading.                                                                 *)

Base == Flat(Parts(frames, Journal!TornFrame - 1))

LEMMA LeastFrame ==
    ASSUME NEW S \in SUBSET Nat, S # {}
    PROVE  Journal!Min(S) \in S /\ \A k \in S : Journal!Min(S) <= k
<1>1. PICK m \in S : \A k \in S : m <= k
  BY NatMin
<1>2. QED
  BY <1>1 DEF Journal!Min

(* Every frame is whole, or the last one is not.                            *)
WholeFile ==
    /\ Journal!TornFrame = Len(frames) + 1
    /\ \E e : GoesOn(Len(acked), e) /\ Base = acked \o e

TornFile ==
    /\ Journal!TornFrame = Len(frames) /\ frames # <<>>
    /\ Base = acked /\ GoesOn(Len(acked), frames[Len(frames)].evs)

(* Only the last frame can be torn; what it holds goes on from the rest.    *)
LEMMA TornIsLast ==
    ASSUME frames \in Seq(Frame), Readable(frames, acked), GoesOn(0, acked)
    PROVE  Journal!TornFrame \in Nat /\ Holds(frames, Journal!TornFrame - 1, Base) /\ (WholeFile \/ TornFile)
<1> DEFINE n == Len(frames)
           cut == {i \in DOMAIN frames : ~frames[i].whole}
<1>1. n \in Nat /\ DOMAIN frames = 1 .. n /\ cut \in SUBSET Nat
  OBVIOUS
<1>2. Journal!TornFrame = IF cut = {} THEN n + 1 ELSE Journal!Min(cut)
  BY DEF Journal!TornFrame
<1>3. GoesOn(Len(acked), <<>>) /\ acked \o <<>> = acked
  <2>1. acked \in Seq(Rec)
    BY DEF GoesOn
  <2>2. acked \o <<>> = acked
    BY <2>1
  <2>3. GoesOn(Len(acked), <<>>)
    <3>1. <<>> \in Seq(Rec) /\ Len(<<>>) = 0
      OBVIOUS
    <3>2. QED
      BY <3>1 DEF GoesOn
  <2>4. QED
    BY <2>2, <2>3
<1>4. CASE Holds(frames, n, acked)
  <2>1. cut = {}
    BY <1>1, <1>4 DEF Holds
  <2> HIDE DEF cut
  <2>2. Journal!TornFrame = n + 1 /\ Journal!TornFrame - 1 = n
    BY <1>1, <1>2, <2>1
  <2>3. Base = acked
    BY <1>4, <2>2 DEF Base, Holds
  <2>4. WholeFile
    BY <1>3, <2>2, <2>3, Zenon DEF WholeFile
  <2> HIDE DEF n
  <2>5. Journal!TornFrame \in Nat
    BY <1>1, <2>2
  <2>6. QED
    BY <1>4, <2>2, <2>3, <2>4, <2>5, Zenon
<1>5. CASE Trails(frames, acked) /\ frames[n].whole
  <2>1. Holds(frames, n, acked \o frames[n].evs)
    BY <1>5, HoldsMore DEF Trails
  <2>2. cut = {}
    BY <1>1, <2>1 DEF Holds
  <2> HIDE DEF cut
  <2>3. Journal!TornFrame = n + 1 /\ Journal!TornFrame - 1 = n
    BY <1>1, <1>2, <2>2
  <2>4. Base = acked \o frames[n].evs
    BY <2>1, <2>3 DEF Base, Holds
  <2>5. WholeFile
    BY <1>5, <2>3, <2>4, Zenon DEF WholeFile, Trails
  <2> HIDE DEF n
  <2>6. Journal!TornFrame \in Nat
    BY <1>1, <2>3
  <2>7. QED
    BY <2>1, <2>3, <2>4, <2>5, <2>6, Zenon
<1>6. CASE Trails(frames, acked) /\ ~frames[n].whole
  <2>1. n \in 1 .. n /\ Holds(frames, n - 1, acked)
    BY <1>1, <1>6 DEF Trails
  <2>2. cut = {n}
    <3>1. ASSUME NEW i \in cut PROVE i = n
      <4>1. i \in 1 .. n /\ ~frames[i].whole
        BY <1>1
      <4>2. \A j \in 1 .. n - 1 : frames[j].whole
        BY <2>1 DEF Holds
      <4> HIDE DEF n, cut
      <4>3. QED
        BY <1>1, <4>1, <4>2
    <3>2. n \in cut
      BY <1>1, <1>6, <2>1
    <3> HIDE DEF cut, n
    <3>3. QED
      BY <3>1, <3>2
  <2>3. Journal!TornFrame = n
    <3> HIDE DEF cut, n
    <3>1. Journal!Min(cut) \in cut
      BY <1>1, <2>2, LeastFrame
    <3>2. QED
      BY <1>2, <2>2, <3>1
  <2>4. Base = acked
    BY <2>1, <2>3 DEF Base, Holds
  <2>5. TornFile
    BY <1>6, <2>3, <2>4, Zenon DEF TornFile, Trails
  <2>6. QED
    BY <1>1, <2>1, <2>3, <2>4, <2>5
<1>7. QED
  BY <1>4, <1>5, <1>6 DEF Readable

LEMMA FlatParts == Journal!FlattenSeq([i \in 1 .. (Journal!TornFrame - 1) |-> frames[i].evs]) = Base
  BY DEF Journal!FlattenSeq, Flat, Parts, Base

(* What a reader may get: the acknowledged events, then more of the same    *)
(* numbering.                                                               *)
LEMMA RecordsGoOn ==
    ASSUME frames \in Seq(Frame), Readable(frames, acked), GoesOn(0, acked), NEW k \in Journal!Recoverable
    PROVE  /\ Journal!Records(0) = Base
           /\ \E e : GoesOn(Len(acked), e) /\ Base = acked \o e
           /\ \E e : GoesOn(Len(Base), e) /\ Journal!Records(k) = Base \o e
<1> DEFINE n == Len(frames)
<1>1. n \in Nat /\ acked \in Seq(Rec)
  BY DEF GoesOn
<1>2. /\ Journal!TornFrame \in Nat
      /\ \/ /\ Journal!TornFrame = n + 1
            /\ \E e : GoesOn(Len(acked), e) /\ Base = acked \o e
         \/ /\ Journal!TornFrame = n /\ frames # <<>>
            /\ Base = acked /\ GoesOn(Len(acked), frames[n].evs)
  BY TornIsLast DEF WholeFile, TornFile
<1>3. \A log \in Seq(Rec) : GoesOn(Len(log), <<>>) /\ log \o <<>> = log
  BY DEF GoesOn
<1>4. CASE Journal!TornFrame = n + 1
  <2>1. Journal!TornFrame # n /\ \E e : GoesOn(Len(acked), e) /\ Base = acked \o e
    BY <1>1, <1>2, <1>4
  <2>2. Journal!Records(0) = Base /\ Journal!Records(k) = Base
    BY <2>1, FlatParts DEF Journal!Records
  <2>3. Base \in Seq(Rec)
    BY <1>1, <2>1 DEF GoesOn
  <2>4. QED
    BY <1>3, <2>1, <2>2, <2>3
<1>5. CASE Journal!TornFrame = n
  <2> DEFINE last == frames[n].evs
  <2>1. Base = acked /\ GoesOn(Len(acked), last) /\ last \in Seq(Rec)
    <3>1. n # n + 1
      BY <1>1
    <3>2. QED
      BY <1>2, <1>5, <3>1 DEF GoesOn
  <2>2. \A j : Journal!Records(j) = Base \o SubSeq(last, 1, j)
    BY <1>5, FlatParts DEF Journal!Records
  <2>3. Journal!Recoverable = 0 .. Len(last)
    BY <1>5 DEF Journal!Recoverable
  <2>4. \A j \in 0 .. Len(last) : GoesOn(Len(acked), SubSeq(last, 1, j))
    <3> HIDE DEF last
    <3>1. ASSUME NEW j \in 0 .. Len(last) PROVE GoesOn(Len(acked), SubSeq(last, 1, j))
      <4>1. SubSeq(last, 1, j) \in Seq(Rec) /\ Len(SubSeq(last, 1, j)) = j /\ \A i \in 1 .. j : SubSeq(last, 1, j)[i] = last[i] /\ i \in 1 .. Len(last)
        BY <2>1
      <4>2. QED
        BY <2>1, <4>1 DEF GoesOn
    <3>2. QED
      BY <3>1
  <2>5. Journal!Records(0) = Base
    <3>1. SubSeq(last, 1, 0) = <<>>
      BY <2>1
    <3>2. QED
      BY <1>1, <1>3, <2>1, <2>2, <3>1
  <2> HIDE DEF last
  <2>6. k \in 0 .. Len(last)
    BY <2>3
  <2>7. QED
    BY <1>1, <1>3, <2>1, <2>2, <2>4, <2>5, <2>6
<1>6. QED
  BY <1>2, <1>4, <1>5

(* Records without a gap are parsed as they are.                            *)
LEMMA NoGap ==
    ASSUME NEW records, GoesOn(0, records)
    PROVE  Journal!ParseRecords(records) = [error |-> FALSE, events |-> records]
<1> DEFINE gaps == {i \in DOMAIN records : records[i].seq # i - 1}
           n == Len(records)
<1>1. records \in Seq(Rec) /\ n \in Nat /\ DOMAIN records = 1 .. n
  BY DEF GoesOn
<1>2. gaps = {}
  BY <1>1 DEF GoesOn
<1>3. SubSeq(records, 1, (n + 1) - 1) = records
  BY <1>1
<1>4. ~\E i \in DOMAIN records : i >= n + 1 /\ records[i].kind = "turn/end"
  BY <1>1
<1>5. QED
  <2> HIDE DEF n
  <2>1. Journal!ParseRecords(records)
          = [error |-> \E i \in DOMAIN records : i >= Len(records) + 1 /\ records[i].kind = "turn/end",
             events |-> SubSeq(records, 1, (Len(records) + 1) - 1)]
    BY <1>2 DEF Journal!ParseRecords
  <2>2. QED
    BY <1>3, <1>4, <2>1 DEF n

LEMMA ReadsAcked ==
    ASSUME JournalInv
    PROVE  Journal!AckedReadable
<1> SUFFICES ASSUME ~unrolled, NEW k \in Journal!Recoverable
             PROVE  LET read == Journal!ParseRecords(Journal!Records(k))
                    IN ~read.error /\ Journal!IsPrefix(acked, read.events)
  BY DEF Journal!AckedReadable
<1>1. frames \in Seq(Frame) /\ Readable(frames, acked) /\ GoesOn(0, acked)
  BY DEF JournalInv, JournalOk
<1>2. PICK a : GoesOn(Len(acked), a) /\ Base = acked \o a
  BY <1>1, RecordsGoOn
<1>3. PICK b : GoesOn(Len(Base), b) /\ Journal!Records(k) = Base \o b
  BY <1>1, RecordsGoOn
<1>4. acked \in Seq(Rec) /\ a \in Seq(Rec) /\ b \in Seq(Rec) /\ Len(acked) \in Nat
  BY <1>1, <1>2, <1>3 DEF GoesOn
<1>5. GoesOn(0, Base) /\ Len(Base) = Len(acked) + Len(a)
  <2>1. 0 + Len(acked) = Len(acked)
    BY <1>4
  <2>2. QED
    BY <1>1, <1>2, <2>1, GoesOnTyped
<1>6. GoesOn(0, Base \o b)
  <2>1. 0 + Len(Base) = Len(Base)
    BY <1>4, <1>5
  <2>2. QED
    BY <1>3, <1>5, <2>1, GoesOnTyped
<1>7. Journal!ParseRecords(Journal!Records(k)) = [error |-> FALSE, events |-> Base \o b]
  BY <1>3, <1>6, NoGap
<1>8. Journal!IsPrefix(acked, (acked \o a) \o b)
  BY <1>4 DEF Journal!IsPrefix
<1>9. QED
  BY <1>2, <1>7, <1>8

-----------------------------------------------------------------------------
(* Writing, failing, crashing, repairing.                                   *)

LEMMA EmptyHolds == Holds(<<>>, 0, <<>>) /\ <<>> \in Seq(Frame) /\ GoesOn(0, <<>>)
<1>1. <<>> \in Seq(Frame) /\ <<>> \in Seq(Rec) /\ Len(<<>>) = 0
  OBVIOUS
<1>2. Parts(<<>>, 0) = <<>>
  <2>1. Parts(<<>>, 0) \in Seq(Seq(Rec)) /\ Len(Parts(<<>>, 0)) = 0
    <3>1. 0 \in 0 .. Len(<<>>)
      BY <1>1
    <3>2. QED
      BY <1>1, <3>1, PartsTyped
  <2> DEFINE S == Seq(Rec)
             q == Parts(<<>>, 0)
  <2> HIDE DEF S, q
  <2>2. q \in Seq(S) /\ Len(q) = 0
    BY <2>1 DEF S, q
  <2>3. q = <<>>
    BY <2>2
  <2>4. QED
    BY <2>3 DEF q
<1>3. Flat(<<>>) = <<>>
  BY <1>1 DEF Flat
<1>4. Holds(<<>>, 0, <<>>)
  BY <1>1, <1>2, <1>3 DEF Holds
<1>5. QED
  BY <1>1, <1>4 DEF GoesOn

LEMMA BatchesGoOn ==
    ASSUME NEW n \in Nat, NEW batch \in Journal!Batches(n)
    PROVE  GoesOn(n, batch)
<1>1. PICK m \in 1 .. MaxRecordBatch : \E kinds \in [1 .. m -> RecordKinds] : batch = [i \in 1 .. m |-> [seq |-> n + i - 1, kind |-> kinds[i]]]
  BY DEF Journal!Batches
<1>2. PICK kinds \in [1 .. m -> RecordKinds] : batch = [i \in 1 .. m |-> [seq |-> n + i - 1, kind |-> kinds[i]]]
  BY <1>1
<1>3. m \in Nat
  OBVIOUS
<1>4. \A i \in 1 .. m : [seq |-> n + i - 1, kind |-> kinds[i]] \in Rec /\ batch[i] = [seq |-> n + i - 1, kind |-> kinds[i]]
  BY <1>2, <1>3 DEF Rec
<1>5. batch \in Seq(Rec) /\ Len(batch) = m
  <2> HIDE DEF Rec
  <2>1. QED
    BY <1>2, <1>3, <1>4
<1>6. \A i \in 1 .. m : batch[i].seq = n + i - 1
  BY <1>2, <1>3
<1>7. QED
  BY <1>5, <1>6 DEF GoesOn

(* What holds of the calls between a batch and the file.                    *)
LEMMA CallKnown ==
    ASSUME JournalOk
    PROVE  /\ frames \in Seq(Frame) /\ Len(frames) \in Nat
           /\ acked \in Seq(Rec) /\ Len(acked) \in Nat
           /\ writer.pc # "idle" => /\ ready /\ writer \in Call /\ writer.batch \in Seq(Rec) /\ writer.before \in Nat
                                    /\ writer = [pc |-> writer.pc, batch |-> writer.batch, before |-> writer.before]
<1>1. frames \in Seq(Frame) /\ GoesOn(0, acked) /\ (writer.pc # "idle" => ready /\ writer \in Call)
  BY DEF JournalOk
<1>2. acked \in Seq(Rec)
  BY <1>1 DEF GoesOn
<1>3. frames \in Seq(Frame) => Len(frames) \in Nat
  OBVIOUS
<1>4. acked \in Seq(Rec) => Len(acked) \in Nat
  OBVIOUS
<1> DEFINE S == Seq(Rec)
<1>5. writer \in Call => /\ writer.batch \in S /\ writer.before \in Nat
                         /\ writer = [pc |-> writer.pc, batch |-> writer.batch, before |-> writer.before]
  <2>1. Call = [pc : {"materialize", "write", "sync", "rollback"}, batch : S, before : Nat]
    BY DEF Call
  <2> HIDE DEF S
  <2>2. QED
    BY <2>1
<1>6. QED
  BY <1>1, <1>2, <1>3, <1>4, <1>5

LEMMA JournalStarts == Journal!Init => JournalInv
<1> SUFFICES ASSUME Journal!Init PROVE JournalOk
  BY DEF JournalInv
<1>1. frames = <<>> /\ acked = <<>> /\ writer.pc = "idle" /\ Len(frames) = 0
  BY DEF Journal!Init, Journal!Idle
<1>2. QED
  BY <1>1, EmptyHolds DEF JournalOk, Readable, Behind

LEMMA AppendKeeps ==
    ASSUME JournalInv, Journal!AppendEvents
    PROVE  JournalInv'
<1> SUFFICES ASSUME ~unrolled, JournalOk PROVE JournalOk'
  BY DEF JournalInv, Journal!AppendEvents
<1>1. PICK batch \in Journal!Batches(Len(acked)) :
        writer' = [pc |-> IF frames = <<>> THEN "materialize" ELSE "write", batch |-> batch, before |-> Len(frames)]
  BY DEF Journal!AppendEvents
<1>2. /\ ready /\ writer.pc = "idle" /\ frames' = frames /\ acked' = acked /\ ready' = ready
  BY DEF Journal!AppendEvents
<1>3. frames \in Seq(Frame) /\ Len(frames) \in Nat /\ Len(acked) \in Nat
  BY CallKnown
<1>4. GoesOn(Len(acked), batch) /\ batch \in Seq(Rec)
  BY <1>1, <1>3, BatchesGoOn DEF GoesOn
<1>5. /\ writer' \in Call /\ writer'.batch = batch /\ writer'.before = Len(frames)
      /\ writer'.pc = IF frames = <<>> THEN "materialize" ELSE "write"
  BY <1>1, <1>3, <1>4 DEF Call
<1>6. Holds(frames, Len(frames), acked) /\ GoesOn(0, acked)
  BY <1>2 DEF JournalOk, Behind
<1>7. QED
  BY <1>2, <1>3, <1>4, <1>5, <1>6 DEF JournalOk, Behind, Readable

LEMMA PutKeeps ==
    ASSUME JournalInv, Journal!PutSession
    PROVE  JournalInv'
<1> SUFFICES ASSUME ~unrolled, JournalOk PROVE JournalOk'
  BY DEF JournalInv, Journal!PutSession
<1>1. /\ ready /\ writer.pc = "idle" /\ frames = <<>> /\ frames' = frames /\ acked' = acked /\ ready' = ready
      /\ writer' = [Journal!Idle EXCEPT !.pc = "materialize"]
  BY DEF Journal!PutSession
<1>2. writer' = [pc |-> "materialize", batch |-> <<>>, before |-> 0]
  BY <1>1 DEF Journal!Idle
<1>3. <<>> \in Seq(Rec) /\ Len(<<>>) = 0
  OBVIOUS
<1>4. writer' \in Call /\ writer'.pc = "materialize" /\ writer'.batch = <<>>
  BY <1>2, <1>3 DEF Call
<1>5. GoesOn(Len(acked), <<>>)
  BY <1>3 DEF GoesOn
<1>6. Holds(frames, Len(frames), acked) /\ GoesOn(0, acked)
  BY <1>1 DEF JournalOk, Behind
<1>7. QED
  BY <1>1, <1>4, <1>5, <1>6 DEF JournalOk, Behind, Readable

LEMMA MaterializeKeeps ==
    ASSUME JournalInv, Journal!Materialize
    PROVE  JournalInv'
<1> SUFFICES ASSUME ~unrolled, JournalOk PROVE JournalOk'
  BY DEF JournalInv, Journal!Materialize
<1>1. /\ ready /\ writer.pc = "materialize" /\ ready' = ready /\ writer'.pc = "idle"
  BY DEF Journal!Materialize, Journal!Idle
<1>2. frames = <<>> /\ Holds(frames, Len(frames), acked) /\ GoesOn(0, acked)
  BY <1>1 DEF JournalOk, Behind
<1>3. GoesOn(Len(acked), writer.batch) /\ writer.batch \in Seq(Rec)
  BY <1>1 DEF JournalOk, GoesOn
<1>4. CASE /\ frames' = <<Journal!Header, [evs |-> writer.batch, whole |-> TRUE]>>
           /\ acked' = acked \o writer.batch
  <2> DEFINE a == [evs |-> <<>>, whole |-> TRUE]
             b == [evs |-> writer.batch, whole |-> TRUE]
             one == <<a>>
             two == <<a, b>>
  <2>1. a \in Frame /\ b \in Frame /\ a.evs = <<>> /\ b.evs = writer.batch /\ a.whole /\ b.whole
    BY <1>3 DEF Frame
  <2> HIDE DEF a, b
  <2>2. /\ one \in Seq(Frame) /\ Len(one) = 1 /\ one[1] = a /\ one # <<>>
        /\ two \in Seq(Frame) /\ Len(two) = 2 /\ two[1] = a /\ two[2] = b /\ two # <<>>
    BY <2>1
  <2> HIDE DEF one, two
  <2>3. Holds(<<>>, 0, <<>>) /\ <<>> \in Seq(Frame)
    BY EmptyHolds
  <2>4. Holds(one, 0, <<>>)
    <3>1. 0 <= Len(one) /\ \A i \in 1 .. 0 : <<>>[i] = one[i]
      BY <2>2
    <3>2. QED
      BY <2>2, <2>3, <3>1, HoldsSame
  <2>5. Holds(one, 1, <<>> \o <<>>)
    <3>1. Len(one) - 1 = 0
      BY <2>2
    <3>2. QED
      BY <2>1, <2>2, <2>4, <3>1, HoldsMore
  <2>6. <<>> \o <<>> = <<>> /\ <<>> \o writer.batch = writer.batch
    BY <1>3
  <2>7. Holds(two, 1, <<>>)
    <3>1. 1 <= Len(two) /\ \A i \in 1 .. 1 : one[i] = two[i]
      BY <2>2
    <3>2. QED
      BY <2>2, <2>5, <2>6, <3>1, HoldsSame
  <2>8. Holds(two, 2, writer.batch)
    <3>1. Len(two) - 1 = 1
      BY <2>2
    <3>2. QED
      BY <2>1, <2>2, <2>6, <2>7, <3>1, HoldsMore
  <2>9. acked = <<>>
    BY <1>2, EmptyHolds DEF Holds
  <2>10. frames' = two /\ acked' = writer.batch
    BY <1>4, <2>6, <2>9 DEF two, a, b, Journal!Header
  <2>11. GoesOn(0, writer.batch)
    <3>1. Len(acked) = 0
      BY <2>9
    <3>2. QED
      BY <1>3, <3>1
  <2>12. QED
    BY <1>1, <2>2, <2>8, <2>10, <2>11 DEF JournalOk, Behind, Readable
<1>5. CASE frames' = frames /\ acked' = acked
  BY <1>1, <1>2, <1>5 DEF JournalOk, Behind, Readable
<1>6. QED
  BY <1>4, <1>5 DEF Journal!Materialize

LEMMA WriteKeeps ==
    ASSUME JournalInv, Journal!WriteFrame
    PROVE  JournalInv'
<1> SUFFICES ASSUME ~unrolled, JournalOk PROVE JournalOk'
  BY DEF JournalInv, Journal!WriteFrame
<1>1. ready /\ writer.pc = "write" /\ ready' = ready /\ acked' = acked
  BY DEF Journal!WriteFrame
<1>2. PICK whole \in BOOLEAN, pc \in {"sync", "rollback"} :
        /\ frames' = Append(frames, [evs |-> writer.batch, whole |-> whole])
        /\ writer' = [writer EXCEPT !.pc = pc] /\ (pc = "sync" => whole)
  BY DEF Journal!WriteFrame
<1>3. /\ frames \in Seq(Frame) /\ Len(frames) \in Nat /\ writer \in Call /\ writer.batch \in Seq(Rec)
      /\ writer = [pc |-> writer.pc, batch |-> writer.batch, before |-> writer.before]
  BY <1>1, CallKnown
<1>4. Holds(frames, Len(frames), acked) /\ writer.before = Len(frames) /\ GoesOn(0, acked) /\ GoesOn(Len(acked), writer.batch)
  BY <1>1 DEF JournalOk, Behind
<1>5. writer' \in Call /\ writer'.pc = pc /\ writer'.batch = writer.batch /\ writer'.before = writer.before
  BY <1>2, <1>3 DEF Call
<1> DEFINE x == [evs |-> writer.batch, whole |-> whole]
<1>6. x \in Frame /\ x.evs = writer.batch /\ x.whole = whole
  BY <1>3 DEF Frame
<1> HIDE DEF x
<1>7. /\ frames' \in Seq(Frame) /\ Len(frames') = Len(frames) + 1 /\ frames' # <<>> /\ frames'[Len(frames')] = x
      /\ \A i \in 1 .. Len(frames) : frames[i] = frames'[i]
  <2>1. frames' = Append(frames, x)
    BY <1>2 DEF x
  <2>2. QED
    BY <1>3, <1>6, <2>1, AppendOf
<1>8. Holds(frames', Len(frames), acked)
  BY <1>3, <1>4, <1>7, HoldsSame
<1>9. Trails(frames', acked)
  <2>1. Len(frames') - 1 = Len(frames)
    BY <1>3, <1>7
  <2>2. QED
    BY <1>4, <1>6, <1>7, <1>8, <2>1 DEF Trails
<1>10. QED
  BY <1>1, <1>2, <1>4, <1>5, <1>6, <1>7, <1>8, <1>9 DEF JournalOk, Behind, Readable

LEMMA SyncKeeps ==
    ASSUME JournalInv, Journal!SyncFrame
    PROVE  JournalInv'
<1> SUFFICES ASSUME ~unrolled, JournalOk PROVE JournalOk'
  BY DEF JournalInv, Journal!SyncFrame
<1>1. ready /\ writer.pc = "sync" /\ ready' = ready /\ frames' = frames
  BY DEF Journal!SyncFrame
<1>2. /\ frames \in Seq(Frame) /\ Len(frames) \in Nat /\ writer \in Call /\ writer.before \in Nat
      /\ writer = [pc |-> writer.pc, batch |-> writer.batch, before |-> writer.before]
  BY <1>1, CallKnown
<1>3. /\ Len(frames) = writer.before + 1 /\ frames[Len(frames)].evs = writer.batch /\ frames[Len(frames)].whole
      /\ Holds(frames, writer.before, acked) /\ GoesOn(0, acked) /\ GoesOn(Len(acked), writer.batch)
  BY <1>1 DEF JournalOk, Behind
<1>4. CASE writer' = Journal!Idle /\ acked' = acked \o writer.batch
  <2>1. writer'.pc = "idle"
    BY <1>4 DEF Journal!Idle
  <2>2. frames # <<>> /\ Len(frames) - 1 = writer.before
    BY <1>2, <1>3
  <2>3. Holds(frames, Len(frames), acked')
    BY <1>2, <1>3, <1>4, <2>2, HoldsMore
  <2>4. GoesOn(0, acked')
    <3>1. 0 + Len(acked) = Len(acked)
      BY CallKnown
    <3>2. QED
      BY <1>3, <1>4, <3>1, GoesOnTyped
  <2>5. QED
    BY <1>1, <1>2, <2>1, <2>3, <2>4 DEF JournalOk, Behind, Readable
<1>5. CASE writer' = [writer EXCEPT !.pc = "rollback"] /\ acked' = acked
  <2>1. writer' \in Call /\ writer'.pc = "rollback" /\ writer'.batch = writer.batch /\ writer'.before = writer.before
    BY <1>2, <1>5 DEF Call
  <2>2. Readable(frames, acked)
    BY DEF JournalOk
  <2>3. QED
    BY <1>1, <1>2, <1>3, <1>5, <2>1, <2>2 DEF JournalOk, Behind
<1>6. QED
  BY <1>4, <1>5 DEF Journal!SyncFrame

LEMMA RollbackKeeps ==
    ASSUME JournalInv, Journal!Rollback
    PROVE  JournalInv'
<1>1. CASE unrolled \/ unrolled'
  BY <1>1 DEF JournalInv, Journal!Rollback
<1>2. CASE ~unrolled /\ ~unrolled'
  <2>1. /\ JournalOk /\ ready /\ writer.pc = "rollback" /\ ready' = ready /\ acked' = acked /\ writer'.pc = "idle"
        /\ frames' = SubSeq(frames, 1, writer.before)
    BY <1>2 DEF JournalInv, Journal!Rollback, Journal!Idle
  <2>2. frames \in Seq(Frame) /\ Len(frames) \in Nat /\ writer.before \in Nat
    BY <2>1, CallKnown
  <2>3. /\ Len(frames) = writer.before + 1 /\ Holds(frames, writer.before, acked) /\ GoesOn(0, acked)
    BY <2>1 DEF JournalOk, Behind
  <2>4. frames' \in Seq(Frame) /\ Len(frames') = writer.before /\ Holds(frames', writer.before, acked)
    <3>1. writer.before \in 0 .. Len(frames)
      BY <2>2, <2>3
    <3>2. QED
      BY <2>1, <2>2, <2>3, <3>1, HoldsLess
  <2>5. JournalOk'
    BY <2>1, <2>3, <2>4 DEF JournalOk, Behind, Readable
  <2>6. QED
    BY <2>5 DEF JournalInv
<1>3. QED
  BY <1>1, <1>2

LEMMA DeleteKeeps ==
    ASSUME Journal!DeleteSession
    PROVE  JournalInv'
<1>1. frames' = <<>> /\ acked' = <<>> /\ writer'.pc = "idle" /\ Len(frames') = 0
  BY DEF Journal!DeleteSession
<1>2. JournalOk'
  BY <1>1, EmptyHolds DEF JournalOk, Readable, Behind
<1>3. QED
  BY <1>2 DEF JournalInv

LEMMA CrashKeeps ==
    ASSUME JournalInv, Journal!Crash
    PROVE  JournalInv'
<1> SUFFICES ASSUME ~unrolled, JournalOk PROVE JournalOk'
  BY DEF JournalInv, Journal!Crash
<1>1. ~ready' /\ writer'.pc = "idle" /\ frames' = frames /\ acked' = acked
  BY DEF Journal!Crash, Journal!Idle
<1>2. QED
  BY <1>1 DEF JournalOk, Behind

LEMMA PowerKeeps ==
    ASSUME JournalInv, Journal!PowerFails
    PROVE  JournalInv'
<1> SUFFICES ASSUME ~unrolled, JournalOk PROVE JournalOk'
  BY DEF JournalInv, Journal!PowerFails
<1>1. ~ready' /\ writer'.pc = "idle" /\ acked' = acked /\ writer.pc \in {"sync", "rollback"}
  BY DEF Journal!PowerFails, Journal!Idle
<1>2. frames \in Seq(Frame) /\ Len(frames) \in Nat /\ writer.before \in Nat
  BY <1>1, CallKnown
<1>3. /\ Len(frames) = writer.before + 1 /\ frames[Len(frames)].evs = writer.batch /\ Holds(frames, writer.before, acked)
      /\ GoesOn(0, acked) /\ GoesOn(Len(acked), writer.batch) /\ Readable(frames, acked)
  BY <1>1 DEF JournalOk, Behind
<1>4. frames' \in Seq(Frame) /\ Readable(frames', acked)
  <2>1. CASE frames' = frames
    BY <1>2, <1>3, <2>1
  <2>2. CASE frames' = SubSeq(frames, 1, Len(frames) - 1)
    <3>1. Len(frames) - 1 = writer.before /\ writer.before \in 0 .. Len(frames)
      BY <1>2, <1>3
    <3>2. QED
      BY <1>2, <1>3, <2>2, <3>1, HoldsLess DEF Readable
  <2>3. CASE frames' = [frames EXCEPT ![Len(frames)].whole = FALSE]
    <3>1. Len(frames) \in 1 .. Len(frames)
      BY <1>2, <1>3
    <3> DEFINE x == [frames[Len(frames)] EXCEPT !.whole = FALSE]
    <3>2. x \in Frame /\ x.evs = writer.batch
      <4>1. frames[Len(frames)] \in Frame
        BY <1>2, <3>1
      <4>2. QED
        BY <1>3, <4>1 DEF Frame
    <3>3. frames' = [frames EXCEPT ![Len(frames)] = x]
      BY <2>3
    <3> HIDE DEF x
    <3>4. /\ frames' \in Seq(Frame) /\ Len(frames') = Len(frames) /\ frames'[Len(frames)] = x /\ frames' # <<>>
          /\ \A i \in 1 .. Len(frames) : i # Len(frames) => frames[i] = frames'[i]
      BY <1>2, <3>1, <3>2, <3>3
    <3>5. writer.before <= Len(frames') /\ \A i \in 1 .. writer.before : frames[i] = frames'[i]
      BY <1>2, <1>3, <3>4
    <3>6. Holds(frames', writer.before, acked)
      BY <1>2, <1>3, <3>4, <3>5, HoldsSame
    <3>7. Len(frames') - 1 = writer.before
      BY <1>2, <1>3, <3>4
    <3>8. Trails(frames', acked)
      BY <1>3, <3>2, <3>4, <3>6, <3>7 DEF Trails
    <3>9. QED
      BY <3>4, <3>8 DEF Readable
  <2>4. QED
    BY <2>1, <2>2, <2>3 DEF Journal!PowerFails
<1>5. QED
  BY <1>1, <1>3, <1>4 DEF JournalOk, Behind

(* The closer of an open turn, after n events.                              *)
LEMMA CloserGoesOn ==
    ASSUME NEW n \in Nat, NEW c, c = <<>> \/ c = <<[seq |-> n, kind |-> "turn/end"]>>
    PROVE  GoesOn(n, c)
<1>1. CASE c = <<>>
  <2>1. <<>> \in Seq(Rec) /\ Len(<<>>) = 0
    OBVIOUS
  <2>2. QED
    BY <1>1, <2>1 DEF GoesOn
<1>2. CASE c = <<[seq |-> n, kind |-> "turn/end"]>>
  <2> DEFINE x == [seq |-> n, kind |-> "turn/end"]
  <2>1. x \in Rec /\ x.seq = n
    BY DEF Rec
  <2> HIDE DEF x
  <2>2. <<x>> \in Seq(Rec) /\ Len(<<x>>) = 1 /\ <<x>>[1] = x
    BY <2>1
  <2>3. GoesOn(n, <<x>>)
    BY <2>1, <2>2 DEF GoesOn
  <2>4. QED
    BY <1>2, <2>3 DEF x
<1>3. QED
  BY <1>1, <1>2

LEMMA RestartKeeps ==
    ASSUME JournalInv, Journal!Restart
    PROVE  JournalInv'
<1> SUFFICES ASSUME ~unrolled, JournalOk PROVE JournalOk'
  BY DEF JournalInv, Journal!Restart
<1>1. frames \in Seq(Frame) /\ Readable(frames, acked) /\ GoesOn(0, acked) /\ ready'
  BY DEF JournalOk, Journal!Restart
<1> DEFINE n == Journal!TornFrame - 1
<1>2. n \in Nat /\ Holds(frames, n, Base)
  <2>1. Journal!TornFrame \in Nat /\ Holds(frames, n, Base)
    BY <1>1, TornIsLast
  <2>2. QED
    BY <2>1 DEF Holds
<1>3. PICK k \in Journal!Recoverable :
         LET read == Journal!ParseRecords(Journal!Records(k)).events
             sound == Journal!ParseRecords(Journal!Records(0)).events
             openTurn == read # <<>> /\ Journal!Last(read).kind # "turn/end" /\ Len(read) < MaxRecords
             closers == IF openTurn THEN <<[seq |-> Len(read), kind |-> "turn/end"]>> ELSE <<>>
             batch == SubSeq(read, Len(sound) + 1, Len(read)) \o closers
         IN /\ frames' = SubSeq(frames, 1, n)
            /\ acked' = sound
            /\ writer' = IF batch = <<>> THEN Journal!Idle
                         ELSE [pc |-> "write", batch |-> batch, before |-> n]
  BY DEF Journal!Restart
<1>4. /\ Journal!Records(0) = Base
      /\ \E e : GoesOn(Len(acked), e) /\ Base = acked \o e
      /\ \E e : GoesOn(Len(Base), e) /\ Journal!Records(k) = Base \o e
  BY <1>1, RecordsGoOn
<1>5. PICK a : GoesOn(Len(acked), a) /\ Base = acked \o a
  BY <1>4
<1>6. PICK b : GoesOn(Len(Base), b) /\ Journal!Records(k) = Base \o b
  BY <1>4
<1>7. GoesOn(0, Base) /\ Len(Base) \in Nat /\ Base \in Seq(Rec)
  <2>1. 0 + Len(acked) = Len(acked)
    BY CallKnown
  <2>2. GoesOn(0, Base)
    BY <1>1, <1>5, <2>1, GoesOnTyped
  <2>3. QED
    BY <2>2 DEF GoesOn
<1>8. GoesOn(0, Base \o b) /\ Len(Base \o b) = Len(Base) + Len(b) /\ b \in Seq(Rec) /\ Len(b) \in Nat
  <2>1. 0 + Len(Base) = Len(Base)
    BY <1>7
  <2>2. QED
    BY <1>6, <1>7, <2>1, GoesOnTyped DEF GoesOn
<1> DEFINE read == Base \o b
<1>9. /\ Journal!ParseRecords(Journal!Records(k)).events = read
      /\ Journal!ParseRecords(Journal!Records(0)).events = Base
  <2>1. Journal!ParseRecords(read) = [error |-> FALSE, events |-> read]
    BY <1>8, NoGap
  <2>2. Journal!ParseRecords(Base) = [error |-> FALSE, events |-> Base]
    BY <1>7, NoGap
  <2>3. Journal!Records(k) = read /\ Journal!Records(0) = Base
    BY <1>4, <1>6
  <2> HIDE DEF read
  <2>4. QED
    BY <2>1, <2>2, <2>3
<1>10. SubSeq(read, Len(Base) + 1, Len(read)) = b
  BY <1>7, <1>8
<1> HIDE DEF read, n
<1> DEFINE openTurn == read # <<>> /\ Journal!Last(read).kind # "turn/end" /\ Len(read) < MaxRecords
           closers == IF openTurn THEN <<[seq |-> Len(read), kind |-> "turn/end"]>> ELSE <<>>
<1>11. writer' = IF SubSeq(read, Len(Base) + 1, Len(read)) \o closers = <<>> THEN Journal!Idle
                 ELSE [pc |-> "write", batch |-> SubSeq(read, Len(Base) + 1, Len(read)) \o closers, before |-> n]
  BY <1>3, <1>9, Zenon
<1>12. writer' = IF b \o closers = <<>> THEN Journal!Idle ELSE [pc |-> "write", batch |-> b \o closers, before |-> n]
  <2> HIDE DEF closers
  <2>1. QED
    BY <1>10, <1>11
<1>13. PICK c : /\ c = <<>> \/ c = <<[seq |-> Len(read), kind |-> "turn/end"]>>
                /\ writer' = IF b \o c = <<>> THEN Journal!Idle ELSE [pc |-> "write", batch |-> b \o c, before |-> n]
  <2>1. closers = <<>> \/ closers = <<[seq |-> Len(read), kind |-> "turn/end"]>>
    OBVIOUS
  <2> HIDE DEF closers
  <2>2. QED
    BY <1>12, <2>1
<1>14. frames' = SubSeq(frames, 1, n) /\ acked' = Base
  BY <1>3, <1>9
<1>15. frames' \in Seq(Frame) /\ Len(frames') = n /\ Holds(frames', n, Base)
  <2>1. n \in 0 .. Len(frames)
    BY <1>2 DEF Holds
  <2>2. QED
    BY <1>1, <1>2, <1>14, <2>1, HoldsLess
<1>16. GoesOn(Len(Base), b \o c) /\ b \o c \in Seq(Rec)
  <2>1. Len(read) = Len(Base) + Len(b) /\ Len(read) \in Nat
    BY <1>7, <1>8 DEF read
  <2>2. GoesOn(Len(Base) + Len(b), c)
    BY <1>13, <2>1, CloserGoesOn
  <2>3. GoesOn(Len(Base), b \o c)
    BY <1>6, <1>7, <2>2, GoesOnTyped
  <2>4. QED
    BY <2>3 DEF GoesOn
<1>17. CASE b \o c = <<>>
  <2>1. writer'.pc = "idle"
    BY <1>13, <1>17 DEF Journal!Idle
  <2>2. QED
    BY <1>1, <1>7, <1>14, <1>15, <2>1 DEF JournalOk, Behind, Readable
<1>18. CASE b \o c # <<>>
  <2>1. writer' = [pc |-> "write", batch |-> b \o c, before |-> n]
    BY <1>13, <1>18
  <2>2. writer' \in Call /\ writer'.pc = "write" /\ writer'.batch = b \o c /\ writer'.before = n
    <3> DEFINE d == b \o c
    <3>1. d \in Seq(Rec) /\ writer' = [pc |-> "write", batch |-> d, before |-> n]
      BY <1>16, <2>1
    <3> HIDE DEF d
    <3>2. writer' \in Call /\ writer'.pc = "write" /\ writer'.batch = d /\ writer'.before = n
      BY <1>2, <3>1 DEF Call
    <3>3. QED
      BY <3>2 DEF d
  <2>3. QED
    BY <1>1, <1>7, <1>14, <1>15, <1>16, <2>2 DEF JournalOk, Behind, Readable
<1>19. QED
  BY <1>17, <1>18

(* The session's file reads back what was acknowledged: every read succeeds *)
(* and begins with it, through failed writes and syncs, retries, crashes,   *)
(* power failures and repairs, unless a rollback itself has failed.         *)
THEOREM JournalReadsBack == Journal!Spec => []Journal!AckedReadable
<1>1. JournalInv /\ [Journal!Next]_<<frames, writer, ready, acked, unrolled, mishaps>> => JournalInv'
  <2> SUFFICES ASSUME JournalInv, [Journal!Next]_<<frames, writer, ready, acked, unrolled, mishaps>> PROVE JournalInv'
    OBVIOUS
  <2>1. CASE UNCHANGED <<frames, writer, ready, acked, unrolled, mishaps>>
    BY <2>1 DEF JournalInv, JournalOk, Behind
  <2>2. CASE Journal!Next
    BY <2>2, AppendKeeps, PutKeeps, MaterializeKeeps, WriteKeeps, SyncKeeps, RollbackKeeps, DeleteKeeps, CrashKeeps,
       PowerKeeps, RestartKeeps DEF Journal!Next
  <2>3. QED
    BY <2>1, <2>2
<1>2. Journal!Spec => []JournalInv
  BY <1>1, JournalStarts, PTL DEF Journal!Spec, Journal!jsonlVars
<1>3. QED
  BY <1>2, ReadsAcked, PTL

-----------------------------------------------------------------------------
(* SqliteStore: rows and the events they carry.                             *)

Stored == Shapes \cup {Database!TurnEnd}
StoredEvent == [kind : {e.kind : e \in Stored}, key : {e.key : e \in Stored}, text : {e.text : e \in Stored}]

StoredRow ==
    {row \in [seq : Nat, tag : {e.kind : e \in Stored}, key : {e.key : e \in Stored},
              texts : Seq({e.text : e \in Stored}), packed : BOOLEAN, bad : BOOLEAN] :
        /\ row.texts # <<>>
        /\ row.packed => Len(row.texts) \in MinPacked .. MaxPacked /\ Database!Bytes(row.texts) <= MaxBytes
        /\ ~row.packed => Len(row.texts) = 1}

Decoded(rows) == [i \in 1 .. Len(rows) |-> Database!Decode(rows[i])]

(* How many events the first n rows carry.                                  *)
Carried(rows, n) == Len(Database!Span(SubSeq(rows, 1, n)))

(* The rows hold the events, from sequence number n on, one after another.  *)
Chained(rows, n, evs) ==
    /\ rows \in Seq(StoredRow) /\ Database!Span(rows) = evs
    /\ \A i \in 1 .. Len(rows) : rows[i].seq = n + Carried(rows, i - 1)

LEMMA RowCarries ==
    ASSUME NEW row \in StoredRow
    PROVE  /\ Database!Decode(row) \in Seq(StoredEvent) /\ Len(Database!Decode(row)) = Len(row.texts)
           /\ Len(row.texts) \in Nat \ {0} /\ row.seq \in Nat
           /\ Database!Decodes(row) <=> ~row.bad
           /\ row.packed \/ Len(row.texts) = 1
           /\ row.packed => Len(row.texts) <= MaxPacked
<1> DEFINE T == {e.text : e \in Stored}
           K == {e.kind : e \in Stored}
           Y == {e.key : e \in Stored}
           S == Seq(T)
<1>1. /\ row \in [seq : Nat, tag : K, key : Y, texts : S, packed : BOOLEAN, bad : BOOLEAN]
      /\ row.texts # <<>>
      /\ row.packed => Len(row.texts) \in MinPacked .. MaxPacked /\ Database!Bytes(row.texts) <= MaxBytes
      /\ ~row.packed => Len(row.texts) = 1
  BY DEF StoredRow
<1>2. row.texts \in Seq(T) /\ row.tag \in K /\ row.key \in Y /\ row.seq \in Nat /\ row.bad \in BOOLEAN /\ row.packed \in BOOLEAN
  <2> HIDE DEF S, K, Y
  <2>1. row.texts \in S /\ row.tag \in K /\ row.key \in Y /\ row.seq \in Nat /\ row.bad \in BOOLEAN /\ row.packed \in BOOLEAN
    BY <1>1
  <2>2. QED
    BY <2>1 DEF S
<1>3. Len(row.texts) \in Nat \ {0} /\ \A i \in 1 .. Len(row.texts) : row.texts[i] \in T
  <2> HIDE DEF T
  <2>1. QED
    BY <1>1, <1>2
<1>4. \A i \in 1 .. Len(row.texts) : [kind |-> row.tag, key |-> row.key, text |-> row.texts[i]] \in StoredEvent
  <2> HIDE DEF T, K, Y
  <2>1. StoredEvent = [kind : K, key : Y, text : T]
    BY DEF StoredEvent, T, K, Y
  <2>2. QED
    BY <1>2, <1>3, <2>1
<1>5. Database!Decode(row) \in Seq(StoredEvent) /\ Len(Database!Decode(row)) = Len(row.texts)
  <2>1. Database!Decode(row) = [i \in 1 .. Len(row.texts) |-> [kind |-> row.tag, key |-> row.key, text |-> row.texts[i]]]
    BY DEF Database!Decode
  <2>2. QED
    BY <1>3, <1>4, <2>1
<1>6. Database!Decodes(row) <=> ~row.bad
  <2> HIDE DEF S, K, Y, T
  <2>1. QED
    BY <1>1 DEF Database!Decodes
<1> HIDE DEF S, K, Y, T
<1>7. row.packed => Len(row.texts) <= MaxPacked
  BY <1>1, <1>3, StoresAssumption
<1>8. QED
  BY <1>1, <1>2, <1>3, <1>5, <1>6, <1>7

LEMMA DecodedTyped ==
    ASSUME NEW rows \in Seq(StoredRow)
    PROVE  /\ Decoded(rows) \in Seq(Seq(StoredEvent)) /\ Len(Decoded(rows)) = Len(rows) /\ Len(rows) \in Nat
           /\ \A i \in 1 .. Len(rows) : Decoded(rows)[i] = Database!Decode(rows[i]) /\ rows[i] \in StoredRow
<1> DEFINE S == Seq(StoredEvent)
<1>1. \A i \in 1 .. Len(rows) : rows[i] \in StoredRow
  OBVIOUS
<1>2. \A i \in 1 .. Len(rows) : Database!Decode(rows[i]) \in S
  BY <1>1, RowCarries
<1> HIDE DEF S
<1>3. Len(rows) \in Nat
  OBVIOUS
<1>4. Decoded(rows) = [i \in 1 .. Len(rows) |-> Database!Decode(rows[i])]
  BY DEF Decoded
<1>5. Decoded(rows) \in Seq(S) /\ Len(Decoded(rows)) = Len(rows)
  BY <1>2, <1>3, <1>4
<1>6. QED
  BY <1>1, <1>3, <1>4, <1>5 DEF S

LEMMA SpanIs ==
    ASSUME NEW rows \in Seq(StoredRow)
    PROVE  /\ Database!Span(rows) = Flat(Decoded(rows)) /\ Database!Span(rows) \in Seq(StoredEvent)
           /\ Database!Span(<<>>) = <<>>
<1>1. \A q : Database!Span(q) = Flat(Decoded(q))
  BY DEF Database!Span, Database!FlattenSeq, Flat, Decoded
<1>2. Decoded(<<>>) = <<>>
  BY DEF Decoded
<1>3. Database!Span(<<>>) = <<>>
  BY <1>1, <1>2, FlatOf, DecodedTyped
<1>4. Flat(Decoded(rows)) \in Seq(StoredEvent)
  BY DecodedTyped, FlatOf
<1>5. QED
  BY <1>1, <1>3, <1>4

LEMMA SpanAppend ==
    ASSUME NEW rows \in Seq(StoredRow), NEW row \in StoredRow
    PROVE  Database!Span(Append(rows, row)) = Database!Span(rows) \o Database!Decode(row)
<1> DEFINE S == Seq(StoredEvent)
           more == Append(rows, row)
           a == Decoded(rows)
           b == Decoded(more)
           x == Database!Decode(row)
<1>1. more \in Seq(StoredRow) /\ Len(more) = Len(rows) + 1 /\ more[Len(rows) + 1] = row /\ \A i \in 1 .. Len(rows) : more[i] = rows[i]
  BY AppendOf
<1> HIDE DEF more
<1>2. a \in Seq(S) /\ b \in Seq(S) /\ x \in S /\ Len(a) = Len(rows) /\ Len(b) = Len(more) /\ Len(rows) \in Nat
  BY <1>1, DecodedTyped, RowCarries
<1>3. \A i \in 1 .. Len(rows) + 1 : b[i] = IF i = Len(rows) + 1 THEN x ELSE a[i]
  BY <1>1 DEF Decoded
<1>4. b = Append(a, x)
  <2> HIDE DEF a, b, x, S
  <2>1. QED
    BY <1>1, <1>2, <1>3
<1>5. Flat(b) = Flat(a) \o x
  BY <1>2, <1>4, FlatAppend
<1>6. Database!Span(more) = Flat(b) /\ Database!Span(rows) = Flat(a)
  BY <1>1, SpanIs
<1>7. QED
  BY <1>5, <1>6 DEF more

(* Rows end to end carry their events end to end.                           *)
LEMMA SpanConcat ==
    ASSUME NEW p \in Seq(StoredRow), NEW q \in Seq(StoredRow)
    PROVE  Database!Span(p \o q) = Database!Span(p) \o Database!Span(q)
<1> DEFINE Split(n) == Database!Span(p \o SubSeq(q, 1, n)) = Database!Span(p) \o Database!Span(SubSeq(q, 1, n))
           A == {n \in Nat : n <= Len(q) => Split(n)}
<1>1. 0 \in A
  <2>1. SubSeq(q, 1, 0) = <<>> /\ p \o <<>> = p
    OBVIOUS
  <2>2. Database!Span(p) \o <<>> = Database!Span(p)
    BY SpanIs
  <2>3. Split(0)
    BY <2>1, <2>2, SpanIs
  <2> HIDE DEF Split
  <2>4. QED
    BY <2>3
<1>2. ASSUME NEW n \in A PROVE n + 1 \in A
  <2>1. n \in Nat /\ (n <= Len(q) => Split(n))
    OBVIOUS
  <2>2. ASSUME n + 1 <= Len(q) PROVE Split(n + 1)
    <3> DEFINE part == SubSeq(q, 1, n)
               more == SubSeq(q, 1, n + 1)
               row == q[n + 1]
    <3>1. part \in Seq(StoredRow) /\ row \in StoredRow /\ more = Append(part, row) /\ n <= Len(q)
      BY <2>1, <2>2
    <3>2. Split(n)
      BY <2>1, <3>1
    <3> HIDE DEF part, more, row
    <3>3. p \o more = Append(p \o part, row) /\ p \o part \in Seq(StoredRow)
      BY <3>1
    <3>4. Database!Span(p \o more) = Database!Span(p \o part) \o Database!Decode(row)
      BY <3>1, <3>3, SpanAppend
    <3>5. Database!Span(more) = Database!Span(part) \o Database!Decode(row)
      BY <3>1, SpanAppend
    <3>6. Database!Span(p \o part) = Database!Span(p) \o Database!Span(part)
      BY <3>2 DEF part
    <3> DEFINE E == StoredEvent
               a == Database!Span(p)
               b == Database!Span(part)
               c == Database!Decode(row)
    <3>7. a \in Seq(E) /\ b \in Seq(E) /\ c \in Seq(E)
      BY <3>1, SpanIs, RowCarries
    <3>8. (a \o b) \o c = a \o (b \o c)
      <4> HIDE DEF a, b, c, E
      <4>1. QED
        BY <3>7
    <3>9. Database!Span(p \o more) = Database!Span(p) \o Database!Span(more)
      BY <3>4, <3>5, <3>6, <3>8
    <3>10. QED
      BY <3>9 DEF more
  <2> HIDE DEF Split
  <2>3. QED
    BY <2>1, <2>2
<1>3. A = Nat
  <2>1. A \in SUBSET Nat
    OBVIOUS
  <2> HIDE DEF A
  <2>2. QED
    BY <1>1, <1>2, <2>1, SetInduction
<1>4. Len(q) \in A /\ Len(q) \in Nat
  BY <1>3, Zenon, LenProperties
<1>5. Split(Len(q))
  <2> HIDE DEF Split
  <2>1. QED
    BY <1>4
<1>6. SubSeq(q, 1, Len(q)) = q
  OBVIOUS
<1>7. QED
  BY <1>5, <1>6

-----------------------------------------------------------------------------

LEMMA CarriedNext ==
    ASSUME NEW rows \in Seq(StoredRow)
    PROVE  /\ Carried(rows, 0) = 0 /\ Carried(rows, Len(rows)) = Len(Database!Span(rows))
           /\ \A n \in 0 .. Len(rows) : Carried(rows, n) \in Nat
           /\ \A n \in 1 .. Len(rows) : Carried(rows, n) = Carried(rows, n - 1) + Len(rows[n].texts)
<1>1. Carried(rows, 0) = 0
  <2>1. SubSeq(rows, 1, 0) = <<>> /\ Len(<<>>) = 0
    OBVIOUS
  <2>2. QED
    BY <2>1, SpanIs DEF Carried
<1>2. Carried(rows, Len(rows)) = Len(Database!Span(rows))
  <2>1. SubSeq(rows, 1, Len(rows)) = rows
    OBVIOUS
  <2>2. QED
    BY <2>1 DEF Carried
<1>3. ASSUME NEW n \in 0 .. Len(rows) PROVE Carried(rows, n) \in Nat
  <2>1. SubSeq(rows, 1, n) \in Seq(StoredRow)
    OBVIOUS
  <2>2. Database!Span(SubSeq(rows, 1, n)) \in Seq(StoredEvent)
    BY <2>1, SpanIs
  <2>3. QED
    BY <2>2 DEF Carried
<1>4. ASSUME NEW n \in 1 .. Len(rows) PROVE Carried(rows, n) = Carried(rows, n - 1) + Len(rows[n].texts)
  <2> DEFINE part == SubSeq(rows, 1, n - 1)
             row == rows[n]
  <2>1. part \in Seq(StoredRow) /\ row \in StoredRow /\ SubSeq(rows, 1, n) = Append(part, row)
    OBVIOUS
  <2> HIDE DEF part, row
  <2>2. Database!Span(Append(part, row)) = Database!Span(part) \o Database!Decode(row)
    BY <2>1, SpanAppend
  <2>3. Database!Span(part) \in Seq(StoredEvent) /\ Database!Decode(row) \in Seq(StoredEvent)
        /\ Len(Database!Decode(row)) = Len(row.texts)
    BY <2>1, SpanIs, RowCarries
  <2>4. Len(Database!Span(part) \o Database!Decode(row)) = Len(Database!Span(part)) + Len(row.texts)
    BY <2>3, LenConcat
  <2>5. QED
    BY <2>1, <2>2, <2>4 DEF Carried, part, row
<1>5. QED
  BY <1>1, <1>2, <1>3, <1>4

(* Rows cut in two carry the events cut in two.                             *)
LEMMA Parted ==
    ASSUME NEW rows \in Seq(StoredRow), NEW n \in 0 .. Len(rows)
    PROVE  /\ SubSeq(rows, 1, n) \in Seq(StoredRow) /\ SubSeq(rows, n + 1, Len(rows)) \in Seq(StoredRow)
           /\ Carried(rows, n) \in 0 .. Len(Database!Span(rows))
           /\ Database!Span(SubSeq(rows, 1, n)) = SubSeq(Database!Span(rows), 1, Carried(rows, n))
           /\ Database!Span(SubSeq(rows, n + 1, Len(rows)))
                = SubSeq(Database!Span(rows), Carried(rows, n) + 1, Len(Database!Span(rows)))
<1> DEFINE a == SubSeq(rows, 1, n)
           b == SubSeq(rows, n + 1, Len(rows))
           E == StoredEvent
           x == Database!Span(a)
           y == Database!Span(b)
           z == Database!Span(rows)
<1>1. a \in Seq(StoredRow) /\ b \in Seq(StoredRow) /\ rows = a \o b
  BY CutTwo
<1>2. Carried(rows, n) = Len(x)
  BY DEF Carried
<1> HIDE DEF a, b
<1>3. z = x \o y /\ x \in Seq(E) /\ y \in Seq(E)
  BY <1>1, SpanConcat, SpanIs
<1> HIDE DEF x, y, z, E
<1>4. Len(x) \in 0 .. Len(z) /\ x = SubSeq(z, 1, Len(x)) /\ y = SubSeq(z, Len(x) + 1, Len(z))
  BY <1>3
<1>5. QED
  BY <1>1, <1>2, <1>4 DEF a, b, x, y, z

LEMMA CarriedGrows ==
    ASSUME NEW rows \in Seq(StoredRow), NEW i \in 0 .. Len(rows), NEW j \in 0 .. Len(rows), i < j
    PROVE  Carried(rows, i) < Carried(rows, j)
<1> DEFINE upto == SubSeq(rows, 1, j)
<1>1. upto \in Seq(StoredRow) /\ i + 1 \in 0 .. Len(upto) /\ SubSeq(upto, 1, i + 1) = SubSeq(rows, 1, i + 1)
  OBVIOUS
<1>2. Carried(upto, i + 1) = Carried(rows, i + 1) /\ Len(Database!Span(upto)) = Carried(rows, j)
  BY <1>1 DEF Carried
<1> HIDE DEF upto
<1>3. Carried(rows, i + 1) <= Carried(rows, j) /\ Carried(rows, j) \in Nat
  <2>1. Carried(upto, i + 1) \in 0 .. Len(Database!Span(upto))
    BY <1>1, Parted
  <2>2. Carried(rows, j) \in Nat
    BY CarriedNext
  <2>3. QED
    BY <1>2, <2>1, <2>2
<1>4. i + 1 \in 1 .. Len(rows) /\ (i + 1) - 1 = i /\ rows[i + 1] \in StoredRow
  OBVIOUS
<1>5. Carried(rows, i + 1) = Carried(rows, i) + Len(rows[i + 1].texts) /\ Carried(rows, i) \in Nat
  <2>1. Carried(rows, i + 1) = Carried(rows, (i + 1) - 1) + Len(rows[i + 1].texts)
    BY <1>4, CarriedNext
  <2>2. QED
    BY <1>4, <2>1, CarriedNext
<1>6. Len(rows[i + 1].texts) \in Nat \ {0}
  BY <1>4, RowCarries
<1>7. QED
  BY <1>3, <1>5, <1>6

LEMMA NoneChained ==
    ASSUME NEW n \in Nat
    PROVE  Chained(<<>>, n, <<>>) /\ <<>> \in Seq(StoredEvent)
<1>1. <<>> \in Seq(StoredRow) /\ Len(<<>>) = 0
  OBVIOUS
<1>2. Database!Span(<<>>) = <<>>
  BY <1>1, SpanIs
<1>3. QED
  BY <1>1, <1>2 DEF Chained

LEMMA ChainedTyped ==
    ASSUME NEW rows, NEW n \in Nat, NEW evs, Chained(rows, n, evs)
    PROVE  rows \in Seq(StoredRow) /\ evs \in Seq(StoredEvent) /\ Len(evs) \in Nat /\ Len(rows) \in Nat
<1>1. rows \in Seq(StoredRow) /\ evs \in Seq(StoredEvent)
  BY SpanIs DEF Chained
<1>2. QED
  BY <1>1

LEMMA ChainedConcat ==
    ASSUME NEW p, NEW q, NEW n \in Nat, NEW a, NEW b, Chained(p, n, a), Chained(q, n + Len(a), b)
    PROVE  Chained(p \o q, n, a \o b)
<1>1. p \in Seq(StoredRow) /\ a \in Seq(StoredEvent) /\ Len(a) \in Nat /\ Len(p) \in Nat
  BY ChainedTyped
<1>2. q \in Seq(StoredRow) /\ b \in Seq(StoredEvent) /\ Len(q) \in Nat
  BY <1>1, ChainedTyped
<1>3. Database!Span(p) = a /\ Database!Span(q) = b
  BY DEF Chained
<1>4. Database!Span(p \o q) = a \o b
  BY <1>1, <1>2, <1>3, SpanConcat
<1> DEFINE r == p \o q
<1>5. r \in Seq(StoredRow) /\ Len(r) = Len(p) + Len(q)
  BY <1>1, <1>2
<1>6. ASSUME NEW i \in 1 .. Len(r) PROVE r[i].seq = n + Carried(r, i - 1)
  <2>1. CASE i <= Len(p)
    <3>1. SubSeq(r, 1, i - 1) = SubSeq(p, 1, i - 1) /\ r[i] = p[i] /\ i \in 1 .. Len(p)
      BY <1>1, <1>2, <2>1
    <3>2. Carried(r, i - 1) = Carried(p, i - 1)
      BY <3>1 DEF Carried
    <3> HIDE DEF r
    <3>3. QED
      BY <3>1, <3>2 DEF Chained
  <2>2. CASE ~(i <= Len(p))
    <3> DEFINE j == i - Len(p)
    <3>9. j \in 1 .. Len(q) /\ i = Len(p) + j
      BY <1>1, <1>2, <1>5, <2>2
    <3>10. PastFirst(p, q, j, StoredRow)
      <4> HIDE DEF j
      <4>1. QED
        BY <1>1, <1>2, <3>9, CutPast, Zenon
    <3>1. j \in 1 .. Len(q) /\ r[i] = q[j]
      <4> HIDE DEF j
      <4>1. QED
        BY <3>9, <3>10 DEF PastFirst
    <3>2. SubSeq(r, 1, i - 1) = p \o SubSeq(q, 1, j - 1) /\ SubSeq(q, 1, j - 1) \in Seq(StoredRow)
      <4> HIDE DEF j
      <4>1. QED
        BY <3>9, <3>10 DEF PastFirst
    <3> HIDE DEF r, j
    <3> DEFINE E == StoredEvent
               c == Database!Span(SubSeq(q, 1, j - 1))
    <3>3. Database!Span(SubSeq(r, 1, i - 1)) = a \o c /\ c \in Seq(E)
      BY <1>1, <1>3, <3>2, SpanConcat, SpanIs
    <3>4. Len(a \o c) = Len(a) + Len(c) /\ Len(c) \in Nat
      <4> HIDE DEF c
      <4>1. QED
        BY <1>1, <3>3, LenConcat
    <3>5. Carried(r, i - 1) = Len(a) + Carried(q, j - 1)
      BY <3>3, <3>4 DEF Carried
    <3>6. q[j].seq = (n + Len(a)) + Carried(q, j - 1)
      BY <3>1 DEF Chained
    <3>7. Carried(q, j - 1) \in Nat
      BY <3>4 DEF Carried
    <3>8. QED
      BY <1>1, <3>1, <3>5, <3>6, <3>7
  <2>3. QED
    BY <2>1, <2>2
<1>7. QED
  BY <1>4, <1>5, <1>6 DEF Chained

LEMMA ChainedOne ==
    ASSUME NEW row \in StoredRow
    PROVE  Chained(<<row>>, row.seq, Database!Decode(row))
<1>1. <<>> \in Seq(StoredRow) /\ <<row>> = Append(<<>>, row) /\ <<row>> \in Seq(StoredRow) /\ Len(<<row>>) = 1 /\ <<row>>[1] = row
  OBVIOUS
<1>2. Database!Span(<<row>>) = <<>> \o Database!Decode(row)
  BY <1>1, SpanAppend, SpanIs
<1>3. <<>> \o Database!Decode(row) = Database!Decode(row)
  BY RowCarries
<1>4. ASSUME NEW i \in 1 .. 1 PROVE <<row>>[i].seq = row.seq + Carried(<<row>>, i - 1)
  <2>1. i = 1 /\ i - 1 = 0 /\ Carried(<<row>>, 0) = 0
    <3>1. Carried(<<row>>, 0) = 0
      BY <1>1, CarriedNext
    <3>2. QED
      BY <3>1
  <2>2. row.seq \in Nat
    BY RowCarries
  <2>3. QED
    BY <1>1, <2>1, <2>2
<1>5. QED
  BY <1>1, <1>2, <1>3, <1>4 DEF Chained

LEMMA ChainedAppend ==
    ASSUME NEW rows, NEW n \in Nat, NEW evs, Chained(rows, n, evs), NEW row \in StoredRow, row.seq = n + Len(evs)
    PROVE  Chained(Append(rows, row), n, evs \o Database!Decode(row))
<1>1. Append(rows, row) = rows \o <<row>>
  BY ChainedTyped
<1>2. Chained(<<row>>, n + Len(evs), Database!Decode(row))
  BY ChainedOne
<1>3. QED
  BY <1>1, <1>2, ChainedConcat

(* What the first k rows, and the rows after them, hold.                    *)
LEMMA ChainedParts ==
    ASSUME NEW rows, NEW n \in Nat, NEW evs, Chained(rows, n, evs), NEW k \in 0 .. Len(rows)
    PROVE  /\ Carried(rows, k) \in 0 .. Len(evs)
           /\ Chained(SubSeq(rows, 1, k), n, SubSeq(evs, 1, Carried(rows, k)))
           /\ Chained(SubSeq(rows, k + 1, Len(rows)), n + Carried(rows, k), SubSeq(evs, Carried(rows, k) + 1, Len(evs)))
<1>1. rows \in Seq(StoredRow) /\ Len(rows) \in Nat /\ Len(evs) \in Nat
  BY ChainedTyped
<1>2. Database!Span(rows) = evs /\ \A i \in 1 .. Len(rows) : rows[i].seq = n + Carried(rows, i - 1)
  BY DEF Chained
<1> DEFINE p == SubSeq(rows, 1, k)
           q == SubSeq(rows, k + 1, Len(rows))
<1>3. /\ p \in Seq(StoredRow) /\ q \in Seq(StoredRow) /\ Carried(rows, k) \in 0 .. Len(evs)
      /\ Database!Span(p) = SubSeq(evs, 1, Carried(rows, k))
      /\ Database!Span(q) = SubSeq(evs, Carried(rows, k) + 1, Len(evs))
  BY <1>1, <1>2, Parted
<1>4. ASSUME NEW i \in 1 .. Len(p) PROVE p[i].seq = n + Carried(p, i - 1)
  <2>1. p[i] = rows[i] /\ SubSeq(p, 1, i - 1) = SubSeq(rows, 1, i - 1) /\ i \in 1 .. Len(rows)
    BY <1>1
  <2>2. QED
    BY <1>2, <2>1 DEF Carried
<1>5. ASSUME NEW i \in 1 .. Len(q) PROVE q[i].seq = (n + Carried(rows, k)) + Carried(q, i - 1)
  <2>1. q[i] = rows[k + i] /\ k + i \in 1 .. Len(rows) /\ SubSeq(rows, 1, (k + i) - 1) = p \o SubSeq(q, 1, i - 1)
        /\ SubSeq(q, 1, i - 1) \in Seq(StoredRow)
    BY <1>1, CutRest
  <2> DEFINE E == StoredEvent
             a == Database!Span(p)
             b == Database!Span(SubSeq(q, 1, i - 1))
  <2>2. Carried(rows, k) = Len(a) /\ Carried(q, i - 1) = Len(b)
    BY DEF Carried
  <2> HIDE DEF p, q
  <2>3. a \in Seq(E) /\ b \in Seq(E)
    BY <1>3, <2>1, SpanIs
  <2>4. Carried(rows, (k + i) - 1) = Len(a \o b)
    BY <1>3, <2>1, SpanConcat DEF Carried
  <2>5. Len(a \o b) = Len(a) + Len(b) /\ Len(a) \in Nat /\ Len(b) \in Nat
    BY <2>3, LenConcat
  <2>6. rows[k + i].seq = n + (Len(a) + Len(b))
    BY <1>2, <2>1, <2>4, <2>5
  <2> HIDE DEF a, b
  <2>7. n + (Len(a) + Len(b)) = (n + Len(a)) + Len(b)
    BY <2>5
  <2>8. QED
    BY <2>1, <2>2, <2>6, <2>7
<1>6. Chained(p, n, SubSeq(evs, 1, Carried(rows, k)))
  BY <1>3, <1>4 DEF Chained
<1>7. Chained(q, n + Carried(rows, k), SubSeq(evs, Carried(rows, k) + 1, Len(evs)))
  <2> HIDE DEF q
  <2>1. QED
    BY <1>3, <1>5 DEF Chained
<1>8. QED
  BY <1>3, <1>6, <1>7

-----------------------------------------------------------------------------
(* Reading.                                                                 *)

(* A scan yields the events of the rows before the first damaged one.       *)
ScansTo(scan, rows, n, evs, m) ==
    /\ m \in 0 .. Len(rows) /\ scan.events = SubSeq(evs, 1, Carried(rows, m))
    /\ \/ m = Len(rows) /\ scan.torn = -1 /\ ~scan.error
       \/ m < Len(rows) /\ scan.torn = n + Carried(rows, m) /\ rows[m + 1].bad

LEMMA LeastKey ==
    ASSUME NEW S \in SUBSET Nat, S # {}
    PROVE  Database!Min(S) \in S /\ \A k \in S : Database!Min(S) <= k
<1>1. PICK m \in S : \A k \in S : m <= k
  BY NatMin
<1>2. QED
  BY <1>1 DEF Database!Min

LEMMA ScanStops ==
    ASSUME NEW rows, NEW n \in Nat, NEW evs, Chained(rows, n, evs)
    PROVE  \E m : ScansTo(Database!ScanRows(rows, n), rows, n, evs, m)
<1> DEFINE Expected(i) == IF i = 1 THEN n ELSE rows[i - 1].seq + Len(rows[i - 1].texts)
           breaks == {i \in 1 .. Len(rows) : ~Database!Decodes(rows[i]) \/ rows[i].seq # Expected(i)}
           ends == {i \in 1 .. Len(rows) : Database!Decodes(rows[i]) /\ rows[i].tag = "turn/end"}
           first == IF breaks = {} THEN Len(rows) + 1 ELSE Database!Min(breaks)
           scan == [error |-> breaks # {} /\ \E i \in ends : first <= i,
                    events |-> Database!Span(SubSeq(rows, 1, first - 1)),
                    torn |-> IF breaks = {} THEN -1 ELSE rows[first].seq]
<1>1. Database!ScanRows(rows, n) = scan
  BY DEF Database!ScanRows
<1>2. rows \in Seq(StoredRow) /\ Len(rows) \in Nat /\ evs \in Seq(StoredEvent)
  BY ChainedTyped
<1>3. ASSUME NEW i \in 1 .. Len(rows) PROVE /\ rows[i] \in StoredRow /\ rows[i].seq = n + Carried(rows, i - 1)
                                            /\ rows[i].seq = Expected(i) /\ (Database!Decodes(rows[i]) <=> ~rows[i].bad)
  <2>1. rows[i] \in StoredRow /\ rows[i].seq = n + Carried(rows, i - 1)
    BY <1>2 DEF Chained
  <2>2. CASE i = 1
    <3>1. Carried(rows, 0) = 0 /\ i - 1 = 0
      BY <1>2, <2>2, CarriedNext
    <3>2. rows[i].seq = Expected(i)
      BY <2>1, <2>2, <3>1
    <3>3. QED
      BY <2>1, <3>2, RowCarries
  <2>3. CASE i # 1
    <3>1. i - 1 \in 1 .. Len(rows)
      BY <1>2, <2>3
    <3>2. rows[i - 1].seq = n + Carried(rows, (i - 1) - 1)
      BY <3>1 DEF Chained
    <3>3. Carried(rows, i - 1) = Carried(rows, (i - 1) - 1) + Len(rows[i - 1].texts)
      BY <1>2, <3>1, CarriedNext
    <3>4. Carried(rows, (i - 1) - 1) \in Nat
      <4>1. (i - 1) - 1 \in 0 .. Len(rows)
        BY <1>2, <3>1
      <4>2. QED
        BY <1>2, <4>1, CarriedNext
    <3>5. Len(rows[i - 1].texts) \in Nat
      <4>1. rows[i - 1] \in StoredRow
        BY <1>2, <3>1
      <4>2. QED
        BY <4>1, RowCarries
    <3>6. rows[i].seq = rows[i - 1].seq + Len(rows[i - 1].texts)
      BY <2>1, <3>2, <3>3, <3>4, <3>5
    <3>7. rows[i].seq = Expected(i)
      BY <2>3, <3>6
    <3>8. QED
      BY <2>1, <3>7, RowCarries
  <2>4. QED
    BY <2>2, <2>3
<1> HIDE DEF Expected
<1>4. breaks \in SUBSET Nat /\ \A i \in breaks : i \in 1 .. Len(rows) /\ rows[i].bad
  BY <1>2, <1>3
<1>5. /\ Database!Span(rows) = evs
      /\ \A m \in 0 .. Len(rows) : Database!Span(SubSeq(rows, 1, m)) = SubSeq(evs, 1, Carried(rows, m))
  <2>1. Database!Span(rows) = evs
    BY DEF Chained
  <2>2. QED
    BY <1>2, <2>1, Parted
<1>6. CASE breaks = {}
  <2>1. first - 1 = Len(rows) /\ Len(rows) \in 0 .. Len(rows)
    BY <1>2, <1>6
  <2>2. scan.events = SubSeq(evs, 1, Carried(rows, Len(rows))) /\ scan.torn = -1 /\ ~scan.error
    <3> HIDE DEF breaks
    <3>1. Database!Span(SubSeq(rows, 1, first - 1)) = SubSeq(evs, 1, Carried(rows, Len(rows)))
      BY <1>5, <2>1
    <3> HIDE DEF first
    <3>2. QED
      BY <1>6, <3>1
  <2> HIDE DEF scan, breaks, first
  <2>3. ScansTo(scan, rows, n, evs, Len(rows))
    BY <2>1, <2>2 DEF ScansTo
  <2>4. QED
    BY <1>1, <2>3
<1>7. CASE breaks # {}
  <2> HIDE DEF breaks
  <2>1. first \in breaks
    BY <1>4, <1>7, LeastKey
  <2>2. first \in 1 .. Len(rows) /\ rows[first].bad
    BY <1>4, <2>1
  <2>3. scan.events = Database!Span(SubSeq(rows, 1, first - 1)) /\ scan.torn = rows[first].seq
    <3> HIDE DEF first
    <3>1. QED
      BY <1>7
  <2> HIDE DEF scan, first
  <2> DEFINE m == first - 1
  <2>4. m \in 0 .. Len(rows) /\ m < Len(rows) /\ m + 1 = first
    BY <1>2, <2>2
  <2>5. rows[first].seq = n + Carried(rows, m)
    BY <1>3, <2>2
  <2>6. Database!Span(SubSeq(rows, 1, m)) = SubSeq(evs, 1, Carried(rows, m))
    BY <1>5, <2>4
  <2>7. ScansTo(scan, rows, n, evs, m)
    BY <2>2, <2>3, <2>4, <2>5, <2>6 DEF ScansTo
  <2> HIDE DEF m
  <2>8. QED
    BY <1>1, <2>7
<1>8. QED
  BY <1>6, <1>7

(* A read is a slice of what the rows hold.                                 *)
Slices(w, b, c, from, got, read, want) ==
    /\ got = SubSeq(SubSeq(w, b + 1, Len(w)), 1, c)
    /\ read = SubSeq(got, from - b + 1, Len(got)) /\ want = SubSeq(w, from + 1, Len(w))

LEMMA SliceOf ==
    ASSUME NEW T, NEW w \in Seq(T), NEW b \in 0 .. Len(w), NEW c \in 0 .. Len(w) - b, NEW from \in b .. Len(w),
           NEW got, NEW read, NEW want, Slices(w, b, c, from, got, read, want)
    PROVE  /\ Database!IsPrefix(read, want)
           /\ c = Len(w) - b => read = want
<1>1. Len(w) \in Nat /\ b \in Nat /\ c \in Nat /\ from \in Nat /\ from \in 0 .. Len(w)
  OBVIOUS
<1> DEFINE rest == SubSeq(w, b + 1, Len(w))
<1>2. rest \in Seq(T) /\ Len(rest) = Len(w) - b /\ \A i \in 1 .. Len(w) - b : rest[i] = w[b + i]
  BY CutTwo
<1>3. got = SubSeq(rest, 1, c) /\ read = SubSeq(got, from - b + 1, Len(got)) /\ want = SubSeq(w, from + 1, Len(w))
  BY Zenon DEF Slices
<1> HIDE DEF rest
<1>4. got \in Seq(T) /\ Len(got) = c /\ \A i \in 1 .. c : got[i] = rest[i]
  <2>1. c \in 0 .. Len(rest)
    BY <1>2
  <2>2. QED
    BY <1>2, <1>3, <2>1, CutTwo
<1>5. want \in Seq(T) /\ Len(want) = Len(w) - from /\ \A i \in 1 .. Len(w) - from : want[i] = w[from + i]
  BY <1>1, <1>3, CutTwo
<1>6. CASE from - b <= c
  <2>1. from - b \in 0 .. Len(got)
    BY <1>1, <1>4, <1>6
  <2>2. read \in Seq(T) /\ Len(read) = c - (from - b) /\ \A i \in 1 .. c - (from - b) : read[i] = got[(from - b) + i]
    BY <1>3, <1>4, <2>1, CutTwo
  <2>3. ASSUME NEW i \in 1 .. Len(read) PROVE read[i] = want[i]
    <3>1. (from - b) + i \in 1 .. c /\ i \in 1 .. c - (from - b) /\ (from - b) + i \in 1 .. Len(w) - b
      BY <1>1, <1>6, <2>2
    <3>2. read[i] = w[b + ((from - b) + i)]
      BY <1>2, <1>4, <2>2, <3>1
    <3>3. b + ((from - b) + i) = from + i /\ i \in 1 .. Len(w) - from
      BY <1>1, <3>1
    <3>4. QED
      BY <1>5, <3>2, <3>3
  <2>4. Len(read) <= Len(want) /\ (c = Len(w) - b => Len(read) = Len(want))
    BY <1>1, <1>5, <1>6, <2>2
  <2>5. c = Len(w) - b => read = want
    BY <1>5, <2>2, <2>3, <2>4
  <2> DEFINE x == SubSeq(read, 1, Len(read))
             y == SubSeq(want, 1, Len(read))
  <2>6. x = y
    <3>1. Len(read) \in 0 .. Len(want) /\ Len(read) \in 0 .. Len(read)
      BY <1>5, <2>2, <2>4
    <3>2. x \in Seq(T) /\ Len(x) = Len(read) /\ \A i \in 1 .. Len(read) : x[i] = read[i]
      BY <2>2, <3>1, CutTwo
    <3>3. y \in Seq(T) /\ Len(y) = Len(read) /\ \A i \in 1 .. Len(read) : y[i] = want[i]
      BY <1>5, <3>1, CutTwo
    <3> HIDE DEF x, y
    <3>4. QED
      BY <2>3, <3>2, <3>3
  <2>7. Database!IsPrefix(read, want)
    BY <2>4, <2>6 DEF Database!IsPrefix
  <2>8. QED
    BY <2>5, <2>7
<1>7. CASE ~(from - b <= c)
  <2>1. read = <<>>
    BY <1>1, <1>3, <1>4, <1>7
  <2>2. c # Len(w) - b
    BY <1>1, <1>7
  <2>3. Len(<<>>) = 0 /\ SubSeq(<<>>, 1, 0) = <<>> /\ SubSeq(want, 1, 0) = <<>>
    BY <1>5
  <2>4. Len(<<>>) <= Len(want)
    BY <1>1, <1>5, <2>3
  <2>5. QED
    BY <2>1, <2>2, <2>3, <2>4 DEF Database!IsPrefix
<1>8. QED
  BY <1>6, <1>7

DbOk(d) ==
    /\ d \in [header : BOOLEAN, rows : Seq(StoredRow), acked : Seq(StoredEvent)]
    /\ Chained(d.rows, 0, d.acked)

LEMMA DbHas ==
    ASSUME NEW d, DbOk(d)
    PROVE  /\ d.rows \in Seq(StoredRow) /\ d.acked \in Seq(StoredEvent) /\ Chained(d.rows, 0, d.acked)
           /\ Len(d.rows) \in Nat /\ Len(d.acked) \in Nat
           /\ \A i \in 1 .. Len(d.rows) : /\ d.rows[i] \in StoredRow /\ d.rows[i].seq = Carried(d.rows, i - 1)
                                         /\ Carried(d.rows, i) = Carried(d.rows, i - 1) + Len(d.rows[i].texts)
           /\ \A i \in 0 .. Len(d.rows) : Carried(d.rows, i) \in Nat
           /\ Carried(d.rows, Len(d.rows)) = Len(d.acked) /\ Carried(d.rows, 0) = 0
<1>1. Chained(d.rows, 0, d.acked)
  BY DEF DbOk
<1>2. d.rows \in Seq(StoredRow) /\ d.acked \in Seq(StoredEvent) /\ Len(d.rows) \in Nat /\ Len(d.acked) \in Nat
  BY <1>1, ChainedTyped
<1>3. /\ Carried(d.rows, 0) = 0 /\ Carried(d.rows, Len(d.rows)) = Len(d.acked)
      /\ \A n \in 0 .. Len(d.rows) : Carried(d.rows, n) \in Nat
      /\ \A n \in 1 .. Len(d.rows) : Carried(d.rows, n) = Carried(d.rows, n - 1) + Len(d.rows[n].texts)
  <2>1. Database!Span(d.rows) = d.acked
    BY <1>1 DEF Chained
  <2>2. QED
    BY <1>2, <2>1, CarriedNext
<1>4. \A i \in 1 .. Len(d.rows) : d.rows[i] \in StoredRow /\ i - 1 \in 0 .. Len(d.rows)
  BY <1>2
<1>5. \A i \in 1 .. Len(d.rows) : d.rows[i].seq = 0 + Carried(d.rows, i - 1)
  BY <1>1 DEF Chained
<1>6. \A i \in 1 .. Len(d.rows) : d.rows[i].seq = Carried(d.rows, i - 1)
  BY <1>3, <1>4, <1>5
<1>7. QED
  BY <1>1, <1>2, <1>3, <1>4, <1>6

(* The rows from the first whose key is at least x.                         *)
FirstAt(x, f) ==
    /\ f \in 1 .. Len(db.rows) + 1
    /\ \A i \in 1 .. Len(db.rows) : db.rows[i].seq >= x => f <= i
    /\ f \in 1 .. Len(db.rows) => db.rows[f].seq >= x

LEMMA FirstIs ==
    ASSUME DbOk(db), NEW x \in Int
    PROVE  FirstAt(x, Database!FirstFrom(x))
<1> DEFINE keys == {i \in DOMAIN db.rows : db.rows[i].seq >= x} \cup {Len(db.rows) + 1}
<1>1. Len(db.rows) \in Nat /\ DOMAIN db.rows = 1 .. Len(db.rows)
  BY DbHas
<1>2. /\ keys \in SUBSET Nat /\ keys # {} /\ keys \subseteq 1 .. Len(db.rows) + 1
      /\ \A i \in 1 .. Len(db.rows) : i \in keys <=> db.rows[i].seq >= x
  BY <1>1
<1>3. Database!FirstFrom(x) = Database!Min(keys)
  BY DEF Database!FirstFrom
<1> DEFINE f == Database!FirstFrom(x)
<1> HIDE DEF keys
<1>4. f \in keys /\ \A k \in keys : f <= k
  BY <1>2, <1>3, LeastKey
<1> HIDE DEF f
<1>5. FirstAt(x, f)
  BY <1>1, <1>2, <1>4 DEF FirstAt
<1>6. QED
  BY <1>5 DEF f

LEMMA FirstOfRow ==
    ASSUME DbOk(db), NEW k \in 0 .. Len(db.rows)
    PROVE  Database!FirstFrom(Carried(db.rows, k)) = k + 1
<1> DEFINE x == Carried(db.rows, k)
           f == Database!FirstFrom(x)
<1>1. Len(db.rows) \in Nat /\ k \in Nat /\ x \in Nat /\ db.rows \in Seq(StoredRow)
  BY DbHas
<1>2. /\ f \in 1 .. Len(db.rows) + 1
      /\ \A i \in 1 .. Len(db.rows) : db.rows[i].seq >= x => f <= i
      /\ f \in 1 .. Len(db.rows) => db.rows[f].seq >= x
  <2>1. FirstAt(x, f)
    BY <1>1, FirstIs
  <2> HIDE DEF f, x
  <2>2. QED
    BY <2>1, Zenon DEF FirstAt
<1>3. f <= k + 1
  <2>1. CASE k = Len(db.rows)
    BY <1>1, <1>2, <2>1
  <2>2. CASE k # Len(db.rows)
    <3>1. k + 1 \in 1 .. Len(db.rows) /\ (k + 1) - 1 = k
      BY <1>1, <2>2
    <3>2. db.rows[k + 1].seq = x
      <4>1. db.rows[k + 1].seq = Carried(db.rows, (k + 1) - 1)
        BY <3>1, DbHas
      <4>2. QED
        BY <3>1, <4>1
    <3> HIDE DEF x, f
    <3>3. QED
      BY <1>1, <1>2, <3>1, <3>2
  <2>3. QED
    BY <2>1, <2>2
<1>4. ~(f <= k)
  <2> SUFFICES ASSUME f <= k PROVE FALSE
    OBVIOUS
  <2>1. f \in 1 .. Len(db.rows) /\ f - 1 \in 0 .. Len(db.rows) /\ f - 1 < k
    <3> HIDE DEF f
    <3>1. QED
      BY <1>1, <1>2
  <2>2. db.rows[f].seq = Carried(db.rows, f - 1) /\ Carried(db.rows, f - 1) \in Nat
    <3> HIDE DEF f
    <3>1. QED
      BY <2>1, DbHas
  <2>3. Carried(db.rows, f - 1) < x
    <3> HIDE DEF f
    <3>1. QED
      BY <1>1, <2>1, CarriedGrows
  <2> HIDE DEF f, x
  <2>4. QED
    BY <1>1, <1>2, <2>1, <2>2, <2>3
<1> HIDE DEF f, x
<1>5. f = k + 1
  BY <1>1, <1>2, <1>3, <1>4
<1>6. QED
  BY <1>5 DEF f, x

(* Wherever a read starts, the physical rows it takes start with a row.     *)
LEMMA BaseIsRow ==
    ASSUME DbOk(db), NEW from \in 0 .. Len(db.acked)
    PROVE  \E k \in 0 .. Len(db.rows) : Database!PhysicalBase(from) = Carried(db.rows, k) /\ Carried(db.rows, k) <= from
<1> DEFINE C == {from} \cup {row.seq : row \in Database!Covering(from)}
           base == Database!PhysicalBase(from)
           n == Len(db.rows)
           Pos(i) == Carried(db.rows, i)
<1>9. /\ Len(db.acked) \in Nat /\ db.rows \in Seq(StoredRow)
      /\ Len(db.rows) \in Nat
      /\ \A i \in 1 .. Len(db.rows) : db.rows[i] \in StoredRow /\ db.rows[i].seq = Carried(db.rows, i - 1)
      /\ \A i \in 1 .. Len(db.rows) : Carried(db.rows, i) = Carried(db.rows, i - 1) + Len(db.rows[i].texts)
      /\ \A i \in 0 .. Len(db.rows) : Carried(db.rows, i) \in Nat
      /\ Carried(db.rows, Len(db.rows)) = Len(db.acked) /\ Carried(db.rows, 0) = 0
  BY DbHas
<1>1. /\ n \in Nat /\ Len(db.acked) \in Nat /\ DOMAIN db.rows = 1 .. n /\ from \in Nat /\ db.rows \in Seq(StoredRow)
      /\ \A i \in 1 .. n : db.rows[i] \in StoredRow /\ db.rows[i].seq = Pos(i - 1) /\ Pos(i) = Pos(i - 1) + Len(db.rows[i].texts)
      /\ \A i \in 0 .. n : Pos(i) \in Nat
      /\ Pos(n) = Len(db.acked) /\ Pos(0) = 0
  BY <1>9
<1>2. ASSUME NEW row \in Database!Covering(from) PROVE \E i \in 1 .. n : row = db.rows[i]
  <2>1. row \in Database!Range(db.rows)
    BY DEF Database!Covering
  <2>2. QED
    BY <1>1, <2>1 DEF Database!Range
<1>3. C \in SUBSET Nat /\ C # {}
  <2>1. ASSUME NEW row \in Database!Covering(from) PROVE row.seq \in Nat
    BY <1>1, <1>2, RowCarries
  <2>2. QED
    BY <1>1, <2>1
<1>4. base \in C /\ \A k \in C : base <= k
  <2>1. base = Database!Min(C)
    BY DEF Database!PhysicalBase
  <2> HIDE DEF base, C
  <2>2. QED
    BY <1>3, <2>1, LeastKey
<1>5. base <= from /\ base \in Nat
  BY <1>3, <1>4
<1> HIDE DEF base, Pos, n
<1>6. CASE base \in {row.seq : row \in Database!Covering(from)}
  <2>1. PICK row \in Database!Covering(from) : base = row.seq
    BY <1>6
  <2>2. PICK i \in 1 .. n : row = db.rows[i]
    BY <1>2
  <2>3. base = Pos(i - 1) /\ i - 1 \in 0 .. n
    BY <1>1, <2>1, <2>2
  <2>4. QED
    BY <1>5, <2>3 DEF base, Pos, n
<1>7. CASE base = from
  <2> DEFINE S == {j \in 0 .. n : Pos(j) >= from}
  <2>1. n \in S /\ S \in SUBSET Nat
    BY <1>1
  <2>2. PICK j \in S : \A i \in S : j <= i
    BY <2>1, NatMin
  <2>3. j \in 0 .. n /\ Pos(j) >= from /\ Pos(j) \in Nat
    BY <1>1, <2>2
  <2>4. CASE Pos(j) = from
    <3>1. base = Pos(j) /\ Pos(j) <= from
      BY <1>5, <1>7, <2>4
    <3>2. QED
      BY <2>3, <3>1 DEF base, Pos, n
  <2>5. CASE Pos(j) # from
    <3>1. Pos(j) > from
      BY <1>1, <2>3, <2>5
    <3>2. j \in 1 .. n
      BY <1>1, <2>3, <3>1
    <3>3. j - 1 \in 0 .. n /\ ~(j - 1 \in S)
      BY <1>1, <2>2, <3>2
    <3>4. Pos(j - 1) < from /\ Pos(j - 1) \in Nat
      BY <1>1, <3>3
    <3> DEFINE row == db.rows[j]
    <3>5. /\ row \in StoredRow /\ row.seq = Pos(j - 1) /\ Pos(j) = Pos(j - 1) + Len(row.texts)
      BY <1>1, <3>2
    <3>6. /\ Len(row.texts) \in Nat \ {0}
          /\ row.packed \/ Len(row.texts) = 1
          /\ row.packed => Len(row.texts) <= MaxPacked
      <4> HIDE DEF row
      <4>1. QED
        BY <3>5, RowCarries
    <3>7. row \in Database!Range(db.rows)
      BY <1>1, <3>2 DEF Database!Range
    <3> HIDE DEF row
    <3>13. Len(row.texts) # 1
      <4>1. from \in Nat
        BY <1>1
      <4>2. \A a, b \in Nat : a < from /\ b = a + 1 => ~(b > from)
        BY <4>1
      <4> HIDE DEF row
      <4>3. Pos(j) = Pos(j - 1) + Len(row.texts)
        BY <3>5
      <4>4. QED
        BY <2>3, <3>1, <3>4, <4>2, <4>3
    <3>8. row.packed /\ Len(row.texts) <= MaxPacked
      BY <3>6, <3>13
    <3>9. row.seq < from /\ row.seq + Len(row.texts) - 1 >= from /\ row.seq >= from - MaxPacked + 1
      BY <1>1, <3>1, <3>4, <3>5, <3>6, <3>8, StoresAssumption
    <3>10. row \in Database!Covering(from)
      BY <3>7, <3>8, <3>9 DEF Database!Covering
    <3>11. base <= row.seq
      BY <1>4, <3>10
    <3>12. QED
      BY <1>7, <3>4, <3>5, <3>9, <3>11
  <2>6. QED
    BY <2>4, <2>5
<1>8. QED
  BY <1>4, <1>6, <1>7

(* What a read from the k-th row boundary on takes.                         *)
Fetches(k, base, span, rest, m) ==
    /\ base \in 0 .. Len(db.acked) /\ Chained(span, base, rest)
    /\ Len(rest) = Len(db.acked) - base /\ Len(span) = Len(db.rows) - k
    /\ \A i \in 1 .. Len(span) : span[i] = db.rows[k + i]
    /\ ScansTo(Database!ScanRows(span, base), span, base, rest, m)
    /\ Carried(span, m) \in 0 .. Len(rest) /\ (m = Len(span) => Carried(span, m) = Len(rest))

LEMMA Fetched ==
    ASSUME DbOk(db), NEW k \in 0 .. Len(db.rows)
    PROVE  \E m : Fetches(k, Carried(db.rows, k), SubSeq(db.rows, k + 1, Len(db.rows)),
                         SubSeq(db.acked, Carried(db.rows, k) + 1, Len(db.acked)), m)
<1> DEFINE base == Carried(db.rows, k)
           span == SubSeq(db.rows, k + 1, Len(db.rows))
           rest == SubSeq(db.acked, base + 1, Len(db.acked))
<1>1. db.rows \in Seq(StoredRow) /\ db.acked \in Seq(StoredEvent) /\ Chained(db.rows, 0, db.acked) /\ Len(db.acked) \in Nat
  BY DbHas
<1>2. base \in 0 .. Len(db.acked) /\ Chained(SubSeq(db.rows, k + 1, Len(db.rows)), 0 + base, SubSeq(db.acked, base + 1, Len(db.acked)))
  BY <1>1, ChainedParts
<1>3. 0 + base = base /\ base \in Nat
  BY <1>1, <1>2
<1>4. Chained(span, base, rest)
  BY <1>2, <1>3
<1>5. Len(rest) = Len(db.acked) - base
  <2> HIDE DEF base
  <2>1. QED
    BY <1>1, <1>2, CutTwo
<1>6. Len(span) = Len(db.rows) - k /\ \A i \in 1 .. Len(db.rows) - k : span[i] = db.rows[k + i]
  <2>1. db.rows \in Seq(StoredRow)
    BY <1>1
  <2> DEFINE w == db.rows
  <2> HIDE DEF w
  <2>2. w \in Seq(StoredRow) /\ k \in 0 .. Len(w)
    BY <2>1 DEF w
  <2>3. Len(SubSeq(w, k + 1, Len(w))) = Len(w) - k /\ \A i \in 1 .. Len(w) - k : SubSeq(w, k + 1, Len(w))[i] = w[k + i]
    BY <2>2, CutTwo
  <2>4. QED
    BY <2>3, Zenon DEF w
<1> HIDE DEF base, span, rest
<1>7. PICK m : ScansTo(Database!ScanRows(span, base), span, base, rest, m)
  BY <1>3, <1>4, ScanStops
<1>8. m \in 0 .. Len(span)
  BY <1>7 DEF ScansTo
<1>9. Carried(span, m) \in 0 .. Len(rest)
  BY <1>3, <1>4, <1>8, ChainedParts
<1>10. Carried(span, Len(span)) = Len(rest)
  <2>1. Database!Span(span) = rest /\ span \in Seq(StoredRow)
    BY <1>4 DEF Chained
  <2>2. QED
    BY <2>1, CarriedNext
<1>11. Fetches(k, base, span, rest, m)
  BY <1>2, <1>4, <1>5, <1>6, <1>7, <1>9, <1>10 DEF Fetches
<1>12. QED
  BY <1>11, Zenon DEF base, span, rest

LEMMA FetchesSpan ==
    ASSUME DbOk(db), NEW k \in 0 .. Len(db.rows)
    PROVE  Database!SelectEvents(Carried(db.rows, k)) = SubSeq(db.rows, k + 1, Len(db.rows))
  BY FirstOfRow DEF Database!SelectEvents

LEMMA Reads ==
    ASSUME DbOk(db)
    PROVE  Database!ReadsAsWritten
<1> SUFFICES ASSUME NEW from \in 0 .. Len(db.acked)
             PROVE  LET read == Database!GetEvents(from)
                        want == SubSeq(db.acked, from + 1, Len(db.acked))
                    IN /\ ~read.error => Database!IsPrefix(read.events, want)
                       /\ (\A row \in Database!Range(db.rows) : ~row.bad) => ~read.error /\ read.events = want
  BY DEF Database!ReadsAsWritten
<1>1. PICK k \in 0 .. Len(db.rows) : Database!PhysicalBase(from) = Carried(db.rows, k) /\ Carried(db.rows, k) <= from
  BY BaseIsRow
<1> DEFINE base == Carried(db.rows, k)
           span == SubSeq(db.rows, k + 1, Len(db.rows))
           rest == SubSeq(db.acked, base + 1, Len(db.acked))
           scan == Database!ScanRows(span, base)
           got == scan.events
           seen == SubSeq(got, from - base + 1, Len(got))
           want == SubSeq(db.acked, from + 1, Len(db.acked))
<1>2. Database!GetEvents(from) = [error |-> scan.error, events |-> seen]
  BY <1>1, FetchesSpan DEF Database!GetEvents
<1>12. PICK m : Fetches(k, base, span, rest, m)
  BY Fetched, Zenon
<1>3. /\ base \in 0 .. Len(db.acked) /\ Len(rest) = Len(db.acked) - base /\ Len(span) = Len(db.rows) - k
      /\ \A i \in 1 .. Len(span) : span[i] = db.rows[k + i]
  BY <1>12, Zenon DEF Fetches
<1>4. /\ ScansTo(scan, span, base, rest, m)
      /\ Carried(span, m) \in 0 .. Len(rest) /\ (m = Len(span) => Carried(span, m) = Len(rest))
  BY <1>12, Zenon DEF Fetches
<1>5. m \in 0 .. Len(span) /\ got = SubSeq(rest, 1, Carried(span, m))
      /\ ((m = Len(span) /\ ~scan.error) \/ (m < Len(span) /\ span[m + 1].bad))
  BY <1>4 DEF ScansTo
<1> DEFINE c == Carried(span, m)
<1>6. Slices(db.acked, base, c, from, got, seen, want)
  BY <1>5, Zenon DEF Slices
<1>7. db.acked \in Seq(StoredEvent) /\ Len(db.acked) \in Nat /\ Len(db.rows) \in Nat
  BY DbHas
<1>8. c \in 0 .. Len(db.acked) - base /\ from \in base .. Len(db.acked)
  <2>1. base <= from
    BY <1>1
  <2> HIDE DEF base, c
  <2>2. c \in 0 .. Len(rest)
    BY <1>4 DEF c
  <2> HIDE DEF rest
  <2>3. QED
    BY <1>3, <1>7, <2>1, <2>2
<1>9. Database!IsPrefix(seen, want) /\ (c = Len(db.acked) - base => seen = want)
  <2> HIDE DEF base, c, got, seen, want
  <2> DEFINE w == db.acked
  <2>1. w \in Seq(StoredEvent) /\ base \in 0 .. Len(w) /\ c \in 0 .. Len(w) - base /\ from \in base .. Len(w)
        /\ Slices(w, base, c, from, got, seen, want)
    BY <1>3, <1>6, <1>7, <1>8
  <2> HIDE DEF w
  <2>2. Database!IsPrefix(seen, want) /\ (c = Len(w) - base => seen = want)
    BY <2>1, SliceOf
  <2>3. QED
    BY <2>2 DEF w
<1>10. ASSUME \A row \in Database!Range(db.rows) : ~row.bad
       PROVE  ~scan.error /\ seen = want
  <2>1. \A i \in 1 .. Len(db.rows) : ~db.rows[i].bad
    <3>1. \A i \in 1 .. Len(db.rows) : db.rows[i] \in Database!Range(db.rows)
      BY DbHas DEF Database!Range
    <3>2. QED
      BY <1>10, <3>1
  <2>2. ~(m < Len(span) /\ span[m + 1].bad)
    <3> SUFFICES ASSUME m < Len(span), span[m + 1].bad PROVE FALSE
      OBVIOUS
    <3> HIDE DEF span
    <3>1. m + 1 \in 1 .. Len(span) /\ k + (m + 1) \in 1 .. Len(db.rows)
      <4>1. Len(span) \in Nat /\ Len(span) = Len(db.rows) - k
        BY <1>3, <1>7
      <4>2. QED
        BY <1>5, <1>7, <4>1
    <3>2. span[m + 1] = db.rows[k + (m + 1)]
      BY <1>3, <3>1
    <3>3. QED
      BY <2>1, <3>1, <3>2
  <2>3. m = Len(span) /\ ~scan.error
    BY <1>5, <2>2
  <2>4. c = Len(db.acked) - base
    BY <1>3, <1>4, <2>3
  <2>5. QED
    BY <1>9, <2>3, <2>4
<1> HIDE DEF scan, seen, want
<1>11. QED
  BY <1>2, <1>9, <1>10 DEF want

(* What is stored before a sound tail is all that is stored: an append      *)
(* starts where the log ends.                                               *)
LEMMA NextIsLogical ==
    ASSUME DbOk(db), ~Database!LogicalNext.error
    PROVE  Database!LogicalNext.next = Len(db.acked)
<1> DEFINE n == Len(db.rows)
           t == IF n > 1 THEN n - 1 ELSE n
           x == db.rows[t].seq - MaxPacked + 1
           f == Database!FirstFrom(x)
           span == SubSeq(db.rows, f, n)
           scan == Database!ScanRows(span, span[1].seq)
<1>1. db.rows \in Seq(StoredRow) /\ n \in Nat /\ Len(db.acked) \in Nat
  BY DbHas
<1>2. CASE n = 0
  <2>1. Database!LogicalNext = [error |-> FALSE, next |-> 0]
    BY <1>2 DEF Database!LogicalNext
  <2>2. Len(db.acked) = 0
    BY <1>2, DbHas
  <2>3. QED
    BY <2>1, <2>2
<1>3. CASE n # 0
  <2>1. t \in 1 .. n
    BY <1>1, <1>3
  <2>2. Database!LogicalNext = [error |-> scan.error \/ scan.torn # -1, next |-> span[1].seq + Len(scan.events)]
    BY <1>3, Zenon DEF Database!LogicalNext, Database!SelectEvents
  <2> HIDE DEF t
  <2>3. x \in Int /\ db.rows[t].seq >= x
    <3>1. db.rows[t] \in StoredRow
      BY <1>1, <2>1
    <3>2. db.rows[t].seq \in Nat
      BY <3>1, RowCarries
    <3>3. MaxPacked \in Nat \ {0}
      BY StoresAssumption
    <3>4. QED
      BY <3>2, <3>3
  <2> HIDE DEF x
  <2>4. FirstAt(x, f)
    BY <2>3, FirstIs
  <2> HIDE DEF f
  <2>5. f \in 1 .. n
    BY <1>1, <2>1, <2>3, <2>4 DEF FirstAt
  <2> DEFINE k == f - 1
             base == Carried(db.rows, k)
             rest == SubSeq(db.acked, base + 1, Len(db.acked))
  <2>6. k \in 0 .. n /\ f = k + 1 /\ k < n
    BY <1>1, <2>5
  <2> HIDE DEF k
  <2>7. span = SubSeq(db.rows, k + 1, Len(db.rows))
    BY <2>6
  <2> HIDE DEF span, base, rest
  <2>17. PICK m : Fetches(k, base, span, rest, m)
    BY <2>6, <2>7, Fetched, Zenon DEF base, rest
  <2>8. /\ base \in 0 .. Len(db.acked) /\ Len(rest) = Len(db.acked) - base /\ Len(span) = Len(db.rows) - k
        /\ \A i \in 1 .. Len(span) : span[i] = db.rows[k + i]
        /\ Chained(span, base, rest)
    BY <2>17, Zenon DEF Fetches
  <2>9. span[1].seq = base
    <3>1. 1 \in 1 .. Len(span) /\ span[1] = db.rows[f]
      BY <1>1, <2>6, <2>8
    <3>2. db.rows[f].seq = Carried(db.rows, f - 1)
      BY <2>5, DbHas
    <3>3. f - 1 = k
      BY <1>1, <2>6
    <3>4. QED
      BY <3>1, <3>2, <3>3 DEF base
  <2>10. /\ ScansTo(scan, span, base, rest, m)
         /\ Carried(span, m) \in 0 .. Len(rest) /\ (m = Len(span) => Carried(span, m) = Len(rest))
    BY <2>9, <2>17, Zenon DEF Fetches
  <2>11. scan.torn = -1
    BY <2>2
  <2> HIDE DEF scan
  <2>12. m = Len(span) /\ scan.events = SubSeq(rest, 1, Carried(span, m))
    BY <2>8, <2>10, <2>11 DEF ScansTo
  <2>13. scan.events = SubSeq(rest, 1, Len(rest)) /\ rest \in Seq(StoredEvent)
    <3>1. base \in Nat
      BY <1>1, <2>8
    <3>2. rest \in Seq(StoredEvent)
      BY <2>8, <3>1, ChainedTyped
    <3>3. QED
      BY <2>10, <2>12, <3>2, Zenon
  <2>14. Len(scan.events) = Len(rest)
    BY <2>13
  <2>15. base + Len(scan.events) = Len(db.acked)
    BY <1>1, <2>8, <2>14
  <2>16. QED
    BY <2>2, <2>9, <2>15
<1>4. QED
  BY <1>2, <1>3

-----------------------------------------------------------------------------
(* Packing.                                                                 *)

(* Events of one kind and key, as the members of a packed row are.          *)
Uniform(q) == \A i \in 1 .. Len(q) : q[i].kind = q[1].kind /\ q[i].key = q[1].key

LEMMA EventIs ==
    ASSUME NEW e \in StoredEvent
    PROVE  /\ e.kind \in {f.kind : f \in Stored} /\ e.key \in {f.key : f \in Stored} /\ e.text \in {f.text : f \in Stored}
           /\ e = [kind |-> e.kind, key |-> e.key, text |-> e.text]
<1> DEFINE T == {f.text : f \in Stored}
           K == {f.kind : f \in Stored}
           Y == {f.key : f \in Stored}
<1>1. StoredEvent = [kind : K, key : Y, text : T]
  BY DEF StoredEvent
<1> HIDE DEF T, K, Y
<1>2. e.kind \in K /\ e.key \in Y /\ e.text \in T /\ e = [kind |-> e.kind, key |-> e.key, text |-> e.text]
  BY <1>1
<1>3. QED
  BY <1>2 DEF T, K, Y

LEMMA RowTyped ==
    ASSUME NEW row, NEW n \in Nat, NEW k \in {e.kind : e \in Stored}, NEW y \in {e.key : e \in Stored},
           NEW x \in Seq({e.text : e \in Stored}), NEW p \in BOOLEAN,
           row = [seq |-> n, tag |-> k, key |-> y, texts |-> x, packed |-> p, bad |-> FALSE], x # <<>>,
           p => Len(x) \in MinPacked .. MaxPacked /\ Database!Bytes(x) <= MaxBytes, ~p => Len(x) = 1
    PROVE  row \in StoredRow /\ row.seq = n
<1> DEFINE K == {e.kind : e \in Stored}
           Y == {e.key : e \in Stored}
           S == Seq({e.text : e \in Stored})
<1>1. k \in K /\ y \in Y /\ x \in S
  OBVIOUS
<1>2. StoredRow = {r \in [seq : Nat, tag : K, key : Y, texts : S, packed : BOOLEAN, bad : BOOLEAN] :
        /\ r.texts # <<>>
        /\ r.packed => Len(r.texts) \in MinPacked .. MaxPacked /\ Database!Bytes(r.texts) <= MaxBytes
        /\ ~r.packed => Len(r.texts) = 1}
  BY DEF StoredRow
<1> HIDE DEF K, Y, S
<1>3. row \in [seq : Nat, tag : K, key : Y, texts : S, packed : BOOLEAN, bad : BOOLEAN]
  BY <1>1
<1>4. row.seq = n /\ row.texts = x /\ row.packed = p
  OBVIOUS
<1>5. QED
  BY <1>2, <1>3, <1>4

LEMMA ScalarCarries ==
    ASSUME NEW n \in Nat, NEW e \in StoredEvent
    PROVE  /\ Database!ScalarRow(n, e) \in StoredRow /\ Database!ScalarRow(n, e).seq = n
           /\ Database!Decode(Database!ScalarRow(n, e)) = <<e>>
<1> DEFINE row == Database!ScalarRow(n, e)
           x == <<e.text>>
<1>1. row = [seq |-> n, tag |-> e.kind, key |-> e.key, texts |-> x, packed |-> FALSE, bad |-> FALSE]
  BY DEF Database!ScalarRow
<1>2. /\ e.kind \in {f.kind : f \in Stored} /\ e.key \in {f.key : f \in Stored} /\ e.text \in {f.text : f \in Stored}
      /\ e = [kind |-> e.kind, key |-> e.key, text |-> e.text]
  BY EventIs
<1>3. x \in Seq({f.text : f \in Stored}) /\ Len(x) = 1 /\ x # <<>> /\ x[1] = e.text
  <2> DEFINE T == {f.text : f \in Stored}
  <2>1. e.text \in T
    BY <1>2
  <2> HIDE DEF T
  <2>2. x \in Seq(T) /\ Len(x) = 1 /\ x # <<>> /\ x[1] = e.text
    BY <2>1
  <2>3. QED
    BY <2>2 DEF T
<1> HIDE DEF x, row
<1>4. row \in StoredRow /\ row.seq = n
  BY <1>1, <1>2, <1>3, RowTyped
<1>5. Database!Decode(row) = [i \in 1 .. 1 |-> [kind |-> e.kind, key |-> e.key, text |-> x[i]]]
  BY <1>1, <1>3 DEF Database!Decode
<1>6. Database!Decode(row) = <<e>>
  <2>1. \A i \in 1 .. 1 : [kind |-> e.kind, key |-> e.key, text |-> x[i]] = e
    BY <1>2, <1>3
  <2>2. [i \in 1 .. 1 |-> e] = <<e>>
    OBVIOUS
  <2>3. [i \in 1 .. 1 |-> [kind |-> e.kind, key |-> e.key, text |-> x[i]]] = [i \in 1 .. 1 |-> e]
    BY <2>1, Zenon
  <2>4. QED
    BY <1>5, <2>2, <2>3
<1>7. QED
  BY <1>4, <1>6 DEF row

LEMMA ChunkCarries ==
    ASSUME NEW n \in Nat, NEW part \in Seq(StoredEvent), Uniform(part), Len(part) \in MinPacked .. MaxPacked,
           NEW m, Database!Bytes(Database!ChunkRow(m, part).texts) <= MaxBytes
    PROVE  /\ Database!ChunkRow(n, part) \in StoredRow /\ Database!ChunkRow(n, part).seq = n
           /\ Database!Decode(Database!ChunkRow(n, part)) = part
<1> DEFINE row == Database!ChunkRow(n, part)
           x == [i \in 1 .. Len(part) |-> part[i].text]
<1>1. /\ row = [seq |-> n, tag |-> part[1].kind, key |-> part[1].key, texts |-> x, packed |-> TRUE, bad |-> FALSE]
      /\ Database!ChunkRow(m, part).texts = x
  BY DEF Database!ChunkRow
<1>2. Len(part) \in Nat \ {0} /\ 1 \in 1 .. Len(part) /\ \A i \in 1 .. Len(part) : part[i] \in StoredEvent
  BY StoresAssumption
<1>3. /\ part[1].kind \in {f.kind : f \in Stored} /\ part[1].key \in {f.key : f \in Stored}
      /\ \A i \in 1 .. Len(part) : part[i].text \in {f.text : f \in Stored}
  BY <1>2, EventIs
<1>4. x \in Seq({f.text : f \in Stored}) /\ Len(x) = Len(part) /\ x # <<>> /\ \A i \in 1 .. Len(part) : x[i] = part[i].text
  <2> DEFINE T == {f.text : f \in Stored}
  <2>1. \A i \in 1 .. Len(part) : part[i].text \in T
    BY <1>3
  <2> HIDE DEF T
  <2>2. x \in Seq(T) /\ Len(x) = Len(part) /\ \A i \in 1 .. Len(part) : x[i] = part[i].text
    BY <1>2, <2>1
  <2> HIDE DEF x
  <2>3. x # <<>>
    BY <1>2, <2>2
  <2>4. QED
    BY <2>2, <2>3 DEF T
<1> HIDE DEF x, row
<1>5. row \in StoredRow /\ row.seq = n
  BY <1>1, <1>3, <1>4, RowTyped
<1>6. Database!Decode(row) = [i \in 1 .. Len(part) |-> [kind |-> part[1].kind, key |-> part[1].key, text |-> x[i]]]
  BY <1>1, <1>4 DEF Database!Decode
<1>7. \A i \in 1 .. Len(part) : [kind |-> part[1].kind, key |-> part[1].key, text |-> x[i]] = part[i]
  <2>1. ASSUME NEW i \in 1 .. Len(part) PROVE [kind |-> part[1].kind, key |-> part[1].key, text |-> x[i]] = part[i]
    <3>1. part[i].kind = part[1].kind /\ part[i].key = part[1].key
      BY Zenon DEF Uniform
    <3>2. part[i] = [kind |-> part[i].kind, key |-> part[i].key, text |-> part[i].text]
      BY <1>2, EventIs
    <3>3. QED
      BY <1>4, <3>1, <3>2
  <2>2. QED
    BY <2>1
<1>8. Database!Decode(row) = [i \in 1 .. Len(part) |-> part[i]]
  BY <1>6, <1>7, Zenon
<1>9. [i \in 1 .. Len(part) |-> part[i]] = part
  <2>1. part = [i \in DOMAIN part |-> part[i]] /\ DOMAIN part = 1 .. Len(part)
    OBVIOUS
  <2>2. QED
    BY <2>1, Zenon
<1>10. QED
  BY <1>5, <1>8, <1>9 DEF row

(* Rounds of the loop that emits rows for q, the events from seq on.        *)
EmitState == [rows : Seq(StoredRow), offset : Nat]
Emitted(seq, q, out) == out \in EmitState /\ out.offset <= Len(q) /\ Chained(out.rows, seq, SubSeq(q, 1, out.offset))

LEMMA EmitTyped ==
    ASSUME NEW r \in Seq(StoredRow), NEW o \in Nat
    PROVE  [rows |-> r, offset |-> o] \in EmitState
<1> DEFINE S == Seq(StoredRow)
<1>1. r \in S
  OBVIOUS
<1> HIDE DEF S
<1>2. EmitState = [rows : S, offset : Nat]
  BY DEF EmitState, S
<1>3. QED
  BY <1>1, <1>2

LEMMA EmitRound ==
    ASSUME NEW seq \in Nat, NEW q \in Seq(StoredEvent), Uniform(q), NEW out, Emitted(seq, q, out)
    PROVE  /\ Emitted(seq, q, Database!EmitRow(seq, q, out))
           /\ out.offset < Len(q) => Database!EmitRow(seq, q, out).offset > out.offset
           /\ out.offset = Len(q) => Database!EmitRow(seq, q, out) = out
<1> DEFINE left == Len(q) - out.offset
           Part(k) == SubSeq(q, out.offset + 1, out.offset + k)
           fit == {k \in MinPacked .. left : k <= MaxPacked /\ Database!Bytes(Database!ChunkRow(seq, Part(k)).texts) <= MaxBytes}
           k0 == IF fit = {} THEN 1 ELSE Database!Max(fit)
           row == IF fit = {} THEN Database!ScalarRow(seq + out.offset, q[out.offset + 1])
                  ELSE Database!ChunkRow(seq + out.offset, Part(k0))
           next == Database!EmitRow(seq, q, out)
<1>1. next = IF left = 0 THEN out ELSE [rows |-> Append(out.rows, row), offset |-> out.offset + k0]
  BY Zenon DEF Database!EmitRow
<1>2. out.offset \in Nat /\ Len(q) \in Nat /\ out.offset <= Len(q) /\ Chained(out.rows, seq, SubSeq(q, 1, out.offset))
  <2>1. out.offset \in Nat
    BY DEF Emitted, EmitState
  <2>2. QED
    BY <2>1 DEF Emitted
<1>3. out.rows \in Seq(StoredRow)
  BY <1>2, ChainedTyped
<1>4. ASSUME left # 0, NEW k, k = k0, NEW r, r = row
      PROVE  /\ k \in 1 .. left /\ r \in StoredRow /\ r.seq = seq + out.offset
             /\ Database!Decode(r) = SubSeq(q, out.offset + 1, out.offset + k)
  <2>1. seq + out.offset \in Nat /\ left \in Nat
    BY <1>2
  <2>2. CASE fit = {}
    <3> HIDE DEF fit
    <3>1. k = 1 /\ r = Database!ScalarRow(seq + out.offset, q[out.offset + 1])
      BY <1>4, <2>2
    <3>2. out.offset + 1 \in 1 .. Len(q)
      BY <1>2, <1>4
    <3>3. q[out.offset + 1] \in StoredEvent
      BY <3>2
    <3>4. SubSeq(q, out.offset + 1, out.offset + 1) = <<q[out.offset + 1]>>
      <4> DEFINE part == SubSeq(q, out.offset + 1, out.offset + 1)
                 e == q[out.offset + 1]
      <4>1. part \in Seq(StoredEvent) /\ Len(part) = 1 /\ part[1] = e
        <5>1. out.offset \in Nat /\ 1 \in Nat \ {0} /\ out.offset + 1 <= Len(q) /\ 1 \in 1 .. 1
          BY <1>2, <3>2
        <5>2. Middle(q, out.offset, 1, StoredEvent)
          BY <5>1, CutMiddle
        <5>3. QED
          BY <5>1, <5>2, Zenon DEF Middle
      <4> HIDE DEF part, e
      <4>2. part = <<e>>
        BY <4>1
      <4>3. QED
        BY <4>2 DEF part, e
    <3>5. r \in StoredRow /\ r.seq = seq + out.offset /\ Database!Decode(r) = <<q[out.offset + 1]>>
      <4> DEFINE e == q[out.offset + 1]
                 n == seq + out.offset
      <4> HIDE DEF e, n
      <4>1. e \in StoredEvent /\ n \in Nat /\ r = Database!ScalarRow(n, e)
        BY <2>1, <3>1, <3>3 DEF e, n
      <4>2. r \in StoredRow /\ r.seq = n /\ Database!Decode(r) = <<e>>
        BY <4>1, ScalarCarries
      <4>3. QED
        BY <4>2 DEF e, n
    <3>6. 1 \in 1 .. left
      BY <1>4, <2>1
    <3> HIDE DEF left
    <3>7. QED
      BY <3>1, <3>4, <3>5, <3>6
  <2>3. CASE fit # {}
    <3>1. k \in fit
      <4>1. \E x \in fit : \A y \in fit : x >= y
        <5> DEFINE S == {left - x : x \in fit}
        <5>1. fit \subseteq 0 .. left /\ fit \subseteq Int
          BY <2>1, StoresAssumption
        <5>2. S \in SUBSET Nat /\ S # {}
          <6> HIDE DEF fit, left
          <6>1. \A x \in fit : left - x \in Nat
            BY <2>1, <5>1
          <6>2. QED
            BY <2>3, <6>1
        <5>3. PICK m \in S : \A y \in S : m <= y
          <6> HIDE DEF S
          <6>1. QED
            BY <5>2, NatMin
        <5> HIDE DEF fit
        <5>4. PICK x \in fit : m = left - x
          BY <5>3
        <5>5. \A y \in fit : left - x <= left - y
          BY <5>3, <5>4
        <5>6. \A y \in fit : x >= y
          BY <2>1, <5>1, <5>5
        <5>7. QED
          BY <5>4, <5>6
      <4> HIDE DEF fit
      <4>2. k = Database!Max(fit)
        BY <1>4, <2>3
      <4>3. QED
        BY <4>1, <4>2 DEF Database!Max
    <3> DEFINE part == SubSeq(q, out.offset + 1, out.offset + k)
    <3>2. /\ k \in MinPacked .. left /\ k <= MaxPacked /\ Database!Bytes(Database!ChunkRow(seq, part).texts) <= MaxBytes
      BY <3>1
    <3>3. r = Database!ChunkRow(seq + out.offset, part)
      BY <1>4, <2>3
    <3>4. k \in 1 .. left /\ k \in MinPacked .. MaxPacked
      BY <2>1, <3>2, StoresAssumption
    <3>5. out.offset + k \in 0 .. Len(q) /\ out.offset \in 0 .. Len(q)
      BY <1>2, <3>4
    <3>6. /\ part \in Seq(StoredEvent) /\ Len(part) = k
          /\ \A i \in 1 .. k : part[i] = q[out.offset + i] /\ out.offset + i \in 1 .. Len(q)
      <4>1. k \in Nat \ {0} /\ out.offset + k <= Len(q)
        BY <1>2, <3>4, <3>5
      <4>2. Middle(q, out.offset, k, StoredEvent)
        BY <1>2, <4>1, CutMiddle
      <4>3. QED
        BY <4>2, Zenon DEF Middle
    <3> HIDE DEF part, fit, left
    <3>7. Uniform(part)
      <4>1. 1 \in 1 .. k
        BY <3>4
      <4>2. QED
        BY <3>6, <4>1 DEF Uniform
    <3>8. Len(part) \in MinPacked .. MaxPacked
      BY <3>4, <3>6
    <3>9. r \in StoredRow /\ r.seq = seq + out.offset /\ Database!Decode(r) = part
      BY <2>1, <3>2, <3>3, <3>6, <3>7, <3>8, ChunkCarries
    <3>10. QED
      BY <3>4, <3>9 DEF part
  <2>4. QED
    BY <2>2, <2>3
<1>5. CASE left = 0
  <2>1. next = out /\ ~(out.offset < Len(q))
    BY <1>1, <1>2, <1>5
  <2>2. QED
    BY <2>1 DEF next
<1>6. CASE left # 0
  <2>1. PICK k, r : k = k0 /\ r = row
    OBVIOUS
  <2>2. next = [rows |-> Append(out.rows, r), offset |-> out.offset + k]
    <3> HIDE DEF left, k0, row, next
    <3>1. QED
      BY <1>1, <1>6, <2>1
  <2>3. k \in 1 .. left /\ r \in StoredRow /\ r.seq = seq + out.offset
        /\ Database!Decode(r) = SubSeq(q, out.offset + 1, out.offset + k)
    <3> HIDE DEF left, k0, row, next
    <3>1. QED
      BY <1>4, <1>6, <2>1
  <2> HIDE DEF next, row, k0, fit
  <2>4. k \in Nat \ {0} /\ k > 0 /\ out.offset + k \in Nat /\ out.offset + k <= Len(q)
    <3>1. k \in 1 .. left
      BY <2>3
    <3>2. QED
      BY <1>2, <3>1
  <2> HIDE DEF left
  <2> DEFINE a == SubSeq(q, 1, out.offset)
             b == SubSeq(q, out.offset + 1, out.offset + k)
             c == SubSeq(q, 1, out.offset + k)
  <2>5. Len(a) = out.offset /\ a \o b = c
    <3>1. Middle(q, out.offset, k, StoredEvent)
      BY <1>2, <2>4, CutMiddle
    <3>2. QED
      BY <3>1, Zenon DEF Middle
  <2>6. Chained(Append(out.rows, r), seq, c)
    <3> HIDE DEF a, b, c
    <3>1. Chained(out.rows, seq, a) /\ r.seq = seq + Len(a)
      BY <1>2, <2>3, <2>5 DEF a
    <3>2. Chained(Append(out.rows, r), seq, a \o Database!Decode(r))
      BY <2>3, <3>1, ChainedAppend
    <3>3. QED
      BY <2>3, <2>5, <3>2 DEF b
  <2>7. Append(out.rows, r) \in Seq(StoredRow)
    BY <1>3, <2>3
  <2> DEFINE more == Append(out.rows, r)
  <2> HIDE DEF more
  <2>8. next = [rows |-> more, offset |-> out.offset + k] /\ more \in Seq(StoredRow) /\ Chained(more, seq, c)
    BY <2>2, <2>6, <2>7 DEF more
  <2>9. next.rows = more /\ next.offset = out.offset + k /\ next \in EmitState
    BY <2>4, <2>8, EmitTyped
  <2>10. Emitted(seq, q, next)
    BY <2>4, <2>8, <2>9 DEF Emitted
  <2>11. next.offset > out.offset /\ out.offset # Len(q)
    BY <1>2, <2>4, <2>9
  <2>12. QED
    BY <2>10, <2>11 DEF next
<1>7. QED
  BY <1>5, <1>6

(* A run becomes rows that carry it.                                        *)
LEMMA EmitsRun ==
    ASSUME NEW seq \in Nat, NEW q \in Seq(StoredEvent), Uniform(q)
    PROVE  Chained(Database!EmitBoundedRun(seq, q), seq, q)
<1> DEFINE n == Len(q)
           T == EmitState
           base == [rows |-> <<>>, offset |-> 0]
           Good == [i \in Nat |-> {t \in T : Emitted(seq, q, t) /\ (t.offset >= i \/ t.offset = n)}]
           step == [i \in Nat |-> [t \in T |-> IF i # 0 /\ t \in Good[i - 1] THEN Database!EmitRow(seq, q, t) ELSE t]]
           emit == CHOOSE F : F = [i \in 0 .. n |-> IF i = 0 THEN base ELSE Database!EmitRow(seq, q, F[i - 1])]
<1>1. n \in Nat
  OBVIOUS
<1>2. base \in T /\ Emitted(seq, q, base) /\ base.offset = 0
  <2>1. <<>> \in Seq(StoredRow)
    OBVIOUS
  <2>2. base \in T /\ base.offset = 0 /\ base.rows = <<>>
    BY <2>1, EmitTyped
  <2>3. SubSeq(q, 1, 0) = <<>> /\ Chained(<<>>, seq, <<>>)
    BY NoneChained
  <2> HIDE DEF base
  <2>4. 0 <= Len(q)
    BY <1>1
  <2>5. base \in EmitState /\ base.offset <= Len(q) /\ Chained(base.rows, seq, SubSeq(q, 1, base.offset))
    BY <2>2, <2>3, <2>4
  <2>6. QED
    BY <2>2, <2>5, Zenon DEF Emitted
<1>3. base \in Good[0]
  <2>1. 0 >= 0 /\ 0 \in Nat
    OBVIOUS
  <2> HIDE DEF base, T
  <2>2. QED
    BY <1>2, <2>1
<1>4. ASSUME NEW i \in 1 .. n, NEW t \in Good[i - 1] PROVE Database!EmitRow(seq, q, t) \in Good[i]
  <2>1. i \in Nat /\ i - 1 \in Nat
    OBVIOUS
  <2>2. t \in T /\ Emitted(seq, q, t) /\ (t.offset >= i - 1 \/ t.offset = n)
    <3> HIDE DEF T
    <3>1. QED
      BY <2>1
  <2> DEFINE r == Database!EmitRow(seq, q, t)
  <2>3. Emitted(seq, q, r) /\ (t.offset < n => r.offset > t.offset) /\ (t.offset = n => r = t)
    BY <2>2, EmitRound
  <2> HIDE DEF r
  <2>4. t.offset \in Nat /\ t.offset <= n /\ r \in T /\ r.offset \in Nat
    BY <2>2, <2>3 DEF Emitted, EmitState
  <2>5. r.offset >= i \/ r.offset = n
    BY <1>1, <2>1, <2>2, <2>3, <2>4
  <2>6. r \in Good[i]
    <3> HIDE DEF T
    <3>1. QED
      BY <2>1, <2>3, <2>4, <2>5
  <2>7. QED
    BY <2>6 DEF r
<1>5. Good \in [Nat -> SUBSET T]
  <2> HIDE DEF T, n
  <2>1. QED
    OBVIOUS
<1> HIDE DEF Good, base, n
<1>6. step \in [Nat -> [T -> T]]
  <2>1. ASSUME NEW i \in Nat, NEW t \in T, i # 0, t \in Good[i - 1] PROVE Database!EmitRow(seq, q, t) \in T
    <3>1. Emitted(seq, q, t)
      <4>1. i - 1 \in Nat
        BY <2>1
      <4> HIDE DEF T
      <4>2. QED
        BY <2>1, <4>1 DEF Good
    <3>2. QED
      BY <3>1, EmitRound DEF Emitted
  <2> HIDE DEF T
  <2>2. QED
    BY <2>1
<1>7. ASSUME NEW i \in 1 .. n, NEW t \in Good[i - 1] PROVE step[i][t] = Database!EmitRow(seq, q, t) /\ t \in T
  <2>1. i \in Nat /\ i - 1 \in Nat
    BY <1>1
  <2>2. t \in T
    <3> HIDE DEF T
    <3>1. QED
      BY <2>1 DEF Good
  <2> HIDE DEF T
  <2>3. QED
    BY <2>1, <2>2
<1> HIDE DEF step
<1>8. PICK L : IsLoop(L, base, step, n) /\ \A i \in 0 .. n : L[i] \in Good[i]
  <2>1. \A i \in 1 .. n : \A t \in Good[i - 1] : step[i][t] \in Good[i]
    BY <1>4, <1>7
  <2> HIDE DEF T
  <2>2. QED
    BY <1>1, <1>3, <1>5, <1>6, <2>1, LoopKeeps
<1> HIDE DEF T
<1>9. /\ \A i \in 1 .. n : L[i] = Database!EmitRow(seq, q, L[i - 1])
      /\ L[0] = base
  <2>1. ASSUME NEW i \in 1 .. n PROVE L[i] = Database!EmitRow(seq, q, L[i - 1])
    <3>1. i - 1 \in 0 .. n
      BY <1>1
    <3>2. L[i] = step[i][L[i - 1]] /\ L[i - 1] \in Good[i - 1]
      BY <1>8, <3>1, Zenon DEF IsLoop
    <3>3. QED
      BY <1>7, <3>2, Zenon
  <2>2. QED
    BY <1>8, <2>1, Zenon DEF IsLoop
<1> DEFINE G == [i \in 0 .. n |-> L[i]]
<1>10. G = [i \in 0 .. n |-> IF i = 0 THEN base ELSE Database!EmitRow(seq, q, G[i - 1])]
  <2>1. ASSUME NEW i \in 0 .. n PROVE G[i] = IF i = 0 THEN base ELSE Database!EmitRow(seq, q, G[i - 1])
    <3>1. i # 0 => i \in 1 .. n /\ i - 1 \in 0 .. n
      BY <1>1
    <3>2. G[i] = L[i] /\ (i # 0 => G[i - 1] = L[i - 1])
      BY <3>1
    <3> HIDE DEF G
    <3>3. QED
      BY <1>9, <3>1, <3>2, Zenon
  <2>2. G = [i \in 0 .. n |-> G[i]]
    OBVIOUS
  <2> HIDE DEF G
  <2>3. [i \in 0 .. n |-> G[i]] = [i \in 0 .. n |-> IF i = 0 THEN base ELSE Database!EmitRow(seq, q, G[i - 1])]
    BY <2>1, Zenon
  <2>4. QED
    BY <2>2, <2>3, Zenon
<1>11. emit = [i \in 0 .. n |-> IF i = 0 THEN base ELSE Database!EmitRow(seq, q, emit[i - 1])]
  <2> HIDE DEF G
  <2>1. QED
    BY <1>10, Zenon
<1>12. Database!EmitBoundedRun(seq, q) = emit[n].rows
  BY DEF Database!EmitBoundedRun, n, base
<1> HIDE DEF emit, G
<1>13. SameSteps(emit, L, n)
  <2>1. \A i \in 0 .. n : emit[i] = IF i = 0 THEN base ELSE Database!EmitRow(seq, q, emit[i - 1])
    BY <1>11, Zenon
  <2>2. 0 \in 0 .. n /\ \A i \in 1 .. n : i \in 0 .. n /\ i # 0
    BY <1>1
  <2>3. emit[0] = base
    BY <2>1, <2>2
  <2>4. ASSUME NEW i \in 1 .. n, emit[i - 1] = L[i - 1] PROVE emit[i] = L[i]
    <3>1. emit[i] = Database!EmitRow(seq, q, emit[i - 1])
      BY <2>1, <2>2, Zenon
    <3>2. QED
      BY <1>9, <2>4, <3>1, Zenon
  <2>5. QED
    BY <1>9, <2>3, <2>4, Zenon DEF SameSteps
<1>14. emit[n] \in Good[n] /\ n \in Nat
  <2>1. n \in 0 .. n
    BY <1>1
  <2>2. emit[n] = L[n]
    BY <1>1, <1>13, <2>1, SameLoop, Zenon
  <2>3. QED
    BY <1>1, <1>8, <2>1, <2>2, Zenon
<1> DEFINE e == emit[n]
<1>15. e \in T /\ Emitted(seq, q, e) /\ (e.offset >= n \/ e.offset = n)
  <2> HIDE DEF e
  <2>1. e \in Good[n]
    BY <1>14 DEF e
  <2>2. QED
    BY <1>14, <2>1 DEF Good
<1> HIDE DEF e
<1>16. e.offset = n /\ SubSeq(q, 1, n) = q
  <2>1. e.offset \in Nat /\ e.offset <= n
    BY <1>15 DEF Emitted, EmitState, n
  <2>2. QED
    BY <1>14, <1>15, <2>1 DEF n
<1>17. Chained(e.rows, seq, q)
  BY <1>15, <1>16 DEF Emitted
<1>18. QED
  BY <1>12, <1>17 DEF e

(* Rounds of the loop that packs evs, the events from seq on: what is not   *)
(* in rows yet is the run being collected.                                  *)
PackedState == [rows : Seq(StoredRow), run : Seq(StoredEvent)]

Packing(seq, evs, i, t) ==
    /\ t \in PackedState /\ Uniform(t.run)
    /\ \E done \in Seq(StoredEvent) : Chained(t.rows, seq, done) /\ done \o t.run = SubSeq(evs, 1, i)

LEMMA PackedTyped ==
    ASSUME NEW r \in Seq(StoredRow), NEW q \in Seq(StoredEvent)
    PROVE  [rows |-> r, run |-> q] \in PackedState
<1> DEFINE S == Seq(StoredRow)
           E == Seq(StoredEvent)
<1>1. r \in S /\ q \in E /\ PackedState = [rows : S, run : E]
  BY DEF PackedState
<1> HIDE DEF S, E
<1>2. QED
  BY <1>1

LEMMA PackedHas ==
    ASSUME NEW t \in PackedState
    PROVE  t.rows \in Seq(StoredRow) /\ t.run \in Seq(StoredEvent) /\ Len(t.run) \in Nat
<1> DEFINE S == Seq(StoredRow)
           E == Seq(StoredEvent)
<1>1. PackedState = [rows : S, run : E]
  BY DEF PackedState
<1>2. t.rows \in S /\ t.run \in E
  <2> HIDE DEF S, E
  <2>1. QED
    BY <1>1
<1>3. QED
  BY <1>2

LEMMA Flushed ==
    ASSUME NEW seq \in Nat, NEW evs \in Seq(StoredEvent), NEW i \in 0 .. Len(evs), NEW t, Packing(seq, evs, i, t)
    PROVE  Chained(Database!Flush(seq + i, t), seq, SubSeq(evs, 1, i))
<1>1. PICK done \in Seq(StoredEvent) : Chained(t.rows, seq, done) /\ done \o t.run = SubSeq(evs, 1, i)
  BY DEF Packing
<1>2. t.rows \in Seq(StoredRow) /\ t.run \in Seq(StoredEvent) /\ Len(t.run) \in Nat /\ Uniform(t.run)
  BY PackedHas DEF Packing
<1>3. Len(SubSeq(evs, 1, i)) = i
  BY CutTwo
<1>4. Len(done \o t.run) = Len(done) + Len(t.run) /\ Len(done) \in Nat
  BY <1>2, LenConcat
<1>5. (seq + i) - Len(t.run) = seq + Len(done) /\ seq + Len(done) \in Nat
  <2>1. i = Len(done) + Len(t.run) /\ i \in Nat
    BY <1>1, <1>3, <1>4
  <2> DEFINE a == Len(done)
             b == Len(t.run)
  <2>2. i = a + b /\ a \in Nat /\ b \in Nat
    BY <1>2, <1>4, <2>1
  <2> HIDE DEF a, b
  <2>3. (seq + i) - b = seq + a /\ seq + a \in Nat
    BY <2>2
  <2>4. QED
    BY <2>3 DEF a, b
<1>6. Chained(Database!EmitBoundedRun(seq + Len(done), t.run), seq + Len(done), t.run)
  BY <1>2, <1>5, EmitsRun
<1>7. Chained(t.rows \o Database!EmitBoundedRun(seq + Len(done), t.run), seq, done \o t.run)
  BY <1>1, <1>6, ChainedConcat
<1>8. Database!Flush(seq + i, t) = t.rows \o Database!EmitBoundedRun(seq + Len(done), t.run)
  <2>1. Database!Flush(seq + i, t) = t.rows \o Database!EmitBoundedRun((seq + i) - Len(t.run), t.run)
    BY DEF Database!Flush
  <2>2. QED
    BY <1>5, <2>1, Zenon
<1>9. QED
  BY <1>1, <1>7, <1>8

LEMMA PackRound ==
    ASSUME NEW seq \in Nat, NEW evs \in Seq(StoredEvent), NEW i \in 1 .. Len(evs), NEW t, Packing(seq, evs, i - 1, t)
    PROVE  Packing(seq, evs, i, Database!PackEvent(seq + i - 1, evs[i], t))
<1> DEFINE e == evs[i]
           n == seq + i - 1
           upto == SubSeq(evs, 1, i - 1)
           more == SubSeq(evs, 1, i)
           flushed == Database!Flush(n, t)
           next == Database!PackEvent(n, e, t)
<1>1. /\ e \in StoredEvent /\ n \in Nat /\ i - 1 \in 0 .. Len(evs) /\ n = seq + (i - 1)
      /\ upto \in Seq(StoredEvent) /\ Len(upto) = i - 1 /\ more = Append(upto, e) /\ more \in Seq(StoredEvent)
  OBVIOUS
<1>2. t.rows \in Seq(StoredRow) /\ t.run \in Seq(StoredEvent) /\ Len(t.run) \in Nat /\ Uniform(t.run) /\ t \in PackedState
  BY PackedHas DEF Packing
<1>3. Chained(flushed, seq, upto)
  BY <1>1, Flushed
<1>4. next = IF ~Database!Packable(e) THEN [rows |-> Append(flushed, Database!ScalarRow(n, e)), run |-> <<>>]
             ELSE IF t.run # <<>> /\ Database!Continues(Database!Last(t.run), e) THEN [t EXCEPT !.run = Append(t.run, e)]
             ELSE [rows |-> flushed, run |-> <<e>>]
  BY DEF Database!PackEvent
<1> HIDE DEF e, n, upto, more, flushed, next
<1>5. flushed \in Seq(StoredRow)
  BY <1>3, ChainedTyped
<1>6. CASE ~Database!Packable(e)
  <2> DEFINE row == Database!ScalarRow(n, e)
             w == Append(flushed, row)
  <2>1. row \in StoredRow /\ row.seq = n /\ Database!Decode(row) = <<e>>
    BY <1>1, ScalarCarries
  <2> HIDE DEF row
  <2>2. Chained(w, seq, upto \o Database!Decode(row)) /\ row.seq = seq + Len(upto)
    BY <1>1, <1>3, <2>1, ChainedAppend
  <2>3. upto \o <<e>> = more
    BY <1>1
  <2>4. Chained(w, seq, more)
    BY <2>1, <2>2, <2>3
  <2>5. w \in Seq(StoredRow) /\ <<>> \in Seq(StoredEvent)
    <3>1. <<>> \in Seq(StoredEvent)
      OBVIOUS
    <3> HIDE DEF w
    <3>2. QED
      BY <2>4, <3>1, ChainedTyped
  <2> HIDE DEF w
  <2>6. next = [rows |-> w, run |-> <<>>]
    BY <1>4, <1>6 DEF w, row
  <2>7. next \in PackedState /\ next.rows = w /\ next.run = <<>>
    BY <2>5, <2>6, PackedTyped
  <2>8. Uniform(<<>>)
    BY DEF Uniform
  <2>9. more \o <<>> = more
    BY <1>1
  <2>10. Packing(seq, evs, i, next)
    BY <1>1, <2>4, <2>7, <2>8, <2>9 DEF Packing, more
  <2>11. QED
    BY <2>10 DEF next, n, e
<1>7. CASE Database!Packable(e) /\ t.run # <<>> /\ Database!Continues(Database!Last(t.run), e)
  <2> DEFINE q == t.run
             longer == Append(q, e)
  <2>1. PICK done \in Seq(StoredEvent) : Chained(t.rows, seq, done) /\ done \o q = upto
    BY DEF Packing, upto
  <2>2. /\ longer \in Seq(StoredEvent) /\ Len(longer) = Len(q) + 1 /\ \A j \in 1 .. Len(q) : longer[j] = q[j]
        /\ longer[Len(q) + 1] = e /\ Len(q) \in Nat /\ Len(q) # 0 /\ q \in Seq(StoredEvent)
    BY <1>1, <1>2, <1>7
  <2>3. q[Len(q)].kind = e.kind /\ q[Len(q)].key = e.key
    BY <1>7 DEF Database!Continues, Database!Last
  <2>4. [t EXCEPT !.run = longer] = [rows |-> t.rows, run |-> longer]
    <3> DEFINE S == Seq(StoredRow)
               E == Seq(StoredEvent)
    <3>1. t \in [rows : S, run : E]
      BY <1>2 DEF PackedState
    <3> HIDE DEF S, E, longer
    <3>2. QED
      BY <3>1
  <2>5. next = [rows |-> t.rows, run |-> longer]
    <3> HIDE DEF longer
    <3>1. next = [t EXCEPT !.run = longer]
      BY <1>4, <1>7 DEF longer
    <3>2. QED
      BY <2>4, <3>1
  <2>6. done \o longer = more
    <3> HIDE DEF q, longer
    <3>1. longer = Append(q, e)
      BY DEF longer
    <3> DEFINE E == StoredEvent
    <3>2. done \in Seq(E) /\ q \in Seq(E) /\ e \in E
      BY <1>1, <2>2
    <3> HIDE DEF E
    <3>3. done \o Append(q, e) = Append(done \o q, e)
      BY <3>2
    <3>4. QED
      BY <1>1, <2>1, <3>1, <3>3
  <2> HIDE DEF q, longer
  <2>7. Uniform(longer)
    <3>1. \A j \in 1 .. Len(q) : q[j].kind = q[1].kind /\ q[j].key = q[1].key
      BY <1>2 DEF Uniform, q
    <3>2. 1 \in 1 .. Len(q) /\ Len(q) \in 1 .. Len(q)
      BY <2>2
    <3>3. e.kind = q[1].kind /\ e.key = q[1].key
      BY <2>3, <3>1, <3>2
    <3>4. ASSUME NEW j \in 1 .. Len(longer) PROVE longer[j].kind = q[1].kind /\ longer[j].key = q[1].key
      <4>1. CASE j = Len(q) + 1
        BY <2>2, <3>3, <4>1
      <4>2. CASE j # Len(q) + 1
        <5>1. j \in 1 .. Len(q)
          BY <2>2, <4>2
        <5>2. QED
          BY <2>2, <3>1, <5>1
      <4>3. QED
        BY <4>1, <4>2
    <3>5. longer[1] = q[1]
      BY <2>2, <3>2
    <3>6. QED
      BY <3>4, <3>5 DEF Uniform
  <2>8. next \in PackedState /\ next.rows = t.rows /\ next.run = longer
    BY <1>2, <2>2, <2>5, PackedTyped
  <2>9. Packing(seq, evs, i, next)
    BY <2>1, <2>6, <2>7, <2>8 DEF Packing, more
  <2>10. QED
    BY <2>9 DEF next, n, e
<1>8. CASE Database!Packable(e) /\ ~(t.run # <<>> /\ Database!Continues(Database!Last(t.run), e))
  <2> DEFINE one == <<e>>
  <2>1. one \in Seq(StoredEvent) /\ Len(one) = 1
    BY <1>1
  <2>2. upto \o one = more
    BY <1>1
  <2>3. Uniform(one)
    BY <2>1 DEF Uniform
  <2> HIDE DEF one
  <2>4. next = [rows |-> flushed, run |-> one]
    BY <1>4, <1>8 DEF one
  <2>5. next \in PackedState /\ next.rows = flushed /\ next.run = one
    BY <1>5, <2>1, <2>4, PackedTyped
  <2>6. Packing(seq, evs, i, next)
    BY <1>1, <1>3, <2>2, <2>3, <2>5 DEF Packing, more
  <2>7. QED
    BY <2>6 DEF next, n, e
<1>9. QED
  BY <1>6, <1>7, <1>8

(* A batch becomes rows that carry it.                                      *)
LEMMA PacksBatch ==
    ASSUME NEW seq \in Nat, NEW evs \in Seq(StoredEvent)
    PROVE  Chained(Database!PackChunkRuns(seq, evs), seq, evs)
<1> DEFINE n == Len(evs)
           T == PackedState
           base == [rows |-> <<>>, run |-> <<>>]
           Good == [i \in Nat |-> {t \in T : Packing(seq, evs, i, t)}]
           step == [i \in Nat |-> [t \in T |-> IF i \in 1 .. n /\ t \in Good[i - 1]
                                               THEN Database!PackEvent(seq + i - 1, evs[i], t) ELSE t]]
           pack == CHOOSE F : F = [i \in 0 .. n |-> IF i = 0 THEN base
                                                    ELSE Database!PackEvent(seq + i - 1, evs[i], F[i - 1])]
<1>1. n \in Nat
  OBVIOUS
<1>2. base \in T /\ Packing(seq, evs, 0, base)
  <2>1. <<>> \in Seq(StoredRow) /\ <<>> \in Seq(StoredEvent) /\ Chained(<<>>, seq, <<>>)
    BY NoneChained, ChainedTyped
  <2>2. base \in T /\ base.run = <<>> /\ base.rows = <<>>
    BY <2>1, PackedTyped
  <2>3. SubSeq(evs, 1, 0) = <<>> /\ <<>> \o <<>> = <<>>
    OBVIOUS
  <2>4. Uniform(<<>>)
    BY DEF Uniform
  <2> HIDE DEF base
  <2>5. QED
    BY <2>1, <2>2, <2>3, <2>4 DEF Packing
<1>3. base \in Good[0]
  <2>1. 0 \in Nat
    OBVIOUS
  <2> HIDE DEF base, T
  <2>2. QED
    BY <1>2, <2>1
<1>4. ASSUME NEW i \in 1 .. n, NEW t \in Good[i - 1]
      PROVE /\ Database!PackEvent(seq + i - 1, evs[i], t) \in Good[i]
            /\ step[i][t] = Database!PackEvent(seq + i - 1, evs[i], t) /\ t \in T
  <2>1. i \in Nat /\ i - 1 \in Nat
    OBVIOUS
  <2>2. t \in T /\ Packing(seq, evs, i - 1, t)
    <3> HIDE DEF T, n
    <3>1. QED
      BY <2>1
  <2> DEFINE r == Database!PackEvent(seq + i - 1, evs[i], t)
  <2>3. Packing(seq, evs, i, r)
    BY <2>2, PackRound
  <2> HIDE DEF r
  <2>4. r \in T
    BY <2>3 DEF Packing
  <2>5. r \in Good[i]
    <3> HIDE DEF T, n
    <3>1. QED
      BY <2>1, <2>3, <2>4
  <2> HIDE DEF T, Good
  <2>6. step[i][t] = r
    BY <2>1, <2>2 DEF r
  <2> HIDE DEF step
  <2>7. QED
    BY <2>2, <2>5, <2>6 DEF r
<1>5. Good \in [Nat -> SUBSET T]
  <2> HIDE DEF T, n
  <2>1. QED
    OBVIOUS
<1> HIDE DEF Good, base
<1>6. step \in [Nat -> [T -> T]]
  <2>1. ASSUME NEW i \in 1 .. n, NEW t \in Good[i - 1] PROVE Database!PackEvent(seq + i - 1, evs[i], t) \in T
    <3>1. i \in Nat /\ Database!PackEvent(seq + i - 1, evs[i], t) \in Good[i]
      <4>1. i \in Nat
        BY <1>1
      <4> HIDE DEF step, T, n
      <4>2. QED
        BY <1>4, <4>1, Zenon
    <3> HIDE DEF T
    <3>2. QED
      BY <1>5, <3>1
  <2> HIDE DEF T, n
  <2>2. QED
    BY <2>1
<1> HIDE DEF step, n, T
<1>7. PICK L : IsLoop(L, base, step, n) /\ \A i \in 0 .. n : L[i] \in Good[i]
  <2>1. \A i \in 1 .. n : \A t \in Good[i - 1] : step[i][t] \in Good[i]
    BY <1>4
  <2>2. QED
    BY <1>1, <1>3, <1>5, <1>6, <2>1, LoopKeeps
<1>8. /\ \A i \in 1 .. n : L[i] = Database!PackEvent(seq + i - 1, evs[i], L[i - 1])
      /\ L[0] = base
  <2>1. ASSUME NEW i \in 1 .. n PROVE L[i] = Database!PackEvent(seq + i - 1, evs[i], L[i - 1])
    <3>1. i - 1 \in 0 .. n
      BY <1>1
    <3>2. L[i] = step[i][L[i - 1]] /\ L[i - 1] \in Good[i - 1]
      BY <1>7, <3>1, Zenon DEF IsLoop
    <3>3. QED
      BY <1>4, <3>2, Zenon
  <2>2. QED
    BY <1>7, <2>1, Zenon DEF IsLoop
<1> DEFINE G == [i \in 0 .. n |-> L[i]]
<1>9. G = [i \in 0 .. n |-> IF i = 0 THEN base ELSE Database!PackEvent(seq + i - 1, evs[i], G[i - 1])]
  <2>1. ASSUME NEW i \in 0 .. n PROVE G[i] = IF i = 0 THEN base ELSE Database!PackEvent(seq + i - 1, evs[i], G[i - 1])
    <3>1. i # 0 => i \in 1 .. n /\ i - 1 \in 0 .. n
      BY <1>1
    <3>2. G[i] = L[i] /\ (i # 0 => G[i - 1] = L[i - 1])
      BY <3>1
    <3> HIDE DEF G
    <3>3. QED
      BY <1>8, <3>1, <3>2, Zenon
  <2>2. G = [i \in 0 .. n |-> G[i]]
    OBVIOUS
  <2> HIDE DEF G
  <2>3. [i \in 0 .. n |-> G[i]] = [i \in 0 .. n |-> IF i = 0 THEN base ELSE Database!PackEvent(seq + i - 1, evs[i], G[i - 1])]
    BY <2>1, Zenon
  <2>4. QED
    BY <2>2, <2>3, Zenon
<1>10. pack = [i \in 0 .. n |-> IF i = 0 THEN base ELSE Database!PackEvent(seq + i - 1, evs[i], pack[i - 1])]
  <2> HIDE DEF G
  <2>1. QED
    BY <1>9, Zenon
<1>11. Database!PackChunkRuns(seq, evs) = Database!Flush(seq + n, pack[n])
  BY DEF Database!PackChunkRuns, n, base
<1> HIDE DEF pack, G
<1>12. SameSteps(pack, L, n)
  <2>1. \A i \in 0 .. n : pack[i] = IF i = 0 THEN base ELSE Database!PackEvent(seq + i - 1, evs[i], pack[i - 1])
    BY <1>10, Zenon
  <2>2. 0 \in 0 .. n /\ \A i \in 1 .. n : i \in 0 .. n /\ i # 0
    BY <1>1
  <2>3. pack[0] = base
    BY <2>1, <2>2
  <2>4. ASSUME NEW i \in 1 .. n, pack[i - 1] = L[i - 1] PROVE pack[i] = L[i]
    <3>1. pack[i] = Database!PackEvent(seq + i - 1, evs[i], pack[i - 1])
      BY <2>1, <2>2, Zenon
    <3>2. QED
      BY <1>8, <2>4, <3>1, Zenon
  <2>5. QED
    BY <1>8, <2>3, <2>4, Zenon DEF SameSteps
<1>13. Packing(seq, evs, n, pack[n])
  <2>1. n \in 0 .. n
    BY <1>1
  <2>2. pack[n] = L[n]
    BY <1>1, <1>12, <2>1, SameLoop, Zenon
  <2>3. L[n] \in Good[n]
    BY <1>7, <2>1, Zenon
  <2>4. QED
    BY <1>1, <2>2, <2>3 DEF Good
<1>14. Chained(Database!Flush(seq + n, pack[n]), seq, SubSeq(evs, 1, n))
  <2>1. n \in 0 .. Len(evs)
    BY <1>1 DEF n
  <2>2. QED
    BY <1>13, <2>1, Flushed
<1>15. SubSeq(evs, 1, n) = evs
  BY DEF n
<1>16. QED
  BY <1>11, <1>14, <1>15

-----------------------------------------------------------------------------
(* Steps of the database.                                                   *)

LEMMA DbOf ==
    ASSUME NEW h \in BOOLEAN, NEW rows, NEW evs, Chained(rows, 0, evs)
    PROVE  DbOk([header |-> h, rows |-> rows, acked |-> evs])
<1> DEFINE S == Seq(StoredRow)
           E == Seq(StoredEvent)
           d == [header |-> h, rows |-> rows, acked |-> evs]
<1>1. rows \in S /\ evs \in E
  BY ChainedTyped
<1>2. d.rows = rows /\ d.acked = evs
  OBVIOUS
<1>3. d \in [header : BOOLEAN, rows : S, acked : E]
  <2> HIDE DEF S, E
  <2>1. QED
    BY <1>1
<1> HIDE DEF d
<1>4. DbOk(d)
  BY <1>2, <1>3 DEF DbOk
<1>5. QED
  BY <1>4 DEF d

(* What the changes of a database state make of it.                         *)
Rewritten(d, rows, evs) ==
    /\ d.header \in BOOLEAN
    /\ [d EXCEPT !.header = TRUE] = [header |-> TRUE, rows |-> d.rows, acked |-> d.acked]
    /\ [d EXCEPT !.rows = rows, !.acked = evs] = [header |-> d.header, rows |-> rows, acked |-> evs]
    /\ [d EXCEPT !.rows = rows] = [header |-> d.header, rows |-> rows, acked |-> d.acked]
    /\ [d EXCEPT !.header = TRUE, !.rows = rows, !.acked = evs] = [header |-> TRUE, rows |-> rows, acked |-> evs]

LEMMA DbWith ==
    ASSUME NEW d, DbOk(d), NEW n \in Nat, NEW rows, NEW evs, Chained(rows, n, evs)
    PROVE  Rewritten(d, rows, evs)
<1> DEFINE S == Seq(StoredRow)
           E == Seq(StoredEvent)
           Db == [header : BOOLEAN, rows : S, acked : E]
           x == [d EXCEPT !.rows = rows, !.acked = evs]
           y == [d EXCEPT !.header = TRUE, !.rows = rows, !.acked = evs]
           z == [d EXCEPT !.header = TRUE]
           w == [d EXCEPT !.rows = rows]
<1>1. d \in Db
  BY DEF DbOk
<1>2. rows \in S /\ evs \in E
  BY ChainedTyped
<1> HIDE DEF S, E
<1>3. x.rows = rows /\ x.acked = evs /\ x.header = d.header /\ x \in Db /\ d.header \in BOOLEAN
  BY <1>1, <1>2
<1>4. y.rows = rows /\ y.acked = evs /\ y.header = TRUE /\ y \in Db
  BY <1>1, <1>2
<1>5. z.rows = d.rows /\ z.acked = d.acked /\ z.header = TRUE /\ z \in Db
  BY <1>1, <1>2
<1>6. w.rows = rows /\ w.acked = d.acked /\ w.header = d.header /\ w \in Db
  BY <1>1, <1>2
<1> HIDE DEF w, x, y, z
<1>7. x = [header |-> d.header, rows |-> rows, acked |-> evs]
  BY <1>3
<1>8. y = [header |-> TRUE, rows |-> rows, acked |-> evs]
  BY <1>4
<1>9. z = [header |-> TRUE, rows |-> d.rows, acked |-> d.acked]
  BY <1>5
<1>10. w = [header |-> d.header, rows |-> rows, acked |-> d.acked]
  BY <1>6
<1>11. QED
  BY <1>3, <1>7, <1>8, <1>9, <1>10 DEF Rewritten, w, x, y, z

(* Rows of the same keys that carry the same events.                        *)
LEMMA SameChained ==
    ASSUME NEW rows, NEW n \in Nat, NEW evs, Chained(rows, n, evs), NEW more \in Seq(StoredRow), Len(more) = Len(rows),
           \A i \in 1 .. Len(rows) : more[i].seq = rows[i].seq /\ Database!Decode(more[i]) = Database!Decode(rows[i])
    PROVE  Chained(more, n, evs)
<1>1. rows \in Seq(StoredRow) /\ Len(rows) \in Nat
  BY ChainedTyped
<1>2. ASSUME NEW k \in 0 .. Len(rows)
      PROVE  Database!Span(SubSeq(more, 1, k)) = Database!Span(SubSeq(rows, 1, k))
  <2> DEFINE a == SubSeq(rows, 1, k)
             b == SubSeq(more, 1, k)
  <2>1. /\ a \in Seq(StoredRow) /\ b \in Seq(StoredRow) /\ Len(a) = k /\ Len(b) = k
        /\ \A i \in 1 .. k : a[i] = rows[i] /\ b[i] = more[i] /\ i \in 1 .. Len(rows)
    BY <1>1, CutTwo
  <2> HIDE DEF a, b
  <2>2. Decoded(a) = [i \in 1 .. k |-> Database!Decode(a[i])] /\ Decoded(b) = [i \in 1 .. k |-> Database!Decode(b[i])]
    BY <2>1 DEF Decoded
  <2>3. \A i \in 1 .. k : Database!Decode(a[i]) = Database!Decode(b[i])
    BY <2>1
  <2>4. Decoded(a) = Decoded(b)
    BY <2>2, <2>3, Zenon
  <2>5. Database!Span(a) = Flat(Decoded(a)) /\ Database!Span(b) = Flat(Decoded(b))
    BY <2>1, SpanIs
  <2>6. QED
    BY <2>4, <2>5 DEF a, b
<1>3. ASSUME NEW i \in 1 .. Len(more) PROVE more[i].seq = n + Carried(more, i - 1)
  <2>1. i \in 1 .. Len(rows) /\ i - 1 \in 0 .. Len(rows)
    BY <1>1
  <2>2. Carried(more, i - 1) = Carried(rows, i - 1)
    BY <1>2, <2>1 DEF Carried
  <2>3. rows[i].seq = n + Carried(rows, i - 1)
    BY <2>1 DEF Chained
  <2>4. QED
    BY <2>1, <2>2, <2>3
<1>4. Database!Span(more) = evs
  <2>1. SubSeq(more, 1, Len(rows)) = more /\ SubSeq(rows, 1, Len(rows)) = rows /\ Len(rows) \in 0 .. Len(rows)
    BY <1>1
  <2>2. Database!Span(more) = Database!Span(rows)
    BY <1>2, <2>1
  <2>3. QED
    BY <2>2 DEF Chained
<1>5. QED
  BY <1>3, <1>4 DEF Chained

(* A batch of the events a writer may append.                               *)
LEMMA BatchTyped ==
    ASSUME NEW n \in 1 .. MaxBatch, NEW evs \in [1 .. n -> Shapes]
    PROVE  evs \in Seq(StoredEvent) /\ Len(evs) = n
<1>1. ASSUME NEW e \in Shapes PROVE e \in StoredEvent
  <2> DEFINE T == {f.text : f \in Stored}
             K == {f.kind : f \in Stored}
             Y == {f.key : f \in Stored}
  <2>1. e.kind \in K /\ e.key \in Y /\ e.text \in T
    BY DEF Stored
  <2>2. e = [kind |-> e.kind, key |-> e.key, text |-> e.text] /\ StoredEvent = [kind : K, key : Y, text : T]
    BY StoresAssumption DEF StoredEvent
  <2> HIDE DEF T, K, Y
  <2>3. [kind |-> e.kind, key |-> e.key, text |-> e.text] \in [kind : K, key : Y, text : T]
    BY <2>1
  <2>4. QED
    BY <2>2, <2>3, Zenon
<1>2. n \in Nat /\ \A i \in 1 .. n : evs[i] \in StoredEvent
  BY <1>1, StoresAssumption
<1>3. QED
  BY <1>2

LEMMA EndTyped == Database!TurnEnd \in StoredEvent
<1> DEFINE T == {f.text : f \in Stored}
           K == {f.kind : f \in Stored}
           Y == {f.key : f \in Stored}
           e == Database!TurnEnd
<1>1. e \in Stored /\ e = [kind |-> "turn/end", key |-> 0, text |-> 1]
  BY DEF Stored, Database!TurnEnd
<1> HIDE DEF e
<1>2. e.kind = "turn/end" /\ e.key = 0 /\ e.text = 1
  BY <1>1
<1>3. "turn/end" \in K /\ 0 \in Y /\ 1 \in T
  BY <1>1, <1>2
<1>4. StoredEvent = [kind : K, key : Y, text : T]
  BY DEF StoredEvent
<1> HIDE DEF T, K, Y
<1>5. e \in StoredEvent
  BY <1>1, <1>3, <1>4
<1>6. QED
  BY <1>5 DEF e

DatabaseInv ==
    /\ DbOk(db) /\ DbOk(durable)
    /\ plan.closers = <<>> \/ \E n \in Nat : plan.closers = <<n>>

LEMMA NothingStored == DbOk(Database!EmptyDb)
  BY NoneChained, DbOf DEF Database!EmptyDb

LEMMA DatabaseStarts == Database!Init => DatabaseInv
  BY NothingStored DEF Database!Init, DatabaseInv, Database!NoPlan

LEMMA AppendEventsKeeps == ASSUME DatabaseInv, Database!AppendEvents PROVE DatabaseInv'
<1>1. DbOk(db) /\ durable' = durable /\ plan' = plan /\ ~Database!LogicalNext.error
  BY DEF DatabaseInv, Database!AppendEvents, Database!Commit
<1> DEFINE seq == Database!LogicalNext.next
<1>2. PICK n \in 1 .. MaxBatch : \E evs \in [1 .. n -> Shapes] :
           db' = Database!Appended(Database!PackChunkRuns(seq, evs), evs)
  BY DEF Database!AppendEvents, Database!Commit
<1>3. PICK evs \in [1 .. n -> Shapes] : db' = Database!Appended(Database!PackChunkRuns(seq, evs), evs)
  BY <1>2
<1>4. seq = Len(db.acked) /\ seq \in Nat /\ Chained(db.rows, 0, db.acked)
  BY <1>1, NextIsLogical, DbHas
<1> HIDE DEF seq
<1>5. evs \in Seq(StoredEvent)
  BY BatchTyped
<1> DEFINE rows == Database!PackChunkRuns(seq, evs)
<1>6. Chained(rows, seq, evs)
  BY <1>4, <1>5, PacksBatch
<1> HIDE DEF rows
<1>7. Chained(db.rows \o rows, 0, db.acked \o evs)
  <2>1. 0 + Len(db.acked) = seq
    BY <1>4
  <2>2. QED
    BY <1>4, <1>6, <2>1, ChainedConcat
<1>8. db' = [db EXCEPT !.header = TRUE, !.rows = db.rows \o rows, !.acked = db.acked \o evs]
  BY <1>3 DEF Database!Appended, rows
<1>9. db' = [header |-> TRUE, rows |-> db.rows \o rows, acked |-> db.acked \o evs]
  <2>1. Rewritten(db, db.rows \o rows, db.acked \o evs)
    BY <1>1, <1>7, DbWith
  <2>2. QED
    BY <1>8, <2>1, Zenon DEF Rewritten
<1>10. DbOk(db')
  BY <1>7, <1>9, DbOf
<1>11. DbOk(durable')
  BY <1>1 DEF DatabaseInv
<1>12. QED
  BY <1>1, <1>10, <1>11 DEF DatabaseInv, DbOk

LEMMA PutSessionKeeps == ASSUME DatabaseInv, Database!PutSession PROVE DatabaseInv'
<1>1. DbOk(db) /\ DbOk(durable) /\ durable' = durable /\ plan' = plan /\ db' = [db EXCEPT !.header = TRUE]
  BY DEF DatabaseInv, Database!PutSession, Database!Commit
<1>2. db' = [header |-> TRUE, rows |-> db.rows, acked |-> db.acked]
  <2>1. Rewritten(db, db.rows, db.acked)
    BY <1>1, DbHas, DbWith
  <2>2. QED
    BY <1>1, <2>1, Zenon DEF Rewritten
<1>3. DbOk(db')
  <2>1. Chained(db.rows, 0, db.acked)
    BY <1>1, DbHas
  <2>2. QED
    BY <1>2, <2>1, DbOf
<1>4. QED
  BY <1>1, <1>3 DEF DatabaseInv, DbOk

LEMMA DeleteSessionKeeps == ASSUME DatabaseInv, Database!DeleteSession PROVE DatabaseInv'
<1>1. DbOk(durable) /\ durable' = durable /\ plan' = plan /\ db' = Database!EmptyDb
  BY DEF DatabaseInv, Database!DeleteSession, Database!Commit
<1>2. DbOk(db')
  BY <1>1, NothingStored
<1>3. QED
  BY <1>1, <1>2 DEF DatabaseInv, DbOk

LEMMA DamageKeeps == ASSUME DatabaseInv, Database!Damage PROVE DatabaseInv'
<1>1. DbOk(db) /\ plan' = plan /\ durable' = db'
  BY DEF DatabaseInv, Database!Damage
<1>2. PICK i \in DOMAIN db.rows : db' = [db EXCEPT !.rows[i].bad = TRUE]
  BY DEF Database!Damage
<1> DEFINE w == db.rows
           row == w[i]
           worse == [row EXCEPT !.bad = TRUE]
           more == [w EXCEPT ![i] = worse]
<1>3. db' = [db EXCEPT !.rows = more]
  <2> DEFINE S == Seq(StoredRow)
             E == Seq(StoredEvent)
  <2>1. db \in [header : BOOLEAN, rows : S, acked : E]
    BY <1>1 DEF DbOk
  <2> HIDE DEF S, E
  <2>2. QED
    BY <1>2, <2>1
<1>4. w \in Seq(StoredRow) /\ Chained(w, 0, db.acked) /\ Len(w) \in Nat /\ i \in 1 .. Len(w)
  BY <1>1, DbHas
<1> HIDE DEF w
<1>5. row \in StoredRow
  BY <1>4
<1>6. worse \in StoredRow /\ worse.seq = row.seq /\ Database!Decode(worse) = Database!Decode(row)
  <2> DEFINE K == {e.kind : e \in Stored}
             Y == {e.key : e \in Stored}
             S == Seq({e.text : e \in Stored})
  <2>1. StoredRow = {r \in [seq : Nat, tag : K, key : Y, texts : S, packed : BOOLEAN, bad : BOOLEAN] :
          /\ r.texts # <<>>
          /\ r.packed => Len(r.texts) \in MinPacked .. MaxPacked /\ Database!Bytes(r.texts) <= MaxBytes
          /\ ~r.packed => Len(r.texts) = 1}
    BY DEF StoredRow
  <2> HIDE DEF row, K, Y, S
  <2>2. row \in [seq : Nat, tag : K, key : Y, texts : S, packed : BOOLEAN, bad : BOOLEAN]
    BY <1>5, <2>1
  <2>3. worse.texts = row.texts /\ worse.packed = row.packed /\ worse.seq = row.seq /\ worse.tag = row.tag /\ worse.key = row.key
        /\ worse \in [seq : Nat, tag : K, key : Y, texts : S, packed : BOOLEAN, bad : BOOLEAN]
    BY <2>2
  <2> HIDE DEF worse
  <2>4. worse \in StoredRow
    BY <1>5, <2>1, <2>3
  <2>5. Database!Decode(worse) = Database!Decode(row)
    BY <2>3 DEF Database!Decode
  <2>6. QED
    BY <2>3, <2>4, <2>5
<1> HIDE DEF worse
<1>7. /\ more \in Seq(StoredRow) /\ Len(more) = Len(w)
      /\ \A j \in 1 .. Len(w) : more[j] = IF j = i THEN worse ELSE w[j]
  BY <1>4, <1>6
<1> HIDE DEF more
<1>8. \A j \in 1 .. Len(w) : more[j].seq = w[j].seq /\ Database!Decode(more[j]) = Database!Decode(w[j])
  BY <1>6, <1>7 DEF row
<1>9. Chained(more, 0, db.acked)
  BY <1>4, <1>7, <1>8, SameChained
<1>10. db' = [header |-> db.header, rows |-> more, acked |-> db.acked] /\ db.header \in BOOLEAN
  <2>1. Rewritten(db, more, db.acked)
    BY <1>1, <1>9, DbWith
  <2>2. QED
    BY <1>3, <2>1, Zenon DEF Rewritten
<1>11. DbOk(db')
  BY <1>9, <1>10, DbOf
<1>12. QED
  BY <1>1, <1>11 DEF DatabaseInv, DbOk

LEMMA LoadStoredKeeps == ASSUME DatabaseInv, Database!LoadStored PROVE DatabaseInv'
<1> DEFINE scan == Database!ScanRows(db.rows, 0)
           openTurn == scan.events # <<>> /\ Database!Last(scan.events).kind # "turn/end"
<1>1. /\ DbOk(db) /\ DbOk(durable) /\ db' = db /\ durable' = durable
      /\ plan' = [on |-> TRUE, torn |-> scan.torn, closers |-> IF openTurn THEN <<Len(scan.events)>> ELSE <<>>]
  BY DEF DatabaseInv, Database!LoadStored
<1>2. Len(scan.events) \in Nat
  <2>1. Chained(db.rows, 0, db.acked) /\ db.acked \in Seq(StoredEvent)
    BY <1>1, DbHas
  <2>2. PICK m : ScansTo(scan, db.rows, 0, db.acked, m)
    BY <2>1, ScanStops
  <2>3. m \in 0 .. Len(db.rows) /\ scan.events = SubSeq(db.acked, 1, Carried(db.rows, m))
    BY <2>2 DEF ScansTo
  <2>4. Carried(db.rows, m) \in 0 .. Len(db.acked)
    BY <2>1, <2>3, ChainedParts
  <2> HIDE DEF scan
  <2>5. QED
    BY <2>1, <2>3, <2>4, CutTwo
<1> HIDE DEF scan, openTurn
<1>3. plan'.closers = <<>> \/ plan'.closers = <<Len(scan.events)>>
  BY <1>1
<1>4. QED
  BY <1>1, <1>2, <1>3 DEF DatabaseInv, DbOk

LEMMA CommitRepairKeeps == ASSUME DatabaseInv, Database!CommitRepair PROVE DatabaseInv'
<1>1. DbOk(db) /\ DbOk(durable) /\ durable' = durable /\ plan' = Database!NoPlan
      /\ (plan.closers = <<>> \/ \E n \in Nat : plan.closers = <<n>>)
  BY DEF DatabaseInv, Database!CommitRepair, Database!Commit
<1>2. CASE ~(Database!MayMutate /\ Database!RepairCurrent)
  <2>1. db' = db
    BY <1>2 DEF Database!CommitRepair
  <2>2. QED
    BY <1>1, <2>1 DEF DatabaseInv, DbOk, Database!NoPlan
<1>3. CASE Database!MayMutate /\ Database!RepairCurrent
  <2> DEFINE scan == Database!ScanRows(db.rows, 0)
             kept == IF plan.torn = -1 THEN db.rows ELSE SubSeq(db.rows, 1, Database!FirstFrom(plan.torn) - 1)
             left == IF plan.torn = -1 THEN db.acked ELSE SubSeq(db.acked, 1, plan.torn)
             closers == [i \in 1 .. Len(plan.closers) |-> Database!TurnEnd]
             added == [i \in 1 .. Len(closers) |-> Database!ScalarRow(plan.closers[i], Database!TurnEnd)]
  <2>1. db' = [db EXCEPT !.rows = kept \o added, !.acked = left \o closers]
    BY <1>3, Zenon DEF Database!CommitRepair, Database!Commit
  <2>2. scan.torn = plan.torn /\ (plan.closers # <<>> => plan.closers[1] = Len(scan.events)) /\ ~scan.error
    BY <1>3 DEF Database!RepairCurrent
  <2>3. Chained(db.rows, 0, db.acked) /\ db.acked \in Seq(StoredEvent) /\ Len(db.rows) \in Nat /\ Len(db.acked) \in Nat
    BY <1>1, DbHas
  <2>4. PICK m : ScansTo(scan, db.rows, 0, db.acked, m)
    BY <2>3, ScanStops
  <2> DEFINE c == Carried(db.rows, m)
  <2>5. /\ m \in 0 .. Len(db.rows) /\ scan.events = SubSeq(db.acked, 1, c)
        /\ (m = Len(db.rows) /\ scan.torn = -1) \/ (m < Len(db.rows) /\ scan.torn = 0 + c)
    BY <2>4 DEF ScansTo
  <2>6. c \in 0 .. Len(db.acked) /\ Chained(SubSeq(db.rows, 1, m), 0, SubSeq(db.acked, 1, c))
    BY <2>3, <2>5, ChainedParts
  <2>7. c = Len(db.acked) \/ m # Len(db.rows)
    BY <1>1, DbHas
  <2>8. Database!FirstFrom(c) = m + 1
    BY <1>1, <2>5, FirstOfRow
  <2> HIDE DEF scan, c
  <2>9. Len(scan.events) = c /\ c \in Nat
    BY <2>3, <2>5, <2>6, CutTwo
  <2>10. kept = SubSeq(db.rows, 1, m) /\ left = SubSeq(db.acked, 1, c)
    <3>1. CASE plan.torn = -1
      <4>1. m = Len(db.rows) /\ c = Len(db.acked)
        BY <2>2, <2>5, <2>7, <2>9, <3>1
      <4>2. SubSeq(db.rows, 1, m) = db.rows /\ SubSeq(db.acked, 1, c) = db.acked
        BY <1>1, <4>1, DbHas
      <4>3. QED
        BY <3>1, <4>2
    <3>2. CASE plan.torn # -1
      <4>1. plan.torn = c
        BY <2>2, <2>5, <2>9, <3>2
      <4>2. (m + 1) - 1 = m
        BY <2>5
      <4>3. QED
        BY <2>8, <3>2, <4>1, <4>2
    <3>3. QED
      BY <3>1, <3>2
  <2> HIDE DEF kept, left
  <2>11. Chained(kept, 0, left) /\ Len(left) = c
    BY <2>3, <2>6, <2>10, CutTwo
  <2>12. Chained(kept \o added, 0, left \o closers)
    <3>1. CASE plan.closers = <<>>
      <4>1. closers = <<>> /\ added = <<>>
        BY <3>1
      <4>2. kept \o <<>> = kept /\ left \o <<>> = left
        BY <2>11, ChainedTyped
      <4> HIDE DEF closers, added
      <4>3. QED
        BY <2>11, <4>1, <4>2
    <3>2. CASE plan.closers # <<>>
      <4>1. plan.closers = <<c>>
        BY <1>1, <2>2, <2>9, <3>2
      <4> DEFINE e == Database!TurnEnd
                 row == Database!ScalarRow(c, e)
      <4>2. closers = <<e>> /\ added = <<row>>
        <5> HIDE DEF e
        <5>1. closers = <<e>>
          BY <4>1 DEF e
        <5> HIDE DEF closers, row
        <5>2. Len(closers) = 1 /\ plan.closers[1] = c
          BY <4>1, <5>1
        <5>3. added = [i \in 1 .. 1 |-> Database!ScalarRow(plan.closers[i], e)]
          BY <5>2 DEF e
        <5>4. \A i \in 1 .. 1 : Database!ScalarRow(plan.closers[i], e) = row
          BY <5>2 DEF row
        <5>5. [i \in 1 .. 1 |-> Database!ScalarRow(plan.closers[i], e)] = [i \in 1 .. 1 |-> row]
          BY <5>4, Zenon
        <5>6. [i \in 1 .. 1 |-> row] = <<row>>
          OBVIOUS
        <5>7. QED
          BY <5>1, <5>3, <5>5, <5>6
      <4>3. row \in StoredRow /\ row.seq = c /\ Database!Decode(row) = <<e>>
        BY <2>9, EndTyped, ScalarCarries
      <4> HIDE DEF e, row, closers, added
      <4>4. Chained(<<row>>, c, <<e>>)
        BY <4>3, ChainedOne
      <4>5. 0 + Len(left) = c
        BY <2>9, <2>11
      <4>6. Chained(kept \o <<row>>, 0, left \o <<e>>)
        BY <2>11, <4>4, <4>5, ChainedConcat
      <4>7. QED
        BY <4>2, <4>6
    <3>3. QED
      BY <3>1, <3>2
  <2> HIDE DEF added, closers
  <2>13. db' = [header |-> db.header, rows |-> kept \o added, acked |-> left \o closers] /\ db.header \in BOOLEAN
    <3>1. Rewritten(db, kept \o added, left \o closers)
      BY <1>1, <2>12, DbWith
    <3>2. QED
      BY <2>1, <3>1, Zenon DEF Rewritten
  <2>14. DbOk(db')
    BY <2>12, <2>13, DbOf
  <2>15. QED
    BY <1>1, <2>14 DEF DatabaseInv, DbOk, Database!NoPlan
<1>4. QED
  BY <1>2, <1>3

(* The database reads back what was acknowledged, from any event on,        *)
(* whatever rows the batches were packed into, through damaged rows, stale  *)
(* repairs, power failures and deletions.                                   *)
THEOREM DatabaseReadsBack == Database!Spec => []Database!ReadsAsWritten
<1>1. DatabaseInv /\ [Database!Next]_<<dbFile, open, verified, db, durable, plan, damage, deletes, powerLoss>> => DatabaseInv'
  <2> SUFFICES ASSUME DatabaseInv, [Database!Next]_<<dbFile, open, verified, db, durable, plan, damage, deletes, powerLoss>>
               PROVE DatabaseInv'
    OBVIOUS
  <2>1. CASE UNCHANGED <<dbFile, open, verified, db, durable, plan, damage, deletes, powerLoss>>
    BY <2>1 DEF DatabaseInv, DbOk
  <2>2. CASE Database!Open \/ Database!AlienWrites
    BY <2>2 DEF DatabaseInv, DbOk, Database!Open, Database!AlienWrites
  <2>3. CASE Database!Close
    BY <2>3 DEF DatabaseInv, DbOk, Database!Close, Database!NoPlan
  <2>4. CASE Database!Sync
    BY <2>4 DEF DatabaseInv, DbOk, Database!Sync
  <2>5. CASE Database!PowerFails
    BY <2>5 DEF DatabaseInv, DbOk, Database!PowerFails, Database!NoPlan
  <2>6. QED
    BY <2>1, <2>2, <2>3, <2>4, <2>5, AppendEventsKeeps, PutSessionKeeps, DeleteSessionKeeps, DamageKeeps,
       LoadStoredKeeps, CommitRepairKeeps DEF Database!Next
<1>2. Database!Spec => []DatabaseInv
  BY <1>1, DatabaseStarts, PTL DEF Database!Spec, Database!sqliteVars
<1>3. DatabaseInv => Database!ReadsAsWritten
  BY Reads DEF DatabaseInv
<1>4. QED
  BY <1>2, <1>3, PTL

(* Both stores, side by side.                                               *)
THEOREM StoresReadAsWritten == Database!Spec /\ Journal!Spec => []StoresReadBack
  BY DatabaseReadsBack, JournalReadsBack, PTL DEF StoresReadBack
==============================================================================
