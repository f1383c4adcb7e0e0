---------------------------- MODULE SequenceLemmas ----------------------------
(***************************************************************************)
(* What appending and erasing do to a vector without duplicates, where a   *)
(* loop over one stops and what it hands on, and where the pieces of a     *)
(* packet that are laid one after the other begin: lemmas that the proofs  *)
(* about the master's, the nodes' and the factories' vectors and about the *)
(* packers' bytes rest on.                                                 *)
(***************************************************************************)
EXTENDS Integers, Sequences, SequencesExt, SequenceTheorems,
        WellFoundedInduction, TLAPS

Below == {ss \in Nat \X Nat : ss[1] < ss[2]}

\* A loop that searches positions in order stops at the first of those it looks
\* for, if there is one: a set of numbers has a least element.
LEMMA LeastPosition ==
  ASSUME NEW S \in SUBSET Nat, S # {}
  PROVE  \E i \in S : \A j \in S : i <= j
<1>1. IsWellFoundedOn(Below, Nat)
  BY NatLessThanWellFounded DEF Below, OpToRel
<1>2. PICK i \in S : \A j \in S : <<j, i>> \notin Below
  BY <1>1, WFMin
<1>3. \A j \in S : ~(j < i)
  BY <1>2 DEF Below
<1> QED
  BY <1>3

\* RemoveAt shortens a sequence by one and keeps what is left in order.
LEMMA RemoveAtProperties ==
  ASSUME NEW S, NEW s \in Seq(S), NEW i \in 1..Len(s)
  PROVE  /\ RemoveAt(s, i) \in Seq(S)
         /\ Len(RemoveAt(s, i)) = Len(s) - 1
         /\ \A j \in 1..(Len(s) - 1) :
              RemoveAt(s, i)[j] = IF j < i THEN s[j] ELSE s[j + 1]
<1> DEFINE a == SubSeq(s, 1, i - 1)
           b == SubSeq(s, i + 1, Len(s))
<1>1. a \in Seq(S) /\ Len(a) = i - 1 /\ \A j \in 1..(i - 1) : a[j] = s[j]
  BY SubSeqProperties
<1>2. b \in Seq(S) /\ Len(b) = Len(s) - i
      /\ \A j \in 1..(Len(s) - i) : b[j] = s[j + i]
  BY SubSeqProperties
<1>3. RemoveAt(s, i) = a \o b
  BY DEF RemoveAt
<1> HIDE DEF a, b
<1>4. /\ a \o b \in Seq(S)
      /\ Len(a \o b) = Len(s) - 1
      /\ \A j \in 1..(Len(s) - 1) :
           (a \o b)[j] = IF j <= i - 1 THEN a[j] ELSE b[j - (i - 1)]
  <2>1. /\ a \o b \in Seq(S)
        /\ Len(a \o b) = Len(a) + Len(b)
        /\ \A j \in 1..(Len(a) + Len(b)) :
             (a \o b)[j] = IF j <= Len(a) THEN a[j] ELSE b[j - Len(a)]
    BY <1>1, <1>2, ConcatProperties
  <2>2. Len(a) = i - 1 /\ Len(a) + Len(b) = Len(s) - 1
    BY <1>1, <1>2
  <2> QED
    BY <2>1, <2>2
<1>5. ASSUME NEW j \in 1..(Len(s) - 1)
      PROVE  (a \o b)[j] = IF j < i THEN s[j] ELSE s[j + 1]
  <2>1. CASE j < i
    BY <2>1, <1>1, <1>4
  <2>2. CASE ~(j < i)
    <3>1. j - (i - 1) \in 1..(Len(s) - i) /\ j - (i - 1) + i = j + 1
      BY <2>2
    <3> QED
      BY <2>2, <3>1, <1>2, <1>4
  <2> QED
    BY <2>1, <2>2
<1> QED
  BY <1>3, <1>4, <1>5

\* The elements of a sequence, by their places.
LEMMA Elements ==
  ASSUME NEW S, NEW s \in Seq(S), NEW x
  PROVE  x \in ToSet(s) <=> \E i \in 1..Len(s) : s[i] = x
<1>1. DOMAIN s = 1..Len(s)
  BY LenProperties
<1> QED
  BY <1>1 DEF ToSet

\* No duplicates, by the places.
LEMMA Injective ==
  ASSUME NEW S, NEW s \in Seq(S)
  PROVE  IsInjective(s) <=> \A i, j \in 1..Len(s) : s[i] = s[j] => i = j
<1>1. DOMAIN s = 1..Len(s)
  BY LenProperties
<1> QED
  BY <1>1 DEF IsInjective

\* A new element is appended.
LEMMA AppendNew ==
  ASSUME NEW S, NEW s \in Seq(S), IsInjective(s), NEW x \in S, x \notin ToSet(s)
  PROVE  /\ Append(s, x) \in Seq(S) /\ IsInjective(Append(s, x))
         /\ ToSet(Append(s, x)) = ToSet(s) \cup {x}
<1> DEFINE t == Append(s, x)
<1>1. /\ t \in Seq(S) /\ Len(s) \in Nat /\ Len(t) = Len(s) + 1 /\ t[Len(s) + 1] = x
      /\ \A i \in 1..Len(s) : t[i] = s[i]
  BY AppendProperties, LenProperties
<1>2. /\ \A i \in 1..Len(s) : i \in 1..Len(t)
      /\ \A i \in 1..Len(t) : i \in 1..Len(s) \/ i = Len(s) + 1
      /\ Len(s) + 1 \in 1..Len(t)
  BY <1>1
<1> HIDE DEF t
<1>3. \A i \in 1..Len(s) : s[i] # x
  BY Elements
<1>4. \A i, j \in 1..Len(s) : s[i] = s[j] => i = j
  BY Injective
<1>5. \A i, j \in 1..Len(t) : t[i] = t[j] => i = j
  BY <1>1, <1>2, <1>3, <1>4
<1>6. IsInjective(t)
  BY <1>1, <1>5, Injective
<1>7. \A y : y \in ToSet(t) <=> \E i \in 1..Len(t) : t[i] = y
  BY <1>1, Elements
<1>8. \A y : y \in ToSet(s) <=> \E i \in 1..Len(s) : s[i] = y
  BY Elements
<1>9. \A y : y \in ToSet(t) <=> y \in ToSet(s) \/ y = x
  <2> SUFFICES ASSUME NEW y
               PROVE  y \in ToSet(t) <=> y \in ToSet(s) \/ y = x
    OBVIOUS
  <2>1. y \in ToSet(t) => y \in ToSet(s) \/ y = x
    BY <1>1, <1>2, <1>7, <1>8
  <2>2. y \in ToSet(s) => y \in ToSet(t)
    BY <1>1, <1>2, <1>7, <1>8
  <2>3. x \in ToSet(t)
    BY <1>1, <1>2, <1>7
  <2> QED
    BY <2>1, <2>2, <2>3
<1>10. ToSet(t) = ToSet(s) \cup {x}
  BY <1>9
<1> QED
  BY <1>1, <1>6, <1>10 DEF t

\* An element is erased.
LEMMA EraseOne ==
  ASSUME NEW S, NEW s \in Seq(S), IsInjective(s), NEW i \in 1..Len(s)
  PROVE  /\ RemoveAt(s, i) \in Seq(S) /\ IsInjective(RemoveAt(s, i))
         /\ ToSet(RemoveAt(s, i)) = ToSet(s) \ {s[i]}
<1> DEFINE t == RemoveAt(s, i)
<1>1. /\ t \in Seq(S) /\ Len(s) \in Nat /\ Len(t) = Len(s) - 1
      /\ \A j \in 1..(Len(s) - 1) : t[j] = IF j < i THEN s[j] ELSE s[j + 1]
  BY RemoveAtProperties, LenProperties
<1> HIDE DEF t
<1>2. \A j \in 1..Len(t) : \E k \in 1..Len(s) :
        k # i /\ t[j] = s[k] /\ k = IF j < i THEN j ELSE j + 1
  BY <1>1
<1>3. \A k \in 1..Len(s) : k # i => \E j \in 1..Len(t) : t[j] = s[k]
  <2> SUFFICES ASSUME NEW k \in 1..Len(s), k # i
               PROVE  \E j \in 1..Len(t) : t[j] = s[k]
    OBVIOUS
  <2>1. CASE k < i
    BY <1>1, <2>1
  <2>2. CASE k > i
    <3>1. k - 1 \in 1..Len(t) /\ t[k - 1] = s[k]
      BY <1>1, <2>2
    <3> QED
      BY <3>1
  <2> QED
    BY <2>1, <2>2
<1>4. \A j, k \in 1..Len(s) : s[j] = s[k] => j = k
  BY Injective
<1>5. \A j, k \in 1..Len(t) : t[j] = t[k] => j = k
  <2> SUFFICES ASSUME NEW j \in 1..Len(t), NEW k \in 1..Len(t), t[j] = t[k]
               PROVE  j = k
    OBVIOUS
  <2>1. PICK m \in 1..Len(s) : t[j] = s[m] /\ m = IF j < i THEN j ELSE j + 1
    BY <1>2
  <2>2. PICK n \in 1..Len(s) : t[k] = s[n] /\ n = IF k < i THEN k ELSE k + 1
    BY <1>2
  <2>3. m = n
    BY <1>4, <2>1, <2>2
  <2> QED
    BY <2>1, <2>2, <2>3
<1>6. IsInjective(t)
  BY <1>1, <1>5, Injective
<1>7. \A y : y \in ToSet(t) <=> \E j \in 1..Len(t) : t[j] = y
  BY <1>1, Elements
<1>8. \A y : y \in ToSet(s) <=> \E j \in 1..Len(s) : s[j] = y
  BY Elements
<1>9. \A y : y \in ToSet(t) <=> y \in ToSet(s) /\ y # s[i]
  <2> SUFFICES ASSUME NEW y
               PROVE  y \in ToSet(t) <=> y \in ToSet(s) /\ y # s[i]
    OBVIOUS
  <2>1. y \in ToSet(t) => y \in ToSet(s) /\ y # s[i]
    BY <1>2, <1>4, <1>7, <1>8
  <2>2. y \in ToSet(s) /\ y # s[i] => y \in ToSet(t)
    BY <1>3, <1>7, <1>8
  <2> QED
    BY <2>1, <2>2
<1>10. ToSet(t) = ToSet(s) \ {s[i]}
  BY <1>9
<1> QED
  BY <1>1, <1>6, <1>10 DEF t

-----------------------------------------------------------------------------
\* What a loop, or a recursive function, has at 0 and hands on it has everywhere.
LEMMA Induction ==
  ASSUME NEW n \in Nat, NEW T, 0 \in T, \A i \in 0..(n - 1) : i \in T => i + 1 \in T
  PROVE  \A i \in 0..n : i \in T
<1> DEFINE S == {i \in 0..n : i \notin T}
<1>1. S \subseteq Nat
  OBVIOUS
<1>2. CASE S # {}
  <2>1. PICK i \in S : \A j \in S : i <= j
    BY <1>1, <1>2, LeastPosition
  <2>2. i # 0 /\ i - 1 \in 0..(n - 1) /\ i - 1 \in 0..n
    BY <2>1
  <2>3. i - 1 \notin S
    BY <2>1, <2>2
  <2>4. i - 1 \in T
    BY <2>2, <2>3
  <2>5. (i - 1) + 1 \in T
    BY <2>2, <2>4
  <2> QED
    BY <2>1, <2>5
<1> QED
  BY <1>2

\* A function of the places is a sequence.
LEMMA Places ==
  ASSUME NEW S, NEW n \in Nat, NEW f \in [1..n -> S]
  PROVE  f \in Seq(S) /\ Len(f) = n /\ DOMAIN f = 1..n
<1>1. f \in Seq(S)
  BY SeqDef
<1>2. Len(f) \in Nat /\ DOMAIN f = 1..Len(f)
  BY <1>1, LenProperties
<1>3. 1..Len(f) = 1..n
  BY <1>2
<1>4. Len(f) = n
  <2>1. Len(f) <= n
    <3>1. CASE Len(f) > 0
      BY <1>2, <1>3, <3>1
    <3> QED
      BY <1>2, <3>1
  <2>2. n <= Len(f)
    <3>1. CASE n > 0
      BY <1>2, <1>3, <3>1
    <3> QED
      BY <1>2, <3>1
  <2> QED
    BY <1>2, <2>1, <2>2
<1> QED
  BY <1>1, <1>4

\* Where the pieces of a sequence of sequences are found in the whole: at[i] is
\* where the i-th ends.
Laid(whole, seqs, at, n) ==
  /\ at[0] = 0 /\ at[n] = Len(whole)
  /\ \A i \in 1..n :
       /\ at[i] = at[i - 1] + Len(seqs[i]) /\ at[i] <= at[n]
       /\ \A j \in 1..Len(seqs[i]) : whole[at[i - 1] + j] = seqs[i][j]

\* One more piece is laid after the others.
LEMMA LaidOneMore ==
  ASSUME NEW S, NEW n \in Nat, NEW at, NEW whole \in Seq(S), NEW seqs, NEW piece \in Seq(S),
         \A i \in 0..n : at[i] \in Nat, \A i \in 1..n : Len(seqs[i]) \in Nat,
         Laid(whole, seqs, at, n),
         seqs[n + 1] = piece, at[n + 1] = Len(whole \o piece)
  PROVE  Laid(whole \o piece, seqs, at, n + 1) /\ at[n + 1] \in Nat /\ whole \o piece \in Seq(S)
<1> DEFINE both == whole \o piece
<1>1. Len(whole) \in Nat /\ Len(piece) \in Nat
  BY LenProperties
<1>2. /\ both \in Seq(S) /\ Len(both) = Len(whole) + Len(piece)
      /\ \A i \in 1..(Len(whole) + Len(piece)) :
           both[i] = IF i <= Len(whole) THEN whole[i] ELSE piece[i - Len(whole)]
  BY ConcatProperties
<1>3. at[n + 1] = Len(both)
  OBVIOUS
<1> HIDE DEF both
<1>4. at[0] = 0 /\ at[n] = Len(whole)
  BY DEF Laid
<1>5. ASSUME NEW i \in 1..n
      PROVE  /\ at[i] = at[i - 1] + Len(seqs[i]) /\ at[i] <= at[n + 1]
             /\ \A j \in 1..Len(seqs[i]) : both[at[i - 1] + j] = seqs[i][j]
  <2>1. /\ at[i] = at[i - 1] + Len(seqs[i]) /\ at[i] <= at[n]
        /\ \A j \in 1..Len(seqs[i]) : whole[at[i - 1] + j] = seqs[i][j]
    BY DEF Laid
  <2>2. at[i] \in Nat /\ at[i - 1] \in Nat /\ Len(seqs[i]) \in Nat
    <3>1. i \in 0..n /\ i - 1 \in 0..n
      OBVIOUS
    <3> QED
      BY <3>1
  <2>3. at[i] <= at[n + 1]
    BY <1>1, <1>2, <1>3, <1>4, <2>1, <2>2
  <2>4. ASSUME NEW j \in 1..Len(seqs[i])
        PROVE  both[at[i - 1] + j] = seqs[i][j]
    <3>1. \A a, l, c, q \in Nat : \A h \in 1..l :
            a + l <= c => a + h \in 1..(c + q) /\ a + h <= c
      OBVIOUS
    <3>2. at[i - 1] + Len(seqs[i]) <= Len(whole)
      BY <1>4, <2>1
    <3>3. at[i - 1] + j \in 1..(Len(whole) + Len(piece)) /\ at[i - 1] + j <= Len(whole)
      BY <1>1, <2>2, <3>1, <3>2
    <3>4. both[at[i - 1] + j] = whole[at[i - 1] + j]
      BY <1>2, <3>3
    <3> QED
      BY <2>1, <3>4
  <2> QED
    BY <2>1, <2>3, <2>4
<1>6. /\ at[n + 1] = at[n] + Len(seqs[n + 1])
      /\ \A j \in 1..Len(seqs[n + 1]) : both[at[n] + j] = seqs[n + 1][j]
  <2>1. at[n + 1] = at[n] + Len(seqs[n + 1])
    BY <1>2, <1>3, <1>4
  <2>2. ASSUME NEW j \in 1..Len(piece)
        PROVE  both[Len(whole) + j] = piece[j]
    <3>1. \A p, q \in Nat : \A h \in 1..q :
            p + h \in 1..(p + q) /\ ~(p + h <= p) /\ (p + h) - p = h
      OBVIOUS
    <3>2. /\ Len(whole) + j \in 1..(Len(whole) + Len(piece))
          /\ ~(Len(whole) + j <= Len(whole)) /\ (Len(whole) + j) - Len(whole) = j
      BY <1>1, <3>1
    <3> QED
      BY <1>2, <3>2
  <2> QED
    BY <1>4, <2>1, <2>2
<1>7. (n + 1) - 1 = n /\ \A i \in 1..(n + 1) : i \in 1..n \/ i = n + 1
  OBVIOUS
<1>8. at[n + 1] <= at[n + 1] /\ at[n + 1] \in Nat
  BY <1>1, <1>2, <1>3
<1>9. Laid(both, seqs, at, n + 1)
  <2>1. ASSUME NEW i \in 1..(n + 1)
        PROVE  /\ at[i] = at[i - 1] + Len(seqs[i]) /\ at[i] <= at[n + 1]
               /\ \A j \in 1..Len(seqs[i]) : both[at[i - 1] + j] = seqs[i][j]
    <3>1. CASE i \in 1..n
      BY <1>5, <3>1
    <3>2. CASE i = n + 1
      BY <1>6, <1>7, <1>8, <3>2
    <3> QED
      BY <1>7, <3>1, <3>2
  <2> QED
    BY <1>3, <1>4, <2>1 DEF Laid
<1> QED
  BY <1>2, <1>8, <1>9 DEF both

\* FlattenSeq lays its pieces one after the other: whole[i] is what the first i make.
Flattening(whole, seqs, n) ==
  /\ FlattenSeq(seqs) = whole[n]
  /\ whole[1] = seqs[1] /\ \A i \in 1..(n - 1) : whole[i + 1] = whole[i] \o seqs[i + 1]

LEMMA Flattened ==
  ASSUME NEW n \in Nat, n > 0, NEW seqs, Len(seqs) = n
  PROVE  \E whole : Flattening(whole, seqs, n)
<1> DEFINE E(i, v) == v \o seqs[i]
           Is(g, k) == g = [i \in 1..k |-> IF i = 1 THEN seqs[i] ELSE E(i, g[i - 1])]
           T == {k \in 0..(n - 1) : \E g : Is(g, k + 1)}
           whole == CHOOSE g : Is(g, n)
<1>1. FlattenSeq(seqs) = whole[n]
  BY DEF FlattenSeq
<1> HIDE DEF E
<1>2. \E g : Is(g, 1)
  <2> WITNESS [i \in 1..1 |-> seqs[i]]
  <2> QED
    OBVIOUS
<1>3. ASSUME NEW k \in 1..(n - 1), NEW g, Is(g, k)
      PROVE  \E h : Is(h, k + 1)
  <2> WITNESS [i \in 1..(k + 1) |-> IF i = k + 1 THEN E(i, g[k]) ELSE g[i]]
  <2> QED
    BY <1>3
<1>4. ASSUME NEW g, Is(g, n)
      PROVE  g[1] = seqs[1] /\ \A i \in 1..(n - 1) : g[i + 1] = E(i + 1, g[i])
  <2>1. 1 \in 1..n /\ \A i \in 1..(n - 1) : i + 1 \in 1..n /\ i + 1 # 1 /\ (i + 1) - 1 = i
    OBVIOUS
  <2> QED
    BY <1>4, <2>1
<1> HIDE DEF Is
<1>5. 0 \in T
  BY <1>2
<1>6. \A k \in 0..((n - 1) - 1) : k \in T => k + 1 \in T
  <2> SUFFICES ASSUME NEW k \in 0..((n - 1) - 1), k \in T
               PROVE  k + 1 \in T
    OBVIOUS
  <2>1. PICK g : Is(g, k + 1)
    OBVIOUS
  <2>2. k + 1 \in 1..(n - 1) /\ k + 1 \in 0..(n - 1)
    OBVIOUS
  <2> QED
    BY <1>3, <2>1, <2>2
<1>7. n - 1 \in T
  <2>1. n - 1 \in Nat /\ n - 1 \in 0..(n - 1)
    OBVIOUS
  <2> HIDE DEF T
  <2> QED
    BY <1>5, <1>6, <2>1, Induction
<1>8. Is(whole, n)
  BY <1>7
<1> HIDE DEF whole
<1>9. whole[1] = seqs[1] /\ \A i \in 1..(n - 1) : whole[i + 1] = E(i + 1, whole[i])
  BY <1>4, <1>8
<1> QED
  BY <1>1, <1>9 DEF E, Flattening

\* The pieces of a sequence of sequences, and of what they are made.
LEMMA Pieces ==
  ASSUME NEW S, NEW n \in Nat, NEW seqs \in [1..n -> Seq(S)]
  PROVE  /\ FlattenSeq(seqs) \in Seq(S)
         /\ \E at \in [0..n -> Nat] : Laid(FlattenSeq(seqs), seqs, at, n)
<1>0. Len(seqs) = n /\ \A i \in 1..n : Len(seqs[i]) \in Nat
  BY Places, LenProperties
<1>1. CASE n = 0
  <2>1. FlattenSeq(seqs) = << >> /\ Len(<< >>) = 0 /\ << >> \in Seq(S)
    <3>1. seqs \in Seq(Seq(S)) /\ Len(seqs) = 0
      BY <1>1, Places
    <3>2. seqs = << >>
      BY <3>1, EmptySeq
    <3> QED
      BY <3>1, <3>2, EmptySeq DEF FlattenSeq
  <2> DEFINE at == [i \in 0..n |-> 0]
  <2>2. at \in [0..n -> Nat] /\ at[0] = 0 /\ at[n] = 0
    OBVIOUS
  <2> HIDE DEF at
  <2>3. Laid(FlattenSeq(seqs), seqs, at, n)
    BY <1>1, <2>1, <2>2 DEF Laid
  <2> QED
    BY <2>1, <2>2, <2>3
<1>2. CASE n > 0
  <2>0. PICK whole : Flattening(whole, seqs, n)
    BY <1>0, <1>2, Flattened
  <2>1. /\ FlattenSeq(seqs) = whole[n]
        /\ whole[1] = seqs[1] /\ \A i \in 1..(n - 1) : whole[i + 1] = whole[i] \o seqs[i + 1]
    BY <2>0 DEF Flattening
  <2> DEFINE at == [i \in 0..n |-> IF i = 0 THEN 0 ELSE Len(whole[i])]
             Good == {k \in 0..(n - 1) :
                        /\ whole[k + 1] \in Seq(S) /\ Laid(whole[k + 1], seqs, at, k + 1)
                        /\ \A i \in 0..(k + 1) : at[i] \in Nat}
  <2>2. at[0] = 0 /\ \A i \in 1..n : at[i] = Len(whole[i])
    OBVIOUS
  <2>3. at = [i \in 0..n |-> at[i]]
    OBVIOUS
  <2> HIDE DEF at
  <2>4. 0 \in Good
    <3>1. 1 \in 1..n /\ 1 - 1 = 0 /\ 0 + 1 = 1 /\ 0 \in 0..(n - 1)
      BY <1>2
    <3>2. at[1] = Len(seqs[1]) /\ at[1] \in Nat /\ at[1] = at[0] + Len(seqs[1]) /\ seqs[1] \in Seq(S)
      BY <1>0, <2>1, <2>2, <3>1
    <3>3. \A j \in 1..Len(seqs[1]) : 0 + j = j
      BY <1>0, <3>1
    <3>4. Laid(whole[1], seqs, at, 1)
      BY <2>1, <2>2, <3>1, <3>2, <3>3 DEF Laid
    <3>5. \A i \in 0..1 : at[i] \in Nat
      BY <2>2, <3>2
    <3> QED
      BY <2>1, <3>1, <3>2, <3>4, <3>5
  <2>5. ASSUME NEW k \in 0..((n - 1) - 1), k \in Good
        PROVE  k + 1 \in Good
    <3>1. /\ k + 1 \in 1..(n - 1) /\ (k + 1) + 1 \in 1..n /\ k + 1 \in 0..(n - 1) /\ k + 1 \in Nat
          /\ \A i \in 0..((k + 1) + 1) : i \in 0..(k + 1) \/ i = (k + 1) + 1
      BY <1>2
    <3>2. /\ whole[k + 1] \in Seq(S) /\ Laid(whole[k + 1], seqs, at, k + 1)
          /\ \A i \in 0..(k + 1) : at[i] \in Nat
      BY <2>5
    <3>3. /\ whole[(k + 1) + 1] = whole[k + 1] \o seqs[(k + 1) + 1]
          /\ at[(k + 1) + 1] = Len(whole[k + 1] \o seqs[(k + 1) + 1])
      BY <2>1, <2>2, <3>1
    <3>4. \A i \in 1..(k + 1) : Len(seqs[i]) \in Nat
      BY <1>0, <3>1
    <3> DEFINE m == k + 1
    <3>5. seqs[m + 1] \in Seq(S)
      BY <3>1
    <3> HIDE DEF m
    <3>6. /\ m \in Nat /\ whole[m] \in Seq(S) /\ Laid(whole[m], seqs, at, m)
          /\ \A i \in 0..m : at[i] \in Nat
          /\ \A i \in 1..m : Len(seqs[i]) \in Nat
          /\ at[m + 1] = Len(whole[m] \o seqs[m + 1])
      BY <3>1, <3>2, <3>3, <3>4 DEF m
    <3>7. /\ Laid(whole[m] \o seqs[m + 1], seqs, at, m + 1) /\ at[m + 1] \in Nat
          /\ whole[m] \o seqs[m + 1] \in Seq(S)
      BY <3>5, <3>6, LaidOneMore
    <3>8. /\ Laid(whole[(k + 1) + 1], seqs, at, (k + 1) + 1) /\ at[(k + 1) + 1] \in Nat
          /\ whole[(k + 1) + 1] \in Seq(S)
      BY <3>3, <3>7 DEF m
    <3> QED
      BY <3>1, <3>2, <3>8
  <2>6. n - 1 \in Good
    <3>1. n - 1 \in Nat /\ n - 1 \in 0..(n - 1)
      BY <1>2
    <3>2. \A k \in 0..((n - 1) - 1) : k \in Good => k + 1 \in Good
      BY <2>5
    <3> HIDE DEF Good
    <3> QED
      BY <2>4, <3>1, <3>2, Induction
  <2>7. (n - 1) + 1 = n
    BY <1>2
  <2>8. whole[n] \in Seq(S) /\ Laid(whole[n], seqs, at, n) /\ \A i \in 0..n : at[i] \in Nat
    BY <2>6, <2>7
  <2>9. at \in [0..n -> Nat]
    BY <2>3, <2>8
  <2> QED
    BY <2>1, <2>8, <2>9
<1>3. n = 0 \/ n > 0
  OBVIOUS
<1> QED
  BY <1>1, <1>2, <1>3, Zenon
=============================================================================
