----------------------------- MODULE SequenceLemmas ---------------------------
(***************************************************************************)
(* What the community modules' FlattenSeq() and a few patterns of SubSeq() *)
(* compute, for sequences over any set.                                    *)
(***************************************************************************)
EXTENDS Integers, Sequences, SequencesExt, SequenceTheorems, WellFoundedInduction, TLAPS

-----------------------------------------------------------------------------
(* Sequences of sequences.                                                 *)

\* The induction used below: a set of numbers has a smallest one.
LEMMA Smallest ==
  ASSUME NEW T, T \subseteq Nat, T # {}
  PROVE  \E m \in T : \A n \in T : m <= n
<1>1. PICK m \in T : \A n \in T : ~(<<n, m>> \in OpToRel(<, Nat))
  BY NatLessThanWellFounded, WFMin
<1>2. \A n \in T : ~(n < m)
  BY <1>1 DEF OpToRel
<1>3. QED
  BY <1>2

\* FlattenSeq() joins a sequence of sequences from the left.
IsFlat(f, seqs) ==
  f = [i \in 1 .. Len(seqs) |-> IF i = 1 THEN seqs[i] ELSE f[i - 1] \o seqs[i]]
Flat(seqs) == CHOOSE f : IsFlat(f, seqs)

LEMMA FlattenDef ==
  ASSUME NEW seqs
  PROVE  FlattenSeq(seqs) = IF Len(seqs) = 0 THEN seqs ELSE Flat(seqs)[Len(seqs)]
  BY Zenon DEF FlattenSeq, Flat, IsFlat

LEMMA FlatExists ==
  ASSUME NEW S, NEW seqs \in Seq(Seq(S))
  PROVE  \E f : IsFlat(f, seqs)
<1> DEFINE Up(f, n) ==
      f = [i \in 1 .. n |-> IF i = 1 THEN seqs[i] ELSE f[i - 1] \o seqs[i]]
<1> DEFINE Bad == {n \in Nat : ~\E f : Up(f, n)}
<1>1. SUFFICES Bad = {}
  <2>1. Len(seqs) \in Nat
    OBVIOUS
  <2>2. QED
    BY <2>1 DEF IsFlat
<1>2. SUFFICES ASSUME Bad # {} PROVE FALSE
  OBVIOUS
<1>b. Bad \subseteq Nat /\ \A m \in Nat : m \in Bad <=> ~\E f : Up(f, m)
  OBVIOUS
<1> HIDE DEF Up, Bad
<1>3. PICK n \in Bad : \A m \in Bad : n <= m
  BY <1>2, <1>b, Smallest
<1>4. n \in Nat /\ ~\E f : Up(f, n)
  BY <1>3, <1>b
<1>5. ASSUME n # 0 PROVE n - 1 \in Nat /\ ~(n <= n - 1)
  BY <1>4, <1>5
<1>a. n # 0 => \E f : Up(f, n - 1)
  BY <1>3, <1>5, <1>b
<1> DEFINE g == CHOOSE f : Up(f, n - 1)
<1>6. n # 0 => Up(g, n - 1)
  BY <1>a, Zenon
<1> HIDE DEF g
<1> DEFINE f == [i \in 1 .. n |-> IF i < n THEN g[i]
                                   ELSE IF n = 1 THEN seqs[n] ELSE g[n - 1] \o seqs[n]]
<1>7. \A i \in 1 .. n - 1 : g[i] = IF i = 1 THEN seqs[i] ELSE g[i - 1] \o seqs[i]
  <2>1. CASE n # 0
    BY <1>6, <2>1 DEF Up
  <2>2. CASE n = 0
    BY <2>2
  <2>3. QED
    BY <2>1, <2>2
<1>8. ASSUME NEW i \in 1 .. n
      PROVE  f[i] = IF i = 1 THEN seqs[i] ELSE f[i - 1] \o seqs[i]
  <2>1. CASE i = n
    <3>1. i # 1 => f[i - 1] = g[i - 1]
      BY <1>4, <2>1
    <3>2. QED
      BY <1>4, <2>1, <3>1
  <2>2. CASE i # n
    <3>1. i \in 1 .. n - 1 /\ i < n
      BY <1>4, <2>2
    <3>2. i # 1 => i - 1 \in 1 .. n /\ i - 1 < n
      BY <1>4, <3>1
    <3>3. QED
      BY <1>7, <3>1, <3>2
  <2>3. QED
    BY <2>1, <2>2
<1>9. f = [i \in 1 .. n |-> f[i]]
  OBVIOUS
<1> HIDE DEF f
<1>10. Up(f, n)
  BY <1>8, <1>9 DEF Up
<1>11. QED
  BY <1>4, <1>10

LEMMA FlatIs ==
  ASSUME NEW S, NEW seqs \in Seq(Seq(S))
  PROVE  /\ \A i \in 1 .. Len(seqs) :
              Flat(seqs)[i] = IF i = 1 THEN seqs[i] ELSE Flat(seqs)[i - 1] \o seqs[i]
         /\ \A i \in 1 .. Len(seqs) : Flat(seqs)[i] \in Seq(S)
<1> DEFINE f == Flat(seqs)
<1>1. IsFlat(f, seqs)
  BY FlatExists, Zenon DEF Flat
<1> HIDE DEF f
<1>2. \A i \in 1 .. Len(seqs) : f[i] = IF i = 1 THEN seqs[i] ELSE f[i - 1] \o seqs[i]
  BY <1>1 DEF IsFlat
<1> DEFINE Bad == {i \in 1 .. Len(seqs) : f[i] \notin Seq(S)}
<1>3. Bad = {}
  <2>1. SUFFICES ASSUME Bad # {} PROVE FALSE
    OBVIOUS
  <2>2. Len(seqs) \in Nat /\ \A i \in 1 .. Len(seqs) : seqs[i] \in Seq(S)
    BY ElementOfSeq
  <2>a. Bad \subseteq Nat
    BY <2>2
  <2>3. PICK n \in Bad : \A m \in Bad : n <= m
    BY <2>1, <2>a, Smallest
  <2>4. n \in 1 .. Len(seqs) /\ f[n] \notin Seq(S)
    BY <2>3
  <2>5. n # 1
    BY <1>2, <2>2, <2>4
  <2>6. n - 1 \in 1 .. Len(seqs) /\ n - 1 \notin Bad
    BY <2>2, <2>3, <2>4, <2>5
  <2>7. f[n - 1] \in Seq(S) /\ seqs[n] \in Seq(S)
    BY <2>2, <2>4, <2>6
  <2>8. f[n] = f[n - 1] \o seqs[n]
    BY <1>2, <2>4, <2>5
  <2>9. QED
    BY <2>4, <2>7, <2>8, ConcatProperties
<1>4. QED
  BY <1>2, <1>3 DEF f

LEMMA FlattenType ==
  ASSUME NEW S, NEW seqs \in Seq(Seq(S))
  PROVE  FlattenSeq(seqs) \in Seq(S)
<1>1. CASE Len(seqs) = 0
  <2>1. FlattenSeq(seqs) = <<>>
    BY <1>1, FlattenDef, EmptySeq
  <2>2. QED
    BY <2>1
<1>2. CASE Len(seqs) # 0
  BY <1>2, FlattenDef, FlatIs
<1>3. QED
  BY <1>1, <1>2

LEMMA FlattenEmpty == FlattenSeq(<<>>) = <<>>
  BY FlattenDef

\* What comes last is joined last.
LEMMA FlattenAppend ==
  ASSUME NEW S, NEW seqs \in Seq(Seq(S)), NEW s \in Seq(S)
  PROVE  FlattenSeq(Append(seqs, s)) = FlattenSeq(seqs) \o s
<1> DEFINE more == Append(seqs, s)
           n == Len(seqs)
           f == Flat(seqs)
           g == Flat(more)
<1>1. /\ more \in Seq(Seq(S)) /\ Len(more) = n + 1 /\ n \in Nat
      /\ more[n + 1] = s /\ \A i \in 1 .. n : more[i] = seqs[i]
  BY AppendProperties
<1>2. /\ \A i \in 1 .. n : f[i] = IF i = 1 THEN seqs[i] ELSE f[i - 1] \o seqs[i]
      /\ \A i \in 1 .. n : f[i] \in Seq(S)
  BY FlatIs
<1>3. \A i \in 1 .. n + 1 : g[i] = IF i = 1 THEN more[i] ELSE g[i - 1] \o more[i]
  BY <1>1, FlatIs
<1>d. FlattenSeq(more) = IF Len(more) = 0 THEN more ELSE g[Len(more)]
  BY FlattenDef, Zenon
<1>5. FlattenSeq(seqs) = IF n = 0 THEN seqs ELSE f[n]
  BY FlattenDef
<1> HIDE DEF more, f, g, n
<1>4. FlattenSeq(more) = g[n + 1]
  BY <1>1, <1>d
<1>6. \A i \in 1 .. n : g[i] = f[i]
  <2> DEFINE Bad == {i \in 1 .. n : g[i] # f[i]}
  <2>1. SUFFICES ASSUME Bad # {} PROVE FALSE
    OBVIOUS
  <2>a. Bad \subseteq Nat
    BY <1>1
  <2>2. PICK i \in Bad : \A j \in Bad : i <= j
    BY <2>1, <2>a, Smallest
  <2>3. i \in 1 .. n /\ g[i] # f[i]
    BY <2>2
  <2>4. ASSUME i # 1 PROVE i - 1 \in 1 .. n /\ ~(i <= i - 1)
    BY <1>1, <2>3, <2>4
  <2>5. i # 1 => g[i - 1] = f[i - 1]
    BY <2>2, <2>4
  <2>6. i \in 1 .. n + 1 /\ more[i] = seqs[i]
    BY <1>1, <2>3
  <2>7. QED
    BY <1>2, <1>3, <2>3, <2>5, <2>6
<1>7. CASE n = 0
  <2>1. seqs = <<>>
    BY <1>7, EmptySeq DEF n
  <2>2. g[n + 1] = s
    BY <1>1, <1>3, <1>7
  <2>3. QED
    BY <1>4, <1>5, <1>7, <2>1, <2>2, ConcatEmptySeq DEF more
<1>8. CASE n # 0
  <2>1. n + 1 \in 1 .. n + 1 /\ n + 1 # 1 /\ n \in 1 .. n /\ n + 1 - 1 = n
    BY <1>1, <1>8
  <2>a. g[n + 1] = g[n] \o more[n + 1]
    <3>1. PICK m \in 1 .. n + 1 : m = n + 1
      BY <2>1
    <3>2. m # 1 /\ m - 1 = n
      BY <2>1, <3>1
    <3>3. g[m] = g[m - 1] \o more[m]
      BY <1>3, <3>2
    <3>4. QED
      BY <3>1, <3>2, <3>3
  <2>2. g[n + 1] = f[n] \o s
    BY <1>1, <1>6, <2>1, <2>a
  <2>3. QED
    BY <1>4, <1>5, <1>8, <2>2 DEF more
<1>9. QED
  BY <1>7, <1>8

\* The first n sequences, joined.
FlattenFirst(seqs, n) == FlattenSeq(SubSeq(seqs, 1, n))

LEMMA FirstSeqs ==
  ASSUME NEW T, NEW seqs \in Seq(T), NEW n \in 0 .. Len(seqs)
  PROVE  /\ SubSeq(seqs, 1, n) \in Seq(T)
         /\ Len(SubSeq(seqs, 1, n)) = n
         /\ \A i \in 1 .. n : SubSeq(seqs, 1, n)[i] = seqs[i]
<1>1. \A i \in 1 .. n : seqs[i] \in T
  BY ElementOfSeq
<1>2. QED
  BY <1>1, SubSeqProperties

LEMMA FirstType ==
  ASSUME NEW S, NEW seqs \in Seq(Seq(S)), NEW n \in 0 .. Len(seqs)
  PROVE  FlattenFirst(seqs, n) \in Seq(S)
  BY FirstSeqs, FlattenType DEF FlattenFirst

LEMMA FirstNone ==
  ASSUME NEW S, NEW seqs \in Seq(Seq(S))
  PROVE  FlattenFirst(seqs, 0) = <<>>
<1>1. SubSeq(seqs, 1, 0) = <<>>
  BY SubSeqEmpty
<1>2. QED
  BY <1>1, FlattenEmpty DEF FlattenFirst

LEMMA FirstNext ==
  ASSUME NEW S, NEW seqs \in Seq(Seq(S)), NEW n \in 0 .. Len(seqs), n # Len(seqs)
  PROVE  FlattenFirst(seqs, n + 1) = FlattenFirst(seqs, n) \o seqs[n + 1]
<1> DEFINE a == SubSeq(seqs, 1, n)
           b == SubSeq(seqs, 1, n + 1)
<1>1. n + 1 \in 0 .. Len(seqs) /\ n + 1 \in 1 .. Len(seqs) /\ n \in Nat
  OBVIOUS
<1>2. seqs[n + 1] \in Seq(S)
  BY <1>1, ElementOfSeq
<1>3. /\ a \in Seq(Seq(S)) /\ Len(a) = n /\ \A i \in 1 .. n : a[i] = seqs[i]
  BY FirstSeqs
<1>4. b \in Seq(Seq(S)) /\ Len(b) = n + 1 /\ \A i \in 1 .. n + 1 : b[i] = seqs[i]
  BY <1>1, FirstSeqs
<1> HIDE DEF a, b
<1>5. b = Append(a, seqs[n + 1])
  <2> DEFINE e == seqs[n + 1]
             c == Append(a, e)
  <2> HIDE DEF e
  <2>0. e \in Seq(S)
    BY <1>2 DEF e
  <2>1. /\ c \in Seq(Seq(S)) /\ Len(c) = Len(a) + 1
        /\ \A i \in 1 .. Len(a) : c[i] = a[i]
        /\ c[Len(a) + 1] = e
    BY <1>3, <2>0, AppendProperties
  <2> HIDE DEF c
  <2>2. ASSUME NEW i \in 1 .. n + 1 PROVE b[i] = c[i]
    <3>1. CASE i = n + 1
      BY <1>3, <1>4, <2>1, <3>1 DEF e
    <3>2. CASE i # n + 1
      <4>1. i \in 1 .. n
        BY <1>1, <3>2
      <4>2. QED
        BY <1>3, <1>4, <2>1, <4>1
    <3>3. QED
      BY <3>1, <3>2
  <2>3. Len(c) = n + 1
    BY <1>3, <2>1
  <2>4. b = c
    BY <1>4, <2>1, <2>2, <2>3, SeqEqual
  <2>5. QED
    BY <2>4 DEF c, e
<1>6. FlattenSeq(b) = FlattenSeq(a) \o seqs[n + 1]
  BY <1>2, <1>3, <1>5, FlattenAppend
<1>7. QED
  BY <1>6 DEF FlattenFirst, a, b

LEMMA FirstAll ==
  ASSUME NEW S, NEW seqs \in Seq(Seq(S))
  PROVE  FlattenFirst(seqs, Len(seqs)) = FlattenSeq(seqs)
  BY SubSeqFull DEF FlattenFirst

\* What comes first is at the beginning of the whole.
LEMMA FirstMore ==
  ASSUME NEW S, NEW seqs \in Seq(Seq(S)), NEW m \in 0 .. Len(seqs), NEW n \in m .. Len(seqs)
  PROVE  \E more \in Seq(S) : FlattenFirst(seqs, n) = FlattenFirst(seqs, m) \o more
<1> DEFINE Good(k) == \E more \in Seq(S) : FlattenFirst(seqs, k) = FlattenFirst(seqs, m) \o more
           Bad == {k \in m .. Len(seqs) : ~Good(k)}
<1>1. SUFFICES ASSUME Bad # {} PROVE FALSE
  OBVIOUS
<1>2. Bad \subseteq Nat /\ m \in Nat /\ Len(seqs) \in Nat
  OBVIOUS
<1>3. PICK k \in Bad : \A l \in Bad : k <= l
  BY <1>1, <1>2, Smallest
<1>4. k \in m .. Len(seqs) /\ ~Good(k)
  BY <1>3
<1>5. k # m
  <2>1. FlattenFirst(seqs, m) \in Seq(S) /\ <<>> \in Seq(S)
    BY FirstType, EmptySeq
  <2>2. FlattenFirst(seqs, m) = FlattenFirst(seqs, m) \o <<>>
    BY <2>1, ConcatEmptySeq
  <2>3. QED
    BY <1>4, <2>1, <2>2
<1>6. PICK l \in m .. Len(seqs) : k = l + 1
  BY <1>2, <1>4, <1>5
<1>7. Good(l) /\ l \in 0 .. Len(seqs) /\ l # Len(seqs) /\ l + 1 \in 1 .. Len(seqs)
  <2>1. ~(k <= l)
    BY <1>2, <1>6
  <2>2. l \notin Bad
    BY <1>3, <2>1
  <2>3. l \in 0 .. Len(seqs) /\ l # Len(seqs) /\ l + 1 \in 1 .. Len(seqs)
    BY <1>2, <1>4, <1>6
  <2>4. Good(l)
    BY <2>2
  <2>5. QED
    BY <2>3, <2>4
<1>8. PICK more \in Seq(S) : FlattenFirst(seqs, l) = FlattenFirst(seqs, m) \o more
  BY <1>7
<1>9. FlattenFirst(seqs, l + 1) = (FlattenFirst(seqs, m) \o more) \o seqs[l + 1]
  BY <1>7, <1>8, FirstNext
<1>10. seqs[l + 1] \in Seq(S) /\ FlattenFirst(seqs, m) \in Seq(S)
  BY <1>7, ElementOfSeq, FirstType
<1>11. (FlattenFirst(seqs, m) \o more) \o seqs[l + 1] = FlattenFirst(seqs, m) \o (more \o seqs[l + 1])
  <2> DEFINE a == FlattenFirst(seqs, m)
             b == seqs[l + 1]
  <2>1. a \in Seq(S) /\ more \in Seq(S) /\ b \in Seq(S)
    BY <1>10
  <2> HIDE DEF a, b
  <2>2. (a \o more) \o b = a \o (more \o b)
    BY SMTT(30), <2>1, ConcatAssociative
  <2>3. QED
    BY <2>2 DEF a, b
<1>12. more \o seqs[l + 1] \in Seq(S)
  BY <1>10, ConcatProperties
<1>13. QED
  BY <1>4, <1>6, <1>9, <1>11, <1>12

LEMMA FirstSame ==
  ASSUME NEW S, NEW seqs \in Seq(Seq(S)), NEW others \in Seq(Seq(S)),
         NEW n \in 0 .. Len(seqs), n <= Len(others), \A i \in 1 .. n : seqs[i] = others[i]
  PROVE  FlattenFirst(seqs, n) = FlattenFirst(others, n)
<1>1. n \in 0 .. Len(others)
  OBVIOUS
<1>2. SubSeq(seqs, 1, n) = SubSeq(others, 1, n)
  <2> DEFINE a == SubSeq(seqs, 1, n)
             b == SubSeq(others, 1, n)
  <2>1. a \in Seq(Seq(S)) /\ Len(a) = n /\ \A i \in 1 .. n : a[i] = seqs[i]
    BY FirstSeqs
  <2>2. b \in Seq(Seq(S)) /\ Len(b) = n /\ \A i \in 1 .. n : b[i] = others[i]
    BY <1>1, FirstSeqs
  <2> HIDE DEF a, b
  <2>3. a = b
    BY <2>1, <2>2, SeqEqual
  <2>4. QED
    BY <2>3 DEF a, b
<1>3. QED
  BY <1>2 DEF FlattenFirst

-----------------------------------------------------------------------------
(* Parts of a sequence.                                                    *)

LEMMA Halves ==
  ASSUME NEW S, NEW s \in Seq(S), NEW t \in Seq(S)
  PROVE  /\ SubSeq(s \o t, 1, Len(s)) = s
         /\ SubSeq(s \o t, Len(s) + 1, Len(s \o t)) = t
<1> DEFINE w == s \o t
           a == SubSeq(w, 1, Len(s))
           b == SubSeq(w, Len(s) + 1, Len(w))
<1>1. /\ w \in Seq(S) /\ Len(w) = Len(s) + Len(t) /\ Len(s) \in Nat /\ Len(t) \in Nat
      /\ \A i \in 1 .. Len(s) + Len(t) : w[i] = IF i <= Len(s) THEN s[i] ELSE t[i - Len(s)]
  BY ConcatProperties
<1> HIDE DEF w
<1>2. \A i \in 1 .. Len(w) : w[i] \in S
  BY <1>1, ElementOfSeq
<1>3. /\ a \in Seq(S) /\ Len(a) = Len(s)
      /\ \A i \in 1 .. Len(s) : a[i] = w[i]
  BY <1>1, <1>2, SubSeqProperties
<1>4. /\ b \in Seq(S) /\ Len(b) = Len(t)
      /\ \A i \in 1 .. Len(t) : b[i] = w[Len(s) + i]
  <2>1. /\ b \in Seq(S)
        /\ Len(b) = IF Len(s) + 1 <= Len(w) THEN Len(w) - (Len(s) + 1) + 1 ELSE 0
        /\ \A i \in 1 .. Len(w) - (Len(s) + 1) + 1 : b[i] = w[Len(s) + 1 + i - 1]
    BY <1>1, <1>2, SubSeqProperties
  <2>2. \A i \in 1 .. Len(t) : Len(s) + 1 + i - 1 = Len(s) + i
    BY <1>1
  <2>3. QED
    BY <1>1, <2>1, <2>2
<1> HIDE DEF a, b
<1>5. a = s
  BY <1>1, <1>3, SeqEqual
<1>6. b = t
  <2>1. ASSUME NEW i \in 1 .. Len(b) PROVE b[i] = t[i]
    <3>1. /\ i \in 1 .. Len(t) /\ Len(s) + i \in 1 .. Len(s) + Len(t)
          /\ ~(Len(s) + i <= Len(s)) /\ Len(s) + i - Len(s) = i
      BY <1>1, <1>4
    <3>2. b[i] = w[Len(s) + i]
      BY <1>4, <3>1
    <3>3. QED
      BY <1>1, <3>1, <3>2
  <2>2. QED
    BY <1>1, <1>4, <2>1, SeqEqual
<1>7. QED
  BY <1>5, <1>6 DEF a, b, w

\* What is between two others.
LEMMA Middle ==
  ASSUME NEW S, NEW s \in Seq(S), NEW t \in Seq(S), NEW u \in Seq(S)
  PROVE  SubSeq(s \o t \o u, Len(s) + 1, Len(s) + Len(t)) = t
<1> DEFINE w == s \o t \o u
           b == SubSeq(w, Len(s) + 1, Len(s) + Len(t))
<1>1. /\ w \in Seq(S) /\ Len(w) = Len(s) + Len(t) + Len(u)
      /\ Len(s) \in Nat /\ Len(t) \in Nat /\ Len(u) \in Nat
      /\ \A i \in 1 .. Len(t) : w[Len(s) + i] = t[i]
  <2>1. /\ s \o t \in Seq(S) /\ Len(s \o t) = Len(s) + Len(t)
        /\ Len(s) \in Nat /\ Len(t) \in Nat /\ Len(u) \in Nat
        /\ \A i \in 1 .. Len(s) + Len(t) : (s \o t)[i] = IF i <= Len(s) THEN s[i] ELSE t[i - Len(s)]
    BY ConcatProperties
  <2>2. /\ w \in Seq(S) /\ Len(w) = Len(s) + Len(t) + Len(u)
        /\ \A i \in 1 .. Len(s) + Len(t) + Len(u) :
             w[i] = IF i <= Len(s) + Len(t) THEN (s \o t)[i] ELSE u[i - (Len(s) + Len(t))]
    <3> DEFINE v == s \o t
    <3>1. v \in Seq(S) /\ Len(v) = Len(s) + Len(t) /\ w = v \o u
      BY <2>1
    <3> HIDE DEF v, w
    <3>2. /\ v \o u \in Seq(S) /\ Len(v \o u) = Len(v) + Len(u)
          /\ \A i \in 1 .. Len(v) + Len(u) : (v \o u)[i] = IF i <= Len(v) THEN v[i] ELSE u[i - Len(v)]
      <4>1. v \in Seq(S) /\ u \in Seq(S)
        BY <3>1
      <4>2. QED
        BY <4>1, ConcatProperties
    <3>3. QED
      BY <3>1, <3>2 DEF v
  <2> HIDE DEF w
  <2>3. ASSUME NEW i \in 1 .. Len(t) PROVE w[Len(s) + i] = t[i]
    <3>1. /\ Len(s) + i \in 1 .. Len(s) + Len(t) /\ ~(Len(s) + i <= Len(s))
          /\ Len(s) + i \in 1 .. Len(s) + Len(t) + Len(u) /\ Len(s) + i - Len(s) = i
          /\ Len(s) + i <= Len(s) + Len(t)
      BY <2>1
    <3>2. w[Len(s) + i] = (s \o t)[Len(s) + i]
      BY <2>2, <3>1
    <3>3. QED
      BY <2>1, <3>1, <3>2
  <2>4. QED
    BY <2>1, <2>2, <2>3
<1> HIDE DEF w
<1>2. \A i \in 1 .. Len(w) : w[i] \in S
  BY <1>1, ElementOfSeq
<1>3. /\ b \in Seq(S) /\ Len(b) = Len(t)
      /\ \A i \in 1 .. Len(t) : b[i] = t[i]
  <2>1. \A i \in Len(s) + 1 .. Len(s) + Len(t) : w[i] \in S
    BY <1>1, <1>2
  <2>2. /\ b \in Seq(S)
        /\ Len(b) = IF Len(s) + 1 <= Len(s) + Len(t) THEN Len(s) + Len(t) - (Len(s) + 1) + 1 ELSE 0
        /\ \A i \in 1 .. Len(s) + Len(t) - (Len(s) + 1) + 1 : b[i] = w[Len(s) + 1 + i - 1]
    BY <1>1, <2>1, SubSeqProperties
  <2> HIDE DEF b
  <2>3. \A i \in 1 .. Len(t) : /\ Len(s) + 1 + i - 1 = Len(s) + i
                               /\ i \in 1 .. Len(s) + Len(t) - (Len(s) + 1) + 1
    BY <1>1
  <2>4. Len(b) = Len(t)
    BY <1>1, <2>2
  <2>5. ASSUME NEW i \in 1 .. Len(t) PROVE b[i] = t[i]
    BY <1>1, <2>2, <2>3
  <2>6. QED
    BY <2>2, <2>4, <2>5
<1> HIDE DEF b
<1>4. b = t
  BY <1>1, <1>3, SeqEqual
<1>5. QED
  BY <1>4 DEF b, w

LEMMA Parts ==
  ASSUME NEW S, NEW s \in Seq(S), NEW n \in 0 .. Len(s)
  PROVE  /\ SubSeq(s, 1, n) \o SubSeq(s, n + 1, Len(s)) = s
         /\ SubSeq(s, 1, n) \in Seq(S) /\ Len(SubSeq(s, 1, n)) = n
         /\ SubSeq(s, n + 1, Len(s)) \in Seq(S) /\ Len(SubSeq(s, n + 1, Len(s))) = Len(s) - n
<1>1. SubSeq(s, 1, n) \o SubSeq(s, n + 1, Len(s)) = SubSeq(s, 1, Len(s))
  <2>1. /\ Len(s) \in Nat /\ 1 \in 1 .. Len(s) + 1 /\ n \in 1 - 1 .. Len(s)
        /\ Len(s) \in n .. Len(s)
    OBVIOUS
  <2>2. QED
    BY <2>1, ConcatAdjacentSubSeq
<1>2. SubSeq(s, 1, Len(s)) = s
  BY SubSeqFull
<1>3. \A i \in 1 .. Len(s) : s[i] \in S
  BY ElementOfSeq
<1>4. /\ SubSeq(s, n + 1, Len(s)) \in Seq(S)
      /\ Len(SubSeq(s, n + 1, Len(s))) =
           IF n + 1 <= Len(s) THEN Len(s) - (n + 1) + 1 ELSE 0
  <2>1. n + 1 \in Int /\ Len(s) \in Int /\ \A i \in n + 1 .. Len(s) : s[i] \in S
    BY <1>3
  <2>2. QED
    BY <2>1, SubSeqProperties
<1>5. SubSeq(s, 1, n) \in Seq(S) /\ Len(SubSeq(s, 1, n)) = n
  BY FirstSeqs
<1>6. Len(SubSeq(s, n + 1, Len(s))) = Len(s) - n
  <2>1. Len(s) \in Nat /\ n \in Nat /\ n <= Len(s)
    OBVIOUS
  <2>2. (IF n + 1 <= Len(s) THEN Len(s) - (n + 1) + 1 ELSE 0) = Len(s) - n
    BY <2>1
  <2>3. QED
    BY <1>4, <2>2
<1>7. QED
  BY <1>1, <1>2, <1>4, <1>5, <1>6

LEMMA PrefixOfConcat ==
  ASSUME NEW S, NEW s \in Seq(S), NEW t \in Seq(S)
  PROVE  IsPrefix(s, s \o t)
<1>1. Len(s) <= Len(s \o t)
  BY ConcatProperties
<1>2. SubSeq(s, 1, Len(s)) = SubSeq(s \o t, 1, Len(s))
  BY Halves, SubSeqFull
<1>3. QED
  BY <1>1, <1>2 DEF IsPrefix

LEMMA One ==
  ASSUME NEW S, NEW a \in S
  PROVE  <<a>> \in Seq(S) /\ Len(<<a>>) = 1 /\ <<a>>[1] = a
  OBVIOUS

LEMMA Two ==
  ASSUME NEW S, NEW a \in S, NEW b \in S
  PROVE  <<a, b>> \in Seq(S) /\ Len(<<a, b>>) = 2 /\ <<a, b>>[1] = a /\ <<a, b>>[2] = b
  OBVIOUS

LEMMA FunctionIsSeq ==
  ASSUME NEW S, NEW n \in Nat, NEW f \in [1 .. n -> S]
  PROVE  f \in Seq(S) /\ Len(f) = n
<1>1. f \in Seq(S)
  BY SeqDef
<1>2. DOMAIN f = 1 .. n /\ DOMAIN f = 1 .. Len(f) /\ Len(f) \in Nat
  BY <1>1, LenProperties
<1>3. QED
  BY <1>1, <1>2

LEMMA ConcatIs ==
  ASSUME NEW S, NEW s \in Seq(S), NEW t \in Seq(S)
  PROVE  /\ s \o t \in Seq(S)
         /\ Len(s \o t) = Len(s) + Len(t)
         /\ Len(s) \in Nat /\ Len(t) \in Nat /\ Len(s \o t) \in Nat
<1>1. Len(s) \in Nat /\ Len(t) \in Nat
  BY LenProperties
<1>2. s \o t \in Seq(S) /\ Len(s \o t) = Len(s) + Len(t)
  BY ConcatProperties
<1>3. Len(s) + Len(t) \in Nat
  BY <1>1
<1>4. QED
  BY <1>1, <1>2, <1>3

LEMMA AtLeft ==
  ASSUME NEW S, NEW s \in Seq(S), NEW t \in Seq(S), NEW i \in 1 .. Len(s)
  PROVE  (s \o t)[i] = s[i]
<1>1. i \in 1 .. Len(s) + Len(t) /\ i <= Len(s)
  BY ConcatIs
<1>2. QED
  BY <1>1, ConcatProperties

LEMMA AtRight ==
  ASSUME NEW S, NEW s \in Seq(S), NEW t \in Seq(S), NEW i \in 1 .. Len(t)
  PROVE  (s \o t)[Len(s) + i] = t[i]
<1>1. PICK j \in 1 .. Len(s) + Len(t) : j = Len(s) + i
  BY ConcatIs
<1>2. ~(j <= Len(s)) /\ j - Len(s) = i
  BY <1>1, ConcatIs
<1>3. (s \o t)[j] = t[j - Len(s)]
  BY <1>2, ConcatProperties
<1>4. QED
  BY <1>1, <1>2, <1>3
===============================================================================
