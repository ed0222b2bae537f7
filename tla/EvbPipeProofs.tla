----------------------------- MODULE EvbPipeProofs ----------------------------
(***************************************************************************)
(* Theorems about evbfilter and tsvalidate for every set of items, input,  *)
(* limit and command line, and every way the output is cut up.             *)
(***************************************************************************)
EXTENDS EvbPipe, SequenceLemmas, FiniteSetTheorems

-----------------------------------------------------------------------------
(* The words of an item.                                                   *)

Word == {"size", "type", "data", "header", "time", "stale"} \X
          (Int \cup {e.type : e \in Items})

\* The words that are missing at the end are filled up.
Padded(s, n) == SubSeq(s, 1, Len(s) - n) \o Stale(n)

\* The header of an item with n words after it.
Header(type, n) == <<<<"size", HeaderWords + n>>, <<"type", type>>>>

\* What comes before the fragment in the body of a built event.
Lead(e) == BodyHeader(e.outer, e.time) \o
             <<<<"size", FragmentWords + Len(Fragment(e)) + 1>>>> \o Filler(FragmentWords)

\* What comes after the header of an item as it should be written.
Rest(e) == IF e.type = "event" THEN BodyHeader(e.inner, e.time) \o Filler(e.body)
                               ELSE Filler(e.body)

LEMMA WordIs ==
  ASSUME NEW n \in Int
  PROVE  /\ <<"size", n>> \in Word /\ <<"header", n>> \in Word /\ <<"time", n>> \in Word
         /\ <<"data", n>> \in Word /\ <<"stale", n>> \in Word
  BY DEF Word

LEMMA TypeWord ==
  ASSUME NEW e \in Items
  PROVE  <<"type", e.type>> \in Word
  BY DEF Word

LEMMA Regroup == \A s, t, u \in Seq(Word) : (s \o t) \o u = s \o (t \o u)
  BY ConcatAssociative

LEMMA FillerIs ==
  ASSUME NEW n \in Nat
  PROVE  /\ Filler(n) \in Seq(Word) /\ Len(Filler(n)) = n
         /\ Stale(n) \in Seq(Word) /\ Len(Stale(n)) = n
<1>1. ASSUME NEW i \in 1 .. n PROVE <<"data", i>> \in Word /\ <<"stale", 0>> \in Word
  <2>1. i \in Int /\ 0 \in Int
    OBVIOUS
  <2>2. QED
    BY <2>1, WordIs
<1>2. Filler(n) \in [1 .. n -> Word] /\ Stale(n) \in [1 .. n -> Word]
  BY <1>1 DEF Filler, Stale
<1>3. QED
  BY <1>2, FunctionIsSeq

LEMMA HeaderIs ==
  ASSUME NEW e \in Items, NEW n \in Nat
  PROVE  /\ Header(e.type, n) \in Seq(Word) /\ Len(Header(e.type, n)) = HeaderWords
         /\ Header(e.type, n)[1][2] = HeaderWords + n /\ Header(e.type, n)[2][2] = e.type
<1>1. <<"size", HeaderWords + n>> \in Word /\ <<"type", e.type>> \in Word
  <2>1. HeaderWords + n \in Int
    BY DEF HeaderWords
  <2>2. QED
    BY <2>1, WordIs, TypeWord
<1> DEFINE a == <<"size", HeaderWords + n>>
           b == <<"type", e.type>>
<1>2. a \in Word /\ b \in Word /\ a[2] = HeaderWords + n /\ b[2] = e.type
  BY <1>1
<1>3. Header(e.type, n) = <<a, b>>
  BY DEF Header
<1> HIDE DEF a, b
<1>4. <<a, b>> \in Seq(Word) /\ Len(<<a, b>>) = 2 /\ <<a, b>>[1] = a /\ <<a, b>>[2] = b
  BY <1>2, Two
<1>5. QED
  BY <1>2, <1>3, <1>4 DEF HeaderWords

LEMMA BodyHeaderIs ==
  ASSUME NEW n \in {0, 1, BodyHeaderWords}, NEW time \in Nat
  PROVE  /\ BodyHeader(n, time) \in Seq(Word)
         /\ Len(BodyHeader(n, time)) = IF n = 0 THEN 1 ELSE n
         /\ BodyHeader(n, time)[1][2] = n
         /\ n = BodyHeaderWords => BodyHeader(n, time)[2][2] = time
<1> DEFINE h == <<<<"header", n>>>>
           t == <<<<"time", time>>>>
           f == Filler(3)
<1>0. <<"header", n>> \in Word /\ <<"time", time>> \in Word
  <2>1. n \in Int /\ time \in Int
    BY DEF BodyHeaderWords
  <2>2. QED
    BY <2>1, WordIs
<1>1. h \in Seq(Word) /\ Len(h) = 1 /\ h[1] = <<"header", n>>
  BY <1>0, One
<1>2. t \in Seq(Word) /\ Len(t) = 1 /\ t[1] = <<"time", time>>
  BY <1>0, One
<1>3. f \in Seq(Word) /\ Len(f) = 3
  BY FillerIs
<1> HIDE DEF h, t, f
<1>4. CASE n = BodyHeaderWords
  <2> DEFINE r == t \o f
  <2>1. BodyHeader(n, time) = h \o r
    BY <1>4 DEF BodyHeader, h, t, f
  <2>2. r \in Seq(Word) /\ Len(r) = Len(t) + Len(f)
    BY <1>2, <1>3, ConcatIs
  <2>3. 1 \in 1 .. Len(t) /\ 1 \in 1 .. Len(r) /\ 1 \in 1 .. Len(h)
    BY <1>1, <1>2, <1>3, <2>2
  <2>4. r[1] = t[1]
    BY <1>2, <1>3, <2>3, AtLeft
  <2> HIDE DEF r
  <2>5. h \o r \in Seq(Word) /\ Len(h \o r) = Len(h) + Len(r)
    BY <1>1, <2>2, ConcatIs
  <2>a. (h \o r)[1] = h[1]
    BY <1>1, <2>2, <2>3, AtLeft
  <2>6. (h \o r)[Len(h) + 1] = r[1]
    BY SMTT(30), <1>1, <2>2, <2>3, AtRight
  <2>7. Len(h) + 1 = 2 /\ Len(h \o r) = BodyHeaderWords
    BY <1>1, <1>2, <1>3, <2>2, <2>5 DEF BodyHeaderWords
  <2>8. (h \o r)[2] = <<"time", time>>
    BY <1>2, <2>4, <2>6, <2>7
  <2>9. BodyHeader(n, time)[1][2] = n /\ BodyHeader(n, time)[2][2] = time
    <3>1. <<"header", n>>[2] = n /\ <<"time", time>>[2] = time
      OBVIOUS
    <3>2. QED
      BY <1>1, <2>1, <2>8, <2>a, <3>1
  <2>10. BodyHeader(n, time) \in Seq(Word)
    BY <2>1, <2>5
  <2>11. Len(BodyHeader(n, time)) = n
    BY <1>4, <2>1, <2>7
  <2>12. n # 0
    BY <1>4 DEF BodyHeaderWords
  <2>13. QED
    BY <2>9, <2>10, <2>11, <2>12
<1>5. CASE n # BodyHeaderWords
  <2>1. BodyHeader(n, time) = h \o <<>>
    BY <1>5 DEF BodyHeader, h
  <2>2. h \o <<>> = h
    BY <1>1, ConcatEmptySeq
  <2>3. QED
    BY <1>1, <1>5, <2>1, <2>2 DEF BodyHeaderWords
<1>6. QED
  BY <1>4, <1>5

LEMMA ItemIs ==
  ASSUME NEW e \in Items
  PROVE  /\ e.body \in Nat
         /\ e.type = "event" => /\ e.outer \in {0, 1, BodyHeaderWords}
                                /\ e.inner \in {0, 1, BodyHeaderWords}
                                /\ e.time \in Nat \ {0} /\ 1 + e.body >= BodyHeaderWords
         /\ e.type # "event" => e.body # 0
  BY ItemAssumption

\* The rest of an item, and where its time is.
LEMMA RestIs ==
  ASSUME NEW e \in Items
  PROVE  /\ Rest(e) \in Seq(Word) /\ Len(Rest(e)) >= e.body
         /\ Plain(e) = Header(e.type, Len(Rest(e))) \o Rest(e)
         /\ e.type # "event" => Len(Rest(e)) = e.body
         /\ e.type = "event" => /\ Len(Rest(e)) >= BodyHeaderWords
                                /\ Plain(e) = Fragment(e)
<1>1. e.body \in Nat /\ Filler(e.body) \in Seq(Word) /\ Len(Filler(e.body)) = e.body
  BY ItemIs, FillerIs
<1>2. CASE e.type = "event"
  <2> DEFINE b == BodyHeader(e.inner, e.time)
             f == Filler(e.body)
  <2>1. b \in Seq(Word) /\ Len(b) >= 1 /\ Len(b) \in Nat
    <3>1. e.inner \in {0, 1, BodyHeaderWords} /\ e.time \in Nat
      BY <1>2, ItemIs
    <3>2. b \in Seq(Word) /\ Len(b) = IF e.inner = 0 THEN 1 ELSE e.inner
      BY <3>1, BodyHeaderIs
    <3>3. QED
      BY <3>1, <3>2 DEF BodyHeaderWords
  <2>2. f \in Seq(Word) /\ Len(f) = e.body
    BY <1>1
  <2>3. Rest(e) = b \o f
    BY <1>2 DEF Rest
  <2>4. Plain(e) = Header(e.type, Len(b \o f)) \o (b \o f) /\ Plain(e) = Fragment(e)
    BY <1>2 DEF Plain, Fragment, RingItem, Header
  <2> HIDE DEF b, f
  <2>5. b \o f \in Seq(Word) /\ Len(b \o f) = Len(b) + Len(f)
    BY <2>1, <2>2, ConcatProperties
  <2>6. 1 + e.body >= BodyHeaderWords
    BY <1>2, ItemIs
  <2>7. QED
    BY SMTT(30), <1>1, <1>2, <2>1, <2>2, <2>3, <2>4, <2>5, <2>6 DEF BodyHeaderWords
<1>3. CASE e.type # "event"
  <2>1. Rest(e) = Filler(e.body)
    BY <1>3 DEF Rest
  <2>2. Plain(e) = Header(e.type, Len(Filler(e.body))) \o Filler(e.body)
    BY <1>3 DEF Plain, Built, RingItem, Header
  <2>3. QED
    BY <1>1, <1>3, <2>1, <2>2
<1>4. QED
  BY <1>2, <1>3

LEMMA LeadIs ==
  ASSUME NEW e \in Items, e.type = "event"
  PROVE  /\ Lead(e) \in Seq(Word)
         /\ Len(Lead(e)) \in Nat \ {0} /\ Lead(e)[1][2] = e.outer /\ e.outer \in Nat
         /\ e.outer # 0 => Len(Lead(e)) = e.outer + 1 + FragmentWords
         /\ Built(e) = Header(e.type, Len(Lead(e) \o Plain(e))) \o (Lead(e) \o Plain(e))
<1> DEFINE b == BodyHeader(e.outer, e.time)
           s == <<<<"size", FragmentWords + Len(Fragment(e)) + 1>>>>
           f == Filler(FragmentWords)
           t == Fragment(e)
<1>1. /\ b \in Seq(Word) /\ b[1][2] = e.outer /\ e.outer \in Nat
      /\ Len(b) = (IF e.outer = 0 THEN 1 ELSE e.outer)
  <2>1. e.outer \in {0, 1, BodyHeaderWords} /\ e.time \in Nat
    BY ItemIs
  <2>2. e.outer \in Nat
    BY <2>1 DEF BodyHeaderWords
  <2>3. QED
    BY <2>1, <2>2, BodyHeaderIs
<1>2. t \in Seq(Word) /\ t = Plain(e)
  <2>1. /\ Rest(e) \in Seq(Word) /\ Plain(e) = Header(e.type, Len(Rest(e))) \o Rest(e)
        /\ Plain(e) = t
    BY RestIs
  <2>2. Header(e.type, Len(Rest(e))) \in Seq(Word)
    <3>1. Len(Rest(e)) \in Nat
      BY <2>1, LenProperties
    <3>2. QED
      BY <3>1, HeaderIs
  <2>3. QED
    BY <2>1, <2>2, ConcatProperties
<1>3. s \in Seq(Word) /\ Len(s) = 1
  <2>1. FragmentWords + Len(t) + 1 \in Int
    BY <1>2 DEF FragmentWords
  <2>2. <<"size", FragmentWords + Len(t) + 1>> \in Word
    BY <2>1, WordIs
  <2>3. QED
    BY <2>2, One
<1>4. f \in Seq(Word) /\ Len(f) = FragmentWords
  BY FillerIs DEF FragmentWords
<1>5. Lead(e) = (b \o s) \o f
  BY DEF Lead
<1>6. /\ Built(e) = Header("event", Len(((b \o s) \o f) \o t)) \o (((b \o s) \o f) \o t)
  BY DEF Built, RingItem, Header
<1> HIDE DEF b, s, f, t
<1>7. b \o s \in Seq(Word) /\ Len(b \o s) = Len(b) + Len(s)
  BY <1>1, <1>3, ConcatIs
<1>8. (b \o s) \o f \in Seq(Word) /\ Len((b \o s) \o f) = Len(b \o s) + Len(f)
  BY <1>4, <1>7, ConcatIs
<1>9. /\ 1 \in 1 .. Len(b) /\ 1 \in 1 .. Len(b \o s)
      /\ Len((b \o s) \o f) \in Nat \ {0}
      /\ e.outer # 0 => Len((b \o s) \o f) = e.outer + 1 + FragmentWords
  BY <1>1, <1>3, <1>4, <1>7, <1>8 DEF FragmentWords
<1>10. (b \o s)[1] = b[1] /\ ((b \o s) \o f)[1] = (b \o s)[1]
  BY <1>1, <1>3, <1>4, <1>7, <1>9, AtLeft
<1>11. QED
  BY <1>1, <1>2, <1>5, <1>6, <1>8, <1>9, <1>10

-----------------------------------------------------------------------------
(* An item of which n words of the readout are missing.                    *)

LEMMA PaddedIs ==
  ASSUME NEW s \in Seq(Word), NEW n \in 0 .. Len(s)
  PROVE  /\ Padded(s, n) \in Seq(Word) /\ Len(Padded(s, n)) = Len(s)
         /\ \A i \in 1 .. Len(s) - n : Padded(s, n)[i] = s[i]
         /\ n = 0 => Padded(s, n) = s
<1> DEFINE a == SubSeq(s, 1, Len(s) - n)
           b == Stale(n)
<1>1. Len(s) \in Nat /\ Len(s) - n \in 0 .. Len(s) /\ n \in Nat
  BY LenProperties
<1>2. a \in Seq(Word) /\ Len(a) = Len(s) - n /\ \A i \in 1 .. Len(s) - n : a[i] = s[i]
  BY <1>1, FirstSeqs
<1>3. b \in Seq(Word) /\ Len(b) = n
  BY <1>1, FillerIs
<1>4. Padded(s, n) = a \o b
  BY DEF Padded
<1>5. CASE n = 0
  <2>1. a = s
    <3>1. Len(s) - n = Len(s)
      BY <1>1, <1>5
    <3>2. QED
      BY <3>1, SubSeqFull
  <2>2. b = <<>>
    BY <1>3, <1>5, EmptySeq
  <2>3. QED
    BY <1>2, <1>4, <2>1, <2>2, ConcatEmptySeq
<1>6. CASE n # 0
  <2> HIDE DEF a, b
  <2>1. a \o b \in Seq(Word) /\ Len(a \o b) = Len(a) + Len(b)
    BY <1>2, <1>3, ConcatIs
  <2>2. Len(a \o b) = Len(s)
    BY <1>1, <1>2, <1>3, <2>1
  <2>3. ASSUME NEW i \in 1 .. Len(s) - n PROVE (a \o b)[i] = s[i]
    <3>1. i \in 1 .. Len(a)
      BY <1>2
    <3>2. (a \o b)[i] = a[i]
      BY <1>2, <1>3, <3>1, AtLeft
    <3>3. QED
      BY <1>2, <3>2
  <2>4. QED
    BY <1>4, <1>6, <2>1, <2>2, <2>3
<1>7. QED
  BY <1>5, <1>6

LEMMA PaddedConcat ==
  ASSUME NEW s \in Seq(Word), NEW t \in Seq(Word), NEW n \in 0 .. Len(t)
  PROVE  Padded(s \o t, n) = s \o Padded(t, n)
<1> DEFINE a == SubSeq(t, 1, Len(t) - n)
           b == SubSeq(t, Len(t) - n + 1, Len(t))
           u == s \o a
<1>1. Len(t) \in Nat /\ Len(t) - n \in 0 .. Len(t) /\ n \in Nat
  BY LenProperties
<1>2. a \in Seq(Word) /\ Len(a) = Len(t) - n /\ b \in Seq(Word) /\ Len(b) = Len(t) - (Len(t) - n)
      /\ a \o b = t
  BY <1>1, Parts
<1>3. Padded(t, n) = a \o Stale(n)
  BY DEF Padded
<1>s. Stale(n) \in Seq(Word)
  BY <1>1, FillerIs
<1> HIDE DEF a, b
<1>4. u \in Seq(Word) /\ Len(u) = Len(s) + Len(a) /\ Len(s) \in Nat
  BY <1>2, ConcatIs
<1>5. s \o t = u \o b
  <2>1. s \in Seq(Word) /\ a \in Seq(Word) /\ b \in Seq(Word)
    BY <1>2
  <2>2. (s \o a) \o b = s \o (a \o b)
    BY <2>1, Regroup
  <2>3. QED
    BY <1>2, <2>2
<1>6. u \o Stale(n) = s \o (a \o Stale(n))
  <2> DEFINE v == Stale(n)
  <2>1. s \in Seq(Word) /\ a \in Seq(Word) /\ v \in Seq(Word)
    BY <1>2, <1>s
  <2> HIDE DEF v
  <2>2. (s \o a) \o v = s \o (a \o v)
    BY <2>1, Regroup
  <2>3. QED
    BY <2>2 DEF v
<1>7. Len(s \o t) = Len(s) + Len(t)
  BY ConcatIs
<1> HIDE DEF u
<1>8. SubSeq(u \o b, 1, Len(u)) = u
  BY <1>2, <1>4, Halves
<1>9. Len(s \o t) - n = Len(u)
  BY <1>1, <1>2, <1>4, <1>7
<1>10. Padded(s \o t, n) = u \o Stale(n)
  BY <1>5, <1>8, <1>9 DEF Padded
<1>11. QED
  BY <1>3, <1>6, <1>10

\* What is written of an item: as long as its size says, and its type and time,
\* which come before what may be missing.
LEMMA OutShape ==
  ASSUME NEW e \in Items, NEW c \in 0 .. e.body
  PROVE  LET o == Padded(Plain(e), c)
         IN  /\ o \in Seq(Word) /\ Len(o) = HeaderWords + Len(Rest(e))
             /\ o[1][2] = Len(o) /\ o[2][2] = e.type
             /\ o = Header(e.type, Len(Rest(e))) \o Padded(Rest(e), c)
             /\ Padded(Rest(e), c) \in Seq(Word) /\ Len(Padded(Rest(e), c)) = Len(Rest(e))
             /\ e.type = "event" =>
                  /\ Len(Rest(e)) >= BodyHeaderWords
                  /\ Padded(Rest(e), c)[1][2] = e.inner
                  /\ o[3][2] = e.inner
                  /\ e.inner = BodyHeaderWords => o[4][2] = e.time
<1> DEFINE r == Rest(e)
           h == Header(e.type, Len(Rest(e)))
           q == Padded(r, c)
           o == Padded(Plain(e), c)
<1>1. /\ r \in Seq(Word) /\ Len(r) \in Nat /\ e.body \in Nat /\ c \in 0 .. Len(r)
      /\ Plain(e) = h \o r
  BY ItemIs, RestIs, LenProperties
<1>2. /\ h \in Seq(Word) /\ Len(h) = HeaderWords
      /\ h[1][2] = HeaderWords + Len(r) /\ h[2][2] = e.type
  BY <1>1, HeaderIs
<1>3. q \in Seq(Word) /\ Len(q) = Len(r) /\ \A i \in 1 .. Len(r) - c : q[i] = r[i]
  BY <1>1, PaddedIs
<1>e. ASSUME e.type = "event"
      PROVE  Len(r) - c >= 1 /\ r[1][2] = e.inner /\ Len(r) >= BodyHeaderWords
             /\ (e.inner = BodyHeaderWords => r[2][2] = e.time /\ Len(r) - c >= 2)
  <2> DEFINE b == BodyHeader(e.inner, e.time)
             f == Filler(e.body)
  <2>1. b \in Seq(Word) /\ Len(b) = (IF e.inner = 0 THEN 1 ELSE e.inner)
        /\ b[1][2] = e.inner /\ (e.inner = BodyHeaderWords => b[2][2] = e.time)
    <3>1. e.inner \in {0, 1, BodyHeaderWords} /\ e.time \in Nat
      BY <1>e, ItemIs
    <3>2. QED
      BY <3>1, BodyHeaderIs
  <2>2. f \in Seq(Word) /\ Len(f) = e.body
    BY <1>1, FillerIs
  <2>3. r = b \o f
    BY <1>e DEF Rest
  <2>4. e.inner \in {0, 1, BodyHeaderWords} /\ Len(r) >= BodyHeaderWords
    BY <1>e, ItemIs, RestIs
  <2> HIDE DEF b, f, r
  <2>5. Len(r) = Len(b) + Len(f)
    BY <2>1, <2>2, <2>3, ConcatIs
  <2>6. 1 \in 1 .. Len(b) /\ (e.inner = BodyHeaderWords => 2 \in 1 .. Len(b))
    BY <2>1, <2>4 DEF BodyHeaderWords
  <2>7. r[1] = b[1] /\ (e.inner = BodyHeaderWords => r[2] = b[2])
    BY <2>1, <2>2, <2>3, <2>6, AtLeft
  <2>8. Len(r) - c >= 1 /\ (e.inner = BodyHeaderWords => Len(r) - c >= 2)
    BY SMTT(30), <1>1, <2>1, <2>2, <2>4, <2>5 DEF BodyHeaderWords
  <2>9. QED
    BY <2>1, <2>4, <2>7, <2>8
<1> HIDE DEF r, h, q
<1>4. o = h \o q
  BY <1>1, <1>2, PaddedConcat DEF q
<1>5. o \in Seq(Word) /\ Len(o) = HeaderWords + Len(r)
  <2>1. h \o q \in Seq(Word) /\ Len(h \o q) = Len(h) + Len(q)
    BY <1>2, <1>3, ConcatIs
  <2>2. QED
    BY <1>2, <1>3, <1>4, <2>1
<1> HIDE DEF o
<1>6. 1 \in 1 .. Len(h) /\ 2 \in 1 .. Len(h) /\ HeaderWords + 1 = 3 /\ HeaderWords + 2 = 4
  BY <1>2 DEF HeaderWords
<1>7. o[1] = h[1] /\ o[2] = h[2]
  BY <1>2, <1>3, <1>4, <1>6, AtLeft
<1>8. \A i \in 1 .. Len(q) : o[HeaderWords + i] = q[i]
  BY SMTT(30), <1>2, <1>3, <1>4, AtRight
<1>9. ASSUME e.type = "event"
      PROVE  /\ Len(r) >= BodyHeaderWords /\ q[1][2] = e.inner /\ o[3][2] = e.inner
             /\ e.inner = BodyHeaderWords => o[4][2] = e.time
  <2>1. 1 \in 1 .. Len(r) - c /\ 1 \in 1 .. Len(q)
        /\ (e.inner = BodyHeaderWords => 2 \in 1 .. Len(r) - c /\ 2 \in 1 .. Len(q))
    BY <1>1, <1>3, <1>e, <1>9
  <2>2. q[1] = r[1] /\ (e.inner = BodyHeaderWords => q[2] = r[2])
    BY <1>3, <2>1
  <2>3. o[HeaderWords + 1] = q[1] /\ (e.inner = BodyHeaderWords => o[HeaderWords + 2] = q[2])
    BY <1>8, <2>1
  <2>4. QED
    BY <1>6, <1>9, <1>e, <2>2, <2>3
<1>10. QED
  BY <1>2, <1>3, <1>4, <1>5, <1>7, <1>9 DEF o, q, r, h

\* What is read of an item: its header, and in an event what comes before the
\* fragment, then what is written of it.
LEMMA InShape ==
  ASSUME NEW e \in Items, NEW c \in 0 .. e.body, e.type # "event" => c < e.body
  PROVE  \E r \in Seq(Word) :
           /\ Padded(Built(e), c) = Header(e.type, Len(r)) \o r /\ c < Len(r)
           /\ e.type = "event" => r = Lead(e) \o Padded(Plain(e), c)
           /\ e.type # "event" => Padded(Plain(e), c) = Header(e.type, Len(r)) \o r
<1> DEFINE o == Padded(Plain(e), c)
           q == Padded(Rest(e), c)
           h == Header(e.type, Len(Rest(e)))
<1>1. /\ o \in Seq(Word) /\ Len(o) = HeaderWords + Len(Rest(e))
      /\ o = h \o q /\ q \in Seq(Word) /\ Len(q) = Len(Rest(e))
  BY OutShape
<1>2. /\ Rest(e) \in Seq(Word) /\ Len(Rest(e)) >= e.body /\ Plain(e) = h \o Rest(e)
      /\ Len(Rest(e)) \in Nat /\ e.body \in Nat
  BY ItemIs, RestIs, LenProperties
<1>3. CASE e.type = "event"
  <2> DEFINE l == Lead(e)
             g == Header(e.type, Len(l \o Plain(e)))
             r == l \o o
  <2>1. l \in Seq(Word) /\ Len(l) \in Nat \ {0} /\ Built(e) = g \o (l \o Plain(e))
    BY <1>3, LeadIs
  <2>2. h \in Seq(Word) /\ Len(h) = HeaderWords
    BY <1>2, HeaderIs
  <2>3. Plain(e) \in Seq(Word) /\ Len(Plain(e)) = HeaderWords + Len(Rest(e))
    <3>1. h \o Rest(e) \in Seq(Word) /\ Len(h \o Rest(e)) = Len(h) + Len(Rest(e))
      BY <1>2, <2>2, ConcatIs
    <3>2. QED
      BY <1>2, <2>2, <3>1
  <2>4. c \in 0 .. Len(Plain(e))
    BY <1>2, <2>3 DEF HeaderWords
  <2>5. l \o Plain(e) \in Seq(Word) /\ Len(l \o Plain(e)) = Len(l) + Len(Plain(e))
        /\ Len(l \o Plain(e)) \in Nat
    BY <2>1, <2>3, ConcatIs
  <2>6. g \in Seq(Word)
    BY <2>5, HeaderIs
  <2>7. c \in 0 .. Len(l \o Plain(e)) /\ Len(l) \in Nat /\ Len(Plain(e)) \in Nat
    <3>1. Len(l) \in Nat /\ Len(Plain(e)) \in Nat
      BY <2>1, <2>3, LenProperties
    <3>2. QED
      BY <2>4, <2>5, <3>1
  <2>8. Padded(l \o Plain(e), c) = r
    BY <2>1, <2>3, <2>4, PaddedConcat
  <2>9. Padded(Built(e), c) = g \o r
    BY <2>1, <2>5, <2>6, <2>7, <2>8, PaddedConcat
  <2>10. r \in Seq(Word) /\ Len(r) = Len(l) + Len(o)
    BY <1>1, <2>1, ConcatIs
  <2>11. Len(r) = Len(l \o Plain(e))
    BY <1>1, <2>3, <2>5, <2>10
  <2>12. c < Len(r)
    BY <1>1, <1>2, <2>7, <2>10 DEF HeaderWords
  <2>13. g = Header(e.type, Len(r))
    BY <2>11
  <2>14. QED
    BY <1>3, <2>9, <2>10, <2>12, <2>13
<1>4. CASE e.type # "event"
  <2>1. Built(e) = Plain(e)
    BY <1>4 DEF Plain
  <2>2. c < Len(q) /\ o = Header(e.type, Len(q)) \o q
    BY <1>1, <1>2, <1>4
  <2>3. QED
    BY <1>1, <1>4, <2>1, <2>2
<1>5. QED
  BY <1>3, <1>4

-----------------------------------------------------------------------------
(* The input and the output, item by item.                                 *)

\* How many words of an item are missing, and what is read and written of it.
Missing(i) == IF i = Len(Arrived) /\ Arrived = input.items THEN input.missing ELSE 0
InPieces   == [i \in 1 .. Len(Arrived) |-> Padded(Built(Arrived[i]), Missing(i))]
OutPieces  == [i \in 1 .. Len(Arrived) |-> Padded(Plain(Arrived[i]), Missing(i))]

Output(k)    == FlattenFirst(OutPieces, k)
OutOffset(k) == Len(Output(k))
InOffset(k)  == Len(FlattenFirst(InPieces, k))

LEMMA InputIs ==
  ASSUME input \in Inputs
  PROVE  /\ input.items \in Seq(Items) /\ input.missing \in Losses(input.items)
         /\ input.words = Stream(input.items, input.missing).words
<1>1. input.items \in Seq(Items) /\ input.missing \in Losses(input.items)
      /\ input = Stream(input.items, input.missing)
  BY InputAssumption
<1>2. QED
  BY <1>1

\* All items arrived, or all but the one of which there is only the header.
HeaderOnly ==
  /\ input.items # <<>>
  /\ input.missing = Len(Built(Last(input.items))) - HeaderWords

LEMMA ArrivedIs ==
  ASSUME input \in Inputs
  PROVE  /\ Arrived \in Seq(Items) /\ Len(Arrived) \in Nat
         /\ HeaderOnly => /\ Arrived = SubSeq(input.items, 1, Len(input.items) - 1)
                          /\ Len(input.items) \in Nat \ {0} /\ Arrived # input.items
                          /\ Len(Arrived) = Len(input.items) - 1
                          /\ \A i \in 1 .. Len(Arrived) : Arrived[i] = input.items[i]
         /\ ~HeaderOnly => Arrived = input.items
<1> DEFINE s == input.items
           n == Len(s)
           a == SubSeq(s, 1, n - 1)
<1>1. s \in Seq(Items) /\ n \in Nat
  BY InputIs, LenProperties
<1>2. CASE HeaderOnly
  <2>1. Arrived = a
    BY <1>2 DEF Arrived, HeaderOnly, Front
  <2>2. n # 0
    BY <1>1, <1>2, EmptySeq DEF HeaderOnly
  <2>3. n - 1 \in 0 .. n
    BY <1>1, <2>2
  <2>4. a \in Seq(Items) /\ Len(a) = n - 1 /\ \A i \in 1 .. n - 1 : a[i] = s[i]
    BY <1>1, <2>3, FirstSeqs
  <2>5. a # s
    BY <1>1, <2>4
  <2>6. n - 1 \in Nat /\ n \in Nat \ {0}
    BY <1>1, <2>2
  <2> HIDE DEF a
  <2>7. QED
    BY <1>2, <2>1, <2>4, <2>5, <2>6 DEF a
<1>3. CASE ~HeaderOnly
  <2>1. Arrived = s
    BY <1>3 DEF Arrived, HeaderOnly
  <2>2. QED
    BY <1>1, <1>3, <2>1
<1>4. QED
  BY <1>2, <1>3

LEMMA MissingIs ==
  ASSUME input \in Inputs, NEW i \in 1 .. Len(Arrived)
  PROVE  /\ Arrived[i] \in Items
         /\ Missing(i) \in 0 .. Arrived[i].body
         /\ Arrived[i].type # "event" => Missing(i) < Arrived[i].body
<1> DEFINE e == Arrived[i]
<1>1. e \in Items /\ Len(Arrived) \in Nat
  BY ArrivedIs, ElementOfSeq
<1>2. e.body \in Nat /\ (e.type # "event" => e.body # 0)
  BY <1>1, ItemIs
<1>3. CASE Missing(i) = 0
  BY <1>1, <1>2, <1>3
<1>4. CASE Missing(i) # 0
  <2>1. i = Len(Arrived) /\ Arrived = input.items /\ Missing(i) = input.missing
    BY <1>4 DEF Missing
  <2>2. ~HeaderOnly /\ input.items # <<>>
    BY <1>1, <2>1, ArrivedIs, EmptySeq
  <2>3. e = Last(input.items)
    BY <2>1 DEF Last
  <2>4. input.missing \in (0 .. e.body) \cup {Len(Built(e)) - HeaderWords}
    BY <2>2, <2>3, InputIs DEF Losses
  <2>5. input.missing \in 0 .. e.body /\ input.missing # Len(Built(e)) - HeaderWords
    BY <2>2, <2>3, <2>4 DEF HeaderOnly
  <2>6. ASSUME e.type # "event" PROVE input.missing # e.body
    <3> DEFINE r == Rest(e)
               h == Header(e.type, Len(r))
    <3>1. r \in Seq(Word) /\ Len(r) = e.body /\ Plain(e) = h \o r
      BY <1>1, <2>6, RestIs
    <3>2. h \in Seq(Word) /\ Len(h) = HeaderWords
      BY <1>1, <1>2, <3>1, HeaderIs
    <3> HIDE DEF r, h
    <3>3. Len(h \o r) = Len(h) + Len(r)
      BY <3>1, <3>2, ConcatIs
    <3>4. Built(e) = Plain(e)
      BY <2>6 DEF Plain
    <3>5. Len(Built(e)) = HeaderWords + e.body
      BY <3>1, <3>2, <3>3, <3>4
    <3>6. QED
      BY <1>2, <2>5, <3>5 DEF HeaderWords
  <2>7. QED
    BY <1>1, <1>2, <2>1, <2>5, <2>6
<1>5. QED
  BY <1>3, <1>4

LEMMA PieceIs ==
  ASSUME input \in Inputs, NEW i \in 1 .. Len(Arrived)
  PROVE  /\ InPieces[i] = Padded(Built(Arrived[i]), Missing(i)) /\ InPieces[i] \in Seq(Word)
         /\ OutPieces[i] = Padded(Plain(Arrived[i]), Missing(i)) /\ OutPieces[i] \in Seq(Word)
<1> DEFINE e == Arrived[i]
<1>1. /\ e \in Items /\ Missing(i) \in 0 .. e.body
      /\ e.type # "event" => Missing(i) < e.body
  BY MissingIs
<1>2. /\ InPieces[i] = Padded(Built(e), Missing(i))
      /\ OutPieces[i] = Padded(Plain(e), Missing(i))
  BY DEF InPieces, OutPieces
<1>3. Padded(Plain(e), Missing(i)) \in Seq(Word)
  BY <1>1, OutShape
<1>4. PICK r \in Seq(Word) : Padded(Built(e), Missing(i)) = Header(e.type, Len(r)) \o r
  BY <1>1, InShape
<1>5. Header(e.type, Len(r)) \in Seq(Word)
  <2>1. Len(r) \in Nat
    BY LenProperties
  <2>2. QED
    BY <1>1, <2>1, HeaderIs
<1>6. Header(e.type, Len(r)) \o r \in Seq(Word)
  BY <1>5, ConcatIs
<1>7. QED
  BY <1>2, <1>3, <1>4, <1>6

LEMMA PiecesAre ==
  ASSUME input \in Inputs
  PROVE  /\ InPieces \in Seq(Seq(Word)) /\ Len(InPieces) = Len(Arrived)
         /\ OutPieces \in Seq(Seq(Word)) /\ Len(OutPieces) = Len(Arrived)
<1>1. Len(Arrived) \in Nat
  BY ArrivedIs
<1>2. \A i \in 1 .. Len(Arrived) : InPieces[i] \in Seq(Word) /\ OutPieces[i] \in Seq(Word)
  BY PieceIs
<1>3. /\ InPieces \in [1 .. Len(Arrived) -> Seq(Word)]
      /\ OutPieces \in [1 .. Len(Arrived) -> Seq(Word)]
  BY <1>2 DEF InPieces, OutPieces
<1>4. QED
  BY <1>1, <1>3, FunctionIsSeq

LEMMA BuiltIs ==
  ASSUME NEW e \in Items
  PROVE  \E r \in Seq(Word) : /\ Built(e) = Header(e.type, Len(r)) \o r
                              /\ Len(r) \in Nat /\ Header(e.type, Len(r)) \in Seq(Word)
                              /\ Built(e) \in Seq(Word) /\ Len(Built(e)) = HeaderWords + Len(r)
                              /\ e.body <= Len(r)
<1>1. e.body \in Nat
  BY ItemIs
<1>2. /\ Rest(e) \in Seq(Word) /\ Len(Rest(e)) >= e.body /\ Len(Rest(e)) \in Nat
      /\ Plain(e) = Header(e.type, Len(Rest(e))) \o Rest(e)
  BY RestIs, LenProperties
<1>3. /\ Header(e.type, Len(Rest(e))) \in Seq(Word)
      /\ Len(Header(e.type, Len(Rest(e)))) = HeaderWords
  BY <1>2, HeaderIs
<1>4. Plain(e) \in Seq(Word) /\ Len(Plain(e)) = HeaderWords + Len(Rest(e))
  BY <1>2, <1>3, ConcatIs
<1>5. CASE e.type = "event"
  <2> DEFINE r == Lead(e) \o Plain(e)
  <2>1. Lead(e) \in Seq(Word) /\ Built(e) = Header(e.type, Len(r)) \o r
    BY <1>5, LeadIs
  <2>2. /\ r \in Seq(Word) /\ Len(r) = Len(Lead(e)) + Len(Plain(e)) /\ Len(r) \in Nat
        /\ Len(Lead(e)) \in Nat
    BY <1>4, <2>1, ConcatIs
  <2>3. e.body <= Len(r)
    BY <1>1, <1>2, <1>4, <2>2 DEF HeaderWords
  <2> HIDE DEF r
  <2>4. /\ Header(e.type, Len(r)) \in Seq(Word) /\ Len(Header(e.type, Len(r))) = HeaderWords
    BY <2>2, HeaderIs
  <2>5. Built(e) \in Seq(Word) /\ Len(Built(e)) = HeaderWords + Len(r)
    BY <2>1, <2>2, <2>4, ConcatIs
  <2>6. QED
    BY <2>1, <2>2, <2>3, <2>4, <2>5
<1>6. CASE e.type # "event"
  <2>1. Built(e) = Plain(e)
    BY <1>6 DEF Plain
  <2>2. QED
    BY <1>1, <1>2, <1>3, <1>4, <2>1
<1>7. QED
  BY <1>5, <1>6

\* The words of the input, filled up, are what is read of the items, and then
\* perhaps a header.
LEMMA InputWords ==
  ASSUME input \in Inputs
  PROVE  \E tail \in Seq(Word), c \in Nat :
           /\ input.words \in Seq(Word)
           /\ input.words \o Stale(c) = FlattenFirst(InPieces, Len(Arrived)) \o tail
           /\ c = IF Len(Arrived) = 0 THEN 0 ELSE Missing(Len(Arrived))
           /\ tail = <<>> \/ (c = 0 /\ Len(tail) = HeaderWords)
<1> DEFINE s == input.items
           n == Len(s)
           m == input.missing
           b == [i \in DOMAIN s |-> Built(s[i])]
           all == FlattenSeq(b)
<1>1. s \in Seq(Items) /\ n \in Nat /\ DOMAIN s = 1 .. n /\ m \in Losses(s)
  BY InputIs, LenProperties
<1>2. input.words = SubSeq(all, 1, Len(all) - m)
  BY InputIs DEF Stream
<1>3. b \in Seq(Seq(Word)) /\ Len(b) = n /\ \A i \in 1 .. n : b[i] = Built(s[i])
  <2>1. \A i \in 1 .. n : s[i] \in Items
    BY <1>1, ElementOfSeq
  <2>2. \A i \in 1 .. n : Built(s[i]) \in Seq(Word)
    BY <2>1, BuiltIs
  <2>3. b \in [1 .. n -> Seq(Word)]
    BY <1>1, <2>2
  <2>4. b \in Seq(Seq(Word)) /\ Len(b) = n
    BY <1>1, <2>3, FunctionIsSeq
  <2>5. QED
    BY <1>1, <2>4
<1>4. all = FlattenFirst(b, n)
  BY <1>3, FirstAll
<1>5. /\ InPieces \in Seq(Seq(Word)) /\ Len(InPieces) = Len(Arrived)
      /\ Arrived \in Seq(Items) /\ Len(Arrived) \in Nat
  BY PiecesAre, ArrivedIs
<1>6. \A i \in 1 .. Len(Arrived) : InPieces[i] = Padded(Built(Arrived[i]), Missing(i))
  BY PieceIs
<1> HIDE DEF b, all, n, m
\* Nothing is missing of an item but the last.
<1>7. ASSUME NEW k \in 0 .. Len(Arrived), k <= n,
             \A i \in 1 .. k : Missing(i) = 0 /\ Arrived[i] = s[i]
      PROVE  FlattenFirst(InPieces, k) = FlattenFirst(b, k)
  <2>1. ASSUME NEW i \in 1 .. k PROVE InPieces[i] = b[i]
    <3>1. i \in 1 .. Len(Arrived) /\ i \in 1 .. n
      BY <1>1, <1>5, <1>7
    <3>2. InPieces[i] = Padded(Built(s[i]), 0)
      BY <1>6, <1>7, <3>1
    <3>3. Built(s[i]) \in Seq(Word)
      <4>1. s[i] \in Items
        BY <1>1, <3>1, ElementOfSeq DEF n
      <4>2. QED
        BY <4>1, BuiltIs
    <3>4. 0 \in 0 .. Len(Built(s[i]))
      BY <3>3, LenProperties
    <3>5. Padded(Built(s[i]), 0) = Built(s[i])
      BY <3>3, <3>4, PaddedIs
    <3>6. QED
      BY <1>3, <3>1, <3>2, <3>5
  <2>2. QED
    BY <1>3, <1>5, <1>7, <2>1, FirstSame
<1>8. CASE HeaderOnly
  <2> DEFINE k == n - 1
             e == Last(s)
  <2>1. /\ n \in Nat \ {0} /\ Len(Arrived) = k /\ Arrived # s
        /\ \A i \in 1 .. k : Arrived[i] = s[i]
    BY <1>8, ArrivedIs DEF n
  <2>2. e = s[n] /\ e \in Items /\ k \in 0 .. n /\ k # n /\ k + 1 = n /\ n \in 1 .. n
    <3>1. n \in 1 .. n /\ k \in 0 .. n /\ k # n /\ k + 1 = n
      BY <2>1
    <3>2. e = s[n]
      BY DEF Last, n
    <3>3. QED
      BY <1>1, <3>1, <3>2, ElementOfSeq DEF n
  <2>3. PICK r \in Seq(Word) :
          /\ Built(e) = Header(e.type, Len(r)) \o r /\ Len(r) \in Nat
          /\ Header(e.type, Len(r)) \in Seq(Word)
          /\ Built(e) \in Seq(Word) /\ Len(Built(e)) = HeaderWords + Len(r)
    BY <2>2, BuiltIs
  <2> DEFINE h == Header(e.type, Len(r))
             f == FlattenFirst(b, k)
  <2>4. h \in Seq(Word) /\ Len(h) = HeaderWords
    BY <2>2, <2>3, HeaderIs
  <2>5. f \in Seq(Word)
    BY <1>3, <2>2, FirstType
  <2>6. all = f \o Built(e)
    <3>1. FlattenFirst(b, k + 1) = f \o b[k + 1]
      BY <1>3, <2>2, FirstNext
    <3>2. QED
      BY <1>3, <1>4, <2>2, <3>1
  <2>7. m = Len(r)
    BY <1>8, <2>3 DEF HeaderOnly, m, HeaderWords
  <2>8. Built(e) = h \o r
    BY <2>3
  <2>9. FlattenFirst(InPieces, k) = f
    <3>1. \A i \in 1 .. k : Missing(i) = 0
      BY <2>1 DEF Missing
    <3>2. k \in 0 .. Len(Arrived) /\ k <= n
      BY <2>1, <2>2
    <3>3. QED
      BY <1>7, <2>1, <3>1, <3>2
  <2>a. k \in Nat /\ (k # 0 => k \in 1 .. Len(Arrived))
    BY <2>1
  <2>b. Missing(Len(Arrived)) = 0
    BY <2>1 DEF Missing
  <2>c. Len(Arrived) = k
    BY <2>1
  <2> HIDE DEF h, f, k, e
  <2>10. all = (f \o h) \o r
    BY SMTT(30), <2>4, <2>5, <2>6, <2>8, Regroup
  <2>11. f \o h \in Seq(Word) /\ Len(f \o h) \in Nat
    BY <2>4, <2>5, ConcatIs
  <2>12. Len(all) - m = Len(f \o h)
    <3>1. Len((f \o h) \o r) = Len(f \o h) + Len(r)
      BY <2>11, ConcatIs
    <3>2. QED
      BY <2>3, <2>7, <2>10, <2>11, <3>1
  <2>13. input.words = f \o h
    <3>1. SubSeq((f \o h) \o r, 1, Len(f \o h)) = f \o h
      BY <2>11, Halves
    <3>2. QED
      BY <1>2, <2>10, <2>12, <3>1
  <2>14. input.words \o Stale(0) = FlattenFirst(InPieces, Len(Arrived)) \o h
    <3>1. Stale(0) \in Seq(Word) /\ Len(Stale(0)) = 0
      BY FillerIs
    <3>2. Stale(0) = <<>>
      BY <3>1, EmptySeq
    <3>3. input.words \o Stale(0) = input.words
      BY <2>11, <2>13, <3>2, ConcatEmptySeq
    <3>4. QED
      BY <2>9, <2>13, <2>c, <3>3
  <2>15. QED
    <3>1. 0 \in Nat
      OBVIOUS
    <3>2. input.words \in Seq(Word)
      BY <2>11, <2>13
    <3>3. QED
      BY <2>14, <2>4, <2>b, <3>1, <3>2
<1>9. CASE ~HeaderOnly /\ n = 0
  <2>1. s = <<>> /\ Arrived = s /\ Len(Arrived) = 0 /\ m = 0
    <3>1. s = <<>>
      BY <1>1, <1>9, EmptySeq DEF n
    <3>2. QED
      BY <1>1, <1>9, <3>1, ArrivedIs DEF n, Losses
  <2>2. all = <<>>
    BY <1>3, <1>4, <1>9, FirstNone
  <2>3. FlattenFirst(InPieces, 0) = <<>>
    BY <1>5, FirstNone
  <2>4. input.words = <<>>
    <3>1. Len(all) - m = 0
      BY <2>1, <2>2, EmptySeq
    <3>2. SubSeq(all, 1, 0) = <<>>
      BY SubSeqEmpty
    <3>3. QED
      BY <1>2, <3>1, <3>2
  <2>5. Stale(0) = <<>>
    <3>1. Stale(0) \in Seq(Word) /\ Len(Stale(0)) = 0
      BY FillerIs
    <3>2. QED
      BY <3>1, EmptySeq
  <2>6. PICK t \in Seq(Word) : t = <<>>
    BY EmptySeq
  <2>7. input.words \o Stale(0) = FlattenFirst(InPieces, Len(Arrived)) \o t
    BY <2>1, <2>3, <2>4, <2>5, <2>6
  <2>8. input.words \in Seq(Word) /\ 0 \in Nat
    BY <2>4, <2>6
  <2>9. 0 = IF Len(Arrived) = 0 THEN 0 ELSE Missing(Len(Arrived))
    BY <2>1
  <2>10. QED
    BY <2>6, <2>7, <2>8, <2>9, Zenon
<1>10. CASE ~HeaderOnly /\ n # 0
  <2> DEFINE k == n - 1
             e == s[n]
             f == FlattenFirst(b, k)
  <2>1. Arrived = s /\ Len(Arrived) = n
    BY <1>10, ArrivedIs DEF n
  <2>2. n \in 1 .. n /\ k \in 0 .. n /\ k # n /\ k + 1 = n /\ n \in Nat /\ \A i \in 1 .. k : i # n
    BY <1>1, <1>10
  <2>3. e \in Items
    BY <1>1, <2>2, ElementOfSeq DEF n
  <2>4. Missing(n) = m /\ m \in 0 .. e.body /\ \A i \in 1 .. k : Missing(i) = 0
    <3>1. n \in 1 .. Len(Arrived)
      BY <2>1, <2>2
    <3>2. Missing(n) = m /\ \A i \in 1 .. k : Missing(i) = 0
      BY <2>1, <2>2 DEF Missing, m
    <3>3. QED
      BY <2>1, <3>1, <3>2, MissingIs
  <2>5. PICK r \in Seq(Word) :
          /\ Len(r) \in Nat /\ e.body <= Len(r)
          /\ Built(e) \in Seq(Word) /\ Len(Built(e)) = HeaderWords + Len(r)
    BY <2>3, BuiltIs
  <2>6. m \in 0 .. Len(Built(e)) /\ m \in Nat
    <3>1. e.body \in Nat
      BY <2>3, ItemIs
    <3>2. QED
      BY <2>4, <2>5, <3>1 DEF HeaderWords
  <2>7. f \in Seq(Word)
    BY <1>3, <2>2, FirstType
  <2>8. all = f \o Built(e)
    <3>1. FlattenFirst(b, k + 1) = f \o b[k + 1]
      BY <1>3, <2>2, FirstNext
    <3>2. QED
      BY <1>3, <1>4, <2>2, <3>1
  <2>9. FlattenFirst(InPieces, k) = f
    <3>1. k \in 0 .. Len(Arrived) /\ k <= n
      BY <2>1, <2>2
    <3>2. QED
      BY <1>7, <2>1, <2>4, <3>1
  <2>10. FlattenFirst(InPieces, n) = f \o Padded(Built(e), m)
    <3>1. FlattenFirst(InPieces, k + 1) = FlattenFirst(InPieces, k) \o InPieces[k + 1]
      BY <1>5, <2>1, <2>2, FirstNext
    <3>2. InPieces[n] = Padded(Built(e), m)
      BY <1>6, <2>1, <2>2, <2>4
    <3>3. QED
      BY <2>2, <2>9, <3>1, <3>2
  <2> HIDE DEF k, e, f
  <2>11. Padded(all, m) = f \o Padded(Built(e), m)
    BY <2>5, <2>6, <2>7, <2>8, PaddedConcat
  <2>12. all \in Seq(Word) /\ Len(all) = Len(f) + Len(Built(e)) /\ Len(all) \in Nat /\ Len(f) \in Nat
    BY <2>5, <2>7, <2>8, ConcatIs
  <2>13. input.words \in Seq(Word)
    <3>1. Len(all) - m \in 0 .. Len(all)
      BY <2>6, <2>12, LenProperties
    <3>2. QED
      BY <1>2, <2>12, <3>1, FirstSeqs
  <2>14. Padded(all, m) = input.words \o Stale(m)
    BY <1>2 DEF Padded
  <2>15. FlattenFirst(InPieces, n) \in Seq(Word)
    <3>1. n \in 0 .. Len(InPieces)
      BY <1>5, <2>1, <2>2
    <3>2. QED
      BY <1>5, <3>1, FirstType
  <2>16. input.words \o Stale(m) = FlattenFirst(InPieces, Len(Arrived)) \o <<>>
    BY <2>1, <2>10, <2>11, <2>14, <2>15, ConcatEmptySeq
  <2>17. <<>> \in Seq(Word) /\ m \in Nat
    BY <2>6, EmptySeq
  <2>18. m = IF Len(Arrived) = 0 THEN 0 ELSE Missing(Len(Arrived))
    BY <1>10, <2>1, <2>4
  <2>19. PICK t \in Seq(Word) : t = <<>>
    BY <2>17
  <2>20. input.words \o Stale(m) = FlattenFirst(InPieces, Len(Arrived)) \o t
    BY <2>16, <2>19
  <2>21. QED
    BY <2>13, <2>17, <2>18, <2>19, <2>20
<1>11. QED
  BY <1>8, <1>9, <1>10

\* How an item begins and goes on, as it is read and as it is written.
LEMMA PieceShape ==
  ASSUME input \in Inputs, NEW i \in 1 .. Len(Arrived)
  PROVE  \E r \in Seq(Word) :
           LET e == Arrived[i]
               h == Header(e.type, Len(r))
           IN  /\ e \in Items /\ Len(r) \in Nat
               /\ InPieces[i] = h \o r /\ Missing(i) < Len(r)
               /\ h \in Seq(Word) /\ Len(h) = HeaderWords
               /\ h[1][2] = HeaderWords + Len(r) /\ h[2][2] = e.type
               /\ e.type = "event" => r = Lead(e) \o OutPieces[i]
               /\ e.type # "event" => OutPieces[i] = h \o r
<1> DEFINE e == Arrived[i]
<1>1. /\ e \in Items /\ Missing(i) \in 0 .. e.body
      /\ e.type # "event" => Missing(i) < e.body
  BY MissingIs
<1>2. /\ InPieces[i] = Padded(Built(e), Missing(i))
      /\ OutPieces[i] = Padded(Plain(e), Missing(i))
  BY PieceIs
<1>3. PICK r \in Seq(Word) :
        /\ Padded(Built(e), Missing(i)) = Header(e.type, Len(r)) \o r /\ Missing(i) < Len(r)
        /\ e.type = "event" => r = Lead(e) \o Padded(Plain(e), Missing(i))
        /\ e.type # "event" => Padded(Plain(e), Missing(i)) = Header(e.type, Len(r)) \o r
  BY <1>1, InShape
<1>4. Len(r) \in Nat
  BY LenProperties
<1>5. /\ Header(e.type, Len(r)) \in Seq(Word) /\ Len(Header(e.type, Len(r))) = HeaderWords
      /\ Header(e.type, Len(r))[1][2] = HeaderWords + Len(r)
      /\ Header(e.type, Len(r))[2][2] = e.type
  BY <1>1, <1>4, HeaderIs
<1>6. QED
  BY <1>1, <1>2, <1>3, <1>4, <1>5

\* Where item k + 1 is in the input: all of it, or all but what is missing.
Surrounds(k, before, piece, after, c) ==
  /\ before \in Seq(Word) /\ after \in Seq(Word) /\ c \in Nat
  /\ before = FlattenFirst(InPieces, k)
  /\ FlattenFirst(InPieces, k + 1) = before \o piece
  /\ input.words \in Seq(Word)
  /\ input.words \o Stale(c) = (before \o piece) \o after
  /\ k + 1 = Len(Arrived) => /\ c = Missing(k + 1)
                             /\ after = <<>> \/ (c = 0 /\ Len(after) = HeaderWords)
  /\ k + 1 # Len(Arrived) => c < Len(after)

LEMMA InputAt ==
  ASSUME input \in Inputs, NEW k \in 0 .. Len(Arrived), k # Len(Arrived)
  PROVE  \E before, after \in Seq(Word), c \in Nat :
           Surrounds(k, before, InPieces[k + 1], after, c)
<1> DEFINE n == Len(Arrived)
           x == FlattenFirst(InPieces, k)
           y == InPieces[k + 1]
<1>1. /\ InPieces \in Seq(Seq(Word)) /\ Len(InPieces) = n /\ n \in Nat
  BY PiecesAre, ArrivedIs
<1>2. /\ k + 1 \in 0 .. n /\ k + 1 \in 1 .. n /\ k \in Nat /\ n # 0 /\ n \in 1 .. n
      /\ (k + 1 # n => n - 1 \in k + 1 .. n /\ n - 1 # n /\ (n - 1) + 1 = n /\ n - 1 \in 0 .. n)
  BY <1>1
<1>3. x \in Seq(Word)
  BY <1>1, FirstType
<1>4. y \in Seq(Word)
  BY <1>1, <1>2, ElementOfSeq
<1>5. FlattenFirst(InPieces, k + 1) = x \o y
  BY <1>1, FirstNext
<1>6. PICK tail \in Seq(Word), c \in Nat :
        /\ input.words \in Seq(Word)
        /\ input.words \o Stale(c) = FlattenFirst(InPieces, n) \o tail
        /\ c = IF n = 0 THEN 0 ELSE Missing(n)
        /\ tail = <<>> \/ (c = 0 /\ Len(tail) = HeaderWords)
  BY InputWords
<1>7. c = Missing(n)
  BY <1>2, <1>6
<1> HIDE DEF n, x, y
<1>8. CASE k + 1 = n
  <2>1. Surrounds(k, x, y, tail, c)
    BY <1>3, <1>5, <1>6, <1>7, <1>8 DEF Surrounds, x, n
  <2>2. QED
    BY <1>3, <2>1 DEF y
<1>9. CASE k + 1 # n
  <2> DEFINE z == InPieces[n]
  <2>1. z \in Seq(Word) /\ c < Len(z)
    <3>1. PICK r \in Seq(Word) :
            LET h == Header(Arrived[n].type, Len(r))
            IN  /\ Len(r) \in Nat /\ InPieces[n] = h \o r /\ Missing(n) < Len(r)
                /\ h \in Seq(Word) /\ Len(h) = HeaderWords
      BY <1>2, PieceShape DEF n
    <3> DEFINE h == Header(Arrived[n].type, Len(r))
    <3>2. /\ Len(r) \in Nat /\ z = h \o r /\ c < Len(r)
          /\ h \in Seq(Word) /\ Len(h) = HeaderWords
      BY <1>7, <3>1
    <3> HIDE DEF h, z
    <3>3. z \in Seq(Word) /\ Len(z) = Len(h) + Len(r)
      BY <3>2, ConcatIs
    <3>4. QED
      BY <3>2, <3>3 DEF HeaderWords
  <2>2. PICK more \in Seq(Word) : FlattenFirst(InPieces, n - 1) = FlattenFirst(InPieces, k + 1) \o more
    BY <1>1, <1>2, <1>9, FirstMore
  <2>3. FlattenFirst(InPieces, n) = FlattenFirst(InPieces, n - 1) \o z
    <3>1. PICK j \in 0 .. n : j = n - 1
      BY <1>2, <1>9
    <3>2. j # Len(InPieces) /\ j + 1 = n
      BY <1>1, <1>2, <1>9, <3>1
    <3>3. FlattenFirst(InPieces, j + 1) = FlattenFirst(InPieces, j) \o InPieces[j + 1]
      BY <1>1, <3>2, FirstNext
    <3>4. QED
      BY <3>1, <3>2, <3>3
  <2> DEFINE w == x \o y
             v == more \o z
             a == v \o tail
  <2>4. w \in Seq(Word)
    BY <1>3, <1>4, ConcatIs
  <2>5. v \in Seq(Word) /\ Len(v) = Len(more) + Len(z) /\ Len(more) \in Nat /\ Len(z) \in Nat
    BY <2>1, ConcatIs
  <2> HIDE DEF z, v, w
  <2>6. a \in Seq(Word) /\ Len(a) = Len(v) + Len(tail) /\ Len(tail) \in Nat
    BY <2>5, ConcatIs
  <2>7. FlattenFirst(InPieces, n) = w \o v
    <3>1. FlattenFirst(InPieces, n) = (w \o more) \o z
      BY <1>5, <2>2, <2>3 DEF w
    <3>2. (w \o more) \o z = w \o (more \o z)
      BY <2>1, <2>2, <2>4, Regroup
    <3>3. QED
      BY <3>1, <3>2 DEF v
  <2>8. (w \o v) \o tail = w \o a
    BY <2>4, <2>5, Regroup
  <2>9. c < Len(a)
    BY <1>6, <2>1, <2>5, <2>6
  <2> HIDE DEF a
  <2>10. input.words \o Stale(c) = (x \o y) \o a
    BY <1>6, <2>7, <2>8 DEF w
  <2>11. Surrounds(k, x, y, a, c)
    BY <1>3, <1>5, <1>6, <1>9, <2>6, <2>9, <2>10 DEF Surrounds, x, n
  <2>12. QED
    BY <1>3, <2>6, <2>11 DEF y
<1>10. QED
  BY <1>8, <1>9

-----------------------------------------------------------------------------
(* What Read() gets.                                                       *)

LEMMA MinOfTwo ==
  ASSUME NEW a \in Int, NEW b \in Int
  PROVE  Min({a, b}) = IF a <= b THEN a ELSE b
<1>1. PICK m \in {a, b} : \A y \in {a, b} : m <= y
  BY a <= b \/ b <= a
<1>2. Min({a, b}) \in {a, b} /\ \A y \in {a, b} : Min({a, b}) <= y
  BY <1>1, Zenon DEF Min
<1>3. QED
  BY <1>2

LEMMA MaxOfTwo ==
  ASSUME NEW a \in Int, NEW b \in Int
  PROVE  Max({a, b}) = IF a >= b THEN a ELSE b
<1>1. PICK m \in {a, b} : \A y \in {a, b} : m >= y
  BY a <= b \/ b <= a
<1>2. Max({a, b}) \in {a, b} /\ \A y \in {a, b} : Max({a, b}) >= y
  BY <1>1, Zenon DEF Max
<1>3. QED
  BY <1>2

\* Up to n of the words after the first `at'.
Got(words, at, n) == SubSeq(words, at + 1, Min({at + n, Len(words)}))

LEMMA GotSome ==
  ASSUME NEW w \in Seq(Word), NEW at \in Nat, NEW n \in Nat \ {0}
  PROVE  Got(w, at, n) = <<>> <=> at >= Len(w)
<1>1. Len(w) \in Nat /\ at + n \in Int /\ at + 1 \in Int
  BY LenProperties
<1>2. PICK m \in Int : m = Min({at + n, Len(w)}) /\ m = IF at + n <= Len(w) THEN at + n ELSE Len(w)
  BY <1>1, MinOfTwo
<1>3. \A i \in at + 1 .. m : w[i] \in Word
  <2>1. \A i \in at + 1 .. m : i \in 1 .. Len(w)
    BY <1>1, <1>2
  <2>2. QED
    BY <2>1, ElementOfSeq
<1>4. Len(SubSeq(w, at + 1, m)) = IF at + 1 <= m THEN m - (at + 1) + 1 ELSE 0
  BY <1>1, <1>3, SubSeqProperties
<1>5. SubSeq(w, at + 1, m) \in Seq(Word)
  BY <1>1, <1>3, SubSeqProperties
<1>6. SubSeq(w, at + 1, m) = <<>> <=> Len(SubSeq(w, at + 1, m)) = 0
  BY <1>5, EmptySeq
<1>7. Len(SubSeq(w, at + 1, m)) = 0 <=> at >= Len(w)
  BY <1>1, <1>2, <1>4
<1>8. QED
  BY <1>2, <1>6, <1>7 DEF Got

\* All of x is there.
LEMMA GotAll ==
  ASSUME NEW w \in Seq(Word), NEW s \in Seq(Word), NEW b \in Seq(Word), NEW x \in Seq(Word),
         NEW t \in Seq(Word), w \o s = (b \o x) \o t, Len(s) <= Len(t)
  PROVE  Got(w, Len(b), Len(x)) = x
<1>1. /\ Len(b \o x) = Len(b) + Len(x) /\ b \o x \in Seq(Word)
      /\ Len(b) \in Nat /\ Len(x) \in Nat
  BY ConcatIs
<1>2. Len(w \o s) = Len(w) + Len(s) /\ Len(w) \in Nat /\ Len(s) \in Nat
  BY ConcatIs
<1>3. Len((b \o x) \o t) = Len(b \o x) + Len(t) /\ Len(t) \in Nat
  BY <1>1, ConcatIs
<1>4. Len(b) + Len(x) <= Len(w)
  BY <1>1, <1>2, <1>3
<1>5. Min({Len(b) + Len(x), Len(w)}) = Len(b) + Len(x)
  <2>1. PICK i, j \in Int : i = Len(b) + Len(x) /\ j = Len(w) /\ i <= j
    BY <1>1, <1>2, <1>4
  <2>2. Min({i, j}) = IF i <= j THEN i ELSE j
    BY MinOfTwo
  <2>3. Min({i, j}) = i
    BY <2>1, <2>2
  <2>4. QED
    BY <2>1, <2>3
<1>6. CASE Len(x) = 0
  <2>1. Len(b) + Len(x) = Len(b)
    BY <1>1, <1>6
  <2>2. SubSeq(w, Len(b) + 1, Len(b)) = <<>>
    BY <1>1, SubSeqEmpty
  <2>3. x = <<>>
    BY <1>6, EmptySeq
  <2>4. QED
    BY <1>5, <2>1, <2>2, <2>3 DEF Got
<1>7. CASE Len(x) # 0
  <2>1. PICK m \in 1 .. Len(w), n \in 1 .. Len(w) : m = Len(b) + 1 /\ n = Len(b) + Len(x)
    BY SMTT(30), <1>1, <1>2, <1>4, <1>7
  <2>2. SubSeq(w \o s, m, n) = SubSeq(w, m, n)
    BY SubSeqOfConcat1
  <2>3. SubSeq((b \o x) \o t, Len(b) + 1, Len(b) + Len(x)) = x
    BY Middle
  <2>4. QED
    BY <1>5, <2>1, <2>2, <2>3 DEF Got
<1>8. QED
  BY <1>6, <1>7

\* The end of x is missing: b and x are w and the words that are missing at its end.
Ends(w, c, b, x) == w \o Stale(c) = b \o x /\ c <= Len(x)

LEMMA GotEnd ==
  ASSUME NEW w \in Seq(Word), NEW c \in Nat, NEW b \in Seq(Word), NEW x \in Seq(Word),
         Ends(w, c, b, x)
  PROVE  LET g == Got(w, Len(b), Len(x))
         IN  /\ g \o Stale(Len(x) - Len(g)) = x
             /\ Len(b) + Len(g) = Len(w)
<1>a. w \o Stale(c) = b \o x /\ c <= Len(x)
  BY DEF Ends
<1> DEFINE n == Len(x) - c
           u == SubSeq(x, 1, n)
           v == SubSeq(x, n + 1, Len(x))
           z == Stale(c)
           y == b \o u
<1>1. Len(x) \in Nat /\ n \in 0 .. Len(x) /\ Len(b) \in Nat /\ Len(x) - n = c
  BY <1>a, LenProperties
<1>2. u \in Seq(Word) /\ Len(u) = n /\ v \in Seq(Word) /\ Len(v) = c /\ u \o v = x
  BY <1>1, Parts
<1>3. z \in Seq(Word) /\ Len(z) = c
  BY FillerIs
<1>4. w \o z = b \o x
  BY <1>a
<1> HIDE DEF u, v, z
<1>5. y \in Seq(Word) /\ Len(y) = Len(b) + n
  <2>1. b \o u \in Seq(Word) /\ Len(b \o u) = Len(b) + Len(u)
    BY <1>2, ConcatIs
  <2>2. QED
    BY <1>2, <2>1
<1>6. w \o z = y \o v
  <2>1. (b \o u) \o v = b \o (u \o v)
    BY ZenonT(30), <1>2, Regroup
  <2>2. QED
    BY <1>2, <1>4, <2>1
<1>y. y = b \o u
  OBVIOUS
<1> HIDE DEF y
<1>7. Len(w \o z) = Len(w) + Len(z) /\ Len(y \o v) = Len(y) + Len(v) /\ Len(w) \in Nat
  BY <1>2, <1>3, <1>5, ConcatIs
<1>8. Len(w) = Len(y)
  <2>1. Len(w) + c = Len(y) + c /\ Len(y) \in Nat
    BY <1>1, <1>2, <1>3, <1>5, <1>6, <1>7
  <2>2. QED
    BY <1>7, <2>1
<1>9. w = y /\ z = v
  <2>1. SubSeq(w \o z, 1, Len(w)) = w /\ SubSeq(w \o z, Len(w) + 1, Len(w \o z)) = z
    BY <1>3, Halves
  <2>2. SubSeq(y \o v, 1, Len(y)) = y /\ SubSeq(y \o v, Len(y) + 1, Len(y \o v)) = v
    BY <1>2, <1>5, Halves
  <2>3. QED
    BY <1>6, <1>8, <2>1, <2>2
<1>10. Min({Len(b) + Len(x), Len(w)}) = Len(w)
  <2>1. Len(b) + Len(x) \in Int /\ Len(w) \in Int /\ Len(w) <= Len(b) + Len(x)
    BY <1>1, <1>5, <1>8
  <2>2. PICK i, j \in Int : i = Len(b) + Len(x) /\ j = Len(w) /\ j <= i
    BY <2>1
  <2>3. Min({i, j}) = IF i <= j THEN i ELSE j
    BY MinOfTwo
  <2>4. Min({i, j}) = j
    BY <2>2, <2>3
  <2>5. QED
    BY <2>2, <2>4
<1>11. SubSeq(w, Len(b) + 1, Len(w)) = u
  <2>1. SubSeq(b \o u, Len(b) + 1, Len(b \o u)) = u
    BY <1>2, Halves
  <2>2. QED
    BY <1>9, <1>y, <2>1
<1>12. Got(w, Len(b), Len(x)) = u
  BY <1>10, <1>11 DEF Got
<1>13. Len(x) - Len(u) = c /\ Len(b) + Len(u) = Len(w)
  BY <1>1, <1>2, <1>5, <1>8
<1>14. u \o Stale(c) = x
  BY <1>2, <1>9 DEF z
<1>15. QED
  BY <1>12, <1>13, <1>14

\* The beginning of item k + 1 is read when the filter has read the items up to k.
UpTo(k, at) ==
  IF k = Len(Arrived) THEN at = Len(input.words) \/ at + HeaderWords = Len(input.words)
                      ELSE at = InOffset(k)

LEMMA HeaderRead ==
  ASSUME input \in Inputs, NEW k \in 0 .. Len(Arrived), k # Len(Arrived)
  PROVE  /\ InOffset(k) \in Nat
         /\ Got(input.words, InOffset(k), HeaderWords) = SubSeq(InPieces[k + 1], 1, HeaderWords)
         /\ InOffset(k) + HeaderWords < Len(input.words)
<1> DEFINE w == input.words
           e == Arrived[k + 1]
<1>1. PICK before, after \in Seq(Word), c \in Nat : Surrounds(k, before, InPieces[k + 1], after, c)
  BY InputAt
<1>2. k + 1 \in 1 .. Len(Arrived)
  BY ArrivedIs
<1>3. PICK r \in Seq(Word) :
        LET h == Header(e.type, Len(r))
        IN  /\ Len(r) \in Nat /\ InPieces[k + 1] = h \o r /\ Missing(k + 1) < Len(r)
            /\ h \in Seq(Word) /\ Len(h) = HeaderWords
  BY <1>2, PieceShape
<1> DEFINE h == Header(e.type, Len(r))
           x == InPieces[k + 1]
           s == Stale(c)
           t == r \o after
           b == before \o h
<1>4. /\ Len(r) \in Nat /\ x = h \o r /\ Missing(k + 1) < Len(r)
      /\ h \in Seq(Word) /\ Len(h) = HeaderWords
  BY <1>3
<1>5. s \in Seq(Word) /\ Len(s) = c
  BY FillerIs
<1>6. /\ w \in Seq(Word) /\ before \in Seq(Word) /\ after \in Seq(Word)
      /\ w \o s = (before \o x) \o after
      /\ before = FlattenFirst(InPieces, k)
      /\ c = Missing(k + 1) \/ c < Len(after)
  BY <1>1 DEF Surrounds
<1> HIDE DEF w, e, h, x, s
<1>7. t \in Seq(Word) /\ Len(t) = Len(r) + Len(after) /\ Len(after) \in Nat
  BY <1>6, ConcatIs
<1>8. b \in Seq(Word) /\ Len(b) = Len(before) + HeaderWords /\ Len(before) \in Nat
  <2>1. Len(before \o h) = Len(before) + Len(h) /\ Len(before) \in Nat /\ before \o h \in Seq(Word)
    BY <1>4, <1>6, ConcatIs
  <2>2. QED
    BY <1>4, <2>1
<1>9. w \o s = b \o t
  <2>1. before \o (h \o r) = (before \o h) \o r
    BY ZenonT(30), <1>4, <1>6, Regroup
  <2>2. ((before \o h) \o r) \o after = (before \o h) \o (r \o after)
    <3>1. b \in Seq(Word) /\ r \in Seq(Word) /\ after \in Seq(Word)
      BY <1>6, <1>8
    <3> HIDE DEF b
    <3>2. (b \o r) \o after = b \o (r \o after)
      BY ZenonT(30), <3>1, Regroup
    <3>3. QED
      BY <3>2 DEF b
  <2>3. QED
    BY <1>4, <1>6, <2>1, <2>2
<1>10. c < Len(t)
  BY SMTT(30), <1>4, <1>6, <1>7
<1>b. b = before \o h
  OBVIOUS
<1> HIDE DEF b, t
<1>11. Got(w, Len(before), Len(h)) = h
  <2>1. w \o s = (before \o h) \o t
    BY <1>9, <1>b
  <2>2. Len(s) <= Len(t)
    BY <1>4, <1>5, <1>7, <1>10
  <2>3. /\ w \in Seq(Word) /\ s \in Seq(Word) /\ before \in Seq(Word) /\ h \in Seq(Word)
        /\ t \in Seq(Word)
    BY <1>4, <1>5, <1>6, <1>7
  <2>4. QED
    BY <2>1, <2>2, <2>3, GotAll
<1>12. SubSeq(x, 1, HeaderWords) = h
  BY <1>4, Halves
<1>13. Len(before) + HeaderWords < Len(w)
  <2>1. Len(w \o s) = Len(w) + Len(s) /\ Len(w) \in Nat
    BY <1>5, <1>6, ConcatIs
  <2>2. Len(b \o t) = Len(b) + Len(t)
    BY <1>7, <1>8, ConcatIs
  <2>3. Len(w) + c = Len(before) + HeaderWords + Len(t)
    BY <1>5, <1>8, <1>9, <2>1, <2>2
  <2>4. QED
    BY <1>4, <1>7, <1>8, <1>10, <2>1, <2>3 DEF HeaderWords
<1>14. InOffset(k) = Len(before)
  BY <1>6 DEF InOffset
<1>15. QED
  BY <1>4, <1>8, <1>11, <1>12, <1>13, <1>14 DEF w, x

\* And then the rest of it: what PieceShape says there is of it.
LEMMA BodyRead ==
  ASSUME input \in Inputs, NEW k \in 0 .. Len(Arrived), k # Len(Arrived),
         NEW at, at = InOffset(k) + HeaderWords,
         NEW h, h = SubSeq(InPieces[k + 1], 1, HeaderWords)
  PROVE  LET n == h[1][2] - HeaderWords
             g == Got(input.words, at, n)
             q == g \o Stale(n - Len(g))
             e == Arrived[k + 1]
         IN  /\ q \in Seq(Word) /\ h \in Seq(Word)
             /\ e \in Items /\ h[2][2] = e.type
             /\ e.type = "event" => q = Lead(e) \o OutPieces[k + 1]
             /\ e.type # "event" => OutPieces[k + 1] = h \o q
             /\ at + Len(g) \in Nat
             /\ UpTo(k + 1, at + Len(g))
<1> DEFINE w == input.words
           e == Arrived[k + 1]
           x == InPieces[k + 1]
<1>1. PICK before, after \in Seq(Word), c \in Nat : Surrounds(k, before, x, after, c)
  BY InputAt
<1>2. k + 1 \in 1 .. Len(Arrived) /\ Len(Arrived) \in Nat
  BY ArrivedIs
<1>3. PICK r \in Seq(Word) :
        LET f == Header(e.type, Len(r))
        IN  /\ e \in Items /\ Len(r) \in Nat /\ x = f \o r /\ Missing(k + 1) < Len(r)
            /\ f \in Seq(Word) /\ Len(f) = HeaderWords
            /\ f[1][2] = HeaderWords + Len(r) /\ f[2][2] = e.type
            /\ e.type = "event" => r = Lead(e) \o OutPieces[k + 1]
            /\ e.type # "event" => OutPieces[k + 1] = f \o r
  BY <1>2, PieceShape
<1> DEFINE f == Header(e.type, Len(r))
<1>4. /\ Len(r) \in Nat /\ x = f \o r /\ Missing(k + 1) < Len(r)
      /\ f \in Seq(Word) /\ Len(f) = HeaderWords
      /\ f[1][2] = HeaderWords + Len(r) /\ f[2][2] = e.type /\ e \in Items
  BY <1>3
<1>5. /\ e.type = "event" => r = Lead(e) \o OutPieces[k + 1]
      /\ e.type # "event" => OutPieces[k + 1] = f \o r
  BY <1>3
<1>6. /\ w \in Seq(Word) /\ before \in Seq(Word) /\ after \in Seq(Word)
      /\ w \o Stale(c) = (before \o x) \o after
      /\ before = FlattenFirst(InPieces, k)
      /\ FlattenFirst(InPieces, k + 1) = before \o x
      /\ k + 1 = Len(Arrived) => /\ c = Missing(k + 1)
                                 /\ after = <<>> \/ (c = 0 /\ Len(after) = HeaderWords)
      /\ k + 1 # Len(Arrived) => c < Len(after)
  BY <1>1 DEF Surrounds
<1> HIDE DEF w, e, x, f
<1>7. h = f
  BY <1>4, Halves DEF x
<1> DEFINE b == before \o f
<1>8. b \in Seq(Word) /\ Len(b) = Len(before) + HeaderWords /\ Len(before) \in Nat
  <2>1. Len(before \o f) = Len(before) + Len(f) /\ Len(before) \in Nat /\ before \o f \in Seq(Word)
    BY <1>4, <1>6, ConcatIs
  <2>2. QED
    BY <1>4, <2>1
<1>9. before \o x = b \o r
  BY ZenonT(30), <1>4, <1>6, Regroup
<1>10. at = Len(b)
  BY <1>6, <1>8 DEF InOffset
<1>n. h[1][2] - HeaderWords = Len(r)
  BY SMTT(30), <1>4, <1>7 DEF HeaderWords
<1> HIDE DEF b
<1> DEFINE g == Got(w, Len(b), Len(r))
<1>11. /\ Stale(c) \in Seq(Word) /\ Len(Stale(c)) = c /\ Stale(0) = <<>>
  <2>1. Stale(c) \in Seq(Word) /\ Len(Stale(c)) = c /\ Stale(0) \in Seq(Word) /\ Len(Stale(0)) = 0
    BY FillerIs
  <2>2. QED
    BY <2>1, EmptySeq
<1>12. w \o Stale(c) = (b \o r) \o after
  BY <1>6, <1>9
<1>13. b \o r \in Seq(Word) /\ Len(b \o r) = Len(b) + Len(r)
  BY <1>8, ConcatIs
<1>l. Len(w) + c = Len(b) + Len(r) + Len(after) /\ Len(w) \in Nat /\ Len(after) \in Nat
  <2>1. Len(w \o Stale(c)) = Len(w) + Len(Stale(c)) /\ Len(w) \in Nat
    BY <1>6, <1>11, ConcatIs
  <2>2. Len((b \o r) \o after) = Len(b \o r) + Len(after) /\ Len(after) \in Nat
    BY <1>6, <1>13, ConcatIs
  <2>3. QED
    BY <1>11, <1>12, <1>13, <2>1, <2>2
<1>14. /\ g \o Stale(Len(r) - Len(g)) = r
       /\ Len(g) \in Nat
       /\ UpTo(k + 1, Len(b) + Len(g))
  <2>1. CASE after = <<>>
    <3>1. w \o Stale(c) = b \o r
      BY <1>12, <1>13, <2>1, ConcatEmptySeq
    <3>2. Len(after) = 0
      BY <2>1
    <3>3. k + 1 = Len(Arrived) /\ c <= Len(r)
      BY <1>4, <1>6, <3>2
    <3>a. w \in Seq(Word) /\ b \in Seq(Word) /\ r \in Seq(Word) /\ c \in Nat
      BY <1>6, <1>8
    <3>b. Ends(w, c, b, r)
      BY <3>1, <3>3 DEF Ends
    <3>4. g \o Stale(Len(r) - Len(g)) = r /\ Len(b) + Len(g) = Len(w)
      <4>1. /\ Got(w, Len(b), Len(r)) \o Stale(Len(r) - Len(Got(w, Len(b), Len(r)))) = r
            /\ Len(b) + Len(Got(w, Len(b), Len(r))) = Len(w)
        BY <3>a, <3>b, GotEnd
      <4>2. QED
        BY <4>1
    <3>5. UpTo(k + 1, Len(b) + Len(g))
      BY <3>3, <3>4 DEF UpTo, w
    <3>6. Len(g) \in Nat
      <4>1. g = <<>> \/ Len(r) # 0
        BY <1>4, <3>3, <3>4
      <4>2. SubSeq(w, Len(b) + 1, Len(w)) \in Seq(Word)
        <5>1. Len(b) \in 0 .. Len(w)
          BY SMTT(30), <1>4, <1>8, <1>l, <3>2, <3>3
        <5>2. QED
          BY <1>6, <5>1, Parts
      <4>3. Min({Len(b) + Len(r), Len(w)}) = Len(w)
        <5>1. PICK i, j \in Int : i = Len(b) + Len(r) /\ j = Len(w) /\ j <= i
          BY SMTT(30), <1>4, <1>8, <1>l, <3>2
        <5>2. Min({i, j}) = IF i <= j THEN i ELSE j
          BY MinOfTwo
        <5>3. Min({i, j}) = j
          BY <5>1, <5>2
        <5>4. QED
          BY <5>1, <5>3
      <4>4. g \in Seq(Word)
        BY <4>2, <4>3 DEF Got
      <4>5. QED
        BY <4>4, LenProperties
    <3>7. QED
      BY <3>4, <3>5, <3>6
  <2>2. CASE after # <<>>
    <3>1. c <= Len(after)
      BY <1>6, <1>l, <2>2 DEF HeaderWords
    <3> DEFINE s == Stale(c)
    <3>a. /\ w \in Seq(Word) /\ s \in Seq(Word) /\ b \in Seq(Word) /\ r \in Seq(Word)
          /\ after \in Seq(Word) /\ Len(s) <= Len(after) /\ w \o s = (b \o r) \o after
      BY <1>6, <1>8, <1>11, <1>12, <3>1
    <3> HIDE DEF s
    <3>2. g = r
      BY <3>a, GotAll
    <3>3. r \o Stale(Len(r) - Len(r)) = r
      <4>1. Len(r) - Len(r) = 0
        BY <1>4
      <4>2. QED
        BY <1>11, <4>1, ConcatEmptySeq
    <3>4. UpTo(k + 1, Len(b) + Len(r))
      <4>1. CASE k + 1 = Len(Arrived)
        <5>1. Len(b) + Len(r) + HeaderWords = Len(w)
          BY SMTT(30), <1>6, <1>l, <2>2, <4>1
        <5>2. QED
          BY <4>1, <5>1 DEF UpTo, w
      <4>2. CASE k + 1 # Len(Arrived)
        <5>1. InOffset(k + 1) = Len(b) + Len(r)
          BY <1>6, <1>9, <1>13 DEF InOffset
        <5>2. QED
          BY <4>2, <5>1 DEF UpTo
      <4>3. QED
        BY <4>1, <4>2
    <3>5. QED
      BY <1>4, <3>2, <3>3, <3>4
  <2>3. QED
    BY <2>1, <2>2
<1>15. Len(b) + Len(g) \in Nat
  BY <1>8, <1>14
<1> HIDE DEF g
<1>16. /\ g = Got(w, at, h[1][2] - HeaderWords)
       /\ Stale(h[1][2] - HeaderWords - Len(g)) = Stale(Len(r) - Len(g))
  BY <1>10, <1>n DEF g
<1>17. /\ g \o Stale(h[1][2] - HeaderWords - Len(g)) = r
  BY <1>14, <1>16
<1>18. h[2][2] = e.type /\ h \in Seq(Word) /\ e \in Items
  BY <1>4, <1>7
<1>19. /\ e.type = "event" => r = Lead(e) \o OutPieces[k + 1]
       /\ e.type # "event" => OutPieces[k + 1] = h \o r
  BY <1>5, <1>7
<1>20. QED
  BY <1>10, <1>14, <1>15, <1>16, <1>17, <1>18, <1>19 DEF w, e

-----------------------------------------------------------------------------
(* The filter.  Where it is when it has read the items up to k: at, h and  *)
(* q stand for taken, hdr and p, b and w for buffer and written.           *)

InItem == {"skip", "item header", "fragment header", "body header", "rest"}

ReadTo(k, pc, at, h) ==
  /\ at \in Nat
  /\ pc \in {"header", "count"} \cup InItem => UpTo(k, at)
  /\ pc = "data" =>
       IF k = Len(Arrived) THEN at = Len(input.words)
       ELSE /\ at = InOffset(k) + HeaderWords
            /\ h = SubSeq(InPieces[k + 1], 1, HeaderWords)

\* What was given to the outputter, and what p and hdr hold of the rest.
GivenTo(k, pc, h, q, out) ==
  /\ out \in Seq(Word)
  /\ pc \in InItem => k > 0 /\ q \in Seq(Word)
  /\ pc \in {"header", "data", "count"} => out = Output(k)
  /\ pc = "skip" => /\ Arrived[k].type = "event" /\ out = Output(k - 1)
                    /\ q = Lead(Arrived[k]) \o OutPieces[k]
  /\ pc = "item header" => /\ h \in Seq(Word) /\ out = Output(k - 1)
                           /\ h \o q = OutPieces[k]
  /\ pc = "fragment header" => /\ Arrived[k].type = "event" /\ out = Output(k - 1)
                               /\ q = OutPieces[k]
  /\ pc = "body header" => /\ q[1][2] \in {0, 1, BodyHeaderWords}
                           /\ Len(q) >= BodyHeaderWords
                           /\ out \o q = Output(k)
  /\ pc = "rest" => out \o q = Output(k)
  /\ pc \in {"ended", "failed", "astray"} => \E more \in Seq(Word) : out \o more = Output(k)

WrittenTo(k, pc, b, w, gone) ==
  /\ b \in Seq(Word) /\ w \in Seq(Word)
  /\ pc = "ended" => b = <<>> /\ (~gone => w = Output(k))

CountedTo(k, pc, c) ==
  /\ c \in Nat
  /\ count = 0 => c = 0 /\ pc # "ended"
  /\ count # 0 =>
       /\ c <= count /\ k <= count
       /\ pc # "ended" => c < count
       /\ pc \in {"header", "data"} => k <= c /\ (k = c \/ k = Len(Arrived))
       /\ pc \in InItem => k = c + 1
       /\ pc = "count" => k <= c + 1 /\ (k = c + 1 \/ k = Len(Arrived))
       /\ pc = "ended" => k = count \/ k = Len(Arrived)

FilterAt(k, pc, at, h, q, c, b, w, gone) ==
  /\ ReadTo(k, pc, at, h)
  /\ GivenTo(k, pc, h, q, w \o b)
  /\ WrittenTo(k, pc, b, w, gone)
  /\ CountedTo(k, pc, c)

Now(k) == FilterAt(k, fpc, taken, hdr, p, ct, buffer, written, noReader)
Then(k) == FilterAt(k, fpc', taken', hdr', p', ct', buffer', written', noReader')

Before(k) ==
  /\ input \in Inputs /\ count \in Counts /\ count \in Nat
  /\ k \in 0 .. Len(Arrived) /\ Len(Arrived) \in Nat
  /\ Now(k) /\ noReader' = noReader

LEMMA ReadHeaderStep ==
  ASSUME NEW k, Before(k), ReadHeader
  PROVE  Then(k)
<1>1. /\ input \in Inputs /\ k \in 0 .. Len(Arrived) /\ fpc = "header" /\ fpc' = "data"
      /\ taken \in Nat /\ UpTo(k, taken) /\ Read(HeaderWords) # <<>>
      /\ hdr' = Read(HeaderWords) /\ taken' = taken + HeaderWords
  BY DEF Before, Now, FilterAt, ReadTo, ReadHeader
<1>2. Read(HeaderWords) = Got(input.words, taken, HeaderWords)
  BY DEF Read, Got
<1>3. ReadTo(k, fpc', taken', hdr')
  <2>1. taken' \in Nat
    BY <1>1 DEF HeaderWords
  <2>2. CASE k = Len(Arrived)
    <3>1. taken # Len(input.words)
      <4>1. input.words \in Seq(Word)
        BY <1>1, InputWords
      <4>2. HeaderWords \in Nat \ {0}
        BY DEF HeaderWords
      <4>3. QED
        BY <1>1, <1>2, <4>1, <4>2, GotSome, LenProperties
    <3>2. QED
      BY <1>1, <2>1, <2>2, <3>1 DEF ReadTo, UpTo, InItem
  <2>3. CASE k # Len(Arrived)
    <3>1. hdr' = SubSeq(InPieces[k + 1], 1, HeaderWords)
      BY <1>1, <1>2, <2>3, HeaderRead DEF UpTo
    <3>2. QED
      BY <1>1, <2>1, <2>3, <3>1 DEF ReadTo, UpTo, InItem
  <2>4. QED
    BY <2>2, <2>3
<1>4. GivenTo(k, fpc', hdr', p', written' \o buffer')
  BY <1>1 DEF Before, Now, FilterAt, GivenTo, InItem, ReadHeader
<1>5. WrittenTo(k, fpc', buffer', written', noReader')
  BY <1>1 DEF Before, Now, FilterAt, WrittenTo, ReadHeader
<1>6. CountedTo(k, fpc', ct')
  BY <1>1 DEF Before, Now, FilterAt, CountedTo, InItem, ReadHeader
<1>7. QED
  BY <1>3, <1>4, <1>5, <1>6 DEF Then, FilterAt

LEMMA NothingReadStep ==
  ASSUME NEW k, Before(k), NothingRead
  PROVE  Then(k)
<1>1. /\ input \in Inputs /\ k \in 0 .. Len(Arrived) /\ fpc \in {"header", "data"}
      /\ fpc' = "count" /\ taken' = taken /\ taken = Len(input.words)
      /\ ReadTo(k, fpc, taken, hdr) /\ taken \in Nat
  BY DEF Before, Now, FilterAt, ReadTo, NothingRead
<1>2. k = Len(Arrived)
  <2>1. SUFFICES ASSUME k # Len(Arrived) PROVE FALSE
    OBVIOUS
  <2>2. InOffset(k) \in Nat /\ InOffset(k) + HeaderWords < taken
    BY <1>1, <2>1, HeaderRead
  <2>3. taken = InOffset(k) \/ taken = InOffset(k) + HeaderWords
    BY <1>1, <2>1 DEF ReadTo, UpTo
  <2>4. QED
    BY <2>2, <2>3 DEF HeaderWords
<1>3. ReadTo(k, fpc', taken', hdr')
  BY <1>1, <1>2 DEF ReadTo, UpTo
<1>4. GivenTo(k, fpc', hdr', p', written' \o buffer')
  BY <1>1 DEF Before, Now, FilterAt, GivenTo, InItem, NothingRead
<1>5. WrittenTo(k, fpc', buffer', written', noReader')
  BY <1>1 DEF Before, Now, FilterAt, WrittenTo, NothingRead
<1>6. CountedTo(k, fpc', ct')
  <2>1. CountedTo(k, fpc, ct) /\ ct' = ct /\ k \in Nat /\ count \in Nat
    BY DEF Before, Now, FilterAt, NothingRead
  <2>2. /\ ct \in Nat /\ (count = 0 => ct = 0)
        /\ count # 0 => k <= ct /\ ct < count /\ k <= count
    BY <1>1, <2>1 DEF CountedTo
  <2>3. fpc' \notin {"header", "data"} \cup InItem /\ fpc' # "ended" /\ fpc' = "count"
    BY <1>1 DEF InItem
  <2>4. count # 0 => k <= ct + 1 /\ ct <= count
    BY <2>1, <2>2
  <2>5. QED
    BY <1>2, <2>1, <2>2, <2>3, <2>4, Zenon DEF CountedTo
<1>7. QED
  BY <1>3, <1>4, <1>5, <1>6 DEF Then, FilterAt

LEMMA OutputNext ==
  ASSUME input \in Inputs, NEW k \in 1 .. Len(Arrived)
  PROVE  /\ Output(k) = Output(k - 1) \o OutPieces[k]
         /\ Output(k - 1) \in Seq(Word) /\ Output(k) \in Seq(Word)
         /\ OutPieces[k] \in Seq(Word)
<1>1. Len(Arrived) \in Nat /\ OutPieces \in Seq(Seq(Word)) /\ Len(OutPieces) = Len(Arrived)
  BY ArrivedIs, PiecesAre
<1>2. PICK j \in 0 .. Len(Arrived) : j = k - 1 /\ j # Len(Arrived) /\ j + 1 = k
  BY <1>1
<1>3. FlattenFirst(OutPieces, j + 1) = FlattenFirst(OutPieces, j) \o OutPieces[j + 1]
  BY <1>1, <1>2, FirstNext
<1>4. k \in 0 .. Len(Arrived)
  BY <1>1
<1>5. FlattenFirst(OutPieces, j) \in Seq(Word) /\ FlattenFirst(OutPieces, k) \in Seq(Word)
  BY <1>1, <1>2, <1>4, FirstType
<1>6. QED
  BY <1>2, <1>3, <1>5, PieceIs DEF Output

LEMMA ReadDataStep ==
  ASSUME NEW k, Before(k), ReadData
  PROVE  k + 1 \in 0 .. Len(Arrived) /\ Then(k + 1)
<1>1. /\ input \in Inputs /\ k \in 0 .. Len(Arrived) /\ Len(Arrived) \in Nat /\ fpc = "data"
      /\ ReadTo(k, fpc, taken, hdr) /\ taken \in Nat /\ Read(1) # <<>>
  BY DEF Before, Now, FilterAt, ReadTo, ReadData
<1>2. k # Len(Arrived)
  <2>1. SUFFICES ASSUME k = Len(Arrived) PROVE FALSE
    OBVIOUS
  <2>2. taken = Len(input.words)
    BY <1>1, <2>1 DEF ReadTo
  <2>3. input.words \in Seq(Word)
    BY <1>1, InputWords
  <2>4. Got(input.words, taken, 1) = <<>>
    BY <1>1, <2>2, <2>3, GotSome
  <2>5. QED
    BY <1>1, <2>4 DEF Read, Got
<1> DEFINE e == Arrived[k + 1]
<1>3. /\ p' \in Seq(Word) /\ hdr \in Seq(Word)
      /\ hdr[2][2] = e.type
      /\ e.type = "event" => p' = Lead(e) \o OutPieces[k + 1]
      /\ e.type # "event" => OutPieces[k + 1] = hdr \o p'
      /\ taken' \in Nat /\ UpTo(k + 1, taken')
  <2>1. taken = InOffset(k) + HeaderWords /\ hdr = SubSeq(InPieces[k + 1], 1, HeaderWords)
    BY <1>1, <1>2 DEF ReadTo
  <2> DEFINE n == hdr[1][2] - HeaderWords
             g == Got(input.words, taken, n)
             q == g \o Stale(n - Len(g))
  <2>2. /\ q \in Seq(Word) /\ hdr \in Seq(Word)
        /\ hdr[2][2] = e.type
        /\ e.type = "event" => q = Lead(e) \o OutPieces[k + 1]
        /\ e.type # "event" => OutPieces[k + 1] = hdr \o q
        /\ taken + Len(g) \in Nat
        /\ UpTo(k + 1, taken + Len(g))
    BY ZenonT(30), <1>1, <1>2, <2>1, BodyRead
  <2>3. p' = q /\ taken' = taken + Len(g)
    BY DEF ReadData, Read, Got
  <2>4. QED
    BY <2>2, <2>3
<1>4. k + 1 \in 0 .. Len(Arrived) /\ k + 1 \in 1 .. Len(Arrived) /\ k + 1 > 0 /\ (k + 1) - 1 = k
  BY <1>1, <1>2
<1>5. /\ fpc' = IF e.type = "event" THEN "skip" ELSE "item header"
      /\ hdr' = hdr /\ ct' = ct /\ buffer' = buffer /\ written' = written
  BY <1>3 DEF ReadData
<1>6. ReadTo(k + 1, fpc', taken', hdr')
  BY <1>3, <1>5 DEF ReadTo, InItem
<1>7. GivenTo(k + 1, fpc', hdr', p', written' \o buffer')
  <2>1. written \o buffer = Output(k) /\ written \o buffer \in Seq(Word)
    BY <1>1 DEF Before, Now, FilterAt, GivenTo
  <2>2. PICK j : j = k + 1 /\ j > 0 /\ j - 1 = k
    BY <1>4
  <2> HIDE DEF e
  <2>3. e = Arrived[j]
    BY <2>2 DEF e
  <2>4. CASE e.type = "event"
    <3>1. fpc' = "skip"
      BY <1>5, <2>4
    <3>2. GivenTo(j, fpc', hdr', p', written' \o buffer')
      BY <1>3, <1>5, <2>1, <2>2, <2>3, <2>4, <3>1 DEF GivenTo, InItem
    <3>3. QED
      BY <2>2, <3>2
  <2>5. CASE e.type # "event"
    <3>1. fpc' = "item header"
      BY <1>5, <2>5
    <3>2. GivenTo(j, fpc', hdr', p', written' \o buffer')
      BY <1>3, <1>5, <2>1, <2>2, <2>3, <2>5, <3>1 DEF GivenTo, InItem
    <3>3. QED
      BY <2>2, <3>2
  <2>6. QED
    BY <2>4, <2>5
<1>8. WrittenTo(k + 1, fpc', buffer', written', noReader')
  BY <1>1, <1>5 DEF Before, Now, FilterAt, WrittenTo
<1>9. CountedTo(k + 1, fpc', ct')
  <2>0. k \in Nat
    BY <1>1
  <2>1. CountedTo(k, fpc, ct) /\ ct' = ct /\ count \in Nat
    BY <1>5 DEF Before, Now, FilterAt
  <2>2. /\ ct \in Nat /\ (count = 0 => ct = 0)
        /\ count # 0 => k = ct /\ ct < count
    BY <1>1, <1>2, <2>1 DEF CountedTo
  <2>3. fpc' \notin {"header", "data"} /\ fpc' # "count" /\ fpc' # "ended"
    BY <1>5
  <2>4. count # 0 => k + 1 = ct + 1 /\ ct <= count /\ k + 1 <= count
    BY <2>0, <2>1, <2>2
  <2>5. QED
    BY <2>1, <2>2, <2>3, <2>4, Zenon DEF CountedTo
<1>10. QED
  BY <1>4, <1>6, <1>7, <1>8, <1>9 DEF Then, FilterAt

LEMMA BeforeIs ==
  ASSUME NEW k, Before(k)
  PROVE  /\ input \in Inputs /\ k \in 0 .. Len(Arrived) /\ k \in Nat /\ Len(Arrived) \in Nat
         /\ ReadTo(k, fpc, taken, hdr)
         /\ GivenTo(k, fpc, hdr, p, written \o buffer)
         /\ WrittenTo(k, fpc, buffer, written, noReader)
         /\ CountedTo(k, fpc, ct) /\ count \in Nat /\ ct \in Nat
         /\ fpc \in InItem => k \in 1 .. Len(Arrived) /\ p \in Seq(Word)
         /\ buffer \in Seq(Word) /\ written \in Seq(Word) /\ written \o buffer \in Seq(Word)
         /\ noReader' = noReader
<1>1. k \in 0 .. Len(Arrived) /\ Len(Arrived) \in Nat
  BY DEF Before
<1>2. k \in Nat
  BY <1>1
<1>3. /\ ReadTo(k, fpc, taken, hdr)
      /\ GivenTo(k, fpc, hdr, p, written \o buffer)
      /\ WrittenTo(k, fpc, buffer, written, noReader)
      /\ CountedTo(k, fpc, ct) /\ count \in Nat /\ input \in Inputs /\ noReader' = noReader
  BY DEF Before, Now, FilterAt
<1>4. ct \in Nat
  BY <1>3 DEF CountedTo
<1>5. fpc \in InItem => k > 0 /\ p \in Seq(Word)
  BY <1>3 DEF GivenTo
<1>6. k > 0 => k \in 1 .. Len(Arrived)
  BY <1>1
<1>7. written \in Seq(Word) /\ buffer \in Seq(Word)
  BY <1>3 DEF WrittenTo
<1>8. written \o buffer \in Seq(Word)
  BY <1>7, ConcatIs
<1>9. QED
  BY <1>1, <1>2, <1>3, <1>4, <1>5, <1>6, <1>7, <1>8

\* From one step of an item to the next nothing is read or counted.
LEMMA SameItem ==
  ASSUME NEW k, Before(k), fpc \in InItem, fpc' \in InItem, taken' = taken, ct' = ct
  PROVE  ReadTo(k, fpc', taken', hdr') /\ CountedTo(k, fpc', ct')
<1>1. fpc \in InItem /\ fpc \notin {"header", "data"} /\ fpc # "count" /\ fpc # "ended"
  BY DEF InItem
<1>2. fpc' \in InItem /\ fpc' \notin {"header", "data"} /\ fpc' # "data" /\ fpc' # "count" /\ fpc' # "ended"
  BY DEF InItem
<1>3. ReadTo(k, fpc, taken, hdr) /\ CountedTo(k, fpc, ct)
  BY BeforeIs
<1>4. ReadTo(k, fpc', taken', hdr')
  BY <1>1, <1>2, <1>3 DEF ReadTo
<1>5. CountedTo(k, fpc', ct')
  BY <1>1, <1>2, <1>3, Zenon DEF CountedTo
<1>6. QED
  BY <1>4, <1>5

\* What is put follows what was put before, in the buffer or out of it.
LEMMA PutIs ==
  ASSUME NEW words \in Seq(Word), Put(words), buffer \in Seq(Word), written \in Seq(Word)
  PROVE  /\ written' \in Seq(Word) /\ buffer' \in Seq(Word)
         /\ written' \o buffer' = (written \o buffer) \o words
         /\ written' \o buffer' \in Seq(Word)
<1>1. /\ buffer \o words \in Seq(Word) /\ written \o buffer \in Seq(Word)
      /\ <<>> \in Seq(Word)
  BY ConcatIs, EmptySeq
<1>2. (written \o buffer) \o words \in Seq(Word)
  <2> DEFINE v == written \o buffer
  <2>1. v \in Seq(Word)
    BY <1>1
  <2> HIDE DEF v
  <2>2. v \o words \in Seq(Word)
    BY <2>1, ConcatIs
  <2>3. QED
    BY <2>2 DEF v
<1>3. (written \o buffer) \o words = written \o (buffer \o words)
  BY Regroup
<1>4. CASE buffer' = buffer \o words /\ written' = written
  BY <1>1, <1>2, <1>3, <1>4
<1>5. CASE buffer' = <<>> /\ written' = written \o buffer \o words
  <2>1. written' \in Seq(Word)
    BY <1>2, <1>5
  <2>2. written' \o buffer' = written'
    BY <1>5, <2>1, ConcatEmptySeq
  <2>3. QED
    BY <1>1, <1>2, <1>5, <2>1, <2>2
<1>6. QED
  BY <1>4, <1>5 DEF Put

LEMMA WrittenIs ==
  ASSUME NEW k, NEW pc, pc # "ended", NEW b \in Seq(Word), NEW w \in Seq(Word), NEW gone
  PROVE  WrittenTo(k, pc, b, w, gone)
  BY DEF WrittenTo

LEMMA SkipStep ==
  ASSUME NEW k, Before(k), Skip
  PROVE  Then(k)
<1>1. fpc = "skip" /\ fpc' = "fragment header" /\ taken' = taken /\ ct' = ct
      /\ p' = SubSeq(p, 1 + p[1][2] + 1 + FragmentWords, Len(p)) /\ p[1][2] # 0
      /\ buffer' = buffer /\ written' = written
  BY DEF Skip
<1>2. fpc \in InItem /\ fpc' \in InItem
  BY <1>1 DEF InItem
<1> DEFINE e == Arrived[k]
           l == Lead(e)
           o == OutPieces[k]
<1>3. /\ k \in 1 .. Len(Arrived) /\ k > 0 /\ input \in Inputs
      /\ e.type = "event" /\ p = l \o o
      /\ written \o buffer = Output(k - 1) /\ written \o buffer \in Seq(Word)
  <2>1. GivenTo(k, fpc, hdr, p, written \o buffer) /\ k \in 1 .. Len(Arrived)
        /\ written \o buffer \in Seq(Word) /\ input \in Inputs
    BY <1>2, BeforeIs
  <2>2. /\ e.type = "event" /\ p = l \o o /\ written \o buffer = Output(k - 1)
        /\ k > 0
    BY <1>1, <1>2, <2>1 DEF GivenTo
  <2>3. QED
    BY <2>1, <2>2
<1>4. /\ l \in Seq(Word) /\ Len(l) \in Nat \ {0} /\ l[1][2] = e.outer
      /\ e.outer # 0 => Len(l) = e.outer + 1 + FragmentWords
      /\ o \in Seq(Word) /\ e.outer \in Nat
  <2>1. e \in Items
    BY <1>3, MissingIs
  <2>2. QED
    BY <1>3, <2>1, LeadIs, PieceIs
<1> HIDE DEF l, o
<1>5. p' = o
  <2>1. 1 \in 1 .. Len(l)
    BY <1>4
  <2>2. p[1] = l[1] /\ p[1][2] # 0
    BY <1>1, <1>3, <1>4, <2>1, AtLeft
  <2>3. 1 + p[1][2] + 1 + FragmentWords = Len(l) + 1
    <3>1. p[1][2] = e.outer /\ e.outer # 0
      BY <1>4, <2>2
    <3>2. Len(l) = e.outer + 1 + FragmentWords /\ e.outer \in Nat
      BY <1>4, <3>1
    <3> HIDE DEF e
    <3>3. QED
      BY ONLY <3>1, <3>2, SMT DEF FragmentWords
  <2>4. SubSeq(l \o o, Len(l) + 1, Len(l \o o)) = o
    BY <1>4, Halves
  <2>5. QED
    BY <1>1, <1>3, <2>3, <2>4
<1>6. ReadTo(k, fpc', taken', hdr') /\ CountedTo(k, fpc', ct')
  BY <1>1, <1>2, SameItem
<1>7. GivenTo(k, fpc', hdr', p', written' \o buffer')
  BY <1>1, <1>3, <1>4, <1>5 DEF GivenTo, o
<1>8. WrittenTo(k, fpc', buffer', written', noReader')
  <2>1. buffer' \in Seq(Word) /\ written' \in Seq(Word) /\ fpc' # "ended"
    BY <1>1, BeforeIs
  <2>2. QED
    BY <2>1, WrittenIs
<1>9. QED
  BY <1>6, <1>7, <1>8 DEF Then, FilterAt

LEMMA PutItemHeaderStep ==
  ASSUME NEW k, Before(k), PutItemHeader
  PROVE  Then(k)
<1>1. /\ fpc = "item header" /\ fpc' = "rest" /\ taken' = taken /\ ct' = ct
      /\ hdr' = hdr /\ p' = p /\ Put(hdr)
  BY DEF PutItemHeader
<1>2. fpc \in InItem /\ fpc' \in InItem
  BY <1>1 DEF InItem
<1>3. /\ GivenTo(k, fpc, hdr, p, written \o buffer)
      /\ k \in 1 .. Len(Arrived) /\ p \in Seq(Word) /\ input \in Inputs
      /\ buffer \in Seq(Word) /\ written \in Seq(Word)
  BY <1>2, BeforeIs
<1> DEFINE out == written \o buffer
           more == written' \o buffer'
<1>4. k > 0 /\ hdr \in Seq(Word) /\ out = Output(k - 1) /\ hdr \o p = OutPieces[k] /\ out \in Seq(Word)
  BY <1>1, <1>2, <1>3 DEF GivenTo
<1>5. more = out \o hdr /\ more \in Seq(Word) /\ buffer' \in Seq(Word) /\ written' \in Seq(Word)
  BY <1>1, <1>3, <1>4, PutIs
<1> HIDE DEF out, more
<1>6. more \o p = Output(k)
  <2>1. (out \o hdr) \o p = out \o (hdr \o p)
    BY ZenonT(30), <1>3, <1>4, Regroup
  <2>2. QED
    BY <1>3, <1>4, <1>5, <2>1, OutputNext
<1>7. GivenTo(k, fpc', hdr', p', more)
  BY <1>1, <1>3, <1>4, <1>5, <1>6 DEF GivenTo
<1>8. ReadTo(k, fpc', taken', hdr') /\ CountedTo(k, fpc', ct')
  BY <1>1, <1>2, SameItem
<1>9. WrittenTo(k, fpc', buffer', written', noReader')
  <2>1. fpc' # "ended"
    BY <1>1
  <2>2. QED
    BY <1>5, <2>1, WrittenIs
<1>10. QED
  BY <1>7, <1>8, <1>9 DEF Then, FilterAt, more

LEMMA PutFragmentHeaderStep ==
  ASSUME NEW k, Before(k), PutFragmentHeader
  PROVE  Then(k)
<1> DEFINE out == written \o buffer
           more == written' \o buffer'
           a == SubSeq(p, 1, HeaderWords)
           b == SubSeq(p, HeaderWords + 1, Len(p))
           e == Arrived[k]
<1>1. /\ fpc = "fragment header" /\ fpc' = "body header" /\ taken' = taken /\ ct' = ct
      /\ p' = b /\ Put(a)
  BY DEF PutFragmentHeader
<1>2. fpc \in InItem /\ fpc' \in InItem
  BY <1>1 DEF InItem
<1>3. /\ GivenTo(k, fpc, hdr, p, written \o buffer)
      /\ k \in 1 .. Len(Arrived) /\ p \in Seq(Word) /\ input \in Inputs
      /\ buffer \in Seq(Word) /\ written \in Seq(Word)
  BY <1>2, BeforeIs
<1>4. k > 0 /\ e.type = "event" /\ out = Output(k - 1) /\ p = OutPieces[k] /\ out \in Seq(Word)
  BY <1>1, <1>2, <1>3 DEF GivenTo
<1>5. /\ a \in Seq(Word) /\ b \in Seq(Word) /\ a \o b = p
      /\ b[1][2] = e.inner /\ Len(b) >= BodyHeaderWords
      /\ e.inner \in {0, 1, BodyHeaderWords}
  <2> DEFINE c == Missing(k)
             r == Rest(e)
             h == Header(e.type, Len(r))
             q == Padded(r, c)
  <2>1. e \in Items /\ c \in 0 .. e.body
    BY <1>3, MissingIs
  <2>2. p = Padded(Plain(e), c)
    BY <1>3, <1>4, PieceIs
  <2>3. /\ p = h \o q /\ q \in Seq(Word) /\ Len(q) = Len(r)
        /\ Len(r) >= BodyHeaderWords /\ q[1][2] = e.inner
    BY <1>4, <2>1, <2>2, OutShape
  <2>4. Len(r) \in Nat
    BY <2>1, RestIs, LenProperties
  <2>5. h \in Seq(Word) /\ Len(h) = HeaderWords
    BY <2>1, <2>4, HeaderIs
  <2>6. e.inner \in {0, 1, BodyHeaderWords}
    BY <1>4, <2>1, ItemIs
  <2> HIDE DEF h, q, r, c
  <2>7. a = h /\ b = q
    BY <2>3, <2>5, Halves
  <2>8. QED
    BY <2>3, <2>5, <2>6, <2>7
<1> HIDE DEF a, b, e
<1>6. more = out \o a /\ more \in Seq(Word) /\ buffer' \in Seq(Word) /\ written' \in Seq(Word)
  BY <1>1, <1>3, <1>5, PutIs
<1> HIDE DEF out, more
<1>7. more \o b = Output(k)
  <2>1. (out \o a) \o b = out \o (a \o b)
    BY <1>4, <1>5, Regroup
  <2>2. QED
    BY <1>3, <1>4, <1>5, <1>6, <2>1, OutputNext
<1>8. GivenTo(k, fpc', hdr', p', more)
  BY <1>1, <1>4, <1>5, <1>6, <1>7 DEF GivenTo
<1>9. ReadTo(k, fpc', taken', hdr') /\ CountedTo(k, fpc', ct')
  BY <1>1, <1>2, SameItem
<1>10. WrittenTo(k, fpc', buffer', written', noReader')
  <2>1. fpc' # "ended"
    BY <1>1
  <2>2. QED
    BY <1>6, <2>1, WrittenIs
<1>11. QED
  BY <1>8, <1>9, <1>10 DEF Then, FilterAt, more

LEMMA PutBodyHeaderStep ==
  ASSUME NEW k, Before(k), PutBodyHeader
  PROVE  Then(k)
<1> DEFINE out == written \o buffer
           more == written' \o buffer'
           n == IF debug THEN BodyHeaderWords ELSE p[1][2]
           a == SubSeq(p, 1, n)
           b == SubSeq(p, n + 1, Len(p))
<1>1. /\ fpc = "body header" /\ fpc' = "rest" /\ taken' = taken /\ ct' = ct
      /\ p' = b /\ Put(a)
  BY DEF PutBodyHeader
<1>2. fpc \in InItem /\ fpc' \in InItem
  BY <1>1 DEF InItem
<1>3. /\ GivenTo(k, fpc, hdr, p, written \o buffer)
      /\ k \in 1 .. Len(Arrived) /\ p \in Seq(Word)
      /\ buffer \in Seq(Word) /\ written \in Seq(Word)
  BY <1>2, BeforeIs
<1>4. /\ k > 0 /\ p[1][2] \in {0, 1, BodyHeaderWords} /\ Len(p) >= BodyHeaderWords
      /\ out \o p = Output(k) /\ out \in Seq(Word)
  BY <1>1, <1>2, <1>3 DEF GivenTo
<1>5. n \in 0 .. Len(p)
  <2>1. n \in {0, 1, BodyHeaderWords}
    BY <1>4
  <2>2. Len(p) \in Nat
    BY <1>3, LenProperties
  <2>3. QED
    BY <1>4, <2>1, <2>2 DEF BodyHeaderWords
<1> HIDE DEF n
<1>6. a \in Seq(Word) /\ b \in Seq(Word) /\ a \o b = p
  BY <1>3, <1>5, Parts
<1> HIDE DEF a, b
<1>7. more = out \o a /\ more \in Seq(Word) /\ buffer' \in Seq(Word) /\ written' \in Seq(Word)
  BY <1>1, <1>3, <1>6, PutIs
<1> HIDE DEF out, more
<1>8. more \o b = Output(k)
  <2>1. (out \o a) \o b = out \o (a \o b)
    BY <1>4, <1>6, Regroup
  <2>2. QED
    BY <1>4, <1>6, <1>7, <2>1
<1>9. GivenTo(k, fpc', hdr', p', more)
  BY <1>1, <1>4, <1>6, <1>7, <1>8 DEF GivenTo
<1>10. ReadTo(k, fpc', taken', hdr') /\ CountedTo(k, fpc', ct')
  BY <1>1, <1>2, SameItem
<1>11. WrittenTo(k, fpc', buffer', written', noReader')
  <2>1. fpc' # "ended"
    BY <1>1
  <2>2. QED
    BY <1>7, <2>1, WrittenIs
<1>12. QED
  BY <1>9, <1>10, <1>11 DEF Then, FilterAt, more

LEMMA PutRestStep ==
  ASSUME NEW k, Before(k), PutRest
  PROVE  Then(k)
<1> DEFINE out == written \o buffer
           more == written' \o buffer'
<1>1. /\ fpc = "rest" /\ fpc' = "count" /\ taken' = taken /\ ct' = ct
      /\ Put(p)
  BY DEF PutRest
<1>2. fpc \in InItem /\ fpc' \notin InItem
  BY <1>1 DEF InItem
<1>3. /\ GivenTo(k, fpc, hdr, p, written \o buffer)
      /\ k \in 1 .. Len(Arrived) /\ p \in Seq(Word)
      /\ buffer \in Seq(Word) /\ written \in Seq(Word)
  BY <1>2, BeforeIs
<1>4. out \o p = Output(k)
  BY <1>1, <1>3 DEF GivenTo
<1>5. more = out \o p /\ more \in Seq(Word) /\ buffer' \in Seq(Word) /\ written' \in Seq(Word)
  BY <1>1, <1>3, PutIs
<1> HIDE DEF out, more
<1>6. GivenTo(k, fpc', hdr', p', more)
  BY <1>1, <1>2, <1>4, <1>5 DEF GivenTo
<1>7. ReadTo(k, fpc', taken', hdr')
  BY <1>1, <1>2, BeforeIs DEF ReadTo
<1>8. CountedTo(k, fpc', ct')
  <2>1. CountedTo(k, fpc, ct) /\ k \in Nat /\ ct \in Nat /\ count \in Nat
    BY BeforeIs
  <2>2. count # 0 => k = ct + 1
    BY <1>2, <2>1 DEF CountedTo
  <2>3. count # 0 => k <= ct + 1
    BY <2>1, <2>2
  <2>4. fpc' \notin {"header", "data"} /\ fpc' # "ended" /\ fpc # "ended"
    BY <1>1
  <2>5. QED
    BY <1>1, <1>2, <2>1, <2>2, <2>3, <2>4, Zenon DEF CountedTo
<1>9. WrittenTo(k, fpc', buffer', written', noReader')
  <2>1. fpc' # "ended"
    BY <1>1
  <2>2. QED
    BY <1>5, <2>1, WrittenIs
<1>10. QED
  BY <1>6, <1>7, <1>8, <1>9 DEF Then, FilterAt, more

\* What is put at any time is the beginning of what is to be put.
LEMMA GivenIsFirst ==
  ASSUME input \in Inputs, NEW k \in 0 .. Len(Arrived), NEW pc, NEW h, NEW q,
         NEW out, GivenTo(k, pc, h, q, out),
         pc \in {"header", "data", "count", "ended", "failed", "astray"} \cup InItem
  PROVE  \E more \in Seq(Word) : out \o more = Output(k)
<1>1. out \in Seq(Word) /\ (pc \in InItem => k \in 1 .. Len(Arrived) /\ q \in Seq(Word))
  <2>1. Len(Arrived) \in Nat
    BY ArrivedIs
  <2>2. out \in Seq(Word) /\ (pc \in InItem => k > 0 /\ q \in Seq(Word))
    BY DEF GivenTo
  <2>3. k > 0 => k \in 1 .. Len(Arrived)
    BY <2>1
  <2>4. QED
    BY <2>2, <2>3
<1>2. CASE pc \in {"header", "data", "count"}
  <2>1. out = Output(k)
    BY <1>2 DEF GivenTo
  <2>2. out \o <<>> = out /\ <<>> \in Seq(Word)
    BY <1>1, ConcatEmptySeq, EmptySeq
  <2>3. PICK t \in Seq(Word) : t = <<>>
    BY <2>2
  <2>4. out \o t = Output(k)
    BY <2>1, <2>2, <2>3
  <2>5. QED
    BY <2>3, <2>4
<1>3. CASE pc \in {"ended", "failed", "astray"}
  BY <1>3 DEF GivenTo
<1>4. CASE pc \in {"skip", "item header", "fragment header"}
  <2>1. out = Output(k - 1)
    BY <1>4 DEF GivenTo
  <2>2. pc \in InItem
    BY <1>4 DEF InItem
  <2>3. out \o OutPieces[k] = Output(k) /\ OutPieces[k] \in Seq(Word)
    BY <1>1, <2>1, <2>2, OutputNext
  <2>4. QED
    BY <2>3
<1>5. CASE pc \in {"body header", "rest"}
  <2>1. out \o q = Output(k)
    BY <1>5 DEF GivenTo
  <2>2. pc \in InItem
    BY <1>5 DEF InItem
  <2>3. QED
    BY <1>1, <2>1, <2>2
<1>6. QED
  BY <1>2, <1>3, <1>4, <1>5 DEF InItem

\* Where the filter gives up, or goes astray, it has put what it had.
LEMMA StopStep ==
  ASSUME NEW k, Before(k), PutFails \/ SkipShort
  PROVE  Then(k)
<1>1. /\ fpc' \in {"failed", "astray"} /\ taken' = taken /\ ct' = ct /\ hdr' = hdr /\ p' = p
      /\ buffer' = buffer /\ written' = written
      /\ fpc \in InItem
  BY DEF PutFails, SkipShort, InItem
<1>2. fpc # "ended" /\ fpc' \notin {"header", "data"} \cup InItem /\ fpc' # "count" /\ fpc' # "ended"
      /\ fpc' \notin {"header", "data", "count"} \cup InItem
  BY <1>1 DEF InItem
<1>3. \E more \in Seq(Word) : (written \o buffer) \o more = Output(k)
  <2>1. /\ GivenTo(k, fpc, hdr, p, written \o buffer) /\ k \in 0 .. Len(Arrived)
        /\ input \in Inputs
    BY BeforeIs
  <2>2. fpc \in {"header", "data", "count", "ended", "failed", "astray"} \cup InItem
    BY <1>1
  <2>3. PICK out : out = written \o buffer
    OBVIOUS
  <2>4. GivenTo(k, fpc, hdr, p, out)
    BY <2>1, <2>3
  <2>5. \E more \in Seq(Word) : out \o more = Output(k)
    BY <2>1, <2>2, <2>4, GivenIsFirst
  <2>6. QED
    BY <2>3, <2>5
<1>4. written \o buffer \in Seq(Word)
  BY BeforeIs
<1>5. GivenTo(k, fpc', hdr', p', written' \o buffer')
  BY <1>1, <1>2, <1>3, <1>4 DEF GivenTo
<1>6. ReadTo(k, fpc', taken', hdr')
  BY <1>1, <1>2, BeforeIs DEF ReadTo
<1>7. CountedTo(k, fpc', ct')
  <2>1. CountedTo(k, fpc, ct)
    BY BeforeIs
  <2>2. fpc' \notin {"header", "data"} /\ fpc' \notin InItem
    BY <1>2
  <2>3. QED
    BY <1>1, <1>2, <2>1, <2>2, Zenon DEF CountedTo
<1>8. WrittenTo(k, fpc', buffer', written', noReader')
  <2>1. buffer' \in Seq(Word) /\ written' \in Seq(Word)
    BY <1>1, BeforeIs
  <2>2. QED
    BY <1>2, <2>1, WrittenIs
<1>9. QED
  BY <1>5, <1>6, <1>7, <1>8 DEF Then, FilterAt

LEMMA CountStep ==
  ASSUME NEW k, Before(k), Count
  PROVE  Then(k)
<1>1. /\ fpc = "count" /\ fpc' = "header" /\ taken' = taken /\ hdr' = hdr /\ p' = p
      /\ buffer' = buffer /\ written' = written
      /\ count = 0 \/ ct + 1 < count
      /\ ct' = IF count = 0 THEN 0 ELSE ct + 1
  BY DEF Count
<1>2. fpc' \notin InItem /\ fpc' # "ended" /\ fpc' # "data" /\ fpc \notin InItem /\ fpc # "ended"
  BY <1>1 DEF InItem
<1>3. GivenTo(k, fpc', hdr', p', written' \o buffer')
  BY <1>1, <1>2, BeforeIs DEF GivenTo
<1>4. ReadTo(k, fpc', taken', hdr')
  BY <1>1, <1>2, BeforeIs DEF ReadTo
<1>5. CountedTo(k, fpc', ct')
  <2>1. CountedTo(k, fpc, ct) /\ k \in Nat /\ ct \in Nat /\ count \in Nat
    BY BeforeIs
  <2>2. count # 0 => k <= ct + 1 /\ (k = ct + 1 \/ k = Len(Arrived)) /\ k <= count
    BY <1>1, <1>2, <2>1, Zenon DEF CountedTo
  <2>3. /\ ct' \in Nat
        /\ count = 0 => ct' = 0
        /\ count # 0 => ct' = ct + 1 /\ ct' < count /\ ct' <= count
    BY <1>1, <2>1
  <2>4. QED
    BY <1>1, <1>2, <2>2, <2>3, Zenon DEF CountedTo
<1>6. WrittenTo(k, fpc', buffer', written', noReader')
  <2>1. buffer' \in Seq(Word) /\ written' \in Seq(Word)
    BY <1>1, BeforeIs
  <2>2. QED
    BY <1>2, <2>1, WrittenIs
<1>7. QED
  BY <1>3, <1>4, <1>5, <1>6 DEF Then, FilterAt

LEMMA CountReachedStep ==
  ASSUME NEW k, Before(k), CountReached
  PROVE  Then(k)
<1> DEFINE out == written \o buffer
<1>1. /\ fpc = "count" /\ fpc' = "ended" /\ taken' = taken /\ hdr' = hdr /\ p' = p
      /\ buffer' = <<>> /\ written' = (IF noReader THEN written ELSE out)
      /\ ct + 1 = count /\ ct' = count
  BY DEF CountReached
<1>2. fpc' \notin {"header", "data", "count"} \cup InItem /\ fpc' # "data"
      /\ fpc' \notin {"header", "data"} /\ fpc' \notin InItem /\ fpc' # "count"
      /\ fpc \notin InItem /\ fpc # "ended" /\ fpc' \notin {"header", "count"} \cup InItem
  BY <1>1 DEF InItem
<1>3. /\ buffer \in Seq(Word) /\ written \in Seq(Word) /\ out \in Seq(Word)
      /\ noReader' = noReader
  BY BeforeIs
<1>4. out = Output(k)
  BY <1>1, BeforeIs DEF GivenTo
<1>5. <<>> \in Seq(Word) /\ written' \o <<>> = written' /\ out \o <<>> = out
  <2>1. written' \in Seq(Word)
    BY <1>1, <1>3
  <2>2. QED
    BY <1>3, <2>1, ConcatEmptySeq, EmptySeq
<1>6. \E more \in Seq(Word) : written' \o more = Output(k)
  <2>1. CASE noReader
    BY <1>1, <1>3, <1>4, <2>1
  <2>2. CASE ~noReader
    <3>1. PICK t \in Seq(Word) : t = <<>>
      BY <1>5
    <3>2. written' \o t = Output(k)
      BY <1>1, <1>4, <1>5, <2>2, <3>1
    <3>3. QED
      BY <3>2
  <2>3. QED
    BY <2>1, <2>2
<1>7. written' \in Seq(Word) /\ written' \o buffer' = written'
  BY <1>1, <1>3, <1>5
<1>8. GivenTo(k, fpc', hdr', p', written' \o buffer')
  BY <1>1, <1>2, <1>6, <1>7 DEF GivenTo
<1>9. ReadTo(k, fpc', taken', hdr')
  BY <1>1, <1>2, BeforeIs DEF ReadTo
<1>10. CountedTo(k, fpc', ct')
  <2>1. CountedTo(k, fpc, ct) /\ k \in Nat /\ ct \in Nat /\ count \in Nat
    BY BeforeIs
  <2>2. count # 0 /\ ct' \in Nat /\ ct' <= count
    BY <1>1, <2>1
  <2>3. (k = ct + 1 \/ k = Len(Arrived)) /\ k <= count
    BY <1>1, <1>2, <2>1, <2>2, Zenon DEF CountedTo
  <2>4. k = count \/ k = Len(Arrived)
    BY <1>1, <2>3
  <2>5. QED
    BY <1>1, <1>2, <2>2, <2>3, <2>4, Zenon DEF CountedTo
<1>11. WrittenTo(k, fpc', buffer', written', noReader')
  BY <1>1, <1>3, <1>4, <1>5, <1>7 DEF WrittenTo
<1>12. QED
  BY <1>8, <1>9, <1>10, <1>11 DEF Then, FilterAt

-----------------------------------------------------------------------------
(* The invariant of the filter.                                            *)

\* For some k the filter has read the items up to k, and the outputter was given
\* what there is to be written of them, except what hdr and p still hold.  It
\* only gives up when nobody reads what it writes.
FilterInv ==
  /\ input \in Inputs /\ count \in Counts
  /\ fpc \in {"header", "data", "count", "ended", "failed", "astray"} \cup InItem
  /\ noReader = V!Over
  /\ fpc = "failed" => noReader
  /\ \E k \in 0 .. Len(Arrived) : Now(k)

LEMMA FilterInit == Init => FilterInv
<1> SUFFICES ASSUME Init PROVE FilterInv
  OBVIOUS
<1>1. /\ input \in Inputs /\ count \in Counts /\ fpc = "header" /\ taken = 0 /\ ct = 0
      /\ buffer = <<>> /\ written = <<>> /\ vpc = "start" /\ noReader = FALSE
  BY DEF Init, FInit, V!VInit
<1>a. noReader = V!Over
  <2>1. vpc \notin {"done", "silent", "failed"}
    BY <1>1
  <2>2. (vpc \in {"done", "silent", "failed"}) = FALSE
    BY <2>1, SMT
  <2>3. QED
    BY <1>1, <2>2, Zenon DEF V!Over
<1>b. fpc \in {"header", "data", "count", "ended", "failed", "astray"} \cup InItem /\ fpc # "failed"
  BY <1>1
<1>2. /\ noReader = V!Over
      /\ fpc \in {"header", "data", "count", "ended", "failed", "astray"} \cup InItem /\ fpc # "failed"
  BY <1>a, <1>b
<1>3. Len(Arrived) \in Nat /\ InPieces \in Seq(Seq(Word)) /\ OutPieces \in Seq(Seq(Word))
  BY <1>1, ArrivedIs, PiecesAre
<1>4. FlattenFirst(InPieces, 0) = <<>> /\ Output(0) = <<>> /\ InOffset(0) = 0
  BY <1>3, FirstNone, EmptySeq DEF Output, InOffset
<1>5. UpTo(0, taken)
  <2>1. CASE Len(Arrived) = 0
    <3>1. PICK tail \in Seq(Word), c \in Nat :
            /\ input.words \in Seq(Word)
            /\ input.words \o Stale(c) = FlattenFirst(InPieces, 0) \o tail
            /\ c = 0
            /\ tail = <<>> \/ (c = 0 /\ Len(tail) = HeaderWords)
      BY <1>1, <2>1, InputWords
    <3>2. Stale(0) = <<>>
      <4>1. Stale(0) \in Seq(Word) /\ Len(Stale(0)) = 0
        BY FillerIs
      <4>2. QED
        BY <4>1, EmptySeq
    <3>3. input.words = tail
      BY <1>4, <3>1, <3>2, ConcatEmptySeq
    <3>4. Len(tail) = 0 \/ Len(tail) = HeaderWords
      BY <3>1, EmptySeq
    <3>5. QED
      BY <1>1, <2>1, <3>3, <3>4 DEF UpTo, HeaderWords
  <2>2. CASE Len(Arrived) # 0
    BY <1>1, <1>4, <2>2 DEF UpTo
  <2>3. QED
    BY <2>1, <2>2
<1>6. 0 \in 0 .. Len(Arrived) /\ count \in Nat
  BY <1>1, <1>3, CountAssumption
<1>7. fpc \notin InItem
  BY <1>1 DEF InItem
<1>8. ReadTo(0, fpc, taken, hdr)
  BY <1>1, <1>5 DEF ReadTo
<1>9. GivenTo(0, fpc, hdr, p, written \o buffer)
  <2>1. written \o buffer = <<>> /\ <<>> \in Seq(Word)
    BY <1>1, EmptySeq, ConcatEmptySeq
  <2>2. QED
    BY <1>1, <1>4, <1>7, <2>1 DEF GivenTo
<1>10. WrittenTo(0, fpc, buffer, written, noReader)
  BY <1>1, EmptySeq DEF WrittenTo
<1>11. CountedTo(0, fpc, ct)
  <2>1. 0 \in Nat /\ 0 <= 0 /\ (count # 0 => 0 <= count /\ 0 < count)
    BY <1>6
  <2>2. fpc # "count" /\ fpc # "ended"
    BY <1>1
  <2>3. QED
    BY <1>1, <1>7, <2>1, <2>2, Zenon DEF CountedTo
<1>12. Now(0)
  BY <1>8, <1>9, <1>10, <1>11 DEF Now, FilterAt
<1>13. QED
  BY <1>1, <1>2, <1>6, <1>12 DEF FilterInv

\* The items and their words stay what they are.
LEMMA SameItems ==
  ASSUME input' = input
  PROVE  /\ Arrived' = Arrived /\ InPieces' = InPieces /\ OutPieces' = OutPieces
         /\ \A k : Output(k)' = Output(k) /\ InOffset(k)' = InOffset(k)
<1>1. Arrived' = Arrived
  BY DEF Arrived
<1>2. \A i : Missing(i)' = Missing(i)
  BY <1>1 DEF Missing
<1>3. InPieces' = InPieces
  BY <1>1, <1>2 DEF InPieces
<1>4. OutPieces' = OutPieces
  BY <1>1, <1>2 DEF OutPieces
<1>5. \A k : Output(k)' = Output(k) /\ InOffset(k)' = InOffset(k)
  BY <1>3, <1>4 DEF Output, InOffset
<1>6. QED
  BY <1>1, <1>3, <1>4, <1>5

LEMMA ThenNow ==
  ASSUME input' = input, count' = count, NEW k, Then(k)
  PROVE  Now(k)'
<1>1. /\ Arrived' = Arrived /\ InPieces' = InPieces /\ OutPieces' = OutPieces
      /\ \A i : Output(i)' = Output(i) /\ InOffset(i)' = InOffset(i)
  BY SameItems
<1>2. /\ ReadTo(k, fpc', taken', hdr')
      /\ GivenTo(k, fpc', hdr', p', written' \o buffer')
      /\ WrittenTo(k, fpc', buffer', written', noReader')
      /\ CountedTo(k, fpc', ct')
  BY DEF Then, FilterAt
<1>3. ReadTo(k, fpc, taken, hdr)'
  BY <1>1, <1>2 DEF ReadTo, UpTo
<1>4. GivenTo(k, fpc, hdr, p, written \o buffer)'
  BY <1>1, <1>2 DEF GivenTo
<1>5. WrittenTo(k, fpc, buffer, written, noReader)'
  BY <1>1, <1>2 DEF WrittenTo
<1>6. CountedTo(k, fpc, ct)'
  BY <1>1, <1>2 DEF CountedTo
<1>7. QED
  BY <1>3, <1>4, <1>5, <1>6 DEF Now, FilterAt

LEMMA FilterStep ==
  ASSUME FilterInv, Filter
  PROVE  FilterInv'
<1>1. /\ input \in Inputs /\ count \in Counts /\ noReader = V!Over
      /\ FNext /\ vpc' = vpc /\ noReader' = noReader
      /\ (fpc = "failed" => noReader)
  BY DEF FilterInv, Filter, vvars
<1>2. PICK k \in 0 .. Len(Arrived) : Now(k)
  BY DEF FilterInv
<1>3. Before(k) /\ Len(Arrived) \in Nat
  BY <1>1, <1>2, ArrivedIs, CountAssumption DEF Before
<1>4. input' = input /\ count' = count
  BY <1>1 DEF FNext, FilterItem, ReadHeader, NothingRead, ReadData, Skip, SkipShort, PutItemHeader,
              PutFragmentHeader, PutBodyHeader, PutRest, PutFails, Count, CountReached
<1>5. /\ fpc' \in {"header", "data", "count", "ended", "failed", "astray"} \cup InItem
      /\ fpc' = "failed" => noReader
  BY <1>1 DEF FNext, FilterItem, ReadHeader, NothingRead, ReadData, Skip, SkipShort, PutItemHeader,
              PutFragmentHeader, PutBodyHeader, PutRest, PutFails, Count, CountReached, InItem
<1>6. \E j \in 0 .. Len(Arrived) : Then(j)
  <2>1. CASE ReadData
    BY <1>3, <2>1, ReadDataStep
  <2>2. CASE ReadHeader \/ NothingRead \/ Skip \/ SkipShort \/ PutItemHeader \/ PutFragmentHeader
             \/ PutBodyHeader \/ PutRest \/ PutFails \/ Count \/ CountReached
    BY <1>2, <1>3, <2>2, ReadHeaderStep, NothingReadStep, SkipStep, PutItemHeaderStep,
       PutFragmentHeaderStep, PutBodyHeaderStep, PutRestStep, StopStep, CountStep,
       CountReachedStep
  <2>3. QED
    BY <1>1, <2>1, <2>2 DEF FNext, FilterItem
<1>7. \E j \in 0 .. Len(Arrived)' : Now(j)'
  <2>1. PICK j \in 0 .. Len(Arrived) : Then(j)
    BY <1>6
  <2>2. Now(j)' /\ Arrived' = Arrived
    BY <1>4, <2>1, ThenNow, SameItems
  <2>3. QED
    BY <2>2
<1>8. noReader' = V!Over'
  BY <1>1 DEF V!Over
<1>9. QED
  BY <1>1, <1>4, <1>5, <1>7, <1>8 DEF FilterInv

LEMMA OverStays ==
  ASSUME V!Over
  PROVE  ~V!VNext
  BY DEF V!Over, V!VNext, V!Start, V!StartFails, V!SkipItem, V!SkipAll, V!SkipDone, V!Exclude,
         V!BeginRun, V!WrongFormat, V!OtherItem, V!PhysicsEvent, V!NoTimestamp, V!EndOfSource,
         V!Checked

LEMMA FilterUnmoved ==
  ASSUME FilterInv, UNCHANGED fvars, noReader' = V!Over', noReader => noReader'
  PROVE  FilterInv'
<1>1. /\ input' = input /\ count' = count /\ fpc' = fpc /\ taken' = taken /\ hdr' = hdr
      /\ p' = p /\ ct' = ct /\ buffer' = buffer /\ written' = written
  BY DEF fvars
<1>2. PICK k \in 0 .. Len(Arrived) : Now(k)
  BY DEF FilterInv
<1>3. Then(k)
  <2>1. WrittenTo(k, fpc', buffer', written', noReader')
    BY <1>1, <1>2 DEF Now, FilterAt, WrittenTo
  <2>2. QED
    BY <1>1, <1>2, <2>1 DEF Now, Then, FilterAt
<1>4. Now(k)' /\ Arrived' = Arrived
  BY <1>1, <1>3, ThenNow, SameItems
<1>5. \E j \in 0 .. Len(Arrived)' : Now(j)'
  BY <1>2, <1>4
<1>6. QED
  BY <1>1, <1>5 DEF FilterInv

LEMMA FilterNext ==
  ASSUME FilterInv, [Next]_vars
  PROVE  FilterInv'
<1>1. CASE Filter
  BY <1>1, FilterStep
<1>2. CASE Validate
  <2>1. UNCHANGED fvars /\ noReader' = V!Over' /\ ~noReader
    BY <1>2, OverStays DEF Validate, FilterInv
  <2>2. QED
    BY <2>1, FilterUnmoved
<1>3. CASE Terminated \/ UNCHANGED vars
  <2>1. UNCHANGED fvars /\ noReader' = noReader /\ vpc' = vpc
    BY <1>3 DEF Terminated, vars, vvars
  <2>2. noReader' = V!Over'
    BY <2>1 DEF FilterInv, V!Over
  <2>3. QED
    BY <2>1, <2>2, FilterUnmoved
<1>4. QED
  BY <1>1, <1>2, <1>3 DEF Next

LEMMA FilterHolds == Spec => []FilterInv
<1>1. FilterInv /\ [Next]_vars => FilterInv'
  BY FilterNext
<1>2. QED
  BY <1>1, FilterInit, PTL DEF Spec

-----------------------------------------------------------------------------
(* What is wanted of the filter.                                           *)

LEMMA PlainIs ==
  ASSUME NEW e \in Items
  PROVE  Plain(e) \in Seq(Word) /\ Len(Plain(e)) \in Nat /\ e.body \in 0 .. Len(Plain(e))
<1>1. /\ Rest(e) \in Seq(Word) /\ Len(Rest(e)) >= e.body /\ Len(Rest(e)) \in Nat
      /\ Plain(e) = Header(e.type, Len(Rest(e))) \o Rest(e) /\ e.body \in Nat
  BY ItemIs, RestIs, LenProperties
<1>2. /\ Header(e.type, Len(Rest(e))) \in Seq(Word)
      /\ Len(Header(e.type, Len(Rest(e)))) = HeaderWords
  BY <1>1, HeaderIs
<1>3. Plain(e) \in Seq(Word) /\ Len(Plain(e)) = HeaderWords + Len(Rest(e))
  BY <1>1, <1>2, ConcatIs
<1>4. QED
  BY <1>1, <1>3 DEF HeaderWords

LEMMA WantedIs ==
  ASSUME input \in Inputs, count \in Nat
  PROVE  /\ Wanted \in Seq(Items) /\ Len(Wanted) \in 0 .. Len(Arrived)
         /\ count = 0 => Len(Wanted) = Len(Arrived)
         /\ count # 0 => Len(Wanted) <= count /\ (Len(Wanted) = count \/ Len(Wanted) = Len(Arrived))
         /\ \A i \in 1 .. Len(Wanted) : Wanted[i] = Arrived[i]
<1>1. Arrived \in Seq(Items) /\ Len(Arrived) \in Nat
  BY ArrivedIs
<1>2. CASE count = 0
  <2>1. Wanted = Arrived
    BY <1>2 DEF Wanted
  <2>2. QED
    BY <1>1, <1>2, <2>1
<1>3. CASE count # 0
  <2>1. PICK i, j \in Int : i = count /\ j = Len(Arrived)
    BY <1>1
  <2>2. Min({i, j}) = IF i <= j THEN i ELSE j
    BY MinOfTwo
  <2>3. PICK n : n = Min({count, Len(Arrived)})
    OBVIOUS
  <2>4. n \in 0 .. Len(Arrived) /\ n <= count /\ (n = count \/ n = Len(Arrived))
    BY <1>1, <2>1, <2>2, <2>3
  <2>5. Wanted = SubSeq(Arrived, 1, n)
    BY <1>3, <2>3 DEF Wanted
  <2>6. SubSeq(Arrived, 1, n) \in Seq(Items) /\ Len(SubSeq(Arrived, 1, n)) = n
        /\ \A k \in 1 .. n : SubSeq(Arrived, 1, n)[k] = Arrived[k]
    BY <1>1, <2>4, FirstSeqs
  <2>7. QED
    BY <1>3, <2>4, <2>5, <2>6
<1>4. QED
  BY <1>2, <1>3

LEMMA WantedWordsIs ==
  ASSUME input \in Inputs, count \in Nat
  PROVE  WantedWords = Output(Len(Wanted))
<1> DEFINE s == Wanted
           n == Len(s)
           m == input.missing
           b == [i \in DOMAIN s |-> Plain(s[i])]
           all == FlattenSeq(b)
<1>1. /\ s \in Seq(Items) /\ n \in Nat /\ DOMAIN s = 1 .. n /\ n \in 0 .. Len(Arrived)
      /\ \A i \in 1 .. n : s[i] = Arrived[i]
      /\ \A i \in 1 .. n : s[i] \in Items
  BY WantedIs, LenProperties, ElementOfSeq
<1>2. WantedWords = IF s = input.items THEN Padded(all, m) ELSE all
  BY DEF WantedWords, Padded
<1>3. b \in Seq(Seq(Word)) /\ Len(b) = n /\ \A i \in 1 .. n : b[i] = Plain(s[i])
  <2>1. \A i \in 1 .. n : Plain(s[i]) \in Seq(Word)
    BY <1>1, PlainIs
  <2>2. b \in [1 .. n -> Seq(Word)]
    BY <1>1, <2>1
  <2>3. b \in Seq(Seq(Word)) /\ Len(b) = n
    BY <1>1, <2>2, FunctionIsSeq
  <2>4. QED
    BY <1>1, <2>3
<1>4. all = FlattenFirst(b, n)
  BY <1>3, FirstAll
<1>5. /\ OutPieces \in Seq(Seq(Word)) /\ Len(OutPieces) = Len(Arrived)
      /\ Arrived \in Seq(Items) /\ Len(Arrived) \in Nat
  BY PiecesAre, ArrivedIs
<1>6. \A i \in 1 .. Len(Arrived) : OutPieces[i] = Padded(Plain(Arrived[i]), Missing(i))
  BY PieceIs
<1>w. s = Wanted /\ n = Len(Wanted)
  OBVIOUS
<1> HIDE DEF b, all, n, m, s
<1>7. ASSUME NEW k \in 0 .. n, \A i \in 1 .. k : Missing(i) = 0
      PROVE  FlattenFirst(OutPieces, k) = FlattenFirst(b, k)
  <2>1. ASSUME NEW i \in 1 .. k PROVE OutPieces[i] = b[i]
    <3>1. i \in 1 .. Len(Arrived) /\ i \in 1 .. n
      BY <1>1, <1>5
    <3>2. OutPieces[i] = Padded(Plain(s[i]), 0)
      BY <1>1, <1>6, <1>7, <3>1
    <3>3. Plain(s[i]) \in Seq(Word) /\ 0 \in 0 .. Len(Plain(s[i]))
      BY <1>1, <3>1, PlainIs
    <3>4. Padded(Plain(s[i]), 0) = Plain(s[i])
      BY <3>3, PaddedIs
    <3>5. QED
      BY <1>3, <3>1, <3>2, <3>4
  <2>2. k \in 0 .. Len(OutPieces) /\ k \in 0 .. Len(b)
    BY <1>1, <1>3, <1>5
  <2>3. QED
    BY <1>3, <1>5, <2>1, <2>2, FirstSame
<1>8. CASE s # input.items
  <2>1. ASSUME NEW i \in 1 .. n PROVE Missing(i) = 0
    <3>1. SUFFICES ASSUME i = Len(Arrived), Arrived = input.items PROVE FALSE
      BY DEF Missing
    <3>2. n = Len(Arrived)
      BY <1>1, <3>1
    <3>3. s = Arrived
      BY <1>1, <1>5, <1>w, <3>2, SeqEqual
    <3>4. QED
      BY <1>8, <3>1, <3>3
  <2>2. n \in 0 .. n
    BY <1>1
  <2>3. FlattenFirst(OutPieces, n) = all
    BY <1>4, <1>7, <2>1, <2>2
  <2>4. QED
    BY <1>2, <1>8, <1>w, <2>3 DEF Output
<1>9. CASE s = input.items /\ n = 0
  <2>1. all = <<>> /\ Output(0) = <<>>
    BY <1>3, <1>4, <1>5, <1>9, FirstNone DEF Output
  <2>2. m = 0
    <3>1. input.items = <<>>
      BY <1>1, <1>9, <1>w, EmptySeq
    <3>2. QED
      BY <3>1, InputIs DEF m, Losses
  <2>3. Padded(all, 0) = all
    <3>1. all \in Seq(Word) /\ 0 \in 0 .. Len(all)
      BY <2>1, EmptySeq
    <3>2. QED
      BY <3>1, PaddedIs
  <2>4. QED
    BY <1>2, <1>9, <1>w, <2>1, <2>2, <2>3
<1>10. CASE s = input.items /\ n # 0
  <2>1. Arrived = s /\ Len(Arrived) = n
    <3>1. ~HeaderOnly
      <4>1. HeaderOnly => Len(Arrived) = Len(input.items) - 1
        BY ArrivedIs
      <4>2. Len(input.items) = n
        BY <1>10, <1>w
      <4>3. ~(n \in 0 .. n - 1)
        BY <1>1
      <4>4. QED
        BY <1>1, <4>1, <4>2, <4>3
    <3>2. Arrived = input.items
      BY <3>1, ArrivedIs
    <3>3. QED
      BY <1>10, <1>w, <3>2
  <2> DEFINE k == n - 1
             e == s[n]
             f == FlattenFirst(b, k)
  <2>2. n \in 1 .. n /\ k \in 0 .. n /\ k # n /\ k + 1 = n /\ n \in Nat /\ \A i \in 1 .. k : i # n
    BY <1>1, <1>10
  <2>3. e \in Items
    BY <1>1, <2>2
  <2>4. Missing(n) = m /\ m \in 0 .. e.body /\ \A i \in 1 .. k : Missing(i) = 0
    <3>1. n \in 1 .. Len(Arrived)
      BY <2>1, <2>2
    <3>2. Missing(n) = m /\ \A i \in 1 .. k : Missing(i) = 0
      BY <1>10, <2>1, <2>2 DEF Missing, m
    <3>3. QED
      BY <2>1, <3>1, <3>2, MissingIs
  <2>5. /\ Plain(e) \in Seq(Word) /\ Len(Plain(e)) \in Nat /\ e.body \in 0 .. Len(Plain(e))
    BY <2>3, PlainIs
  <2>6. m \in 0 .. Len(Plain(e))
    BY <2>4, <2>5
  <2>7. f \in Seq(Word)
    BY <1>3, <2>2, FirstType
  <2>8. all = f \o Plain(e)
    <3>1. FlattenFirst(b, k + 1) = f \o b[k + 1]
      BY <1>3, <2>2, FirstNext
    <3>2. QED
      BY <1>3, <1>4, <2>2, <3>1
  <2>9. FlattenFirst(OutPieces, k) = f
    BY <1>7, <2>2, <2>4
  <2>10. FlattenFirst(OutPieces, n) = f \o Padded(Plain(e), m)
    <3>1. FlattenFirst(OutPieces, k + 1) = FlattenFirst(OutPieces, k) \o OutPieces[k + 1]
      BY <1>5, <2>1, <2>2, FirstNext
    <3>2. OutPieces[n] = Padded(Plain(e), m)
      BY <1>6, <2>1, <2>2, <2>4
    <3>3. QED
      BY <2>2, <2>9, <3>1, <3>2
  <2> HIDE DEF k, e, f
  <2>11. Padded(all, m) = f \o Padded(Plain(e), m)
    BY <2>5, <2>6, <2>7, <2>8, PaddedConcat
  <2>12. QED
    BY <1>2, <1>10, <1>w, <2>10, <2>11 DEF Output
<1>11. QED
  BY <1>8, <1>9, <1>10

LEMMA FilterIntact ==
  ASSUME FilterInv
  PROVE  /\ IsPrefix(written \o buffer, WantedWords)
         /\ fpc = "ended" /\ ~noReader => written = WantedWords
<1>1. /\ input \in Inputs /\ count \in Nat
      /\ fpc \in {"header", "data", "count", "ended", "failed", "astray"} \cup InItem
  BY CountAssumption DEF FilterInv
<1>2. PICK k \in 0 .. Len(Arrived) :
        /\ GivenTo(k, fpc, hdr, p, written \o buffer)
        /\ WrittenTo(k, fpc, buffer, written, noReader)
        /\ CountedTo(k, fpc, ct)
  BY DEF FilterInv, Now, FilterAt
<1> DEFINE n == Len(Wanted)
<1>3. WantedWords = Output(n)
  BY <1>1, WantedWordsIs
<1>4. /\ n \in 0 .. Len(Arrived) /\ Len(Arrived) \in Nat
      /\ count = 0 => n = Len(Arrived)
      /\ count # 0 => n <= count /\ (n = count \/ n = Len(Arrived))
  BY <1>1, WantedIs, ArrivedIs
<1> HIDE DEF n
<1>5. count # 0 => k <= count
  BY <1>2 DEF CountedTo
<1>6. k <= n /\ n \in k .. Len(Arrived)
  BY <1>4, <1>5
<1>7. IsPrefix(written \o buffer, WantedWords)
  <2>1. PICK out : out = written \o buffer
    OBVIOUS
  <2>2. GivenTo(k, fpc, hdr, p, out)
    BY <1>2, <2>1
  <2>3. out \in Seq(Word)
    BY <2>2 DEF GivenTo
  <2>4. PICK more \in Seq(Word) : out \o more = Output(k)
    BY <1>1, <2>2, GivenIsFirst
  <2>5. PICK rest \in Seq(Word) : Output(n) = Output(k) \o rest
    <3>1. OutPieces \in Seq(Seq(Word)) /\ Len(OutPieces) = Len(Arrived)
      BY <1>1, PiecesAre
    <3>2. k \in 0 .. Len(OutPieces) /\ n \in k .. Len(OutPieces)
      BY <1>6, <3>1
    <3>3. \E rest \in Seq(Word) : FlattenFirst(OutPieces, n) = FlattenFirst(OutPieces, k) \o rest
      BY <3>1, <3>2, FirstMore
    <3>4. QED
      BY <3>3 DEF Output
  <2>6. Output(n) = out \o (more \o rest)
    <3>1. (out \o more) \o rest = out \o (more \o rest)
      BY <2>3, Regroup
    <3>2. QED
      BY <2>4, <2>5, <3>1
  <2>7. more \o rest \in Seq(Word)
    BY ConcatIs
  <2>8. IsPrefix(out, out \o (more \o rest))
    BY <2>3, <2>7, PrefixOfConcat
  <2>9. QED
    BY <1>3, <2>1, <2>6, <2>8
<1>8. ASSUME fpc = "ended", ~noReader PROVE written = WantedWords
  <2>1. written = Output(k)
    BY <1>2, <1>8 DEF WrittenTo
  <2>2. count # 0 /\ (k = count \/ k = Len(Arrived))
    BY <1>2, <1>8, Zenon DEF CountedTo
  <2>3. k = n
    BY <1>4, <1>5, <1>6, <2>2
  <2>4. QED
    BY <1>3, <2>1, <2>3
<1>9. QED
  BY <1>7, <1>8

\* evbfilter writes the fragment in each event and the other items as they were,
\* in their order, complete and once, however CBufferedOutput cuts the output up
\* and wherever the input ends or the reader leaves; and when --count ends it,
\* all of them.  This is until an event has an outer body header of size 0, as
\* version 11 writes an empty one: FragmentsIntact says nothing after that.
THEOREM FragmentsLeaveIntact == Spec => []FragmentsIntact
<1>1. FilterInv => FragmentsIntact
  BY FilterIntact DEF FragmentsIntact
<1>2. QED
  BY <1>1, FilterHolds, PTL

-----------------------------------------------------------------------------
(* What tsvalidate is to say, one item after the other.                    *)

TimePiece(e) == IF e.type = "event" THEN <<e.time>> ELSE <<>>
TimePieces(items) == [i \in DOMAIN items |-> TimePiece(items[i])]

LEMMA TimePieceIs ==
  ASSUME NEW e \in Items
  PROVE  TimePiece(e) \in Seq(Nat)
<1>1. CASE e.type = "event"
  <2>1. e.time \in Nat
    BY <1>1, ItemIs
  <2>2. QED
    BY <1>1, <2>1, One DEF TimePiece
<1>2. CASE e.type # "event"
  BY <1>2, EmptySeq DEF TimePiece
<1>3. QED
  BY <1>1, <1>2

LEMMA TimePiecesAre ==
  ASSUME NEW items \in Seq(Items)
  PROVE  /\ TimePieces(items) \in Seq(Seq(Nat)) /\ Len(TimePieces(items)) = Len(items)
         /\ \A i \in 1 .. Len(items) : TimePieces(items)[i] = TimePiece(items[i])
         /\ Times(items) = FlattenSeq(TimePieces(items)) /\ Times(items) \in Seq(Nat)
<1>1. DOMAIN items = 1 .. Len(items) /\ Len(items) \in Nat
  BY LenProperties
<1>2. \A i \in 1 .. Len(items) : TimePiece(items[i]) \in Seq(Nat)
  BY ElementOfSeq, TimePieceIs
<1>3. TimePieces(items) \in [1 .. Len(items) -> Seq(Nat)]
  BY <1>1, <1>2 DEF TimePieces
<1>4. TimePieces(items) \in Seq(Seq(Nat)) /\ Len(TimePieces(items)) = Len(items)
  BY <1>1, <1>3, FunctionIsSeq
<1>5. \A i \in 1 .. Len(items) : TimePieces(items)[i] = TimePiece(items[i])
  BY <1>1 DEF TimePieces
<1>6. Times(items) = FlattenSeq(TimePieces(items))
  BY DEF Times, TimePieces, TimePiece
<1>7. QED
  BY <1>4, <1>5, <1>6, FlattenType

LEMMA TimesEmpty == Times(<<>>) = <<>>
<1>1. TimePieces(<<>>) \in Seq(Seq(Nat)) /\ Len(TimePieces(<<>>)) = 0
      /\ Times(<<>>) = FlattenSeq(TimePieces(<<>>))
  BY TimePiecesAre, EmptySeq
<1>2. TimePieces(<<>>) = <<>>
  BY <1>1, EmptySeq
<1>3. QED
  BY <1>1, <1>2, FlattenEmpty

LEMMA TimesAppend ==
  ASSUME NEW items \in Seq(Items), NEW e \in Items
  PROVE  Times(Append(items, e)) =
           IF e.type = "event" THEN Append(Times(items), e.time) ELSE Times(items)
<1> DEFINE more == Append(items, e)
           a == TimePieces(items)
           b == TimePieces(more)
           t == TimePiece(e)
           c == Append(a, t)
<1>1. /\ more \in Seq(Items) /\ Len(more) = Len(items) + 1 /\ Len(items) \in Nat
      /\ more[Len(items) + 1] = e /\ \A i \in 1 .. Len(items) : more[i] = items[i]
  BY AppendProperties, LenProperties
<1>2. /\ a \in Seq(Seq(Nat)) /\ Len(a) = Len(items) /\ Times(items) = FlattenSeq(a)
      /\ \A i \in 1 .. Len(items) : a[i] = TimePiece(items[i])
      /\ Times(items) \in Seq(Nat)
  BY TimePiecesAre
<1> HIDE DEF more
<1>3. /\ b \in Seq(Seq(Nat)) /\ Len(b) = Len(items) + 1 /\ Times(more) = FlattenSeq(b)
      /\ \A i \in 1 .. Len(items) + 1 : b[i] = TimePiece(more[i])
  BY <1>1, TimePiecesAre
<1>4. t \in Seq(Nat)
  BY TimePieceIs
<1> HIDE DEF a, b, t
<1>c. /\ c \in Seq(Seq(Nat)) /\ Len(c) = Len(a) + 1
      /\ c[Len(a) + 1] = t /\ \A i \in 1 .. Len(a) : c[i] = a[i]
  <2>1. PICK T : T = Seq(Nat)
    OBVIOUS
  <2>2. a \in Seq(T) /\ t \in T
    BY <1>2, <1>4, <2>1
  <2>3. /\ c \in Seq(T) /\ Len(c) = Len(a) + 1
        /\ c[Len(a) + 1] = t /\ \A i \in 1 .. Len(a) : c[i] = a[i]
    BY <2>2, AppendProperties
  <2>4. QED
    BY <2>1, <2>3
<1> HIDE DEF c
<1>5. /\ c \in Seq(Seq(Nat)) /\ Len(c) = Len(items) + 1
      /\ c[Len(items) + 1] = t /\ \A i \in 1 .. Len(items) : c[i] = a[i]
  BY <1>2, <1>c
<1>6. ASSUME NEW i \in 1 .. Len(items) + 1 PROVE b[i] = c[i]
  <2>1. CASE i = Len(items) + 1
    BY <1>1, <1>3, <1>5, <2>1 DEF t
  <2>2. CASE i # Len(items) + 1
    <3>1. i \in 1 .. Len(items)
      BY <1>1, <2>2
    <3>2. QED
      BY <1>1, <1>2, <1>3, <1>5, <3>1
  <2>3. QED
    BY <2>1, <2>2
<1>7. b = c
  BY <1>3, <1>5, <1>6, SeqEqual
<1>8. FlattenSeq(Append(a, t)) = FlattenSeq(a) \o t
  BY <1>2, <1>4, FlattenAppend
<1>9. Times(more) = Times(items) \o t
  BY <1>2, <1>3, <1>7, <1>8 DEF c
<1>10. CASE e.type = "event"
  <2>1. e.time \in Nat /\ t = <<e.time>>
    BY <1>10, ItemIs DEF t, TimePiece
  <2>2. Append(Times(items), e.time) = Times(items) \o <<e.time>>
    BY <1>2, <2>1, AppendIsConcat
  <2>3. QED
    BY <1>9, <1>10, <2>1, <2>2 DEF more
<1>11. CASE e.type # "event"
  <2>1. t = <<>>
    BY <1>11 DEF t, TimePiece
  <2>2. Times(items) \o <<>> = Times(items)
    BY <1>2, ConcatEmptySeq
  <2>3. QED
    BY <1>9, <1>11, <2>1, <2>2 DEF more
<1>12. QED
  BY <1>10, <1>11

LEMMA DisordersAppend ==
  ASSUME NEW times \in Seq(Nat), NEW t \in Nat
  PROVE  /\ Cardinality(Disorders(times)) \in Nat
         /\ Cardinality(Disorders(Append(times, t))) =
              IF times # <<>> /\ t <= Last(times) THEN Cardinality(Disorders(times)) + 1
              ELSE Cardinality(Disorders(times))
<1> DEFINE n == Len(times)
           more == Append(times, t)
           d == Disorders(times)
           new == Disorders(more)
<1>1. /\ more \in Seq(Nat) /\ Len(more) = n + 1 /\ n \in Nat
      /\ more[n + 1] = t /\ \A i \in 1 .. n : more[i] = times[i]
      /\ DOMAIN times = 1 .. n /\ DOMAIN more = 1 .. n + 1
  BY AppendProperties, LenProperties
<1> HIDE DEF more, n
<1>2. d = {i \in 1 .. n : i > 1 /\ times[i] <= times[i - 1]}
  BY <1>1 DEF Disorders
<1>3. new = {i \in 1 .. n + 1 : i > 1 /\ more[i] <= more[i - 1]}
  BY <1>1 DEF Disorders
<1>4. IsFiniteSet(d) /\ Cardinality(d) \in Nat /\ n + 1 \notin d
  <2>1. d \subseteq 1 .. n /\ n + 1 \notin d
    BY <1>1, <1>2
  <2>2. IsFiniteSet(1 .. n)
    BY <1>1, FS_Interval
  <2>3. IsFiniteSet(d)
    BY <2>1, <2>2, FS_Subset
  <2>4. QED
    BY <2>1, <2>3, FS_CardinalityType
<1> HIDE DEF d, new
<1>5. \A i \in 1 .. n : i \in new <=> i \in d
  <2>1. ASSUME NEW i \in 1 .. n, i > 1
        PROVE  more[i] = times[i] /\ more[i - 1] = times[i - 1]
    <3>1. i - 1 \in 1 .. n
      BY <1>1, <2>1
    <3>2. QED
      BY <1>1, <3>1
  <2>2. \A i \in 1 .. n : i \in 1 .. n + 1
    BY <1>1
  <2>3. QED
    BY <1>2, <1>3, <2>1, <2>2
<1>6. n + 1 \in new <=> times # <<>> /\ t <= Last(times)
  <2>1. times # <<>> <=> n + 1 > 1
    BY <1>1, EmptySeq DEF n
  <2>2. n + 1 > 1 => more[(n + 1) - 1] = Last(times)
    <3>1. (n + 1) - 1 = n /\ (n + 1 > 1 => n \in 1 .. n)
      BY <1>1
    <3>2. QED
      BY <1>1, <3>1 DEF Last, n
  <2>3. n + 1 \in 1 .. n + 1
    BY <1>1
  <2>4. QED
    BY <1>1, <1>3, <2>1, <2>2, <2>3
<1>7. new \subseteq (1 .. n) \cup {n + 1} /\ d \subseteq 1 .. n
  BY <1>1, <1>2, <1>3
<1>8. CASE times # <<>> /\ t <= Last(times)
  <2>1. new = d \cup {n + 1}
    BY <1>5, <1>6, <1>7, <1>8
  <2>2. Cardinality(new) = Cardinality(d) + 1
    BY <1>4, <2>1, FS_AddElement
  <2>3. QED
    BY <1>4, <1>8, <2>2 DEF d, new, more
<1>9. CASE ~(times # <<>> /\ t <= Last(times))
  <2>1. new = d
    BY <1>5, <1>6, <1>7, <1>9
  <2>2. QED
    BY <1>4, <1>9, <2>1 DEF d, new, more
<1>10. QED
  BY <1>8, <1>9

LEMMA MaxIs ==
  ASSUME NEW S, S \subseteq Int, NEW m \in S, \A i \in S : i <= m
  PROVE  Max(S) = m
<1>1. m \in S /\ \A i \in S : m >= i
  OBVIOUS
<1>2. Max(S) \in S /\ \A i \in S : Max(S) >= i
  BY <1>1, Zenon DEF Max
<1>3. Max(S) >= m /\ Max(S) <= m /\ Max(S) \in Int /\ m \in Int
  BY <1>2
<1>4. QED
  BY <1>3

LEMMA LastRunEmpty == LastRun(<<>>) = <<>>
<1> DEFINE begins == {i \in DOMAIN <<>> : <<>>[i].type = "begin"}
<1>1. begins \cup {0} = {0}
  OBVIOUS
<1>2. Max(begins \cup {0}) = 0
  <2>1. {0} \subseteq Int /\ 0 \in {0} /\ \A i \in {0} : i <= 0
    OBVIOUS
  <2>2. Max({0}) = 0
    BY <2>1, MaxIs
  <2>3. QED
    BY <1>1, <2>2
<1>3. LastRun(<<>>) = SubSeq(<<>>, Max(begins \cup {0}) + 1, Len(<<>>))
  BY DEF LastRun
<1> HIDE DEF begins
<1>4. SubSeq(<<>>, 1, 0) = <<>>
  BY SubSeqEmpty
<1>5. 0 + 1 = 1 /\ Len(<<>>) = 0
  BY EmptySeq
<1>6. QED
  BY <1>2, <1>3, <1>4, <1>5

LEMMA LastRunAppend ==
  ASSUME NEW items \in Seq(Items), NEW e \in Items
  PROVE  /\ LastRun(items) \in Seq(Items)
         /\ LastRun(Append(items, e)) =
              IF e.type = "begin" THEN <<>> ELSE Append(LastRun(items), e)
<1> DEFINE n == Len(items)
           more == Append(items, e)
           b == {i \in DOMAIN items : items[i].type = "begin"} \cup {0}
           c == {i \in DOMAIN more : more[i].type = "begin"} \cup {0}
<1>1. /\ more \in Seq(Items) /\ Len(more) = n + 1 /\ n \in Nat
      /\ more[n + 1] = e /\ \A i \in 1 .. n : more[i] = items[i]
      /\ DOMAIN items = 1 .. n /\ DOMAIN more = 1 .. n + 1
  BY AppendProperties, LenProperties
<1>2. LastRun(items) = SubSeq(items, Max(b) + 1, n)
  BY DEF LastRun
<1>3. LastRun(more) = SubSeq(more, Max(c) + 1, Len(more))
  BY DEF LastRun
<1> HIDE DEF n, more
<1>4. b \subseteq 0 .. n /\ 0 \in b
  BY <1>1
<1>5. c = IF e.type = "begin" THEN b \cup {n + 1} ELSE b
  <2>1. \A i \in 1 .. n : i \in 1 .. n + 1 /\ i # n + 1
    BY <1>1
  <2>2. \A i \in 1 .. n + 1 : i \in 1 .. n \/ i = n + 1
    BY <1>1
  <2>3. n + 1 \in 1 .. n + 1
    BY <1>1
  <2>4. QED
    BY <1>1, <2>1, <2>2, <2>3
<1> HIDE DEF b, c
<1>6. PICK m \in b : \A i \in b : i <= m
  <2> DEFINE T == {n - i : i \in b}
  <2>1. T \subseteq Nat /\ T # {}
    BY <1>1, <1>4
  <2>2. PICK j \in T : \A i \in T : j <= i
    BY <2>1, Smallest
  <2>3. PICK m \in b : j = n - m
    BY <2>2
  <2>4. ASSUME NEW i \in b PROVE i <= m
    <3>1. n - m <= n - i
      BY <2>2, <2>3
    <3>2. QED
      BY <1>1, <1>4, <3>1
  <2>5. QED
    BY <2>4
<1>7. Max(b) = m /\ m \in 0 .. n
  <2>1. m \in 0 .. n /\ b \subseteq Int
    BY <1>1, <1>4
  <2>2. Max(b) = m
    BY <1>6, <2>1, MaxIs
  <2>3. QED
    BY <2>1, <2>2
<1>8. LastRun(items) \in Seq(Items)
  <2>1. SubSeq(items, m + 1, n) \in Seq(Items)
    BY <1>7, Parts DEF n
  <2>2. QED
    BY <1>2, <1>7, <2>1
<1>9. CASE e.type = "begin"
  <2>1. c \subseteq Int /\ n + 1 \in c /\ \A i \in c : i <= n + 1
    BY <1>1, <1>4, <1>5, <1>9
  <2>2. Max(c) = n + 1
    BY <2>1, MaxIs
  <2>3. SubSeq(more, n + 1 + 1, n + 1) = <<>>
    BY <1>1, SubSeqEmpty
  <2>4. QED
    BY <1>1, <1>3, <1>8, <1>9, <2>2, <2>3 DEF more
<1>10. CASE e.type # "begin"
  <2> DEFINE f == SubSeq(items, 1, m)
             g == SubSeq(items, m + 1, n)
  <2>1. f \in Seq(Items) /\ Len(f) = m /\ g \in Seq(Items) /\ f \o g = items
    BY <1>7, Parts DEF n
  <2>2. LastRun(items) = g
    BY <1>2, <1>7
  <2>3. LastRun(more) = SubSeq(more, m + 1, Len(more))
    BY <1>3, <1>5, <1>7, <1>10
  <2>4. <<e>> \in Seq(Items)
    BY One
  <2> DEFINE h == <<e>>
             i == g \o h
  <2> HIDE DEF f, g, h
  <2>5. h \in Seq(Items) /\ more = items \o h
    BY <2>4, AppendIsConcat DEF h, more
  <2>6. more = f \o i
    <3>1. \A s, t, u \in Seq(Items) : (s \o t) \o u = s \o (t \o u)
      BY ConcatAssociative
    <3>2. (f \o g) \o h = f \o (g \o h)
      BY ZenonT(30), <2>1, <2>5, <3>1
    <3>3. QED
      BY <2>1, <2>5, <3>2
  <2>7. i \in Seq(Items)
    BY <2>1, <2>5, ConcatIs
  <2>a. i = g \o h
    OBVIOUS
  <2> HIDE DEF i
  <2>8. SubSeq(f \o i, Len(f) + 1, Len(f \o i)) = i
    BY <2>1, <2>7, Halves
  <2>9. LastRun(more) = i
    BY <2>1, <2>3, <2>6, <2>8
  <2>10. Append(g, e) = g \o h
    BY <2>1, AppendIsConcat DEF h
  <2>11. QED
    BY <1>8, <1>10, <2>2, <2>9, <2>10, <2>a DEF more
<1>11. QED
  BY <1>9, <1>10

\* The previous timestamp, the events of the run, and the events out of order.
Figures(items, ts, events, disorders) ==
  /\ ts = IF Times(items) = <<>> THEN 0 ELSE Last(Times(items))
  /\ events = Len(Times(LastRun(items)))
  /\ disorders = Cardinality(Disorders(Times(items)))

LEMMA FiguresNone == Figures(<<>>, 0, 0, 0)
<1>1. Times(<<>>) = <<>> /\ LastRun(<<>>) = <<>> /\ Len(<<>>) = 0
  BY TimesEmpty, LastRunEmpty, EmptySeq
<1>2. Cardinality(Disorders(<<>>)) = 0
  <2>1. Disorders(<<>>) = {}
    BY DEF Disorders
  <2>2. QED
    BY <2>1, FS_EmptySet
<1>3. QED
  BY <1>1, <1>2 DEF Figures

LEMMA FiguresNext ==
  ASSUME NEW items \in Seq(Items), NEW e \in Items, NEW ts, NEW n, NEW d,
         Figures(items, ts, n, d)
  PROVE  LET more == Append(items, e)
         IN  /\ e.type = "begin" => Figures(more, ts, 0, d)
             /\ e.type \notin {"begin", "event"} => Figures(more, ts, n, d)
             /\ e.type = "event" =>
                  Figures(more, e.time, n + 1, IF e.time <= ts THEN d + 1 ELSE d)
<1> DEFINE more == Append(items, e)
           times == Times(items)
           run == LastRun(items)
<1>1. /\ times \in Seq(Nat) /\ run \in Seq(Items)
      /\ LastRun(more) = (IF e.type = "begin" THEN <<>> ELSE Append(run, e))
  BY TimePiecesAre, LastRunAppend
<1>2. Times(more) = IF e.type = "event" THEN Append(times, e.time) ELSE times
  BY TimesAppend
<1>3. Times(Append(run, e)) = IF e.type = "event" THEN Append(Times(run), e.time) ELSE Times(run)
  BY <1>1, TimesAppend
<1>4. /\ ts = IF times = <<>> THEN 0 ELSE Last(times)
      /\ n = Len(Times(run)) /\ d = Cardinality(Disorders(times))
  BY DEF Figures
<1> HIDE DEF more, times, run
<1>5. CASE e.type = "begin"
  <2>1. LastRun(more) = <<>> /\ Times(more) = times
    BY <1>1, <1>2, <1>5
  <2>2. Len(Times(LastRun(more))) = 0
    BY <2>1, TimesEmpty, EmptySeq
  <2>3. Figures(more, ts, 0, d)
    BY <1>4, <2>1, <2>2 DEF Figures
  <2>4. QED
    BY <1>5, <2>3 DEF more
<1>6. CASE e.type \notin {"begin", "event"}
  <2>1. Times(LastRun(more)) = Times(run) /\ Times(more) = times
    BY <1>1, <1>2, <1>3, <1>6
  <2>2. Figures(more, ts, n, d)
    BY <1>4, <2>1 DEF Figures
  <2>3. QED
    BY <1>6, <2>2 DEF more
<1>7. CASE e.type = "event"
  <2> DEFINE t == e.time
             r == Times(run)
  <2>1. t \in Nat \ {0}
    BY <1>7, ItemIs
  <2>2. Times(LastRun(more)) = Append(r, t) /\ Times(more) = Append(times, t)
    BY <1>1, <1>2, <1>3, <1>7
  <2>3. r \in Seq(Nat)
    BY <1>1, TimePiecesAre
  <2> HIDE DEF t, r
  <2>4. Len(Append(r, t)) = Len(r) + 1
    BY <2>1, <2>3, AppendProperties
  <2>5. Append(times, t) # <<>> /\ Last(Append(times, t)) = t
    <3>1. /\ Append(times, t) # <<>> /\ Len(Append(times, t)) = Len(times) + 1
          /\ Append(times, t)[Len(times) + 1] = t
      <4>1. PICK T : T = Nat
        OBVIOUS
      <4>2. times \in Seq(T) /\ t \in T
        BY <1>1, <2>1, <4>1
      <4>3. QED
        BY <4>2, AppendProperties
    <3>2. QED
      BY <3>1 DEF Last
  <2>6. Cardinality(Disorders(Append(times, t))) =
          IF times # <<>> /\ t <= Last(times) THEN Cardinality(Disorders(times)) + 1
          ELSE Cardinality(Disorders(times))
    BY <1>1, <2>1, DisordersAppend
  <2>7. t <= ts <=> times # <<>> /\ t <= Last(times)
    <3>1. CASE times = <<>>
      <4>1. ts = 0
        BY <1>4, <3>1
      <4>2. ~(t <= ts)
        BY <2>1, <4>1
      <4>3. QED
        BY <3>1, <4>2
    <3>2. CASE times # <<>>
      BY <1>4, <3>2
    <3>3. QED
      BY <3>1, <3>2
  <2>8. Figures(more, t, n + 1, IF t <= ts THEN d + 1 ELSE d)
    <3>1. Cardinality(Disorders(Times(more))) = IF t <= ts THEN d + 1 ELSE d
      BY <1>4, <2>2, <2>6, <2>7
    <3>2. n + 1 = Len(Times(LastRun(more)))
      BY <1>4, <2>2, <2>4 DEF r
    <3>3. t = IF Times(more) = <<>> THEN 0 ELSE Last(Times(more))
      BY <2>2, <2>5
    <3>4. QED
      BY <3>1, <3>2, <3>3 DEF Figures
  <2>9. QED
    BY <1>7, <2>8 DEF more, t
<1>8. QED
  BY <1>5, <1>6, <1>7

-----------------------------------------------------------------------------
(* The items that tsvalidate looks at, of those that are wanted.           *)

Skips == Max({0, options.skip})

KeptPieces ==
  LET items == SubSeq(Wanted, Skips + 1, Len(Wanted))
  IN  [i \in DOMAIN items |->
         IF items[i].type \in options.exclude THEN <<>> ELSE <<items[i]>>]

\* Those of the first k, when they are not fewer than are skipped.
Seen(k) == FlattenFirst(KeptPieces, k - Skips)

LEMMA OptionsAre ==
  ASSUME options \in Options
  PROVE  /\ options.skip \in Int /\ options.count \in Int
         /\ Skips \in Nat /\ Skips = IF options.skip <= 0 THEN 0 ELSE options.skip
         /\ Max({1, options.count}) = IF options.count <= 1 THEN 1 ELSE options.count
<1>1. options.skip \in Int /\ options.count \in Int
  BY OptionsAssumption
<1>2. PICK i, j \in Int : i = options.skip /\ j = options.count
  BY <1>1
<1>3. Max({0, i}) = (IF 0 >= i THEN 0 ELSE i) /\ Max({1, j}) = (IF 1 >= j THEN 1 ELSE j)
  BY MaxOfTwo
<1>4. Skips = (IF i <= 0 THEN 0 ELSE i) /\ Max({1, options.count}) = (IF j <= 1 THEN 1 ELSE j)
  BY <1>2, <1>3 DEF Skips
<1>5. Skips \in Nat
  BY <1>2, <1>4
<1>6. QED
  BY <1>1, <1>2, <1>4, <1>5

LEMMA KeptPiecesAre ==
  ASSUME input \in Inputs, count \in Nat, options \in Options, Skips <= Len(Wanted)
  PROVE  /\ KeptPieces \in Seq(Seq(Items)) /\ Len(KeptPieces) = Len(Wanted) - Skips
         /\ \A k \in Skips + 1 .. Len(Wanted) :
              KeptPieces[k - Skips] =
                IF Wanted[k].type \in options.exclude THEN <<>> ELSE <<Wanted[k]>>
<1> DEFINE n == Len(Wanted)
           items == SubSeq(Wanted, Skips + 1, n)
           piece(e) == IF e.type \in options.exclude THEN <<>> ELSE <<e>>
<1>1. /\ Wanted \in Seq(Items) /\ n \in Nat /\ Skips \in 0 .. n /\ Skips \in Nat
  BY WantedIs, OptionsAre, LenProperties
<1>2. items \in Seq(Items) /\ Len(items) = n - Skips
  BY <1>1, Parts
<1>3. \A i \in 1 .. n - Skips : items[i] = Wanted[Skips + i]
  <2>1. \A i \in Skips + 1 .. n : Wanted[i] \in Items
    <3>1. \A i \in Skips + 1 .. n : i \in 1 .. n
      BY <1>1
    <3>2. QED
      BY <1>1, <3>1, ElementOfSeq
  <2>2. Skips + 1 \in Int /\ n \in Int
    BY <1>1
  <2>3. \A i \in 1 .. n - (Skips + 1) + 1 : items[i] = Wanted[Skips + 1 + i - 1]
    BY <2>1, <2>2, SubSeqProperties
  <2>4. ASSUME NEW i \in 1 .. n - Skips
        PROVE  i \in 1 .. n - (Skips + 1) + 1 /\ Skips + 1 + i - 1 = Skips + i
    BY <1>1
  <2>5. QED
    BY <2>3, <2>4
<1>4. KeptPieces = [i \in DOMAIN items |-> piece(items[i])]
  BY DEF KeptPieces
<1> HIDE DEF items, n
<1>5. DOMAIN items = 1 .. n - Skips /\ n - Skips \in Nat
  BY <1>1, <1>2, LenProperties
<1>6. ASSUME NEW e \in Items PROVE piece(e) \in Seq(Items)
  <2>1. <<e>> \in Seq(Items) /\ <<>> \in Seq(Items)
    BY One, EmptySeq
  <2>2. QED
    BY <2>1
<1>7. \A i \in 1 .. n - Skips : items[i] \in Items
  BY <1>2, ElementOfSeq
<1> HIDE DEF piece
<1>8. KeptPieces \in [1 .. n - Skips -> Seq(Items)]
  BY <1>4, <1>5, <1>6, <1>7
<1>9. KeptPieces \in Seq(Seq(Items)) /\ Len(KeptPieces) = n - Skips
  BY <1>5, <1>8, FunctionIsSeq
<1>10. ASSUME NEW k \in Skips + 1 .. n PROVE KeptPieces[k - Skips] = piece(Wanted[k])
  <2>1. PICK i \in 1 .. n - Skips : i = k - Skips /\ Skips + i = k
    BY <1>1
  <2>2. KeptPieces[i] = piece(items[i])
    BY <1>4, <1>5
  <2>3. QED
    BY <1>3, <2>1, <2>2
<1>11. QED
  BY <1>9, <1>10 DEF piece, n

LEMMA SeenIs ==
  ASSUME input \in Inputs, count \in Nat, options \in Options, NEW k \in Skips .. Len(Wanted)
  PROVE  /\ Seen(k) \in Seq(Items)
         /\ Seen(Skips) = <<>>
         /\ Seen(Len(Wanted)) = Kept(SubSeq(Wanted, Skips + 1, Len(Wanted)))
         /\ \E more \in Seq(Items) : Seen(Len(Wanted)) = Seen(k) \o more
         /\ k # Len(Wanted) =>
              /\ Wanted[k + 1] \in Items
              /\ Seen(k + 1) = IF Wanted[k + 1].type \in options.exclude THEN Seen(k)
                               ELSE Append(Seen(k), Wanted[k + 1])
<1> DEFINE n == Len(Wanted)
           s == KeptPieces
<1>1. Wanted \in Seq(Items) /\ n \in Nat /\ Skips \in Nat
  BY WantedIs, OptionsAre, LenProperties
<1>2. /\ s \in Seq(Seq(Items)) /\ Len(s) = n - Skips
      /\ \A i \in Skips + 1 .. n :
           s[i - Skips] = IF Wanted[i].type \in options.exclude THEN <<>> ELSE <<Wanted[i]>>
  <2>1. Skips <= n
    BY <1>1
  <2>2. QED
    BY <2>1, KeptPiecesAre
<1> HIDE DEF n
<1>3. PICK j \in 0 .. Len(s) : j = k - Skips
  BY <1>1, <1>2 DEF n
<1>4. FlattenFirst(s, j) \in Seq(Items)
  BY <1>2, FirstType
<1>5. Skips - Skips = 0 /\ FlattenFirst(s, 0) = <<>>
  BY <1>1, <1>2, FirstNone
<1>6. FlattenFirst(s, Len(s)) = FlattenSeq(s)
  BY <1>2, FirstAll
<1>7. FlattenSeq(s) = Kept(SubSeq(Wanted, Skips + 1, n))
  BY DEF Kept, KeptPieces, n
<1>8. \E more \in Seq(Items) : FlattenFirst(s, Len(s)) = FlattenFirst(s, j) \o more
  <2>1. Len(s) \in j .. Len(s)
    BY <1>1, <1>2, <1>3 DEF n
  <2> HIDE DEF s
  <2>2. PICK l \in j .. Len(s) : l = Len(s)
    BY <2>1
  <2>3. s \in Seq(Seq(Items))
    BY <1>2
  <2>4. \E more \in Seq(Items) : FlattenFirst(s, l) = FlattenFirst(s, j) \o more
    BY <2>3, FirstMore
  <2>5. QED
    BY <2>2, <2>4
<1>9. ASSUME k # n
      PROVE  /\ Wanted[k + 1] \in Items
             /\ Seen(k + 1) = IF Wanted[k + 1].type \in options.exclude THEN Seen(k)
                              ELSE Append(Seen(k), Wanted[k + 1])
  <2>1. k + 1 \in 1 .. n /\ j # Len(s) /\ k + 1 \in Skips + 1 .. n /\ (k + 1) - Skips = j + 1
    BY <1>1, <1>2, <1>3, <1>9 DEF n
  <2> DEFINE e == Wanted[k + 1]
  <2>2. e \in Items
    BY <1>1, <2>1, ElementOfSeq DEF n
  <2>3. FlattenFirst(s, j + 1) = FlattenFirst(s, j) \o s[j + 1]
    BY <1>2, <2>1, FirstNext
  <2>4. s[j + 1] = IF e.type \in options.exclude THEN <<>> ELSE <<e>>
    <3>1. PICK i \in Skips + 1 .. n : i = k + 1 /\ i - Skips = j + 1
      BY <2>1
    <3>2. s[i - Skips] = IF Wanted[i].type \in options.exclude THEN <<>> ELSE <<Wanted[i]>>
      BY <1>2
    <3>3. QED
      BY <3>1, <3>2
  <2>5. Seen(k) = FlattenFirst(s, j) /\ Seen(k + 1) = FlattenFirst(s, j + 1)
    BY <1>3, <2>1 DEF Seen
  <2> HIDE DEF e, s
  <2>6. CASE e.type \in options.exclude
    <3>1. FlattenFirst(s, j) \o <<>> = FlattenFirst(s, j)
      BY <1>4, ConcatEmptySeq
    <3>2. QED
      BY <2>2, <2>3, <2>4, <2>5, <2>6, <3>1 DEF e
  <2>7. CASE e.type \notin options.exclude
    <3>1. Append(FlattenFirst(s, j), e) = FlattenFirst(s, j) \o <<e>>
      BY <1>4, <2>2, AppendIsConcat
    <3>2. QED
      BY <2>2, <2>3, <2>4, <2>5, <2>7, <3>1 DEF e
  <2>8. QED
    BY <2>6, <2>7
<1>10. Seen(k) = FlattenFirst(s, j) /\ Seen(Skips) = <<>> /\ Seen(n) = FlattenFirst(s, Len(s))
  BY <1>2, <1>3, <1>5 DEF Seen
<1>11. QED
  BY <1>4, <1>6, <1>7, <1>8, <1>9, <1>10 DEF n

-----------------------------------------------------------------------------
(* What getItem() gets.                                                    *)

\* What has left the filter is the beginning of what is wanted, and all of it when
\* no more comes and somebody still reads.
LEMMA WrittenIsFirst ==
  ASSUME FilterInv
  PROVE  /\ written \in Seq(Word)
         /\ \E more \in Seq(Word) : Output(Len(Wanted)) = written \o more
         /\ closed /\ ~V!Over => written = Output(Len(Wanted))
<1>1. /\ input \in Inputs /\ count \in Nat
      /\ noReader = V!Over /\ (fpc = "failed" => noReader)
  BY CountAssumption DEF FilterInv
<1>2. written \in Seq(Word) /\ buffer \in Seq(Word)
  BY DEF FilterInv, Now, FilterAt, WrittenTo
<1>3. WantedWords = Output(Len(Wanted))
  BY <1>1, WantedWordsIs
<1>4. IsPrefix(written \o buffer, WantedWords) /\ (fpc = "ended" /\ ~noReader => written = WantedWords)
  BY FilterIntact
<1>5. Output(Len(Wanted)) \in Seq(Word)
  <2>1. OutPieces \in Seq(Seq(Word)) /\ Len(Wanted) \in 0 .. Len(OutPieces)
    BY <1>1, PiecesAre, WantedIs
  <2>2. QED
    BY <2>1, FirstType DEF Output
<1>6. \E more \in Seq(Word) : Output(Len(Wanted)) = written \o more
  <2> DEFINE all == Output(Len(Wanted))
             out == written \o buffer
             rest == SubSeq(all, Len(out) + 1, Len(all))
  <2>1. out \in Seq(Word) /\ Len(out) \in Nat
    BY <1>2, ConcatIs
  <2>2. all \in Seq(Word) /\ Len(all) \in Nat
    BY <1>5, LenProperties
  <2>3. Len(out) <= Len(all) /\ SubSeq(out, 1, Len(out)) = SubSeq(all, 1, Len(out))
    BY <1>3, <1>4 DEF IsPrefix
  <2> HIDE DEF all, out
  <2>4. SubSeq(out, 1, Len(out)) = out
    BY <2>1, SubSeqFull
  <2>5. Len(out) \in 0 .. Len(all)
    BY <2>1, <2>2, <2>3
  <2>6. out \o rest = all /\ rest \in Seq(Word)
    BY <2>2, <2>3, <2>4, <2>5, Parts
  <2> HIDE DEF rest
  <2>7. (written \o buffer) \o rest = written \o (buffer \o rest) /\ buffer \o rest \in Seq(Word)
    BY <1>2, <2>6, Regroup, ConcatIs
  <2>8. all = written \o (buffer \o rest)
    BY <2>6, <2>7 DEF out
  <2>9. QED
    BY <2>7, <2>8 DEF all
<1>7. closed /\ ~V!Over => written = Output(Len(Wanted))
  BY <1>1, <1>3, <1>4 DEF closed
<1>8. QED
  BY <1>2, <1>6, <1>7

\* The words of one item among others: those of it that are there.
Among(w, b, x) ==
  /\ w \in Seq(Word) /\ b \in Seq(Word) /\ x \in Seq(Word)
  /\ \E more, rest \in Seq(Word) : w \o more = (b \o x) \o rest

LEMMA ItemWords ==
  ASSUME NEW w, NEW b, NEW x, Among(w, b, x), NEW i \in 1 .. Len(x), Len(b) + i <= Len(w)
  PROVE  SubSeq(w, Len(b) + 1, Len(w))[i] = x[i]
<1>0. w \in Seq(Word) /\ b \in Seq(Word) /\ x \in Seq(Word)
  BY DEF Among
<1>m. PICK more, rest \in Seq(Word) : w \o more = (b \o x) \o rest
  BY DEF Among
<1>1. /\ Len(b) \in Nat /\ Len(x) \in Nat /\ b \o x \in Seq(Word)
      /\ Len(b \o x) = Len(b) + Len(x) /\ Len(w) \in Nat /\ i \in Nat \ {0}
  BY <1>0, ConcatIs
<1>2. PICK j \in 1 .. Len(w) : j = Len(b) + i
  BY <1>1
<1>3. (w \o more)[j] = w[j]
  BY <1>0, AtLeft
<1>4. j \in 1 .. Len(b \o x)
  BY <1>1, <1>2
<1>5. ((b \o x) \o rest)[j] = (b \o x)[j]
  BY <1>1, <1>4, AtLeft
<1>6. (b \o x)[Len(b) + i] = x[i]
  BY <1>0, AtRight
<1>7. w[j] = x[i]
  BY <1>2, <1>3, <1>5, <1>6, <1>m
<1>8. SubSeq(w, Len(b) + 1, Len(w))[i] = w[j]
  <2>1. PICK m \in Int : m = Len(b) + 1
    BY <1>1
  <2>2. \A l \in m .. Len(w) : w[l] \in Word
    <3>1. \A l \in m .. Len(w) : l \in 1 .. Len(w)
      BY <1>1, <2>1
    <3>2. QED
      BY <1>0, <3>1, ElementOfSeq
  <2>3. Len(w) \in Int
    BY <1>1
  <2>4. \A l \in 1 .. Len(w) - m + 1 : SubSeq(w, m, Len(w))[l] = w[m + l - 1]
    BY <2>2, <2>3, SubSeqProperties
  <2>5. i \in 1 .. Len(w) - m + 1 /\ m + i - 1 = j
    BY <1>1, <1>2, <2>1
  <2>6. QED
    BY <2>1, <2>4, <2>5
<1>9. QED
  BY <1>7, <1>8

\* What there is of item k + 1 in the output.
LEMMA OutputAt ==
  ASSUME input \in Inputs, count \in Nat, NEW k \in 0 .. Len(Wanted), k # Len(Wanted)
  PROVE  LET x == OutPieces[k + 1]
             e == Wanted[k + 1]
         IN  /\ e \in Items /\ x \in Seq(Word) /\ Output(k) \in Seq(Word)
             /\ Output(k + 1) = Output(k) \o x
             /\ \E rest \in Seq(Word) : Output(Len(Wanted)) = (Output(k) \o x) \o rest
             /\ Len(x) \in Nat /\ Len(x) >= HeaderWords
             /\ x[1][2] = Len(x) /\ x[2][2] = e.type
             /\ e.type = "event" => /\ Len(x) >= 4 /\ x[3][2] = e.inner
                                    /\ e.inner = BodyHeaderWords => x[4][2] = e.time
<1> DEFINE n == Len(Wanted)
           x == OutPieces[k + 1]
           e == Wanted[k + 1]
           c == Missing(k + 1)
<1>1. /\ n \in 0 .. Len(Arrived) /\ Len(Arrived) \in Nat
      /\ \A i \in 1 .. n : Wanted[i] = Arrived[i]
  BY WantedIs, ArrivedIs
<1>2. PICK j \in 1 .. Len(Arrived) : j = k + 1 /\ j \in 1 .. n /\ j - 1 = k /\ n \in j .. Len(Arrived)
                                     /\ j \in 0 .. Len(Arrived)
  BY <1>1
<1>3. e = Arrived[j] /\ e \in Items /\ c \in 0 .. e.body
  BY <1>1, <1>2, MissingIs
<1>4. /\ Output(k + 1) = Output(k) \o x /\ Output(k) \in Seq(Word) /\ x \in Seq(Word)
  BY <1>2, OutputNext
<1>5. \E rest \in Seq(Word) : Output(n) = (Output(k) \o x) \o rest
  <2>1. OutPieces \in Seq(Seq(Word)) /\ j \in 0 .. Len(OutPieces) /\ n \in j .. Len(OutPieces)
    BY <1>2, PiecesAre
  <2>2. \E rest \in Seq(Word) : FlattenFirst(OutPieces, n) = FlattenFirst(OutPieces, j) \o rest
    BY <2>1, FirstMore
  <2>3. QED
    BY <1>2, <1>4, <2>2 DEF Output
<1>6. x = Padded(Plain(e), c)
  BY <1>2, <1>3, PieceIs
<1>7. LET o == Padded(Plain(e), c)
      IN  /\ Len(o) = HeaderWords + Len(Rest(e))
          /\ o[1][2] = Len(o) /\ o[2][2] = e.type
          /\ e.type = "event" =>
               /\ Len(Rest(e)) >= BodyHeaderWords
               /\ o[3][2] = e.inner
               /\ e.inner = BodyHeaderWords => o[4][2] = e.time
  BY <1>3, OutShape
<1> HIDE DEF x, e, c
<1>8. Len(Rest(e)) \in Nat
  BY <1>3, RestIs, LenProperties
<1>9. /\ Len(x) = HeaderWords + Len(Rest(e)) /\ Len(x) \in Nat /\ Len(x) >= HeaderWords
      /\ e.type = "event" => Len(x) >= 4
  <2>1. Len(x) = HeaderWords + Len(Rest(e)) /\ (e.type = "event" => Len(Rest(e)) >= BodyHeaderWords)
    BY <1>6, <1>7
  <2>2. QED
    BY <1>8, <2>1 DEF HeaderWords, BodyHeaderWords
<1>10. /\ x[1][2] = Len(x) /\ x[2][2] = e.type
       /\ e.type = "event" => /\ x[3][2] = e.inner
                              /\ e.inner = BodyHeaderWords => x[4][2] = e.time
  BY <1>6, <1>7
<1>11. QED
  BY <1>3, <1>4, <1>5, <1>9, <1>10 DEF x, e

\* An item is there when all of it is; then it is item k + 1 of those wanted.
LEMMA ItemThere ==
  ASSUME FilterInv, NEW k \in 0 .. Len(Wanted), pos = OutOffset(k), V!HasItem
  PROVE  LET e == Wanted[k + 1]
         IN  /\ k # Len(Wanted) /\ e \in Items
             /\ pos + V!Item[1][2] = OutOffset(k + 1)
             /\ V!ItemType = e.type
             /\ e.type = "event" => /\ V!Item[3][2] = e.inner
                                    /\ e.inner = BodyHeaderWords => V!Item[4][2] = e.time
<1> DEFINE n == Len(Wanted)
           w == written
           e == Wanted[k + 1]
           x == OutPieces[k + 1]
           b == Output(k)
           item == V!Item
<1>1. input \in Inputs /\ count \in Nat
  BY CountAssumption DEF FilterInv
<1>2. PICK more \in Seq(Word) : Output(n) = w \o more
  BY WrittenIsFirst
<1>3. w \in Seq(Word) /\ Len(w) \in Nat
  BY WrittenIsFirst, LenProperties
<1>4. n \in 0 .. Len(Arrived) /\ Len(Arrived) \in Nat
  BY <1>1, WantedIs, ArrivedIs
<1>5. b \in Seq(Word) /\ Len(b) \in Nat
  <2>1. OutPieces \in Seq(Seq(Word)) /\ k \in 0 .. Len(OutPieces)
    BY <1>1, <1>4, PiecesAre
  <2>2. b \in Seq(Word)
    BY <2>1, FirstType DEF Output
  <2>3. QED
    BY <2>2, LenProperties
<1>6. pos = Len(b) /\ item = SubSeq(w, Len(b) + 1, Len(w))
  BY DEF OutOffset, V!Item
<1>7. Len(item) >= HeaderWords /\ Len(item) >= item[1][2]
  BY DEF V!HasItem, V!HeaderWords, HeaderWords
<1> HIDE DEF item, b, w
<1>8. Len(b) + HeaderWords <= Len(w) /\ Len(item) = Len(w) - Len(b)
  <2>1. PICK m \in Int : m = Len(b) + 1
    BY <1>5
  <2>2. \A l \in m .. Len(w) : w[l] \in Word
    <3>1. \A l \in m .. Len(w) : l \in 1 .. Len(w)
      BY <1>3, <1>5, <2>1
    <3>2. QED
      BY <1>3, <3>1, ElementOfSeq
  <2>3. Len(SubSeq(w, m, Len(w))) = IF m <= Len(w) THEN Len(w) - m + 1 ELSE 0
    BY <1>3, <2>2, SubSeqProperties
  <2>4. Len(item) = IF m <= Len(w) THEN Len(w) - m + 1 ELSE 0
    BY <1>6, <2>1, <2>3
  <2>5. QED
    BY <1>3, <1>5, <1>7, <2>1, <2>4 DEF HeaderWords
<1>9. k # n
  <2>1. SUFFICES ASSUME k = n PROVE FALSE
    OBVIOUS
  <2>2. Len(b) = Len(w) + Len(more) /\ Len(more) \in Nat
    BY <1>2, <1>3, <2>1, ConcatIs DEF b
  <2>3. QED
    BY <1>3, <1>8, <2>2 DEF HeaderWords
<1>10. /\ e \in Items /\ x \in Seq(Word)
       /\ Output(k + 1) = b \o x
       /\ Len(x) \in Nat /\ Len(x) >= HeaderWords
       /\ x[1][2] = Len(x) /\ x[2][2] = e.type
       /\ e.type = "event" => /\ Len(x) >= 4 /\ x[3][2] = e.inner
                              /\ e.inner = BodyHeaderWords => x[4][2] = e.time
  BY <1>1, <1>9, OutputAt DEF b
<1>11. PICK rest \in Seq(Word) : Output(n) = (b \o x) \o rest
  BY <1>1, <1>9, OutputAt DEF b
<1> HIDE DEF x, e, n
<1>12. w \o more = (b \o x) \o rest
  BY <1>2, <1>11
<1>13. ASSUME NEW i \in 1 .. Len(x), Len(b) + i <= Len(w) PROVE item[i] = x[i]
  <2>1. /\ w \in Seq(Word) /\ more \in Seq(Word) /\ b \in Seq(Word) /\ x \in Seq(Word)
        /\ rest \in Seq(Word)
    BY <1>3, <1>5, <1>10
  <2>a. Among(w, b, x)
    BY <1>12, <2>1 DEF Among
  <2>2. SubSeq(w, Len(b) + 1, Len(w))[i] = x[i]
    BY <1>13, <2>a, ItemWords
  <2>3. QED
    BY <1>6, <2>2
<1>14. item[1] = x[1] /\ item[2] = x[2]
  <2>1. 1 \in 1 .. Len(x) /\ 2 \in 1 .. Len(x) /\ Len(b) + 1 <= Len(w) /\ Len(b) + 2 <= Len(w)
    BY SMTT(30), <1>3, <1>5, <1>8, <1>10 DEF HeaderWords
  <2>2. QED
    BY <1>13, <2>1
<1>15. item[1][2] = Len(x)
  BY <1>10, <1>14
<1>16. Len(b) + Len(x) <= Len(w)
  BY <1>3, <1>5, <1>7, <1>8, <1>10, <1>15
<1>17. ASSUME e.type = "event" PROVE item[3] = x[3] /\ item[4] = x[4]
  <2>1. 3 \in 1 .. Len(x) /\ 4 \in 1 .. Len(x) /\ Len(b) + 3 <= Len(w) /\ Len(b) + 4 <= Len(w)
    BY SMTT(30), <1>3, <1>5, <1>10, <1>16, <1>17
  <2>2. QED
    BY <1>13, <2>1
<1>18. pos + item[1][2] = OutOffset(k + 1)
  <2>1. Len(b \o x) = Len(b) + Len(x)
    BY <1>5, <1>10, ConcatIs
  <2>2. QED
    BY <1>6, <1>10, <1>15, <2>1 DEF OutOffset
<1>19. V!ItemType = e.type
  <2>1. V!ItemType = item[2][2]
    BY DEF V!ItemType, item
  <2>2. QED
    BY <1>10, <1>14, <2>1
<1>20. e.type = "event" => /\ item[3][2] = e.inner
                           /\ e.inner = BodyHeaderWords => item[4][2] = e.time
  BY <1>10, <1>17
<1>21. QED
  BY <1>9, <1>10, <1>18, <1>19, <1>20 DEF item, e, n

\* At the end of the source there is none left.
LEMMA NoItemLeft ==
  ASSUME FilterInv, NEW k \in 0 .. Len(Wanted), pos = OutOffset(k), ~V!Over, V!AtEnd
  PROVE  k = Len(Wanted)
<1> DEFINE b == Output(k)
           x == OutPieces[k + 1]
<1>1. SUFFICES ASSUME k # Len(Wanted) PROVE V!HasItem
  BY DEF V!AtEnd
<1>2. input \in Inputs /\ count \in Nat
  BY CountAssumption DEF FilterInv
<1>3. written = Output(Len(Wanted))
  BY WrittenIsFirst DEF V!AtEnd
<1>4. /\ x \in Seq(Word) /\ b \in Seq(Word) /\ Len(x) \in Nat /\ Len(x) >= HeaderWords
      /\ x[1][2] = Len(x)
  BY <1>1, <1>2, OutputAt
<1>5. PICK rest \in Seq(Word) : written = (b \o x) \o rest
  BY <1>1, <1>2, <1>3, OutputAt
<1> DEFINE y == x \o rest
<1>6. V!Item = SubSeq(written, Len(b) + 1, Len(written))
  BY DEF V!Item, OutOffset
<1> HIDE DEF b, x
<1>7. /\ y \in Seq(Word) /\ Len(y) = Len(x) + Len(rest) /\ Len(rest) \in Nat
  BY <1>4, ConcatIs
<1>8. written = b \o y
  BY <1>4, <1>5, Regroup
<1>9. y[1] = x[1]
  <2>1. 1 \in 1 .. Len(x)
    BY <1>4 DEF HeaderWords
  <2>2. QED
    BY <1>4, <2>1, AtLeft
<1> HIDE DEF y
<1>10. SubSeq(b \o y, Len(b) + 1, Len(b \o y)) = y
  BY <1>4, <1>7, Halves
<1>11. V!Item = y
  BY <1>6, <1>8, <1>10
<1>12. Len(y) >= HeaderWords /\ Len(y) >= y[1][2]
  BY <1>4, <1>7, <1>9 DEF HeaderWords
<1>13. QED
  BY <1>11, <1>12 DEF V!HasItem, V!HeaderWords, HeaderWords

-----------------------------------------------------------------------------
(* The validator.  Where it is when it has read the items up to k: at, s,  *)
(* left, ts, n and d stand for its variables.                              *)

ReadingAt(k, pc, at, s, left, ts, n, d) ==
  /\ at = OutOffset(k)
  /\ pc \in {"start", "skip"} =>
       s = k /\ k <= Skips /\ left = options.count /\ ts = 0 /\ n = 0 /\ d = 0
  /\ pc = "check" =>
       /\ Skips <= k /\ Figures(Seen(k), ts, n, d)
       /\ options.count >= 0 => /\ left = options.count - Len(Seen(k))
                                /\ Len(Seen(k)) < Max({1, options.count})

ValidatorAt(pc, at, s, left, ts, n, d) ==
  /\ pc \in {"start", "skip", "check"} =>
       \E k \in 0 .. Len(Wanted) : ReadingAt(k, pc, at, s, left, ts, n, d)
  /\ pc = "done" => Figures(Given, ts, n, d)

\* While it reads, what it has counted is right about the items up to some k;
\* when it is done, about those it was given.
ValidatorInv ==
  /\ options \in Options
  /\ ValidatorAt(vpc, pos, skipped, remaining, prevTs, counter, nOutOfOrder)

ValidatorThen == ValidatorAt(vpc', pos', skipped', remaining', prevTs', counter', nOutOfOrder')

\* The limit is reached, or the source at its end.
LEMMA GivenAtLimit ==
  ASSUME input \in Inputs, count \in Nat, options \in Options, NEW k \in Skips .. Len(Wanted),
         options.count >= 0, Len(Seen(k)) = Max({1, options.count})
  PROVE  Given = Seen(k)
<1> DEFINE all == Kept(SubSeq(Wanted, Skips + 1, Len(Wanted)))
           s == Seen(k)
           m == Max({1, options.count})
<1>1. s \in Seq(Items) /\ Len(s) \in Nat /\ Len(s) = m
  BY SeenIs, LenProperties
<1>2. PICK more \in Seq(Items) : all = s \o more
  BY SeenIs
<1>3. Given = SubSeq(all, 1, Min({Len(all), m}))
  <2>1. ~(options.count < 0)
    BY OptionsAre
  <2>2. QED
    BY <2>1 DEF Given, Skips
<1> HIDE DEF all, s, m
<1>4. Len(all) \in Nat /\ Len(s) <= Len(all)
  <2>1. Len(s \o more) = Len(s) + Len(more) /\ Len(more) \in Nat
    BY <1>1, ConcatIs
  <2>2. QED
    BY <1>1, <1>2, <2>1
<1>5. Min({Len(all), m}) = Len(s)
  <2>1. PICK i, j \in Int : i = Len(all) /\ j = m /\ j <= i
    BY <1>1, <1>4
  <2>2. Min({i, j}) = IF i <= j THEN i ELSE j
    BY MinOfTwo
  <2>3. Min({i, j}) = j
    BY <2>1, <2>2
  <2>4. QED
    BY <1>1, <2>1, <2>3
<1>6. SubSeq(s \o more, 1, Len(s)) = s
  BY <1>1, Halves
<1>7. QED
  BY <1>2, <1>3, <1>5, <1>6 DEF s

LEMMA GivenAtEnd ==
  ASSUME input \in Inputs, count \in Nat, options \in Options, Skips <= Len(Wanted),
         options.count >= 0 => Len(Seen(Len(Wanted))) < Max({1, options.count})
  PROVE  Given = Seen(Len(Wanted))
<1> DEFINE all == Kept(SubSeq(Wanted, Skips + 1, Len(Wanted)))
           m == Max({1, options.count})
<1>1. Len(Wanted) \in Skips .. Len(Wanted)
  BY WantedIs, OptionsAre
<1>2. all = Seen(Len(Wanted)) /\ all \in Seq(Items) /\ Len(all) \in Nat
  BY <1>1, SeenIs, LenProperties
<1>3. Given = IF options.count < 0 THEN all ELSE SubSeq(all, 1, Min({Len(all), m}))
  BY DEF Given, Skips
<1> HIDE DEF all
<1>4. CASE options.count < 0
  BY <1>2, <1>3, <1>4
<1>5. CASE ~(options.count < 0)
  <2>1. m \in Int /\ Len(all) < m
    BY <1>2, <1>5, OptionsAre
  <2> HIDE DEF m
  <2>2. PICK i, j \in Int : i = Len(all) /\ j = m /\ i < j
    BY <1>2, <2>1
  <2>3. Min({i, j}) = IF i <= j THEN i ELSE j
    BY MinOfTwo
  <2>4. Min({i, j}) = i
    BY <2>2, <2>3
  <2>5. SubSeq(all, 1, Len(all)) = all
    BY <1>2, SubSeqFull
  <2>6. QED
    BY <1>2, <1>3, <1>5, <2>2, <2>4, <2>5
<1>6. QED
  BY <1>4, <1>5

\* An item that is not excluded counts for the limit.
LEMMA KeptStep ==
  ASSUME input \in Inputs, count \in Nat, options \in Options, NEW k \in Skips .. Len(Wanted),
         k # Len(Wanted), Wanted[k + 1].type \notin options.exclude,
         options.count >= 0 => /\ remaining = options.count - Len(Seen(k))
                               /\ Len(Seen(k)) < Max({1, options.count}),
         V!ApplyLimit, NEW at, at = OutOffset(k + 1), NEW s, NEW ts, NEW n, NEW d,
         Figures(Append(Seen(k), Wanted[k + 1]), ts, n, d)
  PROVE  ValidatorAt(vpc', at, s, remaining', ts, n, d)
<1> DEFINE a == Seen(k)
           e == Wanted[k + 1]
           b == Seen(k + 1)
           m == Max({1, options.count})
<1>1. a \in Seq(Items) /\ e \in Items /\ b = Append(a, e)
  BY SeenIs
<1>2. Len(b) = Len(a) + 1 /\ Len(a) \in Nat
  BY <1>1, AppendProperties, LenProperties
<1>3. options.count \in Int /\ m = (IF options.count <= 1 THEN 1 ELSE options.count)
      /\ Skips \in Nat
  BY OptionsAre
<1>4. k + 1 \in Skips .. Len(Wanted) /\ k + 1 \in 0 .. Len(Wanted) /\ Skips <= k + 1
  BY <1>3, WantedIs
<1>5. Figures(b, ts, n, d)
  BY <1>1
<1> HIDE DEF a, e, m
<1>6. options.count >= 0 => remaining = options.count - Len(a) /\ Len(a) < m
  BY DEF a, m
<1>7. /\ vpc' = "done" \/ vpc' = "check"
      /\ vpc' = "done" => options.count >= 0 /\ remaining' <= 0
      /\ vpc' = "check" => ~(options.count >= 0 /\ remaining' <= 0)
      /\ options.count >= 0 => remaining' = remaining - 1
  BY <1>3 DEF V!ApplyLimit
<1>8. CASE vpc' = "done"
  <2>1. options.count >= 0 /\ remaining' = options.count - Len(a) - 1 /\ remaining' <= 0 /\ Len(a) < m
    BY <1>6, <1>7, <1>8
  <2>2. Len(b) = m
    BY <1>2, <1>3, <2>1
  <2>3. Given = b
    BY <1>4, <2>1, <2>2, GivenAtLimit DEF m
  <2>4. QED
    BY <1>5, <1>8, <2>3 DEF ValidatorAt
<1>9. CASE vpc' = "check"
  <2>1. ASSUME options.count >= 0
        PROVE  remaining' = options.count - Len(b) /\ Len(b) < m
    <3>1. remaining = options.count - Len(a) /\ remaining' = remaining - 1 /\ ~(remaining' <= 0)
      BY <1>6, <1>7, <1>9, <2>1
    <3>2. QED
      BY SMTT(30), <1>2, <1>3, <3>1
  <2>2. ReadingAt(k + 1, vpc', at, s, remaining', ts, n, d)
    BY <1>4, <1>5, <1>9, <2>1 DEF ReadingAt, m
  <2>3. QED
    BY <1>4, <1>9, <2>2 DEF ValidatorAt
<1>10. QED
  BY <1>7, <1>8, <1>9

LEMMA ValidatorOver ==
  ASSUME vpc' \in {"silent", "failed"}
  PROVE  ValidatorThen
  BY DEF ValidatorThen, ValidatorAt

LEMMA ValidatorSkips ==
  ASSUME FilterInv, ValidatorInv, V!Start \/ V!SkipItem \/ V!SkipDone
  PROVE  ValidatorThen
<1>1. input \in Inputs /\ count \in Nat /\ options \in Options
  BY CountAssumption DEF FilterInv, ValidatorInv
<1>2. vpc \in {"start", "skip"}
  BY DEF V!Start, V!SkipItem, V!SkipDone
<1>3. PICK k \in 0 .. Len(Wanted) :
        ReadingAt(k, vpc, pos, skipped, remaining, prevTs, counter, nOutOfOrder)
  BY <1>2 DEF ValidatorInv, ValidatorAt
<1>4. /\ pos = OutOffset(k) /\ skipped = k /\ k <= Skips /\ remaining = options.count
      /\ prevTs = 0 /\ counter = 0 /\ nOutOfOrder = 0
  BY <1>2, <1>3 DEF ReadingAt
<1>5. /\ options.skip \in Int /\ options.count \in Int
      /\ Skips \in Nat /\ Skips = (IF options.skip <= 0 THEN 0 ELSE options.skip)
      /\ Max({1, options.count}) = IF options.count <= 1 THEN 1 ELSE options.count
  BY <1>1, OptionsAre
<1>6. k \in Nat
  OBVIOUS
<1>7. CASE V!Start
  <2>1. /\ vpc' = "skip" /\ pos' = pos /\ skipped' = skipped /\ remaining' = remaining
        /\ prevTs' = prevTs /\ counter' = counter /\ nOutOfOrder' = nOutOfOrder
    BY <1>7 DEF V!Start, V!checks
  <2>2. ReadingAt(k, vpc', pos', skipped', remaining', prevTs', counter', nOutOfOrder')
    BY <1>4, <2>1 DEF ReadingAt
  <2>3. QED
    BY <2>1, <2>2 DEF ValidatorThen, ValidatorAt
<1>8. CASE V!SkipItem
  <2>1. /\ vpc' = "skip" /\ skipped' = skipped + 1 /\ remaining' = remaining
        /\ prevTs' = prevTs /\ counter' = counter /\ nOutOfOrder' = nOutOfOrder
        /\ skipped < options.skip /\ V!HasItem /\ pos' = pos + V!Item[1][2]
    BY <1>8 DEF V!SkipItem, V!checks, V!GetItem
  <2>2. k # Len(Wanted) /\ pos' = OutOffset(k + 1)
    BY <1>4, <2>1, ItemThere
  <2>3. k + 1 \in 0 .. Len(Wanted)
    BY <1>1, <2>2, WantedIs
  <2>4. skipped' = k + 1 /\ k + 1 <= Skips
    BY <1>4, <1>5, <1>6, <2>1
  <2>5. ReadingAt(k + 1, vpc', pos', skipped', remaining', prevTs', counter', nOutOfOrder')
    BY <1>4, <2>1, <2>2, <2>4 DEF ReadingAt
  <2>6. QED
    BY <2>1, <2>3, <2>5 DEF ValidatorThen, ValidatorAt
<1>9. CASE V!SkipDone
  <2>1. /\ vpc' = "check" /\ pos' = pos /\ skipped' = skipped /\ remaining' = remaining
        /\ prevTs' = prevTs /\ counter' = counter /\ nOutOfOrder' = nOutOfOrder
        /\ skipped >= options.skip
    BY <1>9 DEF V!SkipDone, V!checks
  <2>2. k = Skips
    BY <1>4, <1>5, <1>6, <2>1
  <2>3. Seen(k) = <<>>
    <3>1. k \in Skips .. Len(Wanted)
      BY <1>5, <2>2, <1>1, WantedIs
    <3>2. QED
      BY <1>1, <2>2, <3>1, SeenIs
  <2>4. Len(Seen(k)) = 0
    BY <2>3, EmptySeq
  <2>5. Figures(Seen(k), prevTs', counter', nOutOfOrder')
    BY <1>4, <2>1, <2>3, FiguresNone
  <2>6. options.count >= 0 => /\ remaining' = options.count - Len(Seen(k))
                              /\ Len(Seen(k)) < Max({1, options.count})
    BY <1>4, <1>5, <2>1, <2>4
  <2>7. Skips <= k
    BY <1>5, <2>2
  <2>8. ReadingAt(k, vpc', pos', skipped', remaining', prevTs', counter', nOutOfOrder')
    BY <1>4, <2>1, <2>5, <2>6, <2>7 DEF ReadingAt
  <2>9. QED
    BY <2>1, <2>8 DEF ValidatorThen, ValidatorAt
<1>10. QED
  BY <1>7, <1>8, <1>9

LEMMA ValidatorChecks ==
  ASSUME FilterInv, ValidatorInv,
         V!Exclude \/ V!BeginRun \/ V!OtherItem \/ V!PhysicsEvent \/ V!EndOfSource
  PROVE  ValidatorThen
<1>1. input \in Inputs /\ count \in Nat /\ options \in Options
  BY CountAssumption DEF FilterInv, ValidatorInv
<1>2. vpc = "check"
  BY DEF V!Exclude, V!BeginRun, V!OtherItem, V!PhysicsEvent, V!EndOfSource, V!Checked
<1>3. PICK k \in 0 .. Len(Wanted) :
        ReadingAt(k, vpc, pos, skipped, remaining, prevTs, counter, nOutOfOrder)
  BY <1>2 DEF ValidatorInv, ValidatorAt
<1>4. /\ pos = OutOffset(k) /\ Skips <= k /\ Figures(Seen(k), prevTs, counter, nOutOfOrder)
      /\ options.count >= 0 => /\ remaining = options.count - Len(Seen(k))
                               /\ Len(Seen(k)) < Max({1, options.count})
  BY <1>2, <1>3 DEF ReadingAt
<1>5. Skips \in Nat /\ Len(Wanted) \in Nat
  BY <1>1, OptionsAre, WantedIs
<1>6. k \in Skips .. Len(Wanted)
  BY <1>4, <1>5
<1>7. CASE V!EndOfSource
  <2>1. /\ vpc' = "done" /\ V!AtEnd
        /\ prevTs' = prevTs /\ counter' = counter /\ nOutOfOrder' = nOutOfOrder
    BY <1>7 DEF V!EndOfSource, V!checks
  <2>2. ~V!Over
    BY <1>2 DEF V!Over
  <2>3. k = Len(Wanted)
    BY <1>4, <2>1, <2>2, NoItemLeft
  <2>4. Given = Seen(k)
    BY <1>1, <1>4, <2>3, GivenAtEnd
  <2>5. QED
    BY <1>4, <2>1, <2>4 DEF ValidatorThen, ValidatorAt
<1> DEFINE e == Wanted[k + 1]
<1>8. ASSUME V!HasItem
      PROVE  /\ k # Len(Wanted) /\ k + 1 \in 0 .. Len(Wanted) /\ e \in Items
             /\ pos + V!Item[1][2] = OutOffset(k + 1)
             /\ V!ItemType = e.type
             /\ e.type = "event" => /\ V!Item[3][2] = e.inner
                                    /\ e.inner = BodyHeaderWords => V!Item[4][2] = e.time
             /\ Seen(k) \in Seq(Items)
             /\ e.type \in options.exclude => Seen(k + 1) = Seen(k)
  <2>1. /\ k # Len(Wanted) /\ e \in Items
        /\ pos + V!Item[1][2] = OutOffset(k + 1)
        /\ V!ItemType = e.type
        /\ e.type = "event" => /\ V!Item[3][2] = e.inner
                               /\ e.inner = BodyHeaderWords => V!Item[4][2] = e.time
    BY <1>4, <1>8, ItemThere
  <2>2. k + 1 \in 0 .. Len(Wanted)
    BY <1>5, <2>1
  <2>3. Seen(k) \in Seq(Items) /\ (e.type \in options.exclude => Seen(k + 1) = Seen(k))
    BY <1>1, <1>6, <2>1, SeenIs
  <2>4. QED
    BY <2>1, <2>2, <2>3
<1>9. CASE V!Exclude
  <2>1. /\ V!HasItem /\ pos' = pos + V!Item[1][2] /\ V!ItemType \in options.exclude
        /\ vpc' = "check" /\ remaining' = remaining
        /\ prevTs' = prevTs /\ counter' = counter /\ nOutOfOrder' = nOutOfOrder
    BY <1>9 DEF V!Exclude, V!GetItem, V!Excluded, V!checks
  <2>2. Skips <= k + 1
    BY <1>4, <1>5
  <2>3. pos' = OutOffset(k + 1) /\ Seen(k + 1) = Seen(k) /\ k + 1 \in 0 .. Len(Wanted)
    BY <1>8, <2>1
  <2>4. ReadingAt(k + 1, vpc', pos', skipped', remaining', prevTs', counter', nOutOfOrder')
    BY <1>4, <2>1, <2>2, <2>3 DEF ReadingAt
  <2>5. QED
    BY <2>1, <2>3, <2>4 DEF ValidatorThen, ValidatorAt
\* What the counters are after an item that is not excluded.
<1>10. ASSUME NEW type, V!Checked(type), V!ApplyLimit,
              Figures(Append(Seen(k), e), prevTs', counter', nOutOfOrder')
       PROVE  ValidatorThen
  <2>1. /\ V!HasItem /\ pos' = pos + V!Item[1][2] /\ V!ItemType \notin options.exclude
    BY <1>10 DEF V!Checked, V!GetItem, V!Excluded
  <2>2. pos' = OutOffset(k + 1) /\ k # Len(Wanted) /\ e.type \notin options.exclude
    BY <1>8, <2>1
  <2>3. ValidatorAt(vpc', pos', skipped', remaining', prevTs', counter', nOutOfOrder')
    BY <1>1, <1>4, <1>6, <1>10, <2>2, KeptStep
  <2>4. QED
    BY <2>3 DEF ValidatorThen
<1>11. ASSUME NEW type, V!Checked(type)
       PROVE  V!HasItem /\ V!ItemType = type
  BY <1>11 DEF V!Checked, V!GetItem
<1>12. CASE V!BeginRun
  <2>1. /\ V!Checked("begin") /\ V!ApplyLimit /\ counter' = 0
        /\ prevTs' = prevTs /\ nOutOfOrder' = nOutOfOrder
    BY <1>12 DEF V!BeginRun
  <2>2. e.type = "begin" /\ e \in Items /\ Seen(k) \in Seq(Items)
    BY <1>8, <1>11, <2>1
  <2>3. Figures(Append(Seen(k), e), prevTs', counter', nOutOfOrder')
    BY <1>4, <2>1, <2>2, FiguresNext
  <2>4. QED
    BY <1>10, <2>1, <2>3
<1>13. CASE V!OtherItem
  <2>1. PICK t \in Types \ {"begin", "event"} : V!Checked(t)
    BY <1>13 DEF V!OtherItem
  <2>2. V!ApplyLimit /\ prevTs' = prevTs /\ counter' = counter /\ nOutOfOrder' = nOutOfOrder
    BY <1>13 DEF V!OtherItem, V!checks
  <2>3. e.type \notin {"begin", "event"} /\ e \in Items /\ Seen(k) \in Seq(Items)
    BY <1>8, <1>11, <2>1
  <2>4. Figures(Append(Seen(k), e), prevTs', counter', nOutOfOrder')
    BY <1>4, <2>2, <2>3, FiguresNext
  <2>5. QED
    BY <1>10, <2>1, <2>2, <2>4
<1>14. CASE V!PhysicsEvent
  <2>1. /\ V!Checked("event") /\ V!ApplyLimit /\ V!Item[3][2] = BodyHeaderWords
        /\ nOutOfOrder' = (IF V!Item[4][2] <= prevTs THEN nOutOfOrder + 1 ELSE nOutOfOrder)
        /\ prevTs' = V!Item[4][2] /\ counter' = counter + 1
    BY <1>14 DEF V!PhysicsEvent, V!HasTime, V!BodyHeaderWords, BodyHeaderWords
  <2>2. e.type = "event" /\ e \in Items /\ Seen(k) \in Seq(Items) /\ V!Item[4][2] = e.time
    BY <1>8, <1>11, <2>1
  <2>3. Figures(Append(Seen(k), e), e.time, counter + 1,
                IF e.time <= prevTs THEN nOutOfOrder + 1 ELSE nOutOfOrder)
    BY <1>4, <2>2, FiguresNext
  <2>4. Figures(Append(Seen(k), e), prevTs', counter', nOutOfOrder')
    BY <2>1, <2>2, <2>3
  <2>5. QED
    BY <1>10, <2>1, <2>4
<1>15. QED
  BY <1>7, <1>9, <1>12, <1>13, <1>14

LEMMA ValidatorInit == Init => ValidatorInv
<1> SUFFICES ASSUME Init PROVE ValidatorInv
  OBVIOUS
<1>1. /\ input \in Inputs /\ count \in Counts /\ options \in Options
      /\ vpc = "start" /\ pos = 0 /\ skipped = 0 /\ remaining = options.count
      /\ prevTs = 0 /\ counter = 0 /\ nOutOfOrder = 0
  BY DEF Init, FInit, V!VInit
<1>2. count \in Nat
  BY <1>1, CountAssumption
<1>3. OutOffset(0) = 0
  <2>1. OutPieces \in Seq(Seq(Word))
    BY <1>1, PiecesAre
  <2>2. Output(0) = <<>>
    BY <2>1, FirstNone DEF Output
  <2>3. QED
    BY <2>2, EmptySeq DEF OutOffset
<1>4. 0 \in 0 .. Len(Wanted) /\ 0 <= Skips
  <2>1. Len(Wanted) \in Nat /\ Skips \in Nat
    BY <1>1, <1>2, WantedIs, OptionsAre, ArrivedIs
  <2>2. QED
    BY <2>1
<1>5. ReadingAt(0, vpc, pos, skipped, remaining, prevTs, counter, nOutOfOrder)
  BY <1>1, <1>3, <1>4 DEF ReadingAt
<1>6. QED
  BY <1>1, <1>4, <1>5 DEF ValidatorInv, ValidatorAt

\* The items that are wanted, and what is looked at of them, stay what they are.
LEMMA SameWanted ==
  ASSUME input' = input, count' = count, options' = options
  PROVE  /\ Wanted' = Wanted /\ Skips' = Skips /\ Given' = Given
         /\ \A k : OutOffset(k)' = OutOffset(k) /\ Seen(k)' = Seen(k)
<1>1. Arrived' = Arrived /\ \A k : Output(k)' = Output(k)
  BY SameItems
<1>2. Wanted' = Wanted
  BY <1>1 DEF Wanted
<1>3. Skips' = Skips
  BY DEF Skips
<1>4. KeptPieces' = KeptPieces
  BY <1>2, <1>3 DEF KeptPieces
<1>5. \A k : OutOffset(k)' = OutOffset(k) /\ Seen(k)' = Seen(k)
  BY <1>1, <1>3, <1>4 DEF OutOffset, Seen
<1>6. Given' = Given
  BY <1>2 DEF Given, Kept
<1>7. QED
  BY <1>2, <1>3, <1>5, <1>6

LEMMA ValidatorNow ==
  ASSUME input' = input, count' = count, options' = options, options \in Options, ValidatorThen
  PROVE  ValidatorInv'
<1>1. /\ Wanted' = Wanted /\ Skips' = Skips /\ Given' = Given
      /\ \A k : OutOffset(k)' = OutOffset(k) /\ Seen(k)' = Seen(k)
  BY SameWanted
<1>2. ASSUME NEW k,
             ReadingAt(k, vpc', pos', skipped', remaining', prevTs', counter', nOutOfOrder')
      PROVE  ReadingAt(k, vpc, pos, skipped, remaining, prevTs, counter, nOutOfOrder)'
  BY <1>1, <1>2 DEF ReadingAt, Figures, Times, LastRun, Disorders
<1>3. ASSUME Figures(Given, prevTs', counter', nOutOfOrder')
      PROVE  Figures(Given, prevTs, counter, nOutOfOrder)'
  BY <1>1, <1>3 DEF Figures, Times, LastRun, Disorders
<1>4. ValidatorAt(vpc', pos', skipped', remaining', prevTs', counter', nOutOfOrder')
  BY DEF ValidatorThen
<1>5. ValidatorAt(vpc, pos, skipped, remaining, prevTs, counter, nOutOfOrder)'
  BY <1>1, <1>2, <1>3, <1>4 DEF ValidatorAt
<1>6. QED
  BY <1>5 DEF ValidatorInv

LEMMA ValidatorNext ==
  ASSUME FilterInv, ValidatorInv, [Next]_vars
  PROVE  ValidatorInv'
<1>1. options \in Options
  BY DEF ValidatorInv
<1>2. CASE Validate
  <2>1. input' = input /\ count' = count /\ V!VNext
    BY <1>2 DEF Validate, fvars
  <2>2. options' = options
    BY <2>1 DEF V!VNext, V!Start, V!StartFails, V!SkipItem, V!SkipAll, V!SkipDone, V!Exclude,
                V!BeginRun, V!WrongFormat, V!OtherItem, V!PhysicsEvent, V!NoTimestamp,
                V!EndOfSource, V!Checked, V!Fail
  <2>3. CASE V!StartFails \/ V!SkipAll \/ V!WrongFormat \/ V!NoTimestamp
    <3>1. vpc' \in {"silent", "failed"}
      BY <2>3 DEF V!StartFails, V!SkipAll, V!WrongFormat, V!NoTimestamp, V!Fail
    <3>2. QED
      BY <1>1, <2>1, <2>2, <3>1, ValidatorOver, ValidatorNow
  <2>4. CASE V!Start \/ V!SkipItem \/ V!SkipDone
    BY <1>1, <2>1, <2>2, <2>4, ValidatorSkips, ValidatorNow
  <2>5. CASE V!Exclude \/ V!BeginRun \/ V!OtherItem \/ V!PhysicsEvent \/ V!EndOfSource
    BY <1>1, <2>1, <2>2, <2>5, ValidatorChecks, ValidatorNow
  <2>6. QED
    BY <2>1, <2>3, <2>4, <2>5 DEF V!VNext
<1>3. CASE Filter \/ Terminated \/ UNCHANGED vars
  <2>1. UNCHANGED vvars
    BY <1>3 DEF Filter, Terminated, vars
  <2>2. input' = input /\ count' = count
    <3>1. CASE Filter
      BY <3>1 DEF Filter, FNext, FilterItem, ReadHeader, NothingRead, ReadData, Skip, SkipShort,
                  PutItemHeader, PutFragmentHeader, PutBodyHeader, PutRest, PutFails, Count,
                  CountReached
    <3>2. CASE Terminated \/ UNCHANGED vars
      BY <3>2 DEF Terminated, vars, fvars
    <3>3. QED
      BY <1>3, <3>1, <3>2
  <2>3. options' = options /\ ValidatorThen
    BY <2>1 DEF vvars, ValidatorInv, ValidatorThen
  <2>4. QED
    BY <1>1, <2>2, <2>3, ValidatorNow
<1>4. QED
  BY <1>2, <1>3 DEF Next

LEMMA ValidatorHolds == Spec => []ValidatorInv
<1>1. FilterInv /\ ValidatorInv /\ [Next]_vars => ValidatorInv'
  BY ValidatorNext
<1>2. QED
  BY <1>1, ValidatorInit, FilterHolds, PTL DEF Spec

\* Whatever evbfilter is given and however far tsvalidate runs ahead of its
\* output, a summary of tsvalidate's main() counts the events that are not after
\* the one before them, and those of the last run, up to the limits asked for.
THEOREM SummaryIsRight == Spec => []SummaryRight
<1>1. ValidatorInv => SummaryRight
  BY DEF ValidatorInv, ValidatorAt, Figures, SummaryRight
<1>2. QED
  BY <1>1, ValidatorHolds, PTL
===============================================================================
