-------------------------- MODULE AudioJitterProofs --------------------------
(***************************************************************************)
(* Proofs about the audio pipeline: the order of the jitter buffer, what   *)
(* is dropped as late, and the clock of an epoch, for any sizes and for    *)
(* streams of any length, in which the sequence numbers wrap around any    *)
(* number of times.                                                        *)
(***************************************************************************)
EXTENDS AudioJitter, TLAPS, SequenceTheorems, WellFoundedInduction

Packets == [n : Numbers, red : BOOLEAN]

LEMMA Sizes ==
  /\ Modulus \in Nat \ {0} /\ Start \in Nat /\ MaxSent \in Nat /\ 2 <= Modulus
  /\ MaxPackets \in Nat \ {0} /\ Prime \in Nat \ {0} /\ OutputLimit \in Nat
BY ConstantsAssumption DEF ConstantsAssumption
-----------------------------------------------------------------------------
(* Sequence numbers.  As far as half of them apart, int16_t(a - b) is how  *)
(* far apart two packets are in the stream.                                *)

LEMMA Remainder ==
  ASSUME NEW m \in Nat \ {0}, NEW x \in Int
  PROVE  /\ x = m * (x \div m) + (x % m)
         /\ x \div m \in Int /\ x % m \in 0..(m - 1)
OBVIOUS

LEMMA RemainderIs ==
  ASSUME NEW m \in Nat \ {0}, NEW q \in Int, NEW r \in 0..(m - 1)
  PROVE  (m * q + r) % m = r
OBVIOUS

LEMMA Distance ==
  ASSUME NEW a \in Int, NEW b \in Int, - Modulus <= 2 * (a - b), 2 * (a - b) < Modulus
  PROVE  Delta(SequenceOf(a), SequenceOf(b)) = a - b
<1> DEFINE s == (Start + a) % Modulus
           t == (Start + b) % Modulus
<1>1. Modulus \in Nat \ {0} /\ Start \in Nat
  BY Sizes
<1>2. PICK p \in Int, q \in Int : Start + a = Modulus * p + s /\ Start + b = Modulus * q + t
  <2>1. Start + a \in Int
    BY <1>1
  <2>2. /\ Start + a = Modulus * ((Start + a) \div Modulus) + s
        /\ (Start + a) \div Modulus \in Int
    BY <1>1, <2>1, Remainder
  <2>3. Start + b \in Int
    BY <1>1
  <2>4. /\ Start + b = Modulus * ((Start + b) \div Modulus) + t
        /\ (Start + b) \div Modulus \in Int
    BY <1>1, <2>3, Remainder
  <2> HIDE DEF s, t
  <2> QED BY <2>2, <2>4
<1>3. s \in Int /\ t \in Int
  BY <1>1, Remainder
<1> HIDE DEF s, t
<1>4. CASE a - b >= 0
  <2>1. s - t = Modulus * (q - p) + (a - b)
    BY <1>1, <1>2, <1>3
  <2>2. a - b \in 0..(Modulus - 1) /\ q - p \in Int
    BY <1>1, <1>4
  <2>3. (s - t) % Modulus = a - b
    BY <1>1, <2>1, <2>2, RemainderIs
  <2> QED BY <1>1, <2>3 DEF Delta, SequenceOf, s, t
<1>5. CASE a - b < 0
  <2>1. s - t = Modulus * (q - p - 1) + ((a - b) + Modulus)
    BY <1>1, <1>2, <1>3
  <2>2. (a - b) + Modulus \in 0..(Modulus - 1) /\ q - p - 1 \in Int
    BY <1>1, <1>5
  <2>3. (s - t) % Modulus = (a - b) + Modulus
    BY <1>1, <2>1, <2>2, RemainderIs
  <2> QED BY <1>1, <2>3 DEF Delta, SequenceOf, s, t
<1> QED BY <1>4, <1>5

LEMMA SameSequence ==
  ASSUME NEW a \in Int, NEW b \in Int, - Modulus <= 2 * (a - b), 2 * (a - b) < Modulus,
         SequenceOf(a) = SequenceOf(b)
  PROVE  a = b
<1>1. Delta(SequenceOf(a), SequenceOf(b)) = a - b
  BY Distance
<1>2. Delta(SequenceOf(b), SequenceOf(b)) = 0
  <2>1. - Modulus <= 2 * (b - b) /\ 2 * (b - b) < Modulus /\ b - b = 0
    BY Sizes
  <2> QED BY <2>1, Distance
<1>3. a - b = 0
  BY <1>1, <1>2
<1> QED BY <1>3

LEMMA Successor ==
  ASSUME NEW a \in Int
  PROVE  (SequenceOf(a) + 1) % Modulus = SequenceOf(a + 1)
<1> DEFINE s == (Start + a) % Modulus
<1>1. Modulus \in Nat \ {0} /\ Start \in Nat
  BY Sizes
<1>2. PICK p \in Int : Start + a = Modulus * p + s
  <2>1. Start + a \in Int
    BY <1>1
  <2>2. /\ Start + a = Modulus * ((Start + a) \div Modulus) + s
        /\ (Start + a) \div Modulus \in Int
    BY <1>1, <2>1, Remainder
  <2> HIDE DEF s
  <2> QED BY <2>2
<1>3. s \in 0..(Modulus - 1)
  BY <1>1, Remainder
<1> HIDE DEF s
<1>4. CASE s + 1 < Modulus
  <2>1. s + 1 = Modulus * 0 + (s + 1) /\ Start + (a + 1) = Modulus * p + (s + 1)
    BY <1>1, <1>2, <1>3
  <2>2. s + 1 \in 0..(Modulus - 1) /\ 0 \in Int
    BY <1>1, <1>3, <1>4
  <2>3. (s + 1) % Modulus = s + 1 /\ (Start + (a + 1)) % Modulus = s + 1
    BY <1>1, <2>1, <2>2, RemainderIs
  <2> QED BY <2>3 DEF SequenceOf, s
<1>5. CASE s + 1 = Modulus
  <2>1. s + 1 = Modulus * 1 + 0 /\ Start + (a + 1) = Modulus * (p + 1) + 0
    BY <1>1, <1>2, <1>3, <1>5
  <2>2. 0 \in 0..(Modulus - 1) /\ 1 \in Int /\ p + 1 \in Int
    BY <1>1
  <2>3. (s + 1) % Modulus = 0 /\ (Start + (a + 1)) % Modulus = 0
    BY <1>1, <2>1, <2>2, RemainderIs
  <2> QED BY <2>3 DEF SequenceOf, s
<1> QED BY <1>1, <1>3, <1>4, <1>5

LEMMA SequenceIn ==
  ASSUME NEW a \in Int
  PROVE  SequenceOf(a) \in 0..(Modulus - 1)
BY Sizes, Remainder DEF SequenceOf
-----------------------------------------------------------------------------
(* Sequences                                                               *)

LEMMA Least ==
  ASSUME NEW I, I \subseteq Nat, I # {}
  PROVE  Min(I) \in I /\ \A j \in I : Min(I) <= j
<1>1. PICK i \in I : \A j \in I : <<j, i>> \notin OpToRel(<, Nat)
  BY NatLessThanWellFounded, WFMin, Zenon
<1>2. \A j \in I : ~(j < i)
  BY <1>1, Zenon DEF OpToRel
<1>3. \A j \in I : i <= j
  <2> TAKE j \in I
  <2>1. i \in Nat /\ j \in Nat /\ ~(j < i)
    BY <1>2
  <2> QED BY ONLY <2>1
<1>4. \E x \in I : \A j \in I : x <= j
  BY <1>3
<1> QED BY ONLY <1>4, Zenon DEF Min

LEMMA InsertElements ==
  ASSUME NEW S, NEW s \in Seq(S), NEW e \in S, NEW i \in 1..Len(s)
  PROVE  /\ InsertAt(s, i, e) \in Seq(S) /\ Len(InsertAt(s, i, e)) = Len(s) + 1
         /\ \A j \in 1..(Len(s) + 1) :
              /\ j < i => InsertAt(s, i, e)[j] = s[j] /\ j \in 1..Len(s)
              /\ j = i => InsertAt(s, i, e)[j] = e
              /\ j > i => InsertAt(s, i, e)[j] = s[j - 1] /\ j - 1 \in 1..Len(s)
<1> DEFINE a == SubSeq(s, 1, i - 1)
           b == SubSeq(s, i, Len(s))
           c == a \o <<e>>
<1>1. Len(s) \in Nat /\ i \in 1..Len(s) /\ \A j \in 1..Len(s) : s[j] \in S
  BY LenProperties, ElementOfSeq
<1>2. /\ a \in Seq(S) /\ Len(a) = i - 1
      /\ \A j \in 1..(i - 1) : a[j] = s[j]
  <2>1. 1 \in Int /\ i - 1 \in Int /\ \A j \in 1..(i - 1) : s[j] \in S
    BY <1>1
  <2>2. /\ a \in Seq(S) /\ Len(a) = IF 1 <= i - 1 THEN (i - 1) - 1 + 1 ELSE 0
        /\ \A j \in 1..((i - 1) - 1 + 1) : a[j] = s[1 + j - 1]
    BY <2>1, SubSeqProperties
  <2> HIDE DEF a
  <2> QED BY <1>1, <2>2
<1>3. /\ b \in Seq(S) /\ Len(b) = Len(s) - i + 1
      /\ \A j \in 1..(Len(s) - i + 1) : b[j] = s[i + j - 1]
  <2>1. i \in Int /\ Len(s) \in Int /\ \A j \in i..Len(s) : s[j] \in S
    BY <1>1
  <2>2. /\ b \in Seq(S) /\ Len(b) = IF i <= Len(s) THEN Len(s) - i + 1 ELSE 0
        /\ \A j \in 1..(Len(s) - i + 1) : b[j] = s[i + j - 1]
    BY <2>1, SubSeqProperties
  <2> HIDE DEF b
  <2> QED BY <1>1, <2>2
<1> HIDE DEF a, b
<1>4. <<e>> \in Seq(S) /\ Len(<<e>>) = 1 /\ <<e>>[1] = e
  OBVIOUS
<1>5. /\ c \in Seq(S) /\ Len(c) = i
      /\ \A j \in 1..i : c[j] = IF j <= i - 1 THEN a[j] ELSE <<e>>[j - (i - 1)]
  <2>1. /\ c \in Seq(S) /\ Len(c) = (i - 1) + 1
        /\ \A j \in 1..((i - 1) + 1) : c[j] = IF j <= i - 1 THEN a[j] ELSE <<e>>[j - (i - 1)]
    BY <1>2, <1>4, ConcatProperties
  <2>2. (i - 1) + 1 = i
    BY <1>1
  <2> HIDE DEF c
  <2> QED BY <2>1, <2>2
<1>6. InsertAt(s, i, e) = c \o b
  BY DEF InsertAt, a, b
<1> HIDE DEF c
<1>7. /\ c \o b \in Seq(S) /\ Len(c \o b) = Len(s) + 1
      /\ \A j \in 1..(Len(s) + 1) : (c \o b)[j] = IF j <= i THEN c[j] ELSE b[j - i]
  <2>1. /\ c \o b \in Seq(S) /\ Len(c \o b) = i + (Len(s) - i + 1)
        /\ \A j \in 1..(i + (Len(s) - i + 1)) : (c \o b)[j] = IF j <= i THEN c[j] ELSE b[j - i]
    <3>1. Len(c) = i /\ Len(b) = Len(s) - i + 1
      BY <1>3, <1>5
    <3>2. /\ c \o b \in Seq(S) /\ Len(c \o b) = Len(c) + Len(b)
          /\ \A j \in 1..(Len(c) + Len(b)) : (c \o b)[j] = IF j <= Len(c) THEN c[j] ELSE b[j - Len(c)]
      BY <1>3, <1>5, ConcatProperties
    <3> QED BY ONLY <3>1, <3>2, Zenon
  <2>2. i + (Len(s) - i + 1) = Len(s) + 1
    BY <1>1
  <2> QED BY <2>1, <2>2
<1>8. ASSUME NEW j \in 1..(Len(s) + 1)
      PROVE  /\ j < i => (c \o b)[j] = s[j] /\ j \in 1..Len(s)
             /\ j = i => (c \o b)[j] = e
             /\ j > i => (c \o b)[j] = s[j - 1] /\ j - 1 \in 1..Len(s)
  <2>1. CASE j < i
    <3>1. j <= i /\ j \in 1..i /\ j <= i - 1 /\ j \in 1..(i - 1) /\ j \in 1..Len(s) /\ j # i /\ ~(j > i)
      BY <1>1, <2>1
    <3>2. (c \o b)[j] = s[j]
      BY <1>2, <1>5, <1>7, <3>1
    <3> QED BY <3>1, <3>2
  <2>2. CASE j = i
    <3>1. j <= i /\ j \in 1..i /\ ~(j <= i - 1) /\ j - (i - 1) = 1 /\ ~(j < i) /\ ~(j > i)
      BY <1>1, <2>2
    <3>2. (c \o b)[j] = e
      BY <1>4, <1>5, <1>7, <3>1
    <3> QED BY <3>1, <3>2
  <2>3. CASE j > i
    <3>1. /\ ~(j <= i) /\ j - i \in 1..(Len(s) - i + 1) /\ i + (j - i) - 1 = j - 1
          /\ j - 1 \in 1..Len(s) /\ ~(j < i) /\ j # i
      BY <1>1, <2>3
    <3>2. (c \o b)[j] = s[j - 1]
      BY <1>3, <1>7, <3>1
    <3> QED BY <3>1, <3>2
  <2> QED BY <1>1, <2>1, <2>2, <2>3
<1> QED BY <1>6, <1>7, <1>8

LEMMA RemoveElements ==
  ASSUME NEW S, NEW s \in Seq(S), NEW i \in 1..Len(s)
  PROVE  /\ RemoveAt(s, i) \in Seq(S) /\ Len(RemoveAt(s, i)) = Len(s) - 1
         /\ \A j \in 1..(Len(s) - 1) :
              /\ j < i => RemoveAt(s, i)[j] = s[j] /\ j \in 1..Len(s)
              /\ j >= i => RemoveAt(s, i)[j] = s[j + 1] /\ j + 1 \in 1..Len(s)
<1> DEFINE a == SubSeq(s, 1, i - 1)
           b == SubSeq(s, i + 1, Len(s))
<1>1. Len(s) \in Nat /\ i \in 1..Len(s) /\ \A j \in 1..Len(s) : s[j] \in S
  BY LenProperties, ElementOfSeq
<1>2. /\ a \in Seq(S) /\ Len(a) = i - 1
      /\ \A j \in 1..(i - 1) : a[j] = s[j]
  <2>1. 1 \in Int /\ i - 1 \in Int /\ \A j \in 1..(i - 1) : s[j] \in S
    BY <1>1
  <2>2. /\ a \in Seq(S) /\ Len(a) = IF 1 <= i - 1 THEN (i - 1) - 1 + 1 ELSE 0
        /\ \A j \in 1..((i - 1) - 1 + 1) : a[j] = s[1 + j - 1]
    BY <2>1, SubSeqProperties
  <2> HIDE DEF a
  <2> QED BY <1>1, <2>2
<1>3. /\ b \in Seq(S) /\ Len(b) = Len(s) - i
      /\ \A j \in 1..(Len(s) - i) : b[j] = s[i + j]
  <2>1. i + 1 \in Int /\ Len(s) \in Int /\ \A j \in (i + 1)..Len(s) : s[j] \in S
    BY <1>1
  <2>2. /\ b \in Seq(S) /\ Len(b) = IF i + 1 <= Len(s) THEN Len(s) - (i + 1) + 1 ELSE 0
        /\ \A j \in 1..(Len(s) - (i + 1) + 1) : b[j] = s[(i + 1) + j - 1]
    BY <2>1, SubSeqProperties
  <2> HIDE DEF b
  <2> QED BY <1>1, <2>2
<1>4. RemoveAt(s, i) = a \o b
  BY DEF RemoveAt
<1> HIDE DEF a, b
<1>5. /\ a \o b \in Seq(S) /\ Len(a \o b) = Len(s) - 1
      /\ \A j \in 1..(Len(s) - 1) : (a \o b)[j] = IF j <= i - 1 THEN a[j] ELSE b[j - (i - 1)]
  <2>1. /\ a \o b \in Seq(S) /\ Len(a \o b) = (i - 1) + (Len(s) - i)
        /\ \A j \in 1..((i - 1) + (Len(s) - i)) :
             (a \o b)[j] = IF j <= i - 1 THEN a[j] ELSE b[j - (i - 1)]
    <3>1. Len(a) = i - 1 /\ Len(b) = Len(s) - i
      BY <1>2, <1>3
    <3>2. /\ a \o b \in Seq(S) /\ Len(a \o b) = Len(a) + Len(b)
          /\ \A j \in 1..(Len(a) + Len(b)) : (a \o b)[j] = IF j <= Len(a) THEN a[j] ELSE b[j - Len(a)]
      BY <1>2, <1>3, ConcatProperties
    <3> QED BY ONLY <3>1, <3>2, Zenon
  <2>2. (i - 1) + (Len(s) - i) = Len(s) - 1
    BY <1>1
  <2> QED BY <2>1, <2>2
<1>6. ASSUME NEW j \in 1..(Len(s) - 1)
      PROVE  /\ j < i => (a \o b)[j] = s[j] /\ j \in 1..Len(s)
             /\ j >= i => (a \o b)[j] = s[j + 1] /\ j + 1 \in 1..Len(s)
  <2>1. CASE j < i
    <3>1. j <= i - 1 /\ j \in 1..(i - 1) /\ j \in 1..Len(s) /\ ~(j >= i)
      BY <1>1, <2>1
    <3> QED BY <1>2, <1>5, <3>1
  <2>2. CASE j >= i
    <3>1. /\ ~(j <= i - 1) /\ j - (i - 1) \in 1..(Len(s) - i) /\ i + (j - (i - 1)) = j + 1
          /\ j + 1 \in 1..Len(s) /\ ~(j < i)
      BY <1>1, <2>2
    <3> QED BY <1>3, <1>5, <3>1
  <2> QED BY <1>1, <2>1, <2>2
<1> QED BY <1>4, <1>5, <1>6

-----------------------------------------------------------------------------
(* The jitter buffer                                                       *)

Sorted(q) == \A i, j \in 1..Len(q) : i < j => q[i].n < q[j].n

LEMMA SortedTail ==
  ASSUME NEW q \in Seq(Packets), Sorted(q), q # <<>>
  PROVE  /\ Tail(q) \in Seq(Packets) /\ Len(Tail(q)) = Len(q) - 1 /\ Sorted(Tail(q))
         /\ \A i \in 1..Len(Tail(q)) : \E j \in 1..Len(q) : Tail(q)[i] = q[j]
<1> DEFINE t == Tail(q)
<1>1. /\ t \in Seq(Packets) /\ Len(t) = Len(q) - 1 /\ Len(q) \in Nat
      /\ \A i \in 1..Len(t) : t[i] = q[i + 1]
  BY HeadTailProperties, LenProperties, EmptySeq
<1> HIDE DEF t
<1>2. \A i \in 1..Len(t) : i + 1 \in 1..Len(q) /\ i \in Int
  BY <1>1
<1>3. \A i, j \in 1..Len(t) : i < j => t[i].n < t[j].n
  <2> TAKE i, j \in 1..Len(t)
  <2>1. i < j => i + 1 < j + 1
    BY <1>2
  <2> QED BY <1>1, <1>2, <2>1 DEF Sorted
<1>4. \A i \in 1..Len(t) : \E j \in 1..Len(q) : t[i] = q[j]
  BY <1>1, <1>2
<1>5. Sorted(t)
  BY <1>3 DEF Sorted
<1> QED BY <1>1, <1>4, <1>5 DEF t

LEMMA Older ==
  ASSUME NEW a \in Numbers, NEW b \in Numbers, Near(a, b)
  PROVE  Delta(SequenceOf(a), SequenceOf(b)) < 0 <=> a < b
<1>1. a \in 1..MaxSent /\ b \in 1..MaxSent
  BY DEF Numbers
<1>2. /\ a \in Int /\ b \in Int /\ - Modulus <= 2 * (a - b) /\ 2 * (a - b) < Modulus
      /\ (a - b < 0 <=> a < b)
  BY <1>1, Sizes DEF Near
<1> QED BY <1>2, Distance

(* A packet is put before the first that is newer.                         *)
LEMMA Position ==
  ASSUME NEW q \in Seq(Packets), NEW e \in Packets
  PROVE  LET room == IF Full(q) THEN Tail(q) ELSE q
             I == {i \in 1..Len(room) : Delta(SequenceOf(e.n), SequenceOf(room[i].n)) < 0}
         IN  Inserted(q, e) = IF I = {} THEN Append(room, e) ELSE InsertAt(room, Min(I), e)
<1> DEFINE room == IF Full(q) THEN Tail(q) ELSE q
           I == {i \in 1..Len(room) : Delta(SequenceOf(e.n), SequenceOf(room[i].n)) < 0}
           k == IF I # {} THEN Min(I) ELSE 0
<1>1. Inserted(q, e) = IF k = 0 THEN Append(room, e) ELSE InsertAt(room, k, e)
  BY DEF Inserted, SelectInSeq
<1>2. I \subseteq Nat /\ 0 \notin I
  OBVIOUS
<1> HIDE DEF I
<1>3. CASE I = {}
  <2>1. k = 0
    BY <1>3
  <2> QED BY <1>1, <1>3, <2>1 DEF I
<1>4. CASE I # {}
  <2>1. Min(I) \in I
    BY <1>2, <1>4, Least
  <2>2. k = Min(I) /\ k # 0
    BY <1>2, <1>4, <2>1
  <2> QED BY <1>1, <1>4, <2>2 DEF I
<1> QED BY <1>3, <1>4

LEMMA InsertedInOrder ==
  ASSUME NEW q \in Seq(Packets), Sorted(q), Len(q) <= MaxPackets,
         NEW e \in Packets, \A i \in 1..Len(q) : q[i].n # e.n /\ Near(e.n, q[i].n)
  PROVE  /\ Inserted(q, e) \in Seq(Packets) /\ Len(Inserted(q, e)) <= MaxPackets
         /\ Sorted(Inserted(q, e))
         /\ \A i \in 1..Len(Inserted(q, e)) :
              \/ Inserted(q, e)[i].n = e.n
              \/ \E j \in 1..Len(q) : Inserted(q, e)[i].n = q[j].n
<1> DEFINE room == IF Full(q) THEN Tail(q) ELSE q
           I == {i \in 1..Len(room) : Delta(SequenceOf(e.n), SequenceOf(room[i].n)) < 0}
<1>1. Inserted(q, e) = IF I = {} THEN Append(room, e) ELSE InsertAt(room, Min(I), e)
  BY Position
<1>2. /\ room \in Seq(Packets) /\ Sorted(room) /\ Len(room) \in Nat /\ Len(room) + 1 <= MaxPackets
      /\ \A i \in 1..Len(room) : \E j \in 1..Len(q) : room[i] = q[j]
  <2>1. Len(q) \in Nat /\ MaxPackets \in Nat \ {0}
    BY LenProperties, Sizes
  <2>2. CASE Full(q)
    <3>1. q # <<>>
      BY <2>1, <2>2 DEF Full
    <3> QED BY <2>1, <2>2, <3>1, SortedTail
  <2>3. CASE ~Full(q)
    BY <2>1, <2>3 DEF Full
  <2> QED BY <2>2, <2>3
<1> HIDE DEF room
<1>3. \A i \in 1..Len(room) : /\ room[i] \in Packets /\ room[i].n \in Numbers
                               /\ room[i].n # e.n /\ Near(e.n, room[i].n)
  <2> TAKE i \in 1..Len(room)
  <2>1. room[i] \in Packets
    BY <1>2, ElementOfSeq
  <2> QED BY <1>2, <2>1 DEF Packets
<1>4. e.n \in Numbers /\ Numbers \subseteq Int
  BY Sizes DEF Packets, Numbers
<1>5. \A i \in 1..Len(room) : i \in I <=> e.n < room[i].n
  <2> TAKE i \in 1..Len(room)
  <2>1. e.n \in Numbers /\ room[i].n \in Numbers /\ Near(e.n, room[i].n)
    BY <1>3, <1>4
  <2>2. Delta(SequenceOf(e.n), SequenceOf(room[i].n)) < 0 <=> e.n < room[i].n
    BY ONLY <2>1, Older
  <2> QED BY <2>2
<1>6. /\ I \subseteq 1..Len(room)
      /\ \A i \in 1..Len(room) : ~(e.n < room[i].n) => room[i].n < e.n
  <2>1. \A a, b \in Numbers : a # b /\ ~(b < a) => a < b
    BY <1>4
  <2>2. ASSUME NEW i \in 1..Len(room), ~(e.n < room[i].n) PROVE room[i].n < e.n
    <3>1. room[i].n \in Numbers /\ room[i].n # e.n
      BY <1>3
    <3> QED BY ONLY <1>4, <2>1, <2>2, <3>1
  <2> QED BY <2>2
<1> HIDE DEF I
<1>7. CASE I = {}
  <2> DEFINE r == Append(room, e)
  <2>1. /\ r \in Seq(Packets) /\ Len(r) = Len(room) + 1 /\ r[Len(room) + 1] = e
        /\ \A i \in 1..Len(room) : r[i] = room[i]
    BY <1>2, AppendProperties
  <2> HIDE DEF r
  <2>2. \A i \in 1..Len(room) : room[i].n < e.n
    <3> TAKE i \in 1..Len(room)
    <3>1. ~(e.n < room[i].n)
      BY <1>5, <1>7
    <3> QED BY <1>4, <1>6, <3>1
  <2>3. \A i \in 1..Len(r) : i \in 1..Len(room) \/ i = Len(room) + 1
    BY <1>2, <2>1
  <2>4. \A i, j \in 1..Len(r) : i < j => r[i].n < r[j].n
    <3> SUFFICES ASSUME NEW i \in 1..Len(r), NEW j \in 1..Len(r), i < j PROVE r[i].n < r[j].n
      OBVIOUS
    <3>1. i \in 1..Len(room)
      BY <1>2, <2>1
    <3>2. CASE j \in 1..Len(room)
      BY <1>2, <2>1, <3>1, <3>2 DEF Sorted
    <3>3. CASE j = Len(room) + 1
      BY <2>1, <2>2, <3>1, <3>3
    <3> QED BY <2>3, <3>2, <3>3
  <2>5. \A i \in 1..Len(r) : r[i].n = e.n \/ \E j \in 1..Len(q) : r[i].n = q[j].n
    BY <1>2, <2>1, <2>3
  <2>6. Inserted(q, e) = r /\ Len(r) <= MaxPackets
    BY <1>1, <1>2, <1>7, <2>1 DEF r
  <2> QED BY <2>1, <2>4, <2>5, <2>6 DEF Sorted
<1>8. CASE I # {}
  <2> DEFINE k == Min(I)
             r == InsertAt(room, k, e)
  <2>1. k \in I /\ \A i \in I : k <= i
    <3>1. I \subseteq Nat
      BY <1>2, <1>6
    <3> QED BY <1>8, <3>1, Least
  <2>2. k \in 1..Len(room)
    BY <1>6, <2>1
  <2> HIDE DEF k
  <2>3. /\ r \in Seq(Packets) /\ Len(r) = Len(room) + 1
        /\ \A j \in 1..(Len(room) + 1) :
             /\ j < k => r[j] = room[j] /\ j \in 1..Len(room)
             /\ j = k => r[j] = e
             /\ j > k => r[j] = room[j - 1] /\ j - 1 \in 1..Len(room)
    BY <1>2, <2>2, InsertElements
  <2> HIDE DEF r
  <2>4. \A i \in 1..Len(room) : /\ i < k => room[i].n < e.n
                                /\ i >= k => e.n < room[i].n
    <3> TAKE i \in 1..Len(room)
    <3>1. e.n < room[k].n
      BY <1>5, <2>1, <2>2
    <3>2. i \in Int /\ k \in Int
      BY <1>2, <2>2
    <3>3. CASE i < k
      <4>1. i \notin I
        BY <2>1, <3>2, <3>3
      <4> QED BY <1>5, <1>6, <3>2, <3>3, <4>1
    <3>4. CASE i = k
      BY <3>1, <3>2, <3>4
    <3>5. CASE i > k
      <4>1. room[k].n < room[i].n
        BY <1>2, <2>2, <3>5 DEF Sorted
      <4>2. room[k].n \in Int /\ room[i].n \in Int /\ e.n \in Int
        BY <1>3, <1>4, <2>2
      <4> QED BY <3>1, <3>2, <3>5, <4>1, <4>2
    <3> QED BY <3>2, <3>3, <3>4, <3>5
  <2>5. \A i \in 1..Len(r) : i \in 1..(Len(room) + 1) /\ i \in Int
    BY <1>2, <2>3
  <2>6. ASSUME NEW i \in 1..Len(r), NEW j \in 1..Len(r), i < j PROVE r[i].n < r[j].n
    <3>1. i \in Int /\ j \in Int /\ k \in Int
      BY <1>2, <2>2, <2>5
    <3>2. CASE j < k
      <4>1. i < k
        BY <2>6, <3>1, <3>2
      <4> QED BY <1>2, <2>3, <2>5, <2>6, <3>2, <4>1 DEF Sorted
    <3>3. CASE j = k
      <4>1. i < k
        BY <2>6, <3>1, <3>3
      <4> QED BY <2>3, <2>4, <2>5, <3>3, <4>1
    <3>4. CASE j > k /\ i = k
      <4>1. r[i] = e /\ r[j] = room[j - 1] /\ j - 1 \in 1..Len(room) /\ j - 1 >= k
        BY <2>3, <2>5, <3>1, <3>4
      <4> QED BY <2>4, <4>1
    <3>5. CASE j > k /\ i < k
      <4>1. /\ r[i] = room[i] /\ i \in 1..Len(room)
            /\ r[j] = room[j - 1] /\ j - 1 \in 1..Len(room) /\ i < j - 1
        BY <2>3, <2>5, <3>1, <3>5
      <4> QED BY <1>2, <4>1 DEF Sorted
    <3>6. CASE j > k /\ i > k
      <4>1. /\ r[i] = room[i - 1] /\ i - 1 \in 1..Len(room)
            /\ r[j] = room[j - 1] /\ j - 1 \in 1..Len(room) /\ i - 1 < j - 1
        BY <2>3, <2>5, <2>6, <3>1, <3>6
      <4> QED BY <1>2, <4>1 DEF Sorted
    <3> QED BY <3>1, <3>2, <3>3, <3>4, <3>5, <3>6
  <2>7. ASSUME NEW i \in 1..Len(r)
        PROVE  r[i].n = e.n \/ \E j \in 1..Len(q) : r[i].n = q[j].n
    <3>1. i \in Int /\ k \in Int
      BY <1>2, <2>2, <2>5
    <3>2. r[i] = e \/ \E j \in 1..Len(room) : r[i] = room[j]
      <4>1. CASE i < k
        BY <2>3, <2>5, <4>1
      <4>2. CASE i = k
        BY <2>3, <2>5, <4>2
      <4>3. CASE i > k
        BY <2>3, <2>5, <4>3
      <4> QED BY <3>1, <4>1, <4>2, <4>3
    <3> QED BY <1>2, <3>2
  <2>8. Inserted(q, e) = r /\ Len(r) <= MaxPackets
    BY <1>1, <1>2, <1>8, <2>3 DEF r, k
  <2> QED BY <2>3, <2>6, <2>7, <2>8 DEF Sorted
<1> QED BY <1>7, <1>8

LEMMA RemovedInOrder ==
  ASSUME NEW q \in Seq(Packets), Sorted(q), NEW i \in 1..Len(q)
  PROVE  /\ RemoveAt(q, i) \in Seq(Packets) /\ Len(RemoveAt(q, i)) <= Len(q)
         /\ Sorted(RemoveAt(q, i))
         /\ \A j \in 1..Len(RemoveAt(q, i)) :
              \E k \in 1..Len(q) : k # i /\ RemoveAt(q, i)[j] = q[k]
<1> DEFINE r == RemoveAt(q, i)
<1>1. /\ r \in Seq(Packets) /\ Len(r) = Len(q) - 1 /\ Len(q) \in Nat
      /\ \A j \in 1..(Len(q) - 1) :
           /\ j < i => r[j] = q[j] /\ j \in 1..Len(q)
           /\ j >= i => r[j] = q[j + 1] /\ j + 1 \in 1..Len(q)
  BY RemoveElements, LenProperties
<1> HIDE DEF r
<1>2. \A j \in 1..Len(r) : j \in 1..(Len(q) - 1) /\ j \in Int
  BY <1>1
<1>3. i \in Int
  BY <1>1
<1>4. ASSUME NEW j \in 1..Len(r), NEW k \in 1..Len(r), j < k PROVE r[j].n < r[k].n
  <2>1. CASE k < i
    <3>1. j < i
      BY <1>2, <1>3, <1>4, <2>1
    <3> QED BY <1>1, <1>2, <1>4, <2>1, <3>1 DEF Sorted
  <2>2. CASE j < i /\ k >= i
    <3>1. j < k + 1
      BY <1>2, <1>4
    <3> QED BY <1>1, <1>2, <2>2, <3>1 DEF Sorted
  <2>3. CASE j >= i
    <3>1. k >= i /\ j + 1 < k + 1
      BY <1>2, <1>3, <1>4, <2>3
    <3> QED BY <1>1, <1>2, <2>3, <3>1 DEF Sorted
  <2> QED BY <1>2, <1>3, <2>1, <2>2, <2>3
<1>5. ASSUME NEW j \in 1..Len(r) PROVE \E k \in 1..Len(q) : k # i /\ r[j] = q[k]
  <2>1. CASE j < i
    <3>1. j # i
      BY <1>2, <1>3, <2>1
    <3> QED BY <1>1, <1>2, <2>1, <3>1
  <2>2. CASE j >= i
    <3>1. j + 1 # i
      BY <1>2, <1>3, <2>2
    <3> QED BY <1>1, <1>2, <2>2, <3>1
  <2> QED BY <1>2, <1>3, <2>1, <2>2
<1> QED BY <1>1, <1>4, <1>5 DEF Sorted, r
-----------------------------------------------------------------------------
(* The inductive invariant.  A packet in the buffer has arrived, so that   *)
(* none is inserted twice; packets in the buffer are near each other and   *)
(* what is expected, so that a sequence number stands for one packet.      *)

Types ==
  /\ running \in BOOLEAN /\ primed \in BOOLEAN /\ resetReq \in BOOLEAN
  /\ started \in BOOLEAN /\ haveBase \in BOOLEAN
  /\ packets \in Seq(Packets) /\ Len(packets) <= MaxPackets
  /\ expected \in 0..(Modulus - 1) /\ next \in 0..(MaxSent + 1)
  /\ pc \in {"init", "failed", "loop", "take", "play", "exited", "joined"}
  /\ unit \in 0..MaxSent
  /\ submitted \in Nat /\ missing \in Nat /\ queued \in 0..OutputLimit
  /\ base \in Int
  /\ arrived \subseteq Numbers

Buffer ==
  /\ Sorted(packets)
  /\ \A i \in 1..Len(packets) : packets[i].n \in arrived
  /\ \A i, j \in 1..Len(packets) : Near(packets[i].n, packets[j].n)
  /\ primed => /\ next # 0 /\ expected = SequenceOf(next)
               /\ \A i \in 1..Len(packets) : packets[i].n >= next /\ Near(packets[i].n, next)

(* Until a reset is asked for, what was taken is what was expected, and    *)
(* the clock tells it from the frames submitted and missing.               *)
Clock ==
  /\ pc = "init" => ~haveBase
  /\ ~resetReq =>
       /\ haveBase => primed
       /\ pc = "play" => /\ primed /\ unit \in {0, next - 1}
                         /\ haveBase => base + submitted + missing = next - 1
       /\ pc \in {"loop", "take"} /\ haveBase => base + submitted + missing = next

IInv == Types /\ Buffer /\ Clock

LEMMA PacketFacts ==
  ASSUME Types
  PROVE  /\ Len(packets) \in Nat /\ (packets # <<>> => Len(packets) # 0 /\ Head(packets) = packets[1])
         /\ \A i \in 1..Len(packets) : packets[i] \in Packets /\ packets[i].n \in 1..MaxSent
         /\ \A i \in 1..Len(packets) : packets[i].n \in Int
<1>1. packets \in Seq(Packets)
  BY DEF Types
<1>2. Len(packets) \in Nat /\ (packets # <<>> => Len(packets) # 0 /\ Head(packets) = packets[1])
  BY <1>1, LenProperties, EmptySeq, HeadTailProperties
<1>3. ASSUME NEW i \in 1..Len(packets)
      PROVE  packets[i] \in Packets /\ packets[i].n \in 1..MaxSent /\ packets[i].n \in Int
  <2>1. packets[i] \in Packets
    BY <1>1, ElementOfSeq
  <2>2. packets[i].n \in 1..MaxSent
    BY <2>1 DEF Packets, Numbers
  <2>3. \A m \in 1..MaxSent : m \in Int
    BY Sizes
  <2> QED BY <2>1, <2>2, <2>3
<1> QED BY <1>2, <1>3

(* How far a packet is from the one expected.                              *)
LEMMA FromExpected ==
  ASSUME Types, Buffer, primed, NEW n \in Numbers, InReach(n)
  PROVE  Delta(SequenceOf(n), expected) = n - next
<1>1. n \in 1..MaxSent /\ next \in 0..(MaxSent + 1) /\ next # 0 /\ expected = SequenceOf(next)
  BY DEF Types, Buffer, Numbers
<1>2. Near(n, next)
  BY DEF InReach, Compared
<1>3. n \in Int /\ next \in Int /\ - Modulus <= 2 * (n - next) /\ 2 * (n - next) < Modulus
  BY <1>1, <1>2, Sizes DEF Near
<1> QED BY <1>1, <1>3, Distance

LEMMA LateBefore ==
  ASSUME Types, Buffer, NEW n \in Numbers, primed, InReach(n)
  PROVE  Late(n) <=> n < next
<1>1. Delta(SequenceOf(n), expected) = n - next
  BY FromExpected
<1>2. n \in Int /\ next \in Int
  BY Sizes DEF Types, Numbers
<1> QED BY <1>1, <1>2 DEF Late

LEMMA ReceivedTypes ==
  ASSUME Types, NEW n \in Numbers, Receive(n)
  PROVE  /\ arrived' \subseteq Numbers /\ n \notin arrived /\ n \in arrived' /\ arrived \subseteq arrived'
         /\ UNCHANGED <<running, pc, unit, submitted, queued, started, missing, haveBase, base>>
BY DEF Receive, Types, deviceVars, clockVars

LEMMA ResetKeeps ==
  ASSUME IInv, NEW n \in Numbers, NEW red \in BOOLEAN, SubmitReset(n, red)
  PROVE  IInv'
<1> DEFINE e == [n |-> n, red |-> red]
<1>1. Types /\ Clock
  BY DEF IInv
<1>2. /\ arrived' \subseteq Numbers /\ n \in arrived'
      /\ UNCHANGED <<running, pc, unit, submitted, queued, started, missing, haveBase, base>>
  BY <1>1, ReceivedTypes DEF SubmitReset
<1>3. packets' = <<e>> /\ primed' = FALSE /\ resetReq' = TRUE /\ UNCHANGED <<expected, next>>
  BY DEF SubmitReset
<1>4. e \in Packets /\ e.n = n
  BY DEF Packets
<1> HIDE DEF e
<1>5. packets' \in Seq(Packets) /\ Len(packets') = 1 /\ \A i \in 1..Len(packets') : i = 1 /\ packets'[i] = e
  BY <1>3, <1>4
<1>6. Len(packets') <= MaxPackets
  BY <1>5, Sizes
<1>7. Types'
  BY <1>1, <1>2, <1>3, <1>5, <1>6 DEF Types
<1>8. Buffer'
  <2>1. Sorted(packets)'
    <3>1. \A i, j \in 1..Len(packets') : ~(i < j)
      BY <1>5
    <3> QED BY <3>1 DEF Sorted
  <2>2. Near(n, n)
    <3>1. n \in Int /\ 2 * (n - n) = 0
      BY Sizes DEF Numbers
    <3> QED BY <3>1, Sizes DEF Near
  <2> QED BY <1>2, <1>3, <1>4, <1>5, <2>1, <2>2 DEF Buffer
<1>9. Clock'
  BY <1>1, <1>2, <1>3 DEF Clock
<1> QED BY <1>7, <1>8, <1>9 DEF IInv

LEMMA LateKeeps ==
  ASSUME IInv, NEW n \in Numbers, SubmitLate(n)
  PROVE  IInv'
<1>1. Types /\ Buffer /\ Clock
  BY DEF IInv
<1>2. /\ arrived' \subseteq Numbers /\ arrived \subseteq arrived'
      /\ UNCHANGED <<running, pc, unit, submitted, queued, started, missing, haveBase, base>>
  BY <1>1, ReceivedTypes DEF SubmitLate
<1>3. UNCHANGED <<packets, expected, primed, resetReq, next>>
  BY DEF SubmitLate, bufferVars
<1>4. Types'
  BY <1>1, <1>2, <1>3 DEF Types
<1>5. Buffer'
  BY <1>1, <1>2, <1>3 DEF Buffer, Sorted
<1>6. Clock'
  BY <1>1, <1>2, <1>3 DEF Clock
<1> QED BY <1>4, <1>5, <1>6 DEF IInv

LEMMA InsertKeeps ==
  ASSUME IInv, NEW n \in Numbers, NEW red \in BOOLEAN, SubmitInsert(n, red)
  PROVE  IInv'
<1> DEFINE e == [n |-> n, red |-> red]
           r == Inserted(packets, e)
<1>1. Types /\ Buffer /\ Clock
  BY DEF IInv
<1>2. /\ arrived' \subseteq Numbers /\ n \in arrived' /\ arrived \subseteq arrived' /\ n \notin arrived
      /\ UNCHANGED <<running, pc, unit, submitted, queued, started, missing, haveBase, base>>
  BY <1>1, ReceivedTypes DEF SubmitInsert
<1>3. packets' = r /\ UNCHANGED <<expected, primed, resetReq, next>>
  BY DEF SubmitInsert
<1>4. e \in Packets /\ e.n = n
  BY DEF Packets
<1> HIDE DEF e
<1>5. /\ \A i \in 1..Len(packets) : packets[i].n # e.n /\ Near(e.n, packets[i].n)
      /\ primed => Near(e.n, next)
  BY <1>1, <1>2, <1>4 DEF Buffer, SubmitInsert, InReach, Compared
<1>6. /\ r \in Seq(Packets) /\ Len(r) <= MaxPackets /\ Sorted(r)
      /\ \A i \in 1..Len(r) : r[i].n = e.n \/ \E j \in 1..Len(packets) : r[i].n = packets[j].n
  BY <1>1, <1>4, <1>5, InsertedInOrder DEF Types, Buffer
<1> HIDE DEF r
<1>7. Types'
  BY <1>1, <1>2, <1>3, <1>6 DEF Types
<1>8. primed => n >= next
  <2>1. primed => ~Late(n)
    BY DEF SubmitInsert
  <2>2. n \in Int /\ next \in Int /\ InReach(n)
    BY <1>1, Sizes DEF Types, Numbers, SubmitInsert
  <2> QED BY <1>1, <2>1, <2>2, LateBefore
<1>9. Buffer'
  <2>1. \A i \in 1..Len(r) : r[i].n \in arrived'
    BY <1>1, <1>2, <1>4, <1>6 DEF Buffer
  <2>2. ASSUME primed, NEW i \in 1..Len(r) PROVE r[i].n >= next /\ Near(r[i].n, next)
    BY <1>1, <1>4, <1>5, <1>6, <1>8, <2>2 DEF Buffer
  <2>3. ASSUME NEW i \in 1..Len(r), NEW j \in 1..Len(r) PROVE Near(r[i].n, r[j].n)
    <3>1. Near(e.n, e.n)
      <4>1. n \in Int /\ 2 * (n - n) = 0
        BY Sizes DEF Numbers
      <4> QED BY <1>4, <4>1, Sizes DEF Near
    <3>2. \A k \in 1..Len(packets) : Near(packets[k].n, e.n)
      BY <1>5 DEF Near
    <3> QED BY <1>1, <1>5, <1>6, <3>1, <3>2 DEF Buffer
  <2> QED BY <1>1, <1>3, <1>6, <2>1, <2>2, <2>3 DEF Buffer
<1>10. Clock'
  BY <1>1, <1>2, <1>3 DEF Clock
<1> QED BY <1>7, <1>9, <1>10 DEF IInv

(* What a take wants is the oldest that can still be wanted, and its       *)
(* sequence number finds it and nothing else.                              *)
LEMMA TakeFacts ==
  ASSUME Types, Buffer, TakeNext
  PROVE  /\ WantedNext \in 1..MaxSent /\ Wanted = SequenceOf(WantedNext)
         /\ \A i \in 1..Len(packets) : packets[i].n >= WantedNext /\ Near(packets[i].n, WantedNext)
         /\ \A i \in 1..Len(packets) : i \in Found <=> packets[i].n = WantedNext
         /\ \A i \in 1..Len(packets) : i \in Carriers => packets[i].n = WantedNext + 1
         /\ pc = "take" /\ pc' = "play" /\ primed' = TRUE /\ packets # <<>>
         /\ next' = WantedNext + 1 /\ expected' = SequenceOf(WantedNext + 1)
         /\ UNCHANGED <<running, resetReq, submitted, queued, started, missing, haveBase, base, arrived>>
<1> DEFINE w == WantedNext
<1>1. packets # <<>>
  BY DEF TakeNext
<1>2. /\ Len(packets) \in Nat /\ Len(packets) # 0 /\ Head(packets) = packets[1]
      /\ \A i \in 1..Len(packets) : packets[i].n \in 1..MaxSent /\ packets[i].n \in Int
  BY <1>1, PacketFacts
<1>3. 1 \in 1..Len(packets)
  BY <1>2
<1>4. /\ Wanted = SequenceOf(w) /\ w \in Int /\ w # 0 /\ w \in 0..(MaxSent + 1)
      /\ \A i \in 1..Len(packets) : packets[i].n >= w /\ Near(packets[i].n, w)
  <2>1. CASE primed
    <3>1. w = next /\ Wanted = expected
      BY <2>1 DEF WantedNext, Wanted
    <3>2. next \in Int /\ next \in 0..(MaxSent + 1)
      BY Sizes DEF Types
    <3> QED BY <2>1, <3>1, <3>2 DEF Buffer
  <2>2. CASE ~primed
    <3>1. w = packets[1].n /\ Wanted = SequenceOf(w)
      BY <1>2, <2>2 DEF WantedNext, Wanted
    <3>2. \A i \in 1..Len(packets) : i = 1 \/ 1 < i
      BY <1>2
    <3>3. ASSUME NEW i \in 1..Len(packets) PROVE packets[i].n >= packets[1].n
      <4>1. i = 1 \/ packets[1].n < packets[i].n
        BY <1>3, <3>2 DEF Buffer, Sorted
      <4>2. packets[i].n \in Int /\ packets[1].n \in Int
        BY <1>2, <1>3
      <4> QED BY ONLY <4>1, <4>2
    <3>4. w \in 1..MaxSent
      BY <1>2, <1>3, <3>1
    <3>5. w \in Int /\ w # 0 /\ w \in 0..(MaxSent + 1)
      BY <3>4, Sizes
    <3>6. \A i \in 1..Len(packets) : Near(packets[i].n, packets[1].n)
      BY <1>3 DEF Buffer
    <3> QED BY <3>1, <3>3, <3>5, <3>6
  <2> QED BY <2>1, <2>2
<1> HIDE DEF w
<1>5. w \in 1..MaxSent
  <2>1. packets[1].n >= w /\ packets[1].n \in 1..MaxSent
    BY <1>2, <1>3, <1>4
  <2> QED BY <1>4, <2>1, Sizes
<1>6. ASSUME NEW i \in 1..Len(packets) PROVE i \in Found <=> packets[i].n = w
  <2>1. ASSUME SequenceOf(packets[i].n) = SequenceOf(w) PROVE packets[i].n = w
    <3> DEFINE a == packets[i].n
    <3>1. a \in 1..MaxSent /\ Near(a, w)
      BY <1>2, <1>4
    <3>2. SequenceOf(a) = SequenceOf(w)
      BY <2>1
    <3> HIDE DEF a
    <3>3. a \in Int /\ w \in Int /\ - Modulus <= 2 * (a - w) /\ 2 * (a - w) < Modulus
      BY <1>5, <3>1, Sizes DEF Near
    <3>4. a = w
      BY <3>2, <3>3, SameSequence
    <3> QED BY <3>4 DEF a
  <2> QED BY <1>4, <2>1 DEF Found, IsAt
<1>7. ASSUME NEW i \in 1..Len(packets), i \in Carriers PROVE packets[i].n = w + 1
  <2> DEFINE a == packets[i].n
  <2>1. a \in 1..MaxSent /\ a >= w /\ Near(a, w)
    BY <1>2, <1>4
  <2>2. SequenceOf(a) = SequenceOf(w + 1)
    BY <1>4, <1>7, Successor DEF Carriers, IsAt
  <2> HIDE DEF a
  <2>3. /\ a \in Int /\ w + 1 \in Int
        /\ - Modulus <= 2 * (a - (w + 1)) /\ 2 * (a - (w + 1)) < Modulus
    BY <1>5, <2>1, Sizes DEF Near
  <2>4. a = w + 1
    BY <2>2, <2>3, SameSequence
  <2> QED BY <2>4 DEF a
<1>8. next' = w + 1 /\ expected' = SequenceOf(w + 1)
  <2>1. next' = w + 1 /\ expected' = (Wanted + 1) % Modulus
    BY DEF TakeNext, w
  <2> QED BY <1>4, <2>1, Successor
<1>9. /\ pc = "take" /\ pc' = "play" /\ primed' = TRUE
      /\ UNCHANGED <<running, resetReq, submitted, queued, started, missing, haveBase, base, arrived>>
  BY DEF TakeNext, deviceVars, clockVars
<1> QED BY <1>1, <1>4, <1>5, <1>6, <1>7, <1>8, <1>9 DEF w

(* A take leaves what is newer than what it wanted.                        *)
LEMMA TakeKeeps ==
  ASSUME IInv, TakeNext, unit' \in {0, WantedNext}, packets' \in Seq(Packets),
         Len(packets') <= MaxPackets, Sorted(packets'),
         \A i \in 1..Len(packets') :
           \E j \in 1..Len(packets) : packets'[i] = packets[j] /\ packets[j].n # WantedNext
  PROVE  IInv'
<1> DEFINE w == WantedNext
<1>1. Types /\ Buffer /\ Clock
  BY DEF IInv
<1>2. /\ w \in 1..MaxSent
      /\ \A i \in 1..Len(packets) : packets[i].n >= w /\ Near(packets[i].n, w)
      /\ pc = "take" /\ pc' = "play" /\ primed' = TRUE
      /\ next' = w + 1 /\ expected' = SequenceOf(w + 1)
      /\ UNCHANGED <<running, resetReq, submitted, queued, started, missing, haveBase, base, arrived>>
  BY <1>1, TakeFacts
<1>3. unit' = 0 \/ unit' = w
  OBVIOUS
<1>4. haveBase /\ ~resetReq => w = next
  BY <1>1 DEF Clock, WantedNext
<1>5. \A i \in 1..Len(packets') :
        \E j \in 1..Len(packets) : packets'[i] = packets[j] /\ packets[j].n # w
  OBVIOUS
<1> HIDE DEF w
<1>6. /\ w \in Int /\ w + 1 \in 0..(MaxSent + 1) /\ w + 1 # 0 /\ w \in 0..MaxSent
      /\ 0 \in 0..MaxSent /\ (w + 1) - 1 = w
  BY <1>2, Sizes
<1>7. Types'
  <2>1. expected' \in 0..(Modulus - 1)
    BY <1>2, <1>6, SequenceIn
  <2> QED BY <1>1, <1>2, <1>3, <1>6, <2>1 DEF Types
<1>8. Buffer'
  <2>1. ASSUME NEW i \in 1..Len(packets')
        PROVE  /\ packets'[i].n \in arrived /\ packets'[i].n >= w + 1
               /\ Near(packets'[i].n, w + 1)
    <3>1. PICK j \in 1..Len(packets) : packets'[i] = packets[j] /\ packets[j].n # w
      BY <1>5
    <3>2. packets[j].n \in Int /\ packets[j].n >= w /\ packets[j].n # w
      BY <1>1, <1>2, <3>1, PacketFacts
    <3>3. packets[j].n >= w + 1
      BY ONLY <1>6, <3>2
    <3>4. Near(packets[j].n, w + 1)
      <4>1. \A p \in Int : p >= w + 1 /\ Near(p, w) => Near(p, w + 1)
        BY <1>6, Sizes DEF Near
      <4> QED BY <1>2, <3>2, <3>3, <4>1
    <3> QED BY <1>1, <3>1, <3>3, <3>4 DEF Buffer
  <2>2. \A i, j \in 1..Len(packets') : Near(packets'[i].n, packets'[j].n)
    BY <1>1, <1>5 DEF Buffer
  <2> QED BY <1>2, <1>6, <2>1, <2>2 DEF Buffer
<1>9. Clock'
  BY <1>1, <1>2, <1>3, <1>4, <1>6 DEF Clock
<1> QED BY <1>7, <1>8, <1>9 DEF IInv

LEMMA TakePacketKeeps ==
  ASSUME IInv, TakePacket
  PROVE  IInv'
<1>1. Types /\ Buffer /\ TakeNext
  BY DEF IInv, TakePacket
<1>2. PICK i \in Found : unit' = packets[i].n /\ packets' = RemoveAt(packets, i)
  BY DEF TakePacket
<1>3. i \in 1..Len(packets)
  BY DEF Found
<1>4. packets[i].n = WantedNext
  BY <1>1, <1>3, TakeFacts
<1>5. packets \in Seq(Packets) /\ Len(packets) <= MaxPackets /\ Sorted(packets)
  BY <1>1 DEF Types, Buffer
<1> DEFINE r == RemoveAt(packets, i)
<1>6. /\ r \in Seq(Packets) /\ Len(r) <= Len(packets) /\ Sorted(r)
      /\ \A j \in 1..Len(r) : \E k \in 1..Len(packets) : k # i /\ r[j] = packets[k]
  BY <1>3, <1>5, RemovedInOrder
<1> HIDE DEF r
<1>7. \A k \in 1..Len(packets) : k # i => packets[k].n # packets[i].n
  <2> SUFFICES ASSUME NEW k \in 1..Len(packets), k # i PROVE packets[k].n # packets[i].n
    OBVIOUS
  <2>1. Len(packets) \in Nat /\ packets[k].n \in Int /\ packets[i].n \in Int
    BY <1>1, <1>3, PacketFacts
  <2>2. k < i \/ i < k
    BY <1>3, <2>1
  <2>3. packets[k].n < packets[i].n \/ packets[i].n < packets[k].n
    BY <1>3, <1>5, <2>2 DEF Sorted
  <2> QED BY ONLY <2>1, <2>3
<1>8. Len(r) <= MaxPackets
  <2>1. Len(r) \in Nat /\ Len(packets) \in Nat /\ MaxPackets \in Nat
    BY <1>5, <1>6, LenProperties, Sizes
  <2> QED BY ONLY <1>5, <1>6, <2>1
<1>9. packets' = r
  BY <1>2 DEF r
<1> QED BY <1>1, <1>2, <1>3, <1>4, <1>6, <1>7, <1>8, <1>9, TakeKeeps

LEMMA NothingTaken ==
  ASSUME IInv, TakeNext, Found = {}, UNCHANGED packets, unit' \in {0, WantedNext}
  PROVE  IInv'
<1>1. Types /\ Buffer
  BY DEF IInv
<1>2. \A i \in 1..Len(packets) : packets[i].n # WantedNext
  BY <1>1, TakeFacts
<1>3. /\ packets' \in Seq(Packets) /\ Len(packets') <= MaxPackets /\ Sorted(packets')
      /\ \A i \in 1..Len(packets') :
           \E j \in 1..Len(packets) : packets'[i] = packets[j] /\ packets[j].n # WantedNext
  BY <1>1, <1>2 DEF Types, Buffer
<1> QED BY <1>3, TakeKeeps

LEMMA TakeRedundantKeeps ==
  ASSUME IInv, TakeRedundant
  PROVE  IInv'
<1>1. Types /\ Buffer /\ TakeNext /\ Found = {} /\ UNCHANGED packets
  BY DEF IInv, TakeRedundant
<1>2. PICK i \in Carriers : unit' = packets[i].n - 1
  BY DEF TakeRedundant
<1>3. i \in 1..Len(packets)
  BY DEF Carriers
<1>4. packets[i].n = WantedNext + 1 /\ WantedNext \in 1..MaxSent
  BY <1>1, <1>3, TakeFacts
<1>5. (WantedNext + 1) - 1 = WantedNext
  <2>1. \A m \in 1..MaxSent : (m + 1) - 1 = m
    BY Sizes
  <2> QED BY <1>4, <2>1
<1>6. unit' = WantedNext
  BY <1>2, <1>4, <1>5
<1> QED BY <1>1, <1>6, NothingTaken

(* A frame goes to the device, or the device goes without it.              *)
LEMMA OutputCounts ==
  ASSUME Types, NEW before \in Nat, Output(before)
  PROVE  /\ submitted' \in Nat /\ missing' \in Nat /\ queued' \in 0..OutputLimit
         /\ started' \in BOOLEAN
         /\ submitted' + missing' = submitted + before + 1
<1>1. submitted \in Nat /\ queued \in 0..OutputLimit /\ started \in BOOLEAN /\ OutputLimit \in Nat
  BY Sizes DEF Types
<1>2. started' \in BOOLEAN
  BY <1>1 DEF Output
<1>3. \/ /\ queued < OutputLimit /\ submitted' = submitted + 1 /\ queued' = queued + 1
         /\ missing' = before
      \/ missing' = before + 1 /\ submitted' = submitted /\ queued' = queued
  BY DEF Output
<1>4. /\ submitted + 1 \in Nat /\ before + 1 \in Nat
      /\ queued < OutputLimit => queued + 1 \in 0..OutputLimit
      /\ (submitted + 1) + before = submitted + before + 1
      /\ submitted + (before + 1) = submitted + before + 1
  BY <1>1
<1> QED BY <1>1, <1>2, <1>3, <1>4

(* The frame of what was taken is played.                                  *)
LEMMA PlayKeeps ==
  ASSUME IInv, pc = "play", pc' = "loop", NEW before \in Nat, Output(before),
         UNCHANGED <<running, bufferVars, unit, arrived>>,
         \/ before = missing /\ UNCHANGED clockVars
         \/ /\ before = 0 /\ unit # 0 /\ haveBase' = TRUE /\ base' = unit - submitted
  PROVE  IInv'
<1>1. Types /\ Buffer /\ Clock
  BY DEF IInv
<1>2. UNCHANGED <<running, packets, expected, primed, resetReq, next, unit, arrived>>
  BY DEF bufferVars
<1>3. /\ submitted' \in Nat /\ missing' \in Nat /\ queued' \in 0..OutputLimit
      /\ started' \in BOOLEAN /\ submitted' + missing' = submitted + before + 1
  BY <1>1, OutputCounts
<1>4. unit \in Int /\ submitted \in Nat /\ missing \in Nat /\ base \in Int /\ next \in Int
  BY <1>1, Sizes DEF Types
<1>5. base' \in Int /\ haveBase' \in BOOLEAN
  <2>1. base \in Int /\ haveBase \in BOOLEAN /\ unit - submitted \in Int
    BY <1>1, <1>4 DEF Types
  <2>2. \/ base' = base /\ haveBase' = haveBase
        \/ base' = unit - submitted /\ haveBase' = TRUE
    BY DEF clockVars
  <2> QED BY <2>1, <2>2, Zenon
<1>6. Types'
  BY <1>1, <1>2, <1>3, <1>5 DEF Types
<1>7. Buffer'
  BY <1>1, <1>2 DEF Buffer, Sorted
<1>8. Clock'
  <2>1. SUFFICES ASSUME ~resetReq PROVE primed /\ (haveBase' => base' + submitted' + missing' = next)
    BY <1>2, <1>6 DEF Clock
  <2>2. primed /\ unit \in {0, next - 1} /\ (haveBase => base + submitted + missing = next - 1)
    BY <1>1, <2>1 DEF Clock
  <2>3. base' + submitted' + missing' = base' + (submitted + before + 1)
    <3>1. \A x \in Int, y, z \in Nat : x + y + z = x + (y + z)
      OBVIOUS
    <3> QED BY <1>3, <1>5, <3>1
  <2>4. CASE before = missing /\ UNCHANGED clockVars
    <3>1. base' = base /\ haveBase' = haveBase
      BY <2>4 DEF clockVars
    <3>2. haveBase => base + (submitted + missing + 1) = next
      BY <1>4, <2>2
    <3> QED BY <2>2, <2>3, <2>4, <3>1, <3>2
  <2>5. CASE before = 0 /\ unit # 0 /\ base' = unit - submitted
    <3>1. unit = next - 1
      BY <2>2, <2>5
    <3>2. (unit - submitted) + (submitted + 0 + 1) = next
      BY <1>4, <3>1
    <3> QED BY <2>2, <2>3, <2>5, <3>2
  <2> QED BY <2>4, <2>5
<1> QED BY <1>6, <1>7, <1>8 DEF IInv

LEMMA RunKeeps ==
  ASSUME IInv, Run
  PROVE  IInv'
<1>1. Types /\ Buffer /\ Clock
  BY DEF IInv
<1>2. CASE InitializeAudio
  <2>1. /\ pc = "init" /\ pc' \in {"loop", "failed"} /\ running' \in {running, FALSE}
        /\ UNCHANGED <<packets, expected, primed, resetReq, next, unit, submitted, queued,
                       started, missing, haveBase, base, arrived>>
    BY <1>2 DEF InitializeAudio, bufferVars, deviceVars, clockVars
  <2>2. Types'
    BY <1>1, <2>1 DEF Types
  <2>3. Buffer'
    BY <1>1, <2>1 DEF Buffer, Sorted
  <2>4. Clock'
    BY <1>1, <2>1 DEF Clock
  <2> QED BY <2>2, <2>3, <2>4 DEF IInv
<1>3. CASE Loop
  <2>1. /\ pc = "loop" /\ pc' = "take" /\ resetReq' = FALSE
        /\ haveBase' = IF resetReq THEN FALSE ELSE haveBase
        /\ UNCHANGED <<running, packets, expected, primed, next, unit, submitted, queued,
                       started, missing, base, arrived>>
    BY <1>3 DEF Loop, ResetMediaEpoch, deviceVars
  <2>2. Types'
    BY <1>1, <2>1 DEF Types
  <2>3. Buffer'
    BY <1>1, <2>1 DEF Buffer, Sorted
  <2>4. Clock'
    BY <1>1, <2>1 DEF Clock
  <2> QED BY <2>2, <2>3, <2>4 DEF IInv
<1>4. CASE Exit \/ TakeNothing
  <2>1. /\ \/ pc = "loop" /\ pc' = "exited"
           \/ pc = "take" /\ pc' = "loop"
        /\ UNCHANGED <<running, packets, expected, primed, resetReq, next, unit, submitted, queued,
                       started, missing, haveBase, base, arrived>>
    BY <1>4 DEF Exit, TakeNothing, bufferVars, deviceVars, clockVars
  <2>2. Types'
    BY <1>1, <2>1 DEF Types
  <2>3. Buffer'
    BY <1>1, <2>1 DEF Buffer, Sorted
  <2>4. Clock'
    BY <1>1, <2>1 DEF Clock
  <2> QED BY <2>2, <2>3, <2>4 DEF IInv
<1>5. CASE TakeGap
  BY <1>5, NothingTaken DEF TakeGap
<1>6. CASE Conceal \/ Decode
  <2>1. missing \in Nat
    BY <1>1 DEF Types
  <2> QED BY <1>6, <2>1, PlayKeeps DEF Conceal, Decode
<1>7. CASE DecodeFirst
  BY <1>7, PlayKeeps DEF DecodeFirst, AudioTimelineBase
<1> QED
  BY <1>2, <1>3, <1>4, <1>5, <1>6, <1>7, TakePacketKeeps, TakeRedundantKeeps DEF Run

LEMMA InitKeeps == Init => IInv
<1> SUFFICES ASSUME Init PROVE IInv
  OBVIOUS
<1>1. packets = <<>> /\ <<>> \in Seq(Packets) /\ Len(<<>>) = 0
  BY DEF Init
<1>2. /\ 0 \in 0..(Modulus - 1) /\ 0 \in 0..(MaxSent + 1) /\ 0 \in 0..MaxSent /\ 0 \in 0..OutputLimit
      /\ 0 <= MaxPackets
  BY Sizes
<1>3. Types
  <2>1. packets \in Seq(Packets) /\ Len(packets) <= MaxPackets
    BY <1>1, <1>2
  <2>2. /\ running \in BOOLEAN /\ primed \in BOOLEAN /\ resetReq \in BOOLEAN
        /\ started \in BOOLEAN /\ haveBase \in BOOLEAN
        /\ pc \in {"init", "failed", "loop", "take", "play", "exited", "joined"}
        /\ arrived \subseteq Numbers
    BY DEF Init
  <2>3. /\ expected \in 0..(Modulus - 1) /\ next \in 0..(MaxSent + 1) /\ unit \in 0..MaxSent
        /\ submitted \in Nat /\ missing \in Nat /\ queued \in 0..OutputLimit /\ base \in Int
    BY <1>2 DEF Init
  <2> QED BY <2>1, <2>2, <2>3 DEF Types
<1>4. Buffer
  <2>1. \A i \in 1..Len(packets) : FALSE
    BY <1>1
  <2> QED BY <2>1 DEF Init, Buffer, Sorted
<1>5. Clock
  BY DEF Init, Clock
<1> QED BY <1>3, <1>4, <1>5 DEF IInv

LEMMA StepKeeps ==
  ASSUME IInv, [Next]_vars
  PROVE  IInv'
<1>1. Types /\ Buffer /\ Clock
  BY DEF IInv
<1>2. CASE Submit
  <2>1. PICK n \in Numbers : \/ SubmitLate(n)
                             \/ \E red \in BOOLEAN : SubmitReset(n, red) \/ SubmitInsert(n, red)
    BY <1>2 DEF Submit
  <2> QED BY <2>1, LateKeeps, ResetKeeps, InsertKeeps
<1>3. CASE Run
  BY <1>3, RunKeeps
<1>4. CASE PlayBuffer
  <2>1. /\ queued > 0 /\ queued' = queued - 1
        /\ UNCHANGED <<running, packets, expected, primed, resetReq, next, pc, unit, submitted,
                       started, missing, haveBase, base, arrived>>
    BY <1>4 DEF PlayBuffer, bufferVars, clockVars
  <2>2. queued' \in 0..OutputLimit
    <3>1. queued \in 0..OutputLimit /\ OutputLimit \in Nat
      BY <1>1, Sizes DEF Types
    <3>2. queued - 1 \in 0..OutputLimit
      BY <2>1, <3>1
    <3> QED BY <2>1, <3>2
  <2>3. Types'
    BY <1>1, <2>1, <2>2 DEF Types
  <2>4. Buffer'
    BY <1>1, <2>1 DEF Buffer, Sorted
  <2>5. Clock'
    BY <1>1, <2>1 DEF Clock
  <2> QED BY <2>3, <2>4, <2>5 DEF IInv
<1>5. CASE Stop \/ Ended \/ UNCHANGED vars
  <2>1. /\ running' \in {running, FALSE}
        /\ UNCHANGED <<packets, expected, primed, resetReq, next, pc, unit, submitted, queued,
                       started, missing, haveBase, base, arrived>>
    BY <1>5 DEF Stop, Ended, vars, bufferVars, deviceVars, clockVars
  <2>2. Types'
    BY <1>1, <2>1 DEF Types
  <2>3. Buffer'
    BY <1>1, <2>1 DEF Buffer, Sorted
  <2>4. Clock'
    BY <1>1, <2>1 DEF Clock
  <2> QED BY <2>2, <2>3, <2>4 DEF IInv
<1>6. CASE Join
  <2>1. /\ packets' = <<>> /\ pc = "exited" /\ pc' = "joined"
        /\ UNCHANGED <<running, expected, primed, resetReq, next, unit, submitted, queued,
                       started, missing, haveBase, base, arrived>>
    BY <1>6 DEF Join, deviceVars, clockVars
  <2>2. packets' \in Seq(Packets) /\ Len(packets') = 0 /\ Len(packets') <= MaxPackets
    BY <2>1, Sizes
  <2>3. \A i \in 1..Len(packets') : FALSE
    BY <2>2
  <2>4. Types'
    BY <1>1, <2>1, <2>2 DEF Types
  <2>5. Buffer'
    BY <1>1, <2>1, <2>3 DEF Buffer, Sorted
  <2>6. Clock'
    BY <1>1, <2>1 DEF Clock
  <2> QED BY <2>4, <2>5, <2>6 DEF IInv
<1> QED
  BY <1>2, <1>3, <1>4, <1>5, <1>6 DEF Next

THEOREM Invariance == Spec => []IInv
<1>1. IInv /\ [Next]_vars => IInv'
  BY StepKeeps
<1> QED
  BY InitKeeps, <1>1, PTL DEF Spec

(* The buffer is in the order of the stream and holds nothing that is      *)
(* expected no longer, wherever the sequence numbers wrap around.          *)
THEOREM Ordered == Spec => []BufferOrdered
<1>1. IInv => BufferOrdered
  <2> SUFFICES ASSUME IInv PROVE BufferOrdered
    OBVIOUS
  <2>1. TypeOK
    BY DEF IInv, Types, TypeOK, Packets
  <2> QED BY <2>1 DEF IInv, Buffer, Sorted, BufferOrdered
<1> QED
  BY Invariance, <1>1, PTL

(* What is refused as late is before the packet expected in the stream,    *)
(* although only the wrapped sequence numbers are compared.                *)
THEOREM LateDropped == Spec => LateIsPast
<1>1. IInv /\ [Next]_vars => [\A n \in Numbers : SubmitLate(n) => n < next]_vars
  <2> SUFFICES ASSUME IInv, NEW n \in Numbers, SubmitLate(n) PROVE n < next
    OBVIOUS
  <2>1. Types /\ Buffer /\ primed /\ Late(n) /\ InReach(n)
    BY DEF IInv, SubmitLate
  <2> QED BY <2>1, LateBefore
<1> QED
  BY Invariance, <1>1, PTL DEF Spec, LateIsPast

(* The clock tells the timestamp of the next frame, behind by the frames   *)
(* the device did not get.                                                 *)
THEOREM ClockTells == Spec => []ClockExact
<1>1. IInv => ClockExact
  BY DEF IInv, Clock, ClockExact
<1> QED
  BY Invariance, <1>1, PTL
============================================================================
