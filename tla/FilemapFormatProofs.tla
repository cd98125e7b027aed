------------------------- MODULE FilemapFormatProofs -------------------------
(***************************************************************************)
(* Proofs about FilemapFormat, for every length of names, every set of     *)
(* digits, and every file that may be there at first, damaged or not: what *)
(* recovery prints, what a run reads again, and that nested names are      *)
(* found.  A file is described line by line: a line is what ends in a NUL  *)
(* and has no other.                                                       *)
(***************************************************************************)
EXTENDS FilemapFormat, SequenceTheorems, FiniteSetTheorems, TLAPS

\* A character is a string; the provers do not know a literal for one.
Char == STRING \cup {Nul, Space} \cup Separators

Text == Seq(Char)

-----------------------------------------------------------------------------
(* Numbers. *)

LEMMA LeastNumber ==
  ASSUME NEW T \in SUBSET Nat, T # {}
  PROVE  \E n \in T : \A m \in T : n <= m
<1>1. PICK n \in T : \A m \in T : ~(<<m, n>> \in OpToRel(<, Nat))
  BY NatLessThanWellFounded, WFMin
<1>2. \A m \in T : ~(m < n)
  BY <1>1 DEF OpToRel
<1> QED
  BY <1>2

-----------------------------------------------------------------------------
(* FlattenSeq *)

\* f[i] is the first i elements of ss, joined.
Joins(f, n, ss) == f = [i \in 1..n |-> IF i = 1 THEN ss[i] ELSE f[i - 1] \o ss[i]]

LEMMA JoinsNext ==
  ASSUME NEW ss, NEW n \in Nat, n > 0, NEW g, Joins(g, n - 1, ss)
  PROVE  \E f : Joins(f, n, ss)
<1> DEFINE v == IF n = 1 THEN ss[n] ELSE g[n - 1] \o ss[n]
           f == [i \in 1..n |-> IF i = n THEN v ELSE g[i]]
<1>1. \A i \in 1..(n - 1) : g[i] = IF i = 1 THEN ss[i] ELSE g[i - 1] \o ss[i]
  BY DEF Joins
<1>2. \A i \in 1..n : f[i] = IF i = n THEN v ELSE g[i]
  OBVIOUS
<1>3. ASSUME NEW i \in 1..n PROVE f[i] = IF i = 1 THEN ss[i] ELSE f[i - 1] \o ss[i]
  <2>1. CASE i = n
    <3>1. f[i] = v
      BY <1>2, <2>1
    <3>2. CASE n = 1
      BY <2>1, <3>1, <3>2
    <3>3. CASE n > 1
      <4>1. n - 1 \in 1..n /\ n - 1 # n
        BY <3>3
      <4>2. f[n - 1] = g[n - 1]
        BY <1>2, <4>1
      <4> HIDE DEF f
      <4> QED
        BY <2>1, <3>1, <3>3, <4>2
    <3> QED
      BY <3>2, <3>3
  <2>2. CASE i < n
    <3>1. f[i] = g[i] /\ i \in 1..(n - 1)
      BY <1>2, <2>2
    <3>2. i > 1 => f[i - 1] = g[i - 1]
      <4>1. i > 1 => i - 1 \in 1..n /\ i - 1 # n
        BY <2>2
      <4> QED
        BY <1>2, <4>1
    <3>3. g[i] = IF i = 1 THEN ss[i] ELSE g[i - 1] \o ss[i]
      BY <1>1, <3>1
    <3> HIDE DEF f
    <3> QED
      BY <3>1, <3>2, <3>3
  <2> QED
    BY <2>1, <2>2
<1>4. f = [i \in 1..n |-> IF i = 1 THEN ss[i] ELSE f[i - 1] \o ss[i]]
  <2>1. f = [i \in 1..n |-> f[i]]
    OBVIOUS
  <2> HIDE DEF f
  <2> QED
    BY <1>3, <2>1, Zenon
<1> QED
  BY <1>4 DEF Joins

LEMMA JoinsExist == ASSUME NEW ss, NEW n \in Nat PROVE \E f : Joins(f, n, ss)
<1> DEFINE T == {m \in Nat : ~\E f : Joins(f, m, ss)}
<1> SUFFICES ASSUME n \in T PROVE FALSE
  OBVIOUS
<1>1. PICK m \in T : \A k \in T : m <= k
  <2>1. T \in SUBSET Nat /\ T # {}
    OBVIOUS
  <2> HIDE DEF T
  <2> QED
    BY <2>1, LeastNumber
<1>2. m \in Nat /\ ~\E f : Joins(f, m, ss)
  OBVIOUS
<1>3. CASE m = 0
  <2>1. \A f : [i \in 1..0 |-> IF i = 1 THEN ss[i] ELSE f[i - 1] \o ss[i]] = <<>>
    OBVIOUS
  <2>2. Joins(<<>>, 0, ss)
    BY <2>1, Zenon DEF Joins
  <2> QED
    BY <1>2, <1>3, <2>2
<1>4. CASE m > 0
  <2>1. m - 1 \in Nat /\ ~(m <= m - 1)
    BY <1>2, <1>4
  <2>2. m - 1 \notin T
    BY <1>1, <2>1
  <2>3. PICK g : Joins(g, m - 1, ss)
    BY <2>1, <2>2
  <2> QED
    BY <1>2, <1>4, <2>3, JoinsNext
<1> QED
  BY <1>2, <1>3, <1>4

LEMMA FlattenJoins ==
  ASSUME NEW ss, Len(ss) \in Nat, Len(ss) # 0
  PROVE  \E f : Joins(f, Len(ss), ss) /\ FlattenSeq(ss) = f[Len(ss)]
<1> DEFINE f == CHOOSE f : f = [i \in 1..Len(ss) |-> IF i = 1 THEN ss[i] ELSE f[i - 1] \o ss[i]]
<1>1. \E g : g = [i \in 1..Len(ss) |-> IF i = 1 THEN ss[i] ELSE g[i - 1] \o ss[i]]
  BY JoinsExist DEF Joins
<1>2. f = [i \in 1..Len(ss) |-> IF i = 1 THEN ss[i] ELSE f[i - 1] \o ss[i]]
  BY <1>1, Zenon
<1>3. FlattenSeq(ss) = f[Len(ss)]
  BY Zenon DEF FlattenSeq
<1> QED
  BY <1>2, <1>3, Zenon DEF Joins

JoinStep(f, i, ss) == /\ i = 1 => f[i] = ss[i]
                      /\ i > 1 => f[i] = f[i - 1] \o ss[i]

LEMMA JoinsFact ==
  ASSUME NEW ss, NEW n \in Nat, NEW f, Joins(f, n, ss), NEW i \in 1..n
  PROVE  JoinStep(f, i, ss)
<1>1. f[i] = IF i = 1 THEN ss[i] ELSE f[i - 1] \o ss[i]
  BY Zenon DEF Joins
<1>2. i > 1 => i # 1
  OBVIOUS
<1> QED
  BY <1>1, <1>2 DEF JoinStep

LEMMA JoinsType ==
  ASSUME NEW ss \in Seq(Text), NEW n \in 0..Len(ss), NEW f, Joins(f, n, ss)
  PROVE  \A i \in 1..n : f[i] \in Text
<1> DEFINE T == {i \in Nat : i \in 1..n /\ f[i] \notin Text}
<1> SUFFICES ASSUME T # {} PROVE FALSE
  OBVIOUS
<1>1. PICK m \in T : \A k \in T : m <= k
  <2>1. T \in SUBSET Nat
    OBVIOUS
  <2> HIDE DEF T
  <2> QED
    BY <2>1, LeastNumber
<1>2. m \in 1..n /\ f[m] \notin Text /\ n \in Nat
  OBVIOUS
<1>3. ss[m] \in Text
  <2>1. m \in 1..Len(ss)
    BY <1>2
  <2> QED
    BY <2>1, ElementOfSeq
<1>4. JoinStep(f, m, ss)
  BY <1>2, JoinsFact
<1>5. m > 1 => m - 1 \in 1..n
  BY <1>2
<1>6. ASSUME m > 1 PROVE FALSE
  <2>1. m - 1 \in Nat /\ ~(m <= m - 1)
    BY <1>2, <1>6
  <2>2. m - 1 \notin T
    BY <1>1, <2>1
  <2>3. f[m - 1] \in Text
    BY <1>5, <1>6, <2>1, <2>2
  <2>4. f[m - 1] \o ss[m] \in Text
    BY <1>3, <2>3, ConcatProperties DEF Text
  <2>5. f[m] = f[m - 1] \o ss[m]
    BY <1>4, <1>6 DEF JoinStep
  <2> QED
    BY <1>2, <2>4, <2>5
<1>7. m = 1
  BY <1>2, <1>6
<1>8. f[m] = ss[m]
  BY <1>4, <1>7 DEF JoinStep
<1> QED
  BY <1>2, <1>3, <1>8

Agree(ss, tt, k) == \A i \in 1..k : ss[i] = tt[i]

\* The first elements alone decide what they are joined to.
LEMMA JoinsSame ==
  ASSUME NEW ss, NEW tt, NEW k \in Nat, NEW m \in Nat, k <= m, Agree(ss, tt, k),
         NEW f, Joins(f, k, ss), NEW g, Joins(g, m, tt)
  PROVE  Agree(f, g, k)
<1> DEFINE T == {i \in Nat : i \in 1..k /\ f[i] # g[i]}
<1> SUFFICES ASSUME T # {} PROVE FALSE
  BY DEF Agree
<1>1. PICK l \in T : \A j \in T : l <= j
  <2>1. T \in SUBSET Nat
    OBVIOUS
  <2> HIDE DEF T
  <2> QED
    BY <2>1, LeastNumber
<1>2. l \in 1..k /\ f[l] # g[l] /\ l \in 1..m
  OBVIOUS
<1>3. JoinStep(f, l, ss)
  BY <1>2, JoinsFact
<1>4. JoinStep(g, l, tt)
  BY <1>2, JoinsFact
<1>5. ss[l] = tt[l]
  BY <1>2 DEF Agree
<1>6. l > 1 => f[l - 1] = g[l - 1]
  <2> SUFFICES ASSUME l > 1 PROVE f[l - 1] = g[l - 1]
    OBVIOUS
  <2>1. l - 1 \in Nat /\ l - 1 \in 1..k /\ ~(l <= l - 1)
    BY <1>2
  <2>2. l - 1 \notin T
    BY <1>1, <2>1
  <2> QED
    BY <2>1, <2>2
<1>7. l = 1 \/ l > 1
  BY <1>2
<1>8. l > 1 => f[l] = f[l - 1] \o ss[l] /\ g[l] = g[l - 1] \o tt[l]
  BY <1>3, <1>4 DEF JoinStep
<1>9. l = 1 => f[l] = ss[l] /\ g[l] = tt[l]
  BY <1>3, <1>4 DEF JoinStep
<1> QED
  BY <1>2, <1>5, <1>6, <1>7, <1>8, <1>9, Zenon

\* FlattenSeq of one element more.
LEMMA FlattenAppend ==
  ASSUME NEW ss \in Seq(Text), NEW x \in Text
  PROVE  /\ FlattenSeq(ss) \in Text
         /\ FlattenSeq(Append(ss, x)) = FlattenSeq(ss) \o x
<1>1. PICK tt : tt = Append(ss, x)
  OBVIOUS
<1>2. PICK n \in Nat : n = Len(ss)
  OBVIOUS
<1>3. /\ tt \in Seq(Text) /\ Len(tt) = n + 1 /\ tt[n + 1] = x
      /\ \A i \in 1..n : tt[i] = ss[i]
  BY <1>1, <1>2, AppendProperties
<1>4. PICK g : Joins(g, n + 1, tt) /\ FlattenSeq(tt) = g[n + 1]
  <2>1. Len(tt) \in Nat /\ Len(tt) # 0
    BY <1>3
  <2> QED
    BY <1>3, <2>1, FlattenJoins
<1>5. CASE n = 0
  <2>1. ss = <<>> /\ FlattenSeq(ss) = ss
    <3>1. ss = <<>>
      BY <1>2, <1>5, EmptySeq
    <3>2. FlattenSeq(ss) = ss
      BY <1>2, <1>5 DEF FlattenSeq
    <3> QED
      BY <3>1, <3>2
  <2>2. g[n + 1] = x
    <3>1. n + 1 \in 1..(n + 1) /\ n + 1 = 1 /\ n + 1 \in Nat
      BY <1>5
    <3>2. JoinStep(g, n + 1, tt)
      BY <1>4, <3>1, JoinsFact
    <3> QED
      BY <1>3, <3>1, <3>2 DEF JoinStep
  <2>3. <<>> \o x = x /\ <<>> \in Text
    BY ConcatEmptySeq, EmptySeq DEF Text
  <2> QED
    BY <1>1, <1>4, <2>1, <2>2, <2>3
<1>6. CASE n > 0
  <2>1. PICK f : Joins(f, n, ss) /\ FlattenSeq(ss) = f[n]
    BY <1>2, <1>6, FlattenJoins
  <2>2. n \in 1..n /\ n + 1 \in 1..(n + 1) /\ n + 1 > 1 /\ (n + 1) - 1 = n /\ n + 1 \in Nat
        /\ n \in 0..Len(ss)
    BY <1>2, <1>6
  <2>3. f[n] \in Text
    BY <2>1, <2>2, JoinsType
  <2>4. g[n + 1] = g[n] \o x
    <3>1. JoinStep(g, n + 1, tt)
      BY <1>4, <2>2, JoinsFact
    <3> QED
      BY <1>3, <2>2, <3>1 DEF JoinStep
  <2>5. g[n] = f[n]
    <3>1. n <= n + 1 /\ Agree(ss, tt, n)
      BY <1>3 DEF Agree
    <3>2. Agree(f, g, n)
      BY <1>4, <2>1, <2>2, <3>1, JoinsSame
    <3> QED
      BY <2>2, <3>2 DEF Agree
  <2> QED
    BY <1>1, <1>4, <2>1, <2>3, <2>4, <2>5
<1> QED
  BY <1>5, <1>6

LEMMA FlattenEmpty == FlattenSeq(<<>>) = <<>>
BY DEF FlattenSeq

\* FlattenSeq of sequences that differ in a last element one of them has.
LEMMA FlattenNext ==
  ASSUME NEW n \in Nat, NEW ss \in Seq(Text), NEW tt \in Seq(Text), Len(ss) = n, Len(tt) = n + 1,
         Agree(ss, tt, n)
  PROVE  /\ FlattenSeq(ss) \in Text
         /\ FlattenSeq(tt) = FlattenSeq(ss) \o tt[n + 1]
<1>1. PICK x : x = tt[n + 1]
  OBVIOUS
<1>2. x \in Text
  <2>1. n + 1 \in 1..Len(tt)
    OBVIOUS
  <2> QED
    BY <1>1, <2>1, ElementOfSeq
<1>3. PICK uu : uu = Append(ss, x)
  OBVIOUS
<1>4. uu \in Seq(Text) /\ Len(uu) = n + 1 /\ (\A i \in 1..n : uu[i] = ss[i]) /\ uu[n + 1] = x
  BY <1>2, <1>3, AppendProperties
<1>5. \A i \in 1..(n + 1) : uu[i] = tt[i]
  <2>1. \A i \in 1..n : uu[i] = tt[i]
    BY <1>4 DEF Agree
  <2>2. \A i \in 1..(n + 1) : i \in 1..n \/ i = n + 1
    OBVIOUS
  <2> QED
    BY <1>1, <1>4, <2>1, <2>2
<1>6. uu = tt
  BY <1>4, <1>5, SeqEqual
<1> QED
  BY <1>1, <1>2, <1>3, <1>6, FlattenAppend

-----------------------------------------------------------------------------
(* Parts of texts. *)

LEMMA Assoc ==
  ASSUME NEW s \in Text, NEW t \in Text, NEW u \in Text
  PROVE  (s \o t) \o u = s \o (t \o u)
BY ConcatAssociative DEF Text

LEMMA Concat ==
  ASSUME NEW s \in Text, NEW t \in Text
  PROVE  /\ s \o t \in Text /\ Len(s) \in Nat /\ Len(t) \in Nat
         /\ Len(s \o t) = Len(s) + Len(t)
         /\ \A i \in 1..Len(s) : (s \o t)[i] = s[i]
         /\ \A i \in 1..Len(t) : (s \o t)[Len(s) + i] = t[i]
<1>1. PICK u : u = s \o t
  OBVIOUS
<1>2. PICK m \in Nat, n \in Nat : m = Len(s) /\ n = Len(t)
  BY DEF Text
<1>3. /\ u \in Text /\ Len(u) = m + n
      /\ \A i \in 1..(m + n) : u[i] = IF i <= m THEN s[i] ELSE t[i - m]
  BY <1>1, <1>2, ConcatProperties DEF Text
<1>4. \A i \in 1..m : i \in 1..(m + n) /\ i <= m
  OBVIOUS
<1>5. \A i \in 1..n : m + i \in 1..(m + n) /\ ~(m + i <= m) /\ (m + i) - m = i
  OBVIOUS
<1>6. \A i \in 1..m : u[i] = s[i]
  BY <1>3, <1>4
<1>7. \A i \in 1..n : u[m + i] = t[i]
  BY <1>3, <1>5
<1> QED
  BY <1>1, <1>2, <1>3, <1>6, <1>7

\* The part of s after its first a elements, up to the first b.
LEMMA Slice ==
  ASSUME NEW s \in Text, NEW a \in Nat, NEW b \in Nat, a <= b, b <= Len(s)
  PROVE  /\ SubSeq(s, a + 1, b) \in Text /\ Len(SubSeq(s, a + 1, b)) = b - a
         /\ \A j \in 1..(b - a) : SubSeq(s, a + 1, b)[j] = s[a + j]
<1>1. \A j \in (a + 1)..b : s[j] \in Char
  <2>1. \A j \in (a + 1)..b : j \in 1..Len(s)
    OBVIOUS
  <2> QED
    BY <2>1 DEF Text
<1> DEFINE t == SubSeq(s, a + 1, b)
<1>2. /\ t \in Text
      /\ Len(t) = IF a + 1 <= b THEN b - (a + 1) + 1 ELSE 0
      /\ \A j \in 1..(b - (a + 1) + 1) : t[j] = s[(a + 1) + j - 1]
  BY <1>1, SubSeqProperties DEF Text
<1> HIDE DEF t
<1>3. b - (a + 1) + 1 = b - a /\ \A j \in 1..(b - a) : (a + 1) + j - 1 = a + j
  OBVIOUS
<1>4. Len(t) = b - a
  BY <1>2
<1> QED
  BY <1>2, <1>3, <1>4 DEF t

\* The first b elements of s.
LEMMA Prefix ==
  ASSUME NEW s \in Text, NEW b \in Nat, b <= Len(s)
  PROVE  /\ SubSeq(s, 1, b) \in Text /\ Len(SubSeq(s, 1, b)) = b
         /\ \A j \in 1..b : SubSeq(s, 1, b)[j] = s[j]
<1>1. PICK t : t = SubSeq(s, 1, b)
  OBVIOUS
<1>2. 0 \in Nat /\ 0 + 1 = 1 /\ b - 0 = b /\ 0 <= b /\ \A j \in 1..b : 0 + j = j
  OBVIOUS
<1>3. t \in Text /\ Len(t) = b - 0 /\ \A j \in 1..(b - 0) : t[j] = s[0 + j]
  BY <1>1, <1>2, Slice
<1> QED
  BY <1>1, <1>2, <1>3

\* Parts of two texts that have the same elements.
LEMMA SamePart ==
  ASSUME NEW s \in Text, NEW t \in Text, NEW a \in Nat, NEW b \in Nat, a <= b,
         b <= Len(s), b <= Len(t), \A j \in (a + 1)..b : s[j] = t[j]
  PROVE  SubSeq(s, a + 1, b) = SubSeq(t, a + 1, b)
<1>1. PICK x, y : x = SubSeq(s, a + 1, b) /\ y = SubSeq(t, a + 1, b)
  OBVIOUS
<1>2. /\ x \in Text /\ Len(x) = b - a /\ \A j \in 1..(b - a) : x[j] = s[a + j]
      /\ y \in Text /\ Len(y) = b - a /\ \A j \in 1..(b - a) : y[j] = t[a + j]
  BY <1>1, Slice
<1>3. \A j \in 1..(b - a) : a + j \in (a + 1)..b
  OBVIOUS
<1>4. \A j \in 1..Len(x) : x[j] = y[j]
  BY <1>2, <1>3
<1>5. x = y
  BY <1>2, <1>4, SeqEqual DEF Text
<1> QED
  BY <1>1, <1>5

\* One character more.
LEMMA Longer ==
  ASSUME NEW s \in Text, NEW n \in Nat, n < Len(s)
  PROVE  SubSeq(s, 1, n + 1) = Append(SubSeq(s, 1, n), s[n + 1])
<1>1. PICK t, u, v : t = SubSeq(s, 1, n) /\ u = SubSeq(s, 1, n + 1) /\ v = Append(t, s[n + 1])
  OBVIOUS
<1>2. Len(s) \in Nat
  BY DEF Text
<1>3. n + 1 \in Nat /\ n <= Len(s) /\ n + 1 <= Len(s) /\ n + 1 \in 1..Len(s)
  BY <1>2
<1>4. s[n + 1] \in Char
  BY <1>3, ElementOfSeq DEF Text
<1>5. /\ t \in Text /\ Len(t) = n /\ \A j \in 1..n : t[j] = s[j]
      /\ u \in Text /\ Len(u) = n + 1 /\ \A j \in 1..(n + 1) : u[j] = s[j]
  BY <1>1, <1>3, Prefix
<1>6. v \in Text /\ Len(v) = n + 1 /\ (\A j \in 1..n : v[j] = t[j]) /\ v[n + 1] = s[n + 1]
  BY <1>1, <1>4, <1>5, AppendProperties DEF Text
<1>7. \A j \in 1..(n + 1) : j \in 1..n \/ j = n + 1
  OBVIOUS
<1>8. \A j \in 1..(n + 1) : u[j] = v[j]
  BY <1>5, <1>6, <1>7
<1>9. u = v
  BY <1>5, <1>6, <1>8, SeqEqual DEF Text
<1> QED
  BY <1>1, <1>9

-----------------------------------------------------------------------------
(* Records *)

Records == [dirsep : Char, cipher : Text, plain : Text]

\* The bytes of a record, one by one.
Spelled(s, r) ==
  LET c == Len(r.cipher)
      p == Len(r.plain)
  IN  /\ s \in Text /\ Len(s) = c + p + 3 /\ s[1] = r.dirsep
      /\ \A i \in 1..c : s[1 + i] = r.cipher[i]
      /\ s[c + 2] = Space
      /\ \A i \in 1..p : s[c + 2 + i] = r.plain[i]
      /\ s[c + p + 3] = Nul

LEMMA RecordSizes ==
  ASSUME NEW r \in Records
  PROVE  Len(r.cipher) \in Nat /\ Len(r.plain) \in Nat
BY DEF Records, Text

\* s, one more character, and t.
Between(x, s, ch, t) ==
  /\ x \in Text
  /\ Len(x) = Len(s) + 1 + Len(t)
  /\ \A i \in 1..Len(s) : x[i] = s[i]
  /\ x[Len(s) + 1] = ch
  /\ \A i \in 1..Len(t) : x[Len(s) + 1 + i] = t[i]

LEMMA Around ==
  ASSUME NEW s \in Text, NEW ch \in Char, NEW t \in Text
  PROVE  Between(s \o <<ch>> \o t, s, ch, t)
<1>1. PICK u, v, w : u = <<ch>> /\ v = s \o u /\ w = v \o t
  OBVIOUS
<1>2. u \in Text /\ Len(u) = 1 /\ u[1] = ch
  BY <1>1 DEF Text
<1>3. PICK m \in Nat, n \in Nat : m = Len(s) /\ n = Len(t)
  BY DEF Text
<1>4. /\ v \in Text /\ Len(v) = m + 1
      /\ \A i \in 1..(m + 1) : v[i] = IF i <= m THEN s[i] ELSE u[i - m]
  BY <1>1, <1>2, <1>3, ConcatProperties DEF Text
<1>5. /\ w \in Text /\ Len(w) = m + 1 + n
      /\ \A i \in 1..(m + 1 + n) : w[i] = IF i <= m + 1 THEN v[i] ELSE t[i - (m + 1)]
  BY <1>1, <1>3, <1>4, ConcatProperties DEF Text
<1>6. \A i \in 1..m : w[i] = s[i]
  <2>1. \A i \in 1..m : i \in 1..(m + 1) /\ i \in 1..(m + 1 + n) /\ i <= m + 1 /\ i <= m
    OBVIOUS
  <2> QED
    BY <1>4, <1>5, <2>1
<1>7. w[m + 1] = ch
  <2>1. m + 1 \in 1..(m + 1) /\ m + 1 \in 1..(m + 1 + n) /\ ~(m + 1 <= m) /\ (m + 1) - m = 1
    OBVIOUS
  <2>2. w[m + 1] = v[m + 1]
    BY <1>5, <2>1
  <2>3. v[m + 1] = u[1]
    BY <1>4, <2>1
  <2> QED
    BY <1>2, <2>2, <2>3
<1>8. \A i \in 1..n : w[m + 1 + i] = t[i]
  <2>1. \A i \in 1..n : m + 1 + i \in 1..(m + 1 + n) /\ ~(m + 1 + i <= m + 1) /\ (m + 1 + i) - (m + 1) = i
    OBVIOUS
  <2> QED
    BY <1>5, <2>1
<1>9. Between(w, s, ch, t)
  BY <1>3, <1>5, <1>6, <1>7, <1>8 DEF Between
<1> QED
  BY <1>1, <1>9

LEMMA BytesSpelled ==
  ASSUME NEW r \in Records
  PROVE  Spelled(Bytes(r), r)
<1>1. PICK d, ci, pl : d = r.dirsep /\ ci = r.cipher /\ pl = r.plain
  OBVIOUS
<1>2. d \in Char /\ ci \in Text /\ pl \in Text /\ <<>> \in Text /\ Len(<<>>) = 0
  BY <1>1 DEF Records, Text
<1>3. PICK c \in Nat, p \in Nat : c = Len(ci) /\ p = Len(pl)
  BY <1>2 DEF Text
<1>4. PICK u, v, w : u = <<d>> \o ci /\ v = u \o <<Space>> \o pl /\ w = v \o <<Nul>>
  OBVIOUS
<1>5. u \in Text /\ Len(u) = c + 1 /\ u[1] = d /\ \A i \in 1..c : u[1 + i] = ci[i]
  <2>1. PICK x : x = <<d>>
    OBVIOUS
  <2>2. x \in Text /\ Len(x) = 1 /\ x[1] = d
    BY <1>2, <2>1 DEF Text
  <2>3. u = x \o ci
    BY <1>4, <2>1
  <2>4. /\ u \in Text /\ Len(u) = Len(x) + Len(ci)
        /\ (\A i \in 1..Len(x) : u[i] = x[i]) /\ \A i \in 1..Len(ci) : u[Len(x) + i] = ci[i]
    BY <1>2, <2>2, <2>3, Concat
  <2>5. 1 \in 1..1 /\ 1 + c = c + 1
    OBVIOUS
  <2> QED
    BY <1>3, <2>2, <2>4, <2>5
<1>6. Space \in Char /\ Nul \in Char
  BY DEF Char
<1>7. /\ v \in Text /\ Len(v) = c + 1 + 1 + p /\ (\A i \in 1..(c + 1) : v[i] = u[i])
      /\ v[c + 1 + 1] = Space /\ \A i \in 1..p : v[c + 1 + 1 + i] = pl[i]
  <2>1. Between(u \o <<Space>> \o pl, u, Space, pl)
    BY <1>2, <1>5, <1>6, Around
  <2>2. Between(v, u, Space, pl)
    BY <1>4, <2>1
  <2> QED
    BY <1>3, <1>5, <2>2 DEF Between
<1>8. /\ w \in Text /\ Len(w) = c + 1 + 1 + p + 1
      /\ (\A i \in 1..(c + 1 + 1 + p) : w[i] = v[i]) /\ w[c + 1 + 1 + p + 1] = Nul
  <2>1. w = Append(v, Nul)
    BY <1>4, <1>6, <1>7, AppendIsConcat DEF Text
  <2>2. v \in Seq(Char) /\ Nul \in Char
    BY <1>6, <1>7 DEF Text
  <2>3. /\ w \in Seq(Char) /\ Len(w) = Len(v) + 1
        /\ (\A i \in 1..Len(v) : w[i] = v[i]) /\ w[Len(v) + 1] = Nul
    BY <2>1, <2>2, AppendProperties
  <2> QED
    BY <1>7, <2>3 DEF Text
<1>9. w = Bytes(r)
  BY <1>1, <1>4 DEF Bytes
<1>10. /\ Len(w) = c + p + 3 /\ w[c + p + 3] = Nul
  <2>1. c + 1 + 1 + p + 1 = c + p + 3
    OBVIOUS
  <2> QED
    BY <1>8, <2>1
<1>11. w[1] = d /\ (\A i \in 1..c : w[1 + i] = ci[i])
  <2>1. /\ 1 \in 1..(c + 1) /\ 1 \in 1..(c + 1 + 1 + p)
        /\ \A i \in 1..c : 1 + i \in 1..(c + 1) /\ 1 + i \in 1..(c + 1 + 1 + p)
    OBVIOUS
  <2>2. w[1] = v[1] /\ v[1] = u[1]
    BY <1>7, <1>8, <2>1
  <2>3. \A i \in 1..c : w[1 + i] = v[1 + i] /\ v[1 + i] = u[1 + i]
    BY <1>7, <1>8, <2>1
  <2> QED
    BY <1>5, <2>2, <2>3
<1>12. w[c + 2] = Space
  <2>1. c + 1 + 1 = c + 2 /\ c + 2 \in 1..(c + 1 + 1 + p)
    OBVIOUS
  <2> QED
    BY <1>7, <1>8, <2>1
<1>13. \A i \in 1..p : w[c + 2 + i] = pl[i]
  <2>1. \A i \in 1..p : c + 1 + 1 + i = c + 2 + i /\ c + 2 + i \in 1..(c + 1 + 1 + p)
    OBVIOUS
  <2> QED
    BY <1>7, <1>8, <2>1
<1>14. Spelled(w, [dirsep |-> d, cipher |-> ci, plain |-> pl])
  BY <1>3, <1>8, <1>10, <1>11, <1>12, <1>13 DEF Spelled
<1>15. Spelled(w, r)
  BY <1>1, <1>3, <1>8, <1>10, <1>11, <1>12, <1>13 DEF Spelled
<1> QED
  BY <1>9, <1>15

\* What is spelled as a record is the bytes of the record.
LEMMA SpelledBytes ==
  ASSUME NEW r \in Records, NEW s, Spelled(s, r)
  PROVE  s = Bytes(r)
<1>1. PICK t : t = Bytes(r)
  OBVIOUS
<1>2. Spelled(t, r)
  BY <1>1, BytesSpelled
<1>3. PICK ci, pl : ci = r.cipher /\ pl = r.plain
  OBVIOUS
<1>4. PICK c \in Nat, p \in Nat : c = Len(ci) /\ p = Len(pl)
  BY <1>3, RecordSizes
<1>5. /\ s \in Text /\ Len(s) = c + p + 3 /\ s[1] = r.dirsep /\ s[c + 2] = Space /\ s[c + p + 3] = Nul
      /\ (\A i \in 1..c : s[1 + i] = ci[i]) /\ \A i \in 1..p : s[c + 2 + i] = pl[i]
  BY <1>3, <1>4 DEF Spelled
<1>6. /\ t \in Text /\ Len(t) = c + p + 3 /\ t[1] = r.dirsep /\ t[c + 2] = Space /\ t[c + p + 3] = Nul
      /\ (\A i \in 1..c : t[1 + i] = ci[i]) /\ \A i \in 1..p : t[c + 2 + i] = pl[i]
  BY <1>2, <1>3, <1>4 DEF Spelled
<1>7. ASSUME NEW i \in 1..(c + p + 3) PROVE s[i] = t[i]
  <2>1. CASE i \in {1, c + 2, c + p + 3}
    BY <1>5, <1>6, <2>1
  <2>2. CASE i \in 2..(c + 1)
    <3>1. i - 1 \in 1..c /\ 1 + (i - 1) = i
      BY <2>2
    <3>2. s[1 + (i - 1)] = t[1 + (i - 1)]
      BY <1>5, <1>6, <3>1
    <3> QED
      BY <3>1, <3>2
  <2>3. CASE i \in (c + 3)..(c + p + 2)
    <3>1. i - (c + 2) \in 1..p /\ c + 2 + (i - (c + 2)) = i
      BY <2>3
    <3>2. s[c + 2 + (i - (c + 2))] = t[c + 2 + (i - (c + 2))]
      BY <1>5, <1>6, <3>1
    <3> QED
      BY <3>1, <3>2
  <2>4. i = 1 \/ i \in 2..(c + 1) \/ i = c + 2 \/ i \in (c + 3)..(c + p + 2) \/ i = c + p + 3
    OBVIOUS
  <2> QED
    BY <2>1, <2>2, <2>3, <2>4
<1>8. s = t
  BY <1>5, <1>6, <1>7, SeqEqual DEF Text
<1> QED
  BY <1>1, <1>8

-----------------------------------------------------------------------------
(* From *)

\* k is where the first of some characters is, at i or behind it, or the end.
First(s, i, chars, k) ==
  /\ k \in 1..(Len(s) + 1)
  /\ k <= Len(s) => i <= k /\ s[k] \in chars
  /\ \A l \in i..Len(s) : s[l] \in chars => k <= l

LEMMA FromFirst ==
  ASSUME file \in Text, NEW i \in Nat \ {0}, NEW chars
  PROVE  First(file, i, chars, From(i, chars))
<1>1. PICK n \in Nat : n = Len(file)
  BY DEF Text
<1>2. PICK T : T = {k \in i..n : file[k] \in chars}
  OBVIOUS
<1>3. CASE T = {}
  <2>1. From(i, chars) = n + 1
    BY <1>1, <1>2, <1>3 DEF From
  <2>2. \A l \in i..n : file[l] \notin chars
    BY <1>2, <1>3
  <2>3. n + 1 \in 1..(n + 1) /\ ~(n + 1 <= n)
    OBVIOUS
  <2> QED
    BY <1>1, <2>1, <2>2, <2>3 DEF First
<1>4. CASE T # {}
  <2>1. PICK k \in T : \A l \in T : k <= l
    <3>1. T \in SUBSET Nat
      BY <1>2
    <3> QED
      BY <1>4, <3>1, LeastNumber
  <2>2. PICK f : f = CHOOSE j \in T : \A l \in T : j <= l
    OBVIOUS
  <2>3. f \in T /\ \A l \in T : f <= l
    BY <2>1, <2>2
  <2>4. From(i, chars) = f
    BY <1>1, <1>2, <1>4, <2>2, Zenon DEF From
  <2>5. f \in i..n /\ file[f] \in chars
    BY <1>2, <2>3
  <2>6. f \in 1..(n + 1) /\ i <= f
    BY <2>5
  <2>7. \A l \in i..n : file[l] \in chars => f <= l
    BY <1>2, <2>3
  <2> QED
    BY <1>1, <2>4, <2>5, <2>6, <2>7 DEF First
<1> QED
  BY <1>3, <1>4

LEMMA FirstIs ==
  ASSUME file \in Text, NEW i \in Nat \ {0}, NEW chars, NEW k \in Nat, i <= k, k <= Len(file),
         file[k] \in chars, \A l \in i..(k - 1) : file[l] \notin chars
  PROVE  From(i, chars) = k
<1>1. PICK n \in Nat : n = Len(file)
  BY DEF Text
<1>2. PICK f : f = From(i, chars)
  OBVIOUS
<1>3. First(file, i, chars, f)
  BY <1>2, FromFirst
<1>4. f \in 1..(n + 1) /\ k \in i..n
  BY <1>1, <1>3 DEF First
<1>5. f <= k
  BY <1>1, <1>3, <1>4 DEF First
<1>6. i <= f /\ file[f] \in chars
  BY <1>1, <1>3, <1>4, <1>5 DEF First
<1>7. ~(f < k)
  <2>1. f < k => f \in i..(k - 1)
    BY <1>4, <1>6
  <2> QED
    BY <1>6, <2>1
<1> QED
  BY <1>2, <1>4, <1>5, <1>7

\* Where fill_map is in a file.
LEMMA Places ==
  ASSUME file \in Text, offset \in Nat
  PROVE  /\ SpaceAt \in Nat /\ SpaceAt <= Len(file) + 1 /\ NulAt \in Nat /\ NulAt <= Len(file) + 1
         /\ First(file, offset + 2, {Space, Nul}, SpaceAt)
         /\ First(file, SpaceAt + 1, {Nul}, NulAt)
<1>1. PICK n \in Nat : n = Len(file)
  BY DEF Text
<1>2. offset + 2 \in Nat \ {0}
  OBVIOUS
<1>3. First(file, offset + 2, {Space, Nul}, SpaceAt)
  BY <1>2, FromFirst DEF SpaceAt
<1>4. SpaceAt \in Nat /\ SpaceAt <= n + 1
  BY <1>1, <1>3 DEF First
<1>5. SpaceAt + 1 \in Nat \ {0}
  BY <1>4
<1>6. First(file, SpaceAt + 1, {Nul}, NulAt)
  BY <1>5, FromFirst DEF NulAt
<1>7. NulAt \in Nat /\ NulAt <= n + 1
  BY <1>1, <1>6 DEF First
<1> QED
  BY <1>1, <1>3, <1>4, <1>6, <1>7

\* The record fill_map reads is a record.
LEMMA EntryType ==
  ASSUME file \in Text, offset \in Nat, offset < Len(file), WellFormed
  PROVE  /\ Entry \in Records /\ Entry.dirsep \notin {Space, Nul}
         /\ Entry.dirsep = file[offset + 1]
         /\ SpaceAt \in (offset + 2)..Len(file) /\ NulAt \in (SpaceAt + 1)..Len(file)
         /\ file[SpaceAt] = Space /\ file[NulAt] = Nul
<1>1. PICK n \in Nat, o \in Nat : n = Len(file) /\ o = offset
  BY DEF Text
<1>2. PICK k, z : k = SpaceAt /\ z = NulAt
  OBVIOUS
<1>3. /\ k \in Nat /\ z \in Nat /\ k <= n /\ z <= n /\ file[k] = Space
      /\ First(file, o + 2, {Space, Nul}, k) /\ First(file, k + 1, {Nul}, z)
      /\ file[o + 1] \notin {Space, Nul}
  BY <1>1, <1>2, Places DEF WellFormed, NulTerminated
<1>4. k \in (o + 2)..n /\ z \in (k + 1)..n /\ file[z] = Nul
  BY <1>1, <1>3 DEF First
<1>5. \A i \in 1..n : file[i] \in Char
  BY <1>1, ElementOfSeq DEF Text
<1>6. file[o + 1] \in Char
  <2>1. o + 1 \in 1..n
    BY <1>4
  <2> QED
    BY <1>5, <2>1
<1>7. PICK ci, pl : ci = SubSeq(file, o + 2, k - 1) /\ pl = SubSeq(file, k + 1, z - 1)
  OBVIOUS
<1>8. ci \in Text
  <2>1. \A i \in (o + 2)..(k - 1) : i \in 1..n
    BY <1>4
  <2>2. o + 2 \in Int /\ k - 1 \in Int /\ \A i \in (o + 2)..(k - 1) : file[i] \in Char
    BY <1>3, <1>5, <2>1
  <2> QED
    BY <1>7, <2>2, SubSeqProperties DEF Text
<1>9. pl \in Text
  <2>1. \A i \in (k + 1)..(z - 1) : i \in 1..n
    BY <1>4
  <2>2. k + 1 \in Int /\ z - 1 \in Int /\ \A i \in (k + 1)..(z - 1) : file[i] \in Char
    BY <1>3, <1>5, <2>1
  <2> QED
    BY <1>7, <2>2, SubSeqProperties DEF Text
<1>10. Entry = [dirsep |-> file[o + 1], cipher |-> ci, plain |-> pl]
  BY <1>1, <1>2, <1>7 DEF Entry
<1>11. Entry \in Records /\ Entry.dirsep = file[o + 1]
  BY <1>6, <1>8, <1>9, <1>10 DEF Records
<1> QED
  BY <1>1, <1>2, <1>3, <1>4, <1>11

LEMMA KeptType ==
  ASSUME NEW r \in Records
  PROVE  /\ Kept(r) \in Records /\ Kept(r).dirsep = r.dirsep /\ Kept(r).cipher = r.cipher
         /\ Kept(r).plain = Translated(r) /\ Len(Translated(r)) = Len(r.plain)
         /\ \A i \in 1..Len(r.plain) :
              Translated(r)[i] = IF r.plain[i] = r.dirsep THEN DirsepC ELSE r.plain[i]
<1>1. PICK pl, t : pl = r.plain /\ t = Translated(r)
  OBVIOUS
<1>2. pl \in Seq(Char) /\ r.dirsep \in Char
  BY <1>1 DEF Records, Text
<1>3. PICK n \in Nat : n = Len(pl)
  BY <1>2
<1>4. \A i \in 1..n : pl[i] \in Char
  BY <1>2, <1>3, ElementOfSeq
<1>5. DirsepC \in Char
  BY FormatParams DEF Char
<1>6. t = [i \in 1..n |-> IF pl[i] = r.dirsep THEN DirsepC ELSE pl[i]]
  BY <1>1, <1>2, <1>3 DEF Translated
<1>7. t \in [1..n -> Char]
  BY <1>4, <1>5, <1>6
<1>8. t \in Text /\ Len(t) = n
  BY <1>7 DEF Text
<1>9. Kept(r) = [dirsep |-> r.dirsep, cipher |-> r.cipher, plain |-> t]
  BY <1>1 DEF Kept, Records
<1>10. \A i \in 1..n : t[i] = IF pl[i] = r.dirsep THEN DirsepC ELSE pl[i]
  BY <1>6
<1> QED
  BY <1>1, <1>3, <1>8, <1>9, <1>10 DEF Records

-----------------------------------------------------------------------------
(* The bytes of the map. *)

\* Every record of N, once.
Listed(rs, N) ==
  /\ rs \in Seq(N)
  /\ \A i, j \in 1..Len(rs) : rs[i] = rs[j] => i = j
  /\ \A r \in N : \E i \in 1..Len(rs) : rs[i] = r

LEMMA ListOf ==
  ASSUME NEW N, IsFiniteSet(N)
  PROVE  Listed(SetToSeq(N), N) /\ Len(SetToSeq(N)) = Cardinality(N)
<1>1. PICK n \in Nat : n = Cardinality(N)
  BY FS_CardinalityType
<1>2. PICK f \in [1..n -> N] : IsInjective(f)
  <2>1. ExistsBijection(1..n, N)
    BY <1>1, FS_CardinalityType
  <2> QED
    BY <2>1 DEF ExistsBijection, Bijection, Injection
<1>3. PICK rs : rs = SetToSeq(N)
  OBVIOUS
<1>4. rs \in [1..n -> N] /\ IsInjective(rs)
  BY <1>1, <1>2, <1>3 DEF SetToSeq
<1>5. rs \in Seq(N) /\ Len(rs) = n /\ DOMAIN rs = 1..n
  BY <1>4
<1>6. \A i, j \in 1..n : rs[i] = rs[j] => i = j
  BY <1>4, <1>5 DEF IsInjective
<1>7. rs \in Surjection(1..n, N)
  <2>1. IsFiniteSet(1..n) /\ Cardinality(1..n) = n
    BY FS_Interval
  <2>2. rs \in Injection(1..n, N)
    BY <1>4 DEF Injection
  <2> QED
    BY <1>1, <2>1, <2>2, FS_Injection
<1>8. \A r \in N : \E i \in 1..n : rs[i] = r
  BY <1>7 DEF Surjection
<1> QED
  BY <1>1, <1>3, <1>5, <1>6, <1>8 DEF Listed

\* The first k records, one after another.
Joined(rs, k) == FlattenSeq([i \in 1..k |-> Bytes(rs[i])])

LEMMA MapIsJoined ==
  ASSUME IsFiniteSet(names)
  PROVE  MapBytes = Joined(SetToSeq(names), Len(SetToSeq(names)))
<1>1. Len(SetToSeq(names)) = Cardinality(names)
  BY ListOf
<1> QED
  BY <1>1 DEF MapBytes, Joined

LEMMA JoinedNext ==
  ASSUME NEW rs \in Seq(Records), NEW k \in Nat, k + 1 <= Len(rs)
  PROVE  /\ rs[k + 1] \in Records
         /\ Joined(rs, k) \in Text
         /\ Joined(rs, k + 1) = Joined(rs, k) \o Bytes(rs[k + 1])
<1>1. \A i \in 1..(k + 1) : rs[i] \in Records
  <2>1. \A i \in 1..(k + 1) : i \in 1..Len(rs)
    OBVIOUS
  <2> QED
    BY <2>1, ElementOfSeq
<1>2. \A i \in 1..(k + 1) : Bytes(rs[i]) \in Text
  <2>1. \A i \in 1..(k + 1) : Spelled(Bytes(rs[i]), rs[i])
    BY <1>1, BytesSpelled
  <2> QED
    BY <2>1 DEF Spelled
<1>3. PICK ss, tt : ss = [i \in 1..k |-> Bytes(rs[i])] /\ tt = [i \in 1..(k + 1) |-> Bytes(rs[i])]
  OBVIOUS
<1>4. \A i \in 1..k : i \in 1..(k + 1)
  OBVIOUS
<1>5. k + 1 \in 1..(k + 1) /\ k + 1 \in Nat
  OBVIOUS
<1>6. ss \in [1..k -> Text] /\ tt \in [1..(k + 1) -> Text] /\ Agree(ss, tt, k) /\ tt[k + 1] = Bytes(rs[k + 1])
  BY <1>2, <1>3, <1>4, <1>5 DEF Agree
<1>7. ss \in Seq(Text) /\ Len(ss) = k /\ tt \in Seq(Text) /\ Len(tt) = k + 1
  BY <1>5, <1>6
<1>8. FlattenSeq(ss) \in Text /\ FlattenSeq(tt) = FlattenSeq(ss) \o tt[k + 1]
  BY <1>6, <1>7, FlattenNext
<1>9. Joined(rs, k) = FlattenSeq(ss) /\ Joined(rs, k + 1) = FlattenSeq(tt)
  BY <1>3 DEF Joined
<1>10. rs[k + 1] \in Records
  BY <1>1, <1>5
<1> QED
  BY <1>6, <1>8, <1>9, <1>10

LEMMA JoinedNone == ASSUME NEW rs PROVE Joined(rs, 0) = <<>>
<1>1. [i \in 1..0 |-> Bytes(rs[i])] = <<>>
  OBVIOUS
<1> QED
  BY <1>1, FlattenEmpty DEF Joined

\* What the first l records are joined to starts with what the first k are.
LEMMA JoinedStarts ==
  ASSUME NEW rs \in Seq(Records), NEW l \in 0..Len(rs), NEW k \in 0..l
  PROVE  /\ Joined(rs, k) \in Text
         /\ \E w \in Text : Joined(rs, l) = Joined(rs, k) \o w
<1> DEFINE T == {m \in Nat : m \in k..l /\ ~(/\ Joined(rs, k) \in Text
                                            /\ \E w \in Text : Joined(rs, m) = Joined(rs, k) \o w)}
<1> SUFFICES ASSUME T # {} PROVE FALSE
  <2>1. l \notin T => /\ Joined(rs, k) \in Text
                      /\ \E w \in Text : Joined(rs, l) = Joined(rs, k) \o w
    OBVIOUS
  <2> QED
    BY <2>1
<1>1. PICK m \in T : \A j \in T : m <= j
  <2>1. T \in SUBSET Nat
    OBVIOUS
  <2> HIDE DEF T
  <2> QED
    BY <2>1, LeastNumber
<1>2. /\ m \in Nat /\ m \in k..l
      /\ ~(Joined(rs, k) \in Text /\ \E w \in Text : Joined(rs, m) = Joined(rs, k) \o w)
  OBVIOUS
<1>3. <<>> \in Text
  BY DEF Text
<1>4. Joined(rs, k) \in Text
  <2>1. CASE k = 0
    BY <1>3, <2>1, JoinedNone
  <2>2. CASE k > 0
    <3>1. PICK j \in Nat : j + 1 = k
      BY <2>2
    <3>2. j + 1 <= Len(rs)
      BY <3>1
    <3>3. /\ rs[j + 1] \in Records /\ Joined(rs, j) \in Text
          /\ Joined(rs, j + 1) = Joined(rs, j) \o Bytes(rs[j + 1])
      BY <3>2, JoinedNext
    <3>4. Bytes(rs[j + 1]) \in Text
      BY <3>3, BytesSpelled DEF Spelled
    <3>5. Joined(rs, j + 1) \in Text
      BY <3>3, <3>4, Concat
    <3> QED
      BY <3>1, <3>5
  <2> QED
    BY <2>1, <2>2
<1>5. m > k
  <2>1. Joined(rs, k) = Joined(rs, k) \o <<>>
    BY <1>4, ConcatEmptySeq DEF Text
  <2>2. m # k
    BY <1>2, <1>3, <1>4, <2>1, Zenon
  <2> QED
    BY <1>2, <2>2
<1>6. PICK j \in Nat : j + 1 = m
  BY <1>2, <1>5
<1>7. j \in k..l /\ ~(m <= j) /\ j + 1 <= Len(rs)
  BY <1>2, <1>5, <1>6
<1>8. j \notin T
  BY <1>1, <1>7
<1>9. PICK w \in Text : Joined(rs, j) = Joined(rs, k) \o w
  BY <1>7, <1>8
<1>10. rs[j + 1] \in Records /\ Joined(rs, j + 1) = Joined(rs, j) \o Bytes(rs[j + 1])
  BY <1>7, JoinedNext
<1>11. PICK v : v = Bytes(rs[j + 1])
  OBVIOUS
<1>12. v \in Text
  BY <1>10, <1>11, BytesSpelled DEF Spelled
<1>13. Joined(rs, m) = (Joined(rs, k) \o w) \o v
  BY <1>6, <1>9, <1>10, <1>11
<1>14. (Joined(rs, k) \o w) \o v = Joined(rs, k) \o (w \o v)
  <2>1. PICK u : u = Joined(rs, k)
    OBVIOUS
  <2>2. u \in Text /\ w \in Text /\ v \in Text
    BY <1>4, <1>9, <1>12, <2>1
  <2>3. (u \o w) \o v = u \o (w \o v)
    BY <2>2, Assoc
  <2> QED
    BY <2>1, <2>3, Zenon
<1>15. w \o v \in Text
  BY <1>12, Concat
<1> QED
  BY <1>2, <1>4, <1>13, <1>14, <1>15, Zenon

-----------------------------------------------------------------------------
(* Type correctness *)

States == {"DIRSEP", "CIPHERNAME", "SPACE", "PLAINNAME", "INVALID", "RSYNC107_INVALID"}

ReaderTyped ==
  /\ offset \in 0..Len(file) /\ state \in States /\ out \in Text
  /\ record \in [dirsep : Char, cipher : Seq(Hex), plain : Text]
  /\ Len(record.cipher) <= CipherLen
  /\ state = "CIPHERNAME" => Len(record.cipher) < CipherLen
  /\ state \in {"SPACE", "PLAINNAME"} => record.cipher \in Ciphers

RecordsTyped(N) == N \subseteq Records /\ IsFiniteSet(N) /\ \A r \in N : r.dirsep \notin {Space, Nul}

StoreTyped ==
  /\ file \in Text
  /\ RecordsTyped(names) /\ RecordsTyped(meant)
  /\ by \in {"found", "recover", "write", "cut"} /\ cuts \in 0..MaxCuts
  /\ pc \in {"idle", "recover", "encrypt", "decrypt", "filled"} \cup Refusals

FfTyped == ReaderTyped /\ StoreTyped

LEMMA TypedOK == FfTyped => FfTypeOK
BY DEF FfTyped, ReaderTyped, StoreTyped, RecordsTyped, States, FfTypeOK

LEMMA Kinds ==
  /\ Nul \in Char /\ Space \in Char /\ DirsepC \in Char /\ Separators \subseteq Char /\ Hex \subseteq Char
  /\ Nul # Space /\ DirsepC \notin {Nul, Space} /\ Hex \cap (Separators \cup {Space, Nul}) = {}
  /\ Separators \cap {Nul, Space} = {}
  /\ <<>> \in Text /\ Len(<<>>) = 0 /\ <<>> \in Seq(Hex)
<1>1. Separators \subseteq Char /\ Hex \subseteq Char /\ Nul \in Char /\ Space \in Char /\ DirsepC \in Separators
  BY FormatParams, FormatBytes DEF Char
<1>2. Separators \cap {Nul, Space} = {} /\ Nul # Space
  BY DEF Separators, Nul, Space
<1> QED
  BY <1>1, <1>2, FormatParams DEF Text

LEMMA Texts ==
  /\ \A s \in Seq(STRING) : s \in Text
  /\ \A s \in Seq(Hex) : s \in Text
  /\ Ciphers \subseteq Seq(Hex) /\ Ciphers \subseteq Text
  /\ \A c \in Ciphers : Len(c) = CipherLen
<1>1. STRING \subseteq Char
  BY DEF Char
<1>2. \A s \in Seq(STRING) : s \in Text
  BY <1>1, SeqMonotonic DEF Text
<1>3. \A s \in Seq(Hex) : s \in Text
  BY Kinds, SeqMonotonic DEF Text
<1>4. CipherLen \in Nat
  BY FormatParams
<1>5. \A c \in Ciphers : c \in Seq(Hex) /\ Len(c) = CipherLen
  BY <1>4 DEF Ciphers
<1> QED
  BY <1>2, <1>3, <1>5

LEMMA NoRecordsTyped == RecordsTyped({})
BY FS_EmptySet DEF RecordsTyped

Fresh == offset = 0 /\ state = "DIRSEP" /\ record = NoRecord /\ out = <<>>

LEMMA FreshReader == Fresh /\ file \in Text => ReaderTyped
<1> SUFFICES ASSUME offset = 0, state = "DIRSEP", record = NoRecord, out = <<>>, file \in Text
             PROVE  ReaderTyped
  BY DEF Fresh
<1>1. NoRecord = [dirsep |-> Nul, cipher |-> <<>>, plain |-> <<>>]
  BY DEF NoRecord
<1>2. NoRecord \in [dirsep : Char, cipher : Seq(Hex), plain : Text] /\ NoRecord.cipher = <<>>
  BY <1>1, Kinds
<1>3. Len(file) \in Nat /\ CipherLen \in Nat
  BY FormatParams DEF Text
<1>4. Len(record.cipher) = 0 /\ 0 \in 0..Len(file) /\ 0 <= CipherLen
  BY <1>2, <1>3, Kinds
<1> QED
  BY <1>2, <1>4, Kinds DEF ReaderTyped, States

\* The text a run would write.
LEMMA MapType ==
  ASSUME names \subseteq Records, IsFiniteSet(names)
  PROVE  /\ MapBytes \in Text
         /\ SetToSeq(names) \in Seq(Records)
<1>1. PICK rs : rs = SetToSeq(names)
  OBVIOUS
<1>2. rs \in Seq(names)
  BY <1>1, ListOf DEF Listed
<1>3. rs \in Seq(Records)
  BY <1>2, SeqMonotonic
<1>4. Len(rs) \in 0..Len(rs) /\ Len(rs) \in Nat
  BY <1>3
<1>5. Joined(rs, Len(rs)) \in Text
  BY <1>3, <1>4, JoinedStarts
<1> QED
  BY <1>1, <1>3, <1>5, MapIsJoined

LEMMA TypedInit == FfInit => FfTyped
<1> SUFFICES ASSUME FfInit PROVE FfTyped
  OBVIOUS
<1>1. file \in Text
  BY FormatBytes, Texts DEF FfInit
<1>2. ReaderTyped
  BY <1>1, FreshReader DEF FfInit, Fresh
<1>3. StoreTyped
  BY <1>1, NoRecordsTyped, FormatParams DEF FfInit, StoreTyped
<1> QED
  BY <1>2, <1>3 DEF FfTyped

\* The character a turn of the loop reads.
LEMMA CharRead ==
  ASSUME FfTyped, NEW s, NEW ch, NEW next, Turn(s, ch, next)
  PROVE  /\ ch = file[offset + 1] /\ ch \in Char /\ offset \in Nat /\ offset < Len(file)
         /\ offset + 1 \in 0..Len(file) /\ Len(file) \in Nat
<1>1. file \in Seq(Char) /\ offset \in 0..Len(file) /\ offset < Len(file) /\ ch = file[offset + 1]
  BY DEF FfTyped, ReaderTyped, StoreTyped, Turn, Text
<1>2. PICK n \in Nat : n = Len(file)
  BY <1>1
<1>3. offset + 1 \in 1..n
  BY <1>1, <1>2
<1>4. ch \in Char
  BY <1>1, <1>2, <1>3, ElementOfSeq
<1> QED
  BY <1>1, <1>2, <1>3, <1>4

LEMMA TypedRead ==
  ASSUME FfTyped, RecoverByte
  PROVE  FfTyped'
<1>1. PICK ch : \/ ReadDirsep(ch) \/ Read107(ch) \/ ReadCipher(ch)
                \/ ReadSpace(ch) \/ ReadPlain(ch) \/ ReadInvalid(ch)
  BY DEF RecoverByte
<1>2. StoreTyped' /\ file' = file /\ offset' = offset + 1
  BY <1>1 DEF FfTyped, StoreTyped, RecordsTyped, ReadDirsep, Read107, ReadCipher, ReadSpace, ReadPlain,
              ReadInvalid, Turn
<1>3. ch \in Char /\ offset + 1 \in 0..Len(file)
  BY <1>1, CharRead DEF ReadDirsep, Read107, ReadCipher, ReadSpace, ReadPlain, ReadInvalid
<1>4. /\ state \in States /\ out \in Text /\ CipherLen \in Nat \ {0}
      /\ record \in [dirsep : Char, cipher : Seq(Hex), plain : Text]
      /\ Len(record.cipher) <= CipherLen
      /\ state = "CIPHERNAME" => Len(record.cipher) < CipherLen
      /\ state \in {"SPACE", "PLAINNAME"} => record.cipher \in Ciphers
  BY FormatParams DEF FfTyped, ReaderTyped
<1>5. /\ state' \in States /\ out' \in Text
      /\ record' \in [dirsep : Char, cipher : Seq(Hex), plain : Text]
      /\ Len(record'.cipher) <= CipherLen
      /\ state' = "CIPHERNAME" => Len(record'.cipher) < CipherLen
      /\ state' \in {"SPACE", "PLAINNAME"} => record'.cipher \in Ciphers
  <2>1. CASE ReadDirsep(ch)
    <3>1. record' = [dirsep |-> ch, cipher |-> <<>>, plain |-> <<>>] /\ out' = out
      BY <2>1 DEF ReadDirsep, NoRecord
    <3>2. state' \in {"CIPHERNAME", "DIRSEP", "RSYNC107_INVALID", "INVALID"}
      BY <2>1 DEF ReadDirsep, Turn
    <3>3. record'.cipher = <<>> /\ record' \in [dirsep : Char, cipher : Seq(Hex), plain : Text]
      BY <1>3, <3>1, Kinds
    <3>4. Len(record'.cipher) = 0
      BY <3>3, Kinds
    <3>5. state' \in States /\ ~(state' \in {"SPACE", "PLAINNAME"})
      BY <3>2 DEF States
    <3> QED
      BY <1>4, <3>1, <3>3, <3>4, <3>5
  <2>2. CASE Read107(ch) \/ ReadInvalid(ch)
    <3>1. record' = record /\ out' = out /\ state' \in {"DIRSEP", "INVALID"}
      BY <2>2 DEF Read107, ReadInvalid, Turn
    <3>2. state' \in States /\ ~(state' \in {"SPACE", "PLAINNAME"}) /\ state' # "CIPHERNAME"
      BY <3>1 DEF States
    <3> QED
      BY <1>4, <3>1, <3>2
  <2>3. CASE ReadCipher(ch)
    <3>1. out' = out /\ state = "CIPHERNAME" /\ Len(record.cipher) < CipherLen
      BY <1>4, <2>3 DEF ReadCipher, Turn
    <3>2. PICK c \in Seq(Hex) : c = record.cipher
      BY <1>4
    <3>3. PICK n \in Nat : n = Len(c)
      OBVIOUS
    <3>4. CASE ch \notin Hex
      <4>1. record' = record /\ state' \in {"DIRSEP", "INVALID"}
        BY <2>3, <3>4 DEF ReadCipher, Turn
      <4>2. state' \in States /\ ~(state' \in {"SPACE", "PLAINNAME"}) /\ state' # "CIPHERNAME"
        BY <4>1 DEF States
      <4> QED
        BY <1>4, <3>1, <4>1, <4>2
    <3>5. CASE ch \in Hex
      <4>1. /\ record' = [record EXCEPT !.cipher = Append(c, ch)]
            /\ state' = IF n + 1 = CipherLen THEN "SPACE" ELSE "CIPHERNAME"
        BY <2>3, <3>2, <3>3, <3>5 DEF ReadCipher, Turn, Complete
      <4>2. PICK d : d = Append(c, ch)
        OBVIOUS
      <4>3. d \in Seq(Hex) /\ Len(d) = n + 1
        BY <3>3, <3>5, <4>2, AppendProperties
      <4>4. record' \in [dirsep : Char, cipher : Seq(Hex), plain : Text] /\ record'.cipher = d
        BY <1>4, <4>1, <4>2, <4>3
      <4>5. n < CipherLen /\ n + 1 <= CipherLen
        BY <1>4, <3>1, <3>2, <3>3
      <4>6. state' \in States
        BY <4>1 DEF States
      <4>7. state' = "CIPHERNAME" => n + 1 < CipherLen
        BY <1>4, <4>1, <4>5
      <4>8. state' \in {"SPACE", "PLAINNAME"} => n + 1 = CipherLen
        BY <4>1
      <4>9. n + 1 = CipherLen => d \in Ciphers
        BY <4>3 DEF Ciphers
      <4> QED
        BY <1>4, <3>1, <4>3, <4>4, <4>5, <4>6, <4>7, <4>8, <4>9
    <3> QED
      BY <3>4, <3>5
  <2>4. CASE ReadSpace(ch)
    <3>1. record' = record /\ out' = out /\ state = "SPACE" /\ state' \in {"DIRSEP", "INVALID", "PLAINNAME"}
      BY <2>4 DEF ReadSpace, Turn
    <3>2. state' \in States /\ state' # "CIPHERNAME"
      BY <3>1 DEF States
    <3> QED
      BY <1>4, <3>1, <3>2
  <2>5. CASE ReadPlain(ch)
    <3>1. state = "PLAINNAME" /\ state' \in {"DIRSEP", "PLAINNAME"}
      BY <2>5 DEF ReadPlain, Turn
    <3>2. state' \in States /\ state' # "CIPHERNAME" /\ record.cipher \in Ciphers
      BY <1>4, <3>1 DEF States
    <3>3. record \in Records
      BY <1>4, Texts DEF Records
    <3>4. Bytes(record) \in Text
      BY <3>3, BytesSpelled DEF Spelled
    <3>5. out \o Bytes(record) \in Text
      BY <1>4, <3>4, Concat
    <3>6. Append(record.plain, ch) \in Text
      BY <1>3, <1>4, AppendProperties DEF Text
    <3>7. /\ out' \in Text /\ record'.cipher = record.cipher
          /\ record' \in [dirsep : Char, cipher : Seq(Hex), plain : Text]
      <4>1. CASE ch = Nul
        BY <1>4, <2>5, <3>5, <4>1 DEF ReadPlain
      <4>2. CASE ch # Nul
        BY <1>4, <2>5, <3>6, <4>2 DEF ReadPlain
      <4> QED
        BY <4>1, <4>2
    <3> QED
      BY <1>4, <3>2, <3>7
  <2> QED
    BY <1>1, <2>1, <2>2, <2>3, <2>4, <2>5
<1>6. ReaderTyped'
  BY <1>2, <1>3, <1>5 DEF ReaderTyped
<1> QED
  BY <1>2, <1>6 DEF FfTyped

LEMMA EndedTyped ==
  ASSUME NEW how, Ended(how), (file \in Text)'
  PROVE  ReaderTyped' /\ RecordsTyped(names)'
<1>1. (Fresh /\ file \in Text => ReaderTyped)'
  BY FreshReader, PTL
<1>2. Fresh'
  BY DEF Ended, Fresh
<1>3. ReaderTyped'
  BY <1>1, <1>2
<1>4. RecordsTyped(names)'
  BY NoRecordsTyped DEF Ended
<1> QED
  BY <1>3, <1>4

LEMMA MoreRecords ==
  ASSUME NEW N, RecordsTyped(N), NEW r \in Records, r.dirsep \notin {Space, Nul}
  PROVE  RecordsTyped(N \cup {r})
<1>1. IsFiniteSet(N \cup {r})
  BY FS_AddElement DEF RecordsTyped
<1> QED
  BY <1>1 DEF RecordsTyped

\* The record namecat_encrypt makes for a file.
LEMMA NewRecord ==
  ASSUME NEW p \in Paths, NEW c \in Ciphers
  PROVE  [dirsep |-> DirsepC, cipher |-> c, plain |-> p] \in Records
<1>1. p \in Text
  BY FormatBytes, Texts
<1> QED
  BY <1>1, Kinds, Texts DEF Records

LEMMA TypedFill ==
  ASSUME FfTyped, FillEntry
  PROVE  FfTyped'
<1>1. file \in Text /\ offset \in Nat /\ offset < Len(file) /\ WellFormed /\ RecordsTyped(names)
  <2>1. WellFormed
    BY DEF FillEntry, Verdict
  <2> QED
    BY <2>1 DEF FfTyped, ReaderTyped, StoreTyped, FillEntry
<1>2. Entry \in Records /\ Entry.dirsep \notin {Space, Nul} /\ NulAt \in (SpaceAt + 1)..Len(file)
      /\ SpaceAt \in (offset + 2)..Len(file)
  BY <1>1, EntryType
<1>3. Kept(Entry) \in Records /\ Kept(Entry).dirsep \notin {Space, Nul}
  BY <1>2, KeptType
<1>4. RecordsTyped(names \cup {Kept(Entry)})
  BY <1>1, <1>3, MoreRecords
<1>5. NulAt \in 0..Len(file)
  BY <1>1, <1>2
<1>6. ReaderTyped'
  BY <1>5 DEF FfTyped, ReaderTyped, FillEntry
<1>7. RecordsTyped(names)' /\ RecordsTyped(meant)'
  BY <1>4 DEF FillEntry, FfTyped, StoreTyped, RecordsTyped
<1>8. StoreTyped'
  BY <1>7 DEF FillEntry, FfTyped, StoreTyped
<1> QED
  BY <1>6, <1>8 DEF FfTyped

LEMMA TypedName ==
  ASSUME FfTyped, NEW p \in Paths, NEW c \in Ciphers, Name(p, c)
  PROVE  FfTyped'
<1>1. PICK r : r = [dirsep |-> DirsepC, cipher |-> c, plain |-> p]
  OBVIOUS
<1>2. r \in Records /\ r.dirsep \notin {Space, Nul}
  BY <1>1, NewRecord, Kinds
<1>3. RecordsTyped(names \cup {r})
  BY <1>2, MoreRecords DEF FfTyped, StoreTyped
<1>4. RecordsTyped(names)' /\ RecordsTyped(meant)'
  BY <1>1, <1>3 DEF Name, FfTyped, StoreTyped, RecordsTyped
<1>5. StoreTyped' /\ ReaderTyped'
  BY <1>4 DEF Name, FfTyped, StoreTyped, ReaderTyped
<1> QED
  BY <1>5 DEF FfTyped

LEMMA TypedWrite ==
  ASSUME FfTyped, WriteMap \/ WriteCut
  PROVE  FfTyped'
<1>1. names \subseteq Records /\ IsFiniteSet(names) /\ RecordsTyped(names) /\ CipherLen \in Nat
  BY FormatParams DEF FfTyped, StoreTyped, RecordsTyped
<1>2. MapBytes \in Text
  BY <1>1, MapType
<1>3. PICK m : m = MapBytes
  OBVIOUS
<1>4. (file \in Text)'
  <2>1. CASE WriteMap
    BY <1>2, <2>1 DEF WriteMap
  <2>2. CASE WriteCut
    <3>1. PICK n \in 0..(Len(m) - 1) : file' = SubSeq(m, 1, n)
      BY <1>3, <2>2 DEF WriteCut
    <3>2. n \in Nat /\ n <= Len(m)
      BY <1>2, <1>3, <3>1 DEF Text
    <3>3. SubSeq(m, 1, n) \in Text
      BY <1>2, <1>3, <3>2, Prefix
    <3> QED
      BY <3>1, <3>3
  <2> QED
    BY <2>1, <2>2
<1>5. ReaderTyped' /\ RecordsTyped(names)'
  <2>1. Ended("idle")
    BY DEF WriteMap, WriteCut
  <2> QED
    BY <1>4, <2>1, EndedTyped
<1>6. RecordsTyped(meant)'
  BY <1>1 DEF WriteMap, WriteCut, RecordsTyped
<1>7. cuts' \in 0..MaxCuts
  <2>1. cuts \in 0..MaxCuts /\ MaxCuts \in Nat
    BY FormatParams DEF FfTyped, StoreTyped
  <2> QED
    BY <2>1 DEF WriteMap, WriteCut
<1>8. StoreTyped'
  BY <1>4, <1>5, <1>6, <1>7 DEF WriteMap, WriteCut, Ended, StoreTyped
<1> QED
  BY <1>5, <1>8 DEF FfTyped

LEMMA TypedEnd ==
  ASSUME FfTyped, RecoverDone \/ FillRefuses \/ FillDone \/ ScanFailed
  PROVE  FfTyped'
<1>1. CASE RecoverDone \/ FillRefuses \/ ScanFailed \/ (FillDone /\ pc # "encrypt")
  <2>1. PICK how \in {"idle"} \cup Refusals : Ended(how)
    <3>1. FillRefuses => Verdict \in Refusals
      BY DEF FillRefuses, Verdict, Refusals
    <3> QED
      BY <1>1, <3>1 DEF RecoverDone, FillRefuses, ScanFailed, FillDone
  <2>2. (file \in Text)'
    BY <1>1 DEF RecoverDone, FillRefuses, ScanFailed, FillDone, FfTyped, StoreTyped, ReaderTyped
  <2>3. ReaderTyped' /\ RecordsTyped(names)'
    BY <2>1, <2>2, EndedTyped
  <2>4. RecordsTyped(meant)' /\ cuts' \in 0..MaxCuts
    BY <1>1 DEF RecoverDone, FillRefuses, ScanFailed, FillDone, FfTyped, StoreTyped, RecordsTyped
  <2>5. by' \in {"found", "recover", "write", "cut"}
    BY <1>1 DEF RecoverDone, FillRefuses, ScanFailed, FillDone, FfTyped, StoreTyped
  <2>6. StoreTyped'
    BY <2>1, <2>2, <2>3, <2>4, <2>5 DEF Ended, StoreTyped
  <2> QED
    BY <2>3, <2>6 DEF FfTyped
<1>2. CASE FillDone /\ pc = "encrypt"
  <2>1. ReaderTyped'
    BY <1>2 DEF FillDone, FfTyped, ReaderTyped
  <2>2. RecordsTyped(names)' /\ RecordsTyped(meant)'
    BY <1>2 DEF FillDone, FfTyped, StoreTyped, RecordsTyped
  <2>3. StoreTyped'
    BY <1>2, <2>2 DEF FillDone, FfTyped, StoreTyped
  <2> QED
    BY <2>1, <2>3 DEF FfTyped
<1> QED
  BY <1>1, <1>2

LEMMA TypedStart ==
  ASSUME FfTyped, StartRecover \/ StartFill \/ UNCHANGED ffVars
  PROVE  FfTyped'
<1>1. ReaderTyped'
  BY DEF StartRecover, StartFill, ffVars, FfTyped, ReaderTyped
<1>2. RecordsTyped(names)' /\ RecordsTyped(meant)'
  BY DEF StartRecover, StartFill, ffVars, FfTyped, StoreTyped, RecordsTyped
<1>3. StoreTyped'
  BY <1>2 DEF StartRecover, StartFill, ffVars, FfTyped, StoreTyped
<1> QED
  BY <1>1, <1>3 DEF FfTyped

LEMMA TypedStep == FfTyped /\ [FfNext]_ffVars => FfTyped'
<1> SUFFICES ASSUME FfTyped, [FfNext]_ffVars PROVE FfTyped'
  OBVIOUS
<1>1. CASE StartRecover \/ StartFill \/ UNCHANGED ffVars
  BY <1>1, TypedStart
<1>2. CASE RecoverByte
  BY <1>2, TypedRead
<1>3. CASE RecoverDone \/ FillRefuses \/ FillDone \/ ScanFailed
  BY <1>3, TypedEnd
<1>4. CASE FillEntry
  BY <1>4, TypedFill
<1>5. CASE WriteMap \/ WriteCut
  BY <1>5, TypedWrite
<1>6. ASSUME NEW p \in Paths, NEW c \in Ciphers, Name(p, c) PROVE FfTyped'
  BY <1>6, TypedName
<1> QED
  BY <1>1, <1>2, <1>3, <1>4, <1>5, <1>6 DEF FfNext

LEMMA AlwaysTyped == FfSpec => []FfTyped
BY TypedInit, TypedStep, PTL DEF FfSpec

\* Every variable stays in its domain, and no cipher name runs over its bytes,
\* whatever bytes rsyncrypto_recover and fill_map are given (recover.cpp).
THEOREM FormatTypeCorrect == FfSpec => []FfTypeOK
<1>1. FfTyped => FfTypeOK
  BY TypedOK
<1> QED
  BY <1>1, AlwaysTyped, PTL

-----------------------------------------------------------------------------
(* Lines: what ends in a NUL and has no other. *)

\* The last NUL in the first e characters of s is at b; there is none if b is 0.
LastBreak(s, e, b) ==
  /\ b \in 0..e /\ (b = 0 \/ s[b] = Nul)
  /\ \A i \in (b + 1)..e : s[i] # Nul

\* The line of s behind b ends at e.
IsLine(s, b, e) == e \in 1..Len(s) /\ s[e] = Nul /\ LastBreak(s, e - 1, b)

Line(s, b, e) == SubSeq(s, b + 1, e)

LEMMA BreakExists ==
  ASSUME NEW s, NEW e \in Nat
  PROVE  \E b \in 0..e : LastBreak(s, e, b)
<1> DEFINE T == {d \in Nat : d \in 0..e /\ \A i \in (d + 1)..e : s[i] # Nul}
<1>1. e \in T
  OBVIOUS
<1>2. PICK b \in T : \A d \in T : b <= d
  <2>1. T \in SUBSET Nat /\ T # {}
    BY <1>1
  <2> HIDE DEF T
  <2> QED
    BY <2>1, LeastNumber
<1>3. b \in 0..e /\ \A i \in (b + 1)..e : s[i] # Nul
  OBVIOUS
<1>4. ASSUME b # 0, s[b] # Nul PROVE FALSE
  <2>1. PICK d \in Nat : d + 1 = b
    BY <1>3, <1>4
  <2>2. d \in 0..e /\ ~(b <= d)
    BY <1>3, <2>1
  <2>3. \A i \in (d + 1)..e : i = b \/ i \in (b + 1)..e
    BY <1>3, <2>1
  <2>4. \A i \in (d + 1)..e : s[i] # Nul
    BY <1>3, <1>4, <2>3
  <2>5. d \in T
    BY <2>2, <2>4
  <2> QED
    BY <1>2, <2>2, <2>5
<1>5. b = 0 \/ s[b] = Nul
  BY <1>4
<1> QED
  BY <1>3, <1>5 DEF LastBreak

LEMMA BreakSame ==
  ASSUME NEW s, NEW t, NEW e \in Nat, NEW b, LastBreak(s, e, b), Agree(s, t, e)
  PROVE  LastBreak(t, e, b)
<1>1. b \in 0..e /\ (b = 0 \/ s[b] = Nul) /\ \A i \in (b + 1)..e : s[i] # Nul
  BY DEF LastBreak
<1>2. \A i \in 1..e : s[i] = t[i]
  BY DEF Agree
<1>3. (b # 0 => b \in 1..e) /\ \A i \in (b + 1)..e : i \in 1..e
  BY <1>1
<1> QED
  BY <1>1, <1>2, <1>3 DEF LastBreak

LEMMA StartIs ==
  ASSUME NEW s \in Text, NEW d \in Nat, d < Len(s), NEW b, LastBreak(s, d, b)
  PROVE  Start(s, d + 1) = b + 1
<1>1. PICK n \in Nat : n = Len(s)
  BY DEF Text
<1>2. b \in 0..d /\ (b = 0 \/ s[b] = Nul) /\ \A i \in (b + 1)..d : s[i] # Nul
  BY DEF LastBreak
<1>3. PICK E : E = Ends(s)
  OBVIOUS
<1>4. E = {i \in 1..n : s[i] = Nul}
  BY <1>1, <1>3 DEF Ends
<1>5. ASSUME NEW g \in E, g < d + 1 PROVE g <= b
  <2>1. g \in 1..n /\ s[g] = Nul
    BY <1>4
  <2>2. g > b => g \in (b + 1)..d
    BY <1>2, <1>5, <2>1
  <2> QED
    BY <1>2, <2>1, <2>2
<1>6. CASE b = 0
  <2>1. ~\E f \in E : f < d + 1
    BY <1>4, <1>5, <1>6
  <2>2. Start(s, d + 1) = 1 + 0
    BY <1>3, <2>1, Zenon DEF Start
  <2> QED
    BY <1>6, <2>2
<1>7. CASE b # 0
  <2>1. b \in E /\ b < d + 1
    BY <1>1, <1>2, <1>4, <1>7
  <2>2. PICK f : f = CHOOSE h \in E : h < d + 1 /\ \A g \in E : g < d + 1 => g <= h
    OBVIOUS
  <2>3. f \in E /\ f < d + 1 /\ \A g \in E : g < d + 1 => g <= f
    BY <1>5, <2>1, <2>2, Zenon
  <2>4. f <= b /\ b <= f
    BY <1>5, <2>1, <2>3
  <2>5. f = b
    BY <1>2, <1>4, <2>3, <2>4
  <2>6. Start(s, d + 1) = 1 + f
    BY <1>3, <2>1, <2>2, Zenon DEF Start
  <2> QED
    BY <1>2, <2>5, <2>6
<1> QED
  BY <1>6, <1>7

\* The line of p and a NUL, if it is a record.
Entire(ch, p) == IF ch = Nul /\ Valid(p) THEN Append(p, Nul) ELSE <<>>

LEMMA WholeIs ==
  ASSUME NEW s \in Text, NEW d \in Nat, d < Len(s), NEW b, LastBreak(s, d, b)
  PROVE  /\ SubSeq(s, b + 1, d) \in Text
         /\ Whole(s, d + 1) = Entire(s[d + 1], SubSeq(s, b + 1, d))
         /\ Whole(s, d + 1) \in Text
<1>1. PICK n \in Nat : n = Len(s)
  BY DEF Text
<1>2. Start(s, d + 1) = b + 1
  BY StartIs
<1>3. (d + 1) - 1 = d /\ d + 1 \in 1..n /\ b \in Nat /\ b <= d /\ d <= Len(s)
  BY <1>1 DEF LastBreak
<1>4. PICK p : p = SubSeq(s, b + 1, d)
  OBVIOUS
<1>5. Piece(s, d + 1) = p
  BY <1>2, <1>3, <1>4 DEF Piece
<1>6. d + 1 \in Ends(s) <=> s[d + 1] = Nul
  BY <1>1, <1>3 DEF Ends
<1>7. Whole(s, d + 1) = Entire(s[d + 1], p)
  BY <1>5, <1>6 DEF Whole, Entire
<1>8. p \in Text
  BY <1>3, <1>4, Slice
<1>9. Append(p, Nul) \in Text
  BY <1>8, Kinds, AppendProperties DEF Text
<1>10. Entire(s[d + 1], p) \in Text
  BY <1>9, Kinds DEF Entire
<1> QED
  BY <1>4, <1>7, <1>8, <1>10

LEMMA WholeType ==
  ASSUME NEW s \in Text, NEW e \in 1..Len(s)
  PROVE  Whole(s, e) \in Text
<1>1. PICK d \in Nat : d + 1 = e
  OBVIOUS
<1>2. d < Len(s)
  BY <1>1 DEF Text
<1>3. PICK b \in 0..d : LastBreak(s, d, b)
  BY BreakExists
<1>4. Whole(s, d + 1) \in Text
  BY <1>2, <1>3, WholeIs
<1> QED
  BY <1>1, <1>4

LEMMA WholeSame ==
  ASSUME NEW s \in Text, NEW t \in Text, NEW e \in Nat, e > 0, e <= Len(s), e <= Len(t), Agree(s, t, e)
  PROVE  Whole(s, e) = Whole(t, e)
<1>1. PICK d \in Nat : d + 1 = e
  OBVIOUS
<1>2. d < Len(s) /\ d < Len(t) /\ d <= Len(s) /\ d <= Len(t)
  BY <1>1 DEF Text
<1>3. PICK b \in 0..d : LastBreak(s, d, b)
  BY BreakExists
<1>4. Agree(s, t, d) /\ s[d + 1] = t[d + 1]
  <2>1. d + 1 \in 1..e /\ \A i \in 1..d : i \in 1..e
    BY <1>1
  <2> QED
    BY <2>1 DEF Agree
<1>5. LastBreak(t, d, b)
  BY <1>3, <1>4, BreakSame
<1>6. SubSeq(s, b + 1, d) = SubSeq(t, b + 1, d)
  <2>1. b \in Nat /\ b <= d /\ \A j \in (b + 1)..d : j \in 1..d
    BY <1>3
  <2>2. \A j \in (b + 1)..d : s[j] = t[j]
    BY <1>4, <2>1 DEF Agree
  <2> QED
    BY <1>2, <2>1, <2>2, SamePart
<1>7. Whole(s, d + 1) = Entire(s[d + 1], SubSeq(s, b + 1, d))
  BY <1>2, <1>3, WholeIs
<1>8. Whole(t, d + 1) = Entire(t[d + 1], SubSeq(t, b + 1, d))
  BY <1>2, <1>5, WholeIs
<1> QED
  BY <1>1, <1>4, <1>6, <1>7, <1>8

\* What one character more delimits.
LEMMA DelimNext ==
  ASSUME NEW s \in Text, NEW ch \in Char, NEW b, LastBreak(s, Len(s), b)
  PROVE  /\ Delimited(s) \in Text
         /\ Delimited(Append(s, ch)) = Delimited(s) \o Entire(ch, SubSeq(s, b + 1, Len(s)))
<1>1. PICK n \in Nat : n = Len(s)
  BY DEF Text
<1>2. PICK t : t = Append(s, ch)
  OBVIOUS
<1>3. t \in Text /\ Len(t) = n + 1 /\ (\A i \in 1..n : t[i] = s[i]) /\ t[n + 1] = ch
  BY <1>1, <1>2, AppendProperties DEF Text
<1>4. PICK x, y : x = [e \in 1..n |-> Whole(s, e)] /\ y = [e \in 1..(n + 1) |-> Whole(t, e)]
  OBVIOUS
<1>5. Delimited(s) = FlattenSeq(x) /\ Delimited(t) = FlattenSeq(y)
  BY <1>1, <1>3, <1>4 DEF Delimited
<1>6. \A e \in 1..n : Whole(s, e) \in Text
  BY <1>1, WholeType
<1>7. \A e \in 1..(n + 1) : Whole(t, e) \in Text
  BY <1>3, WholeType
<1>8. n + 1 \in Nat /\ n + 1 \in 1..(n + 1) /\ n < n + 1 /\ n <= n + 1 /\ \A e \in 1..n : e \in 1..(n + 1)
  OBVIOUS
<1>9. x \in Seq(Text) /\ Len(x) = n /\ y \in Seq(Text) /\ Len(y) = n + 1
  BY <1>4, <1>6, <1>7, <1>8
<1>10. Agree(x, y, n)
  <2>1. ASSUME NEW e \in 1..n PROVE Whole(s, e) = Whole(t, e)
    <3>1. e \in Nat /\ e > 0 /\ e <= Len(s) /\ e <= Len(t) /\ \A i \in 1..e : i \in 1..n
      BY <1>1, <1>3
    <3>2. Agree(s, t, e)
      BY <1>3, <3>1 DEF Agree
    <3> QED
      BY <1>3, <3>1, <3>2, WholeSame
  <2> QED
    BY <1>4, <1>8, <2>1 DEF Agree
<1>11. FlattenSeq(x) \in Text /\ FlattenSeq(y) = FlattenSeq(x) \o y[n + 1]
  BY <1>9, <1>10, FlattenNext
<1>12. y[n + 1] = Whole(t, n + 1)
  BY <1>4, <1>8
<1>13. Agree(s, t, n)
  BY <1>3 DEF Agree
<1>14. LastBreak(t, n, b)
  BY <1>1, <1>13, BreakSame
<1>15. Whole(t, n + 1) = Entire(t[n + 1], SubSeq(t, b + 1, n))
  BY <1>3, <1>8, <1>14, WholeIs
<1>16. SubSeq(t, b + 1, n) = SubSeq(s, b + 1, n)
  <2>1. b \in Nat /\ b <= n /\ n <= Len(s) /\ n <= Len(t) /\ \A j \in (b + 1)..n : j \in 1..n
    BY <1>1, <1>3 DEF LastBreak
  <2>2. \A j \in (b + 1)..n : t[j] = s[j]
    BY <1>3, <2>1
  <2> QED
    BY <1>3, <2>1, <2>2, SamePart
<1> QED
  BY <1>1, <1>2, <1>3, <1>5, <1>11, <1>12, <1>15, <1>16, Zenon

-----------------------------------------------------------------------------
(* The parser of rsyncrypto_recover. *)

LEMMA ValidIs ==
  ASSUME NEW p \in Text
  PROVE  Valid(p) <=> /\ Len(p) > CipherLen + 2 /\ p[1] \in Separators
                      /\ \A i \in 1..CipherLen : p[1 + i] \in Hex
                      /\ p[CipherLen + 2] = Space
<1>1. CipherLen \in Nat /\ Len(p) \in Nat
  BY FormatParams DEF Text
<1>2. ASSUME Len(p) > CipherLen + 2
      PROVE  SubSeq(p, 2, CipherLen + 1) \in Ciphers <=> \A i \in 1..CipherLen : p[1 + i] \in Hex
  <2>1. PICK c : c = SubSeq(p, 2, CipherLen + 1)
    OBVIOUS
  <2>2. 1 \in Nat /\ 1 + 1 = 2 /\ CipherLen + 1 \in Nat /\ 1 <= CipherLen + 1 /\ CipherLen + 1 <= Len(p)
        /\ (CipherLen + 1) - 1 = CipherLen
    BY <1>1, <1>2
  <2>3. c \in Text /\ Len(c) = CipherLen /\ \A i \in 1..CipherLen : c[i] = p[1 + i]
    <3>1. PICK l \in Nat : l = CipherLen + 1
      BY <2>2
    <3>2. PICK d : d = SubSeq(p, 1 + 1, l)
      OBVIOUS
    <3>3. d \in Text /\ Len(d) = l - 1 /\ \A i \in 1..(l - 1) : d[i] = p[1 + i]
      BY <2>2, <3>1, <3>2, Slice
    <3>4. c = d
      BY <2>1, <2>2, <3>1, <3>2
    <3> QED
      BY <2>2, <3>1, <3>3, <3>4
  <2>4. c \in Ciphers => \A i \in 1..CipherLen : p[1 + i] \in Hex
    BY <2>3 DEF Ciphers
  <2>5. (\A i \in 1..CipherLen : p[1 + i] \in Hex) => c \in Ciphers
    <3>1. c \in [1..CipherLen -> Char]
      BY <2>3 DEF Text
    <3> QED
      BY <2>3, <3>1 DEF Ciphers
  <2> QED
    BY <2>1, <2>4, <2>5
<1> QED
  BY <1>2 DEF Valid

\* A character that no record has at place i of its line.
BadAt(i, ch) ==
  \/ i = 1 /\ ch \notin Separators
  \/ i \in 2..(CipherLen + 1) /\ ch \notin Hex
  \/ i = CipherLen + 2 /\ ch # Space

LEMMA BadNotValid ==
  ASSUME NEW p \in Text, NEW i \in 1..Len(p), BadAt(i, p[i])
  PROVE  ~Valid(p)
<1> SUFFICES ASSUME Valid(p) PROVE FALSE
  OBVIOUS
<1>1. /\ p[1] \in Separators /\ p[CipherLen + 2] = Space
      /\ \A j \in 1..CipherLen : p[1 + j] \in Hex
  BY ValidIs
<1>2. CipherLen \in Nat
  BY FormatParams
<1>3. CASE i \in 2..(CipherLen + 1) /\ p[i] \notin Hex
  <2>1. PICK j \in Nat : i = 1 + j
    BY <1>3
  <2>2. j \in 1..CipherLen
    BY <1>2, <1>3, <2>1
  <2> QED
    BY <1>1, <1>3, <2>1, <2>2
<1> QED
  BY <1>1, <1>3 DEF BadAt

\* Separator and n digits of the line behind b of f are in the record.
Digits(f, b, rec, n) ==
  /\ rec.dirsep = f[b + 1] /\ f[b + 1] \in Separators
  /\ Len(rec.cipher) = n /\ \A i \in 1..n : rec.cipher[i] = f[b + 1 + i]

\* ... and m characters of its name.
Named(f, b, rec, m) ==
  /\ f[b + CipherLen + 2] = Space
  /\ Len(rec.plain) = m /\ \A i \in 1..m : rec.plain[i] = f[b + CipherLen + 2 + i]

\* What the state of the parser, at place o of f, says of the line it is in,
\* which is the line behind b.
InDirsep(o, b) == o = b
In107(f, o, b) == o = b + 1 /\ f[b + 1] = Space
InCipher(f, o, rec, b) == \E n \in Nat : /\ o = b + 1 + n /\ n < CipherLen
                                         /\ Digits(f, b, rec, n) /\ rec.plain = <<>>
InSpace(f, o, rec, b) == o = b + 1 + CipherLen /\ Digits(f, b, rec, CipherLen) /\ rec.plain = <<>>
InPlain(f, o, rec, b) == \E m \in Nat : /\ o = b + CipherLen + 2 + m
                                        /\ Digits(f, b, rec, CipherLen) /\ Named(f, b, rec, m)
InInvalid(f, o, b) == \E i \in Nat : i > 0 /\ b + i <= o /\ BadAt(i, f[b + i])

ParserAt(f, o, st, rec, b) ==
  /\ LastBreak(f, o, b)
  /\ st = "DIRSEP" => InDirsep(o, b)
  /\ st = "RSYNC107_INVALID" => In107(f, o, b)
  /\ st = "CIPHERNAME" => InCipher(f, o, rec, b)
  /\ st = "SPACE" => InSpace(f, o, rec, b)
  /\ st = "PLAINNAME" => InPlain(f, o, rec, b)
  /\ st = "INVALID" => InInvalid(f, o, b)

\* The line read so far is a record, but for its NUL, if the parser is in its
\* name; then it is the record the parser has.
LEMMA ParserPiece ==
  ASSUME FfTyped, NEW b, ParserAt(file, offset, state, record, b)
  PROVE  /\ SubSeq(file, b + 1, offset) \in Text
         /\ Valid(SubSeq(file, b + 1, offset)) <=> (state = "PLAINNAME" /\ Printed(record))
         /\ state = "PLAINNAME" => Append(SubSeq(file, b + 1, offset), Nul) = Bytes(record)
<1>1. PICK o \in Nat : o = offset
  BY DEF FfTyped, ReaderTyped
<1>2. PICK f \in Text : f = file
  BY DEF FfTyped, StoreTyped
<1>3. CipherLen \in Nat /\ Len(f) \in Nat /\ o <= Len(f) /\ state \in States
      /\ record \in [dirsep : Char, cipher : Seq(Hex), plain : Text]
  BY <1>1, <1>2, FormatParams DEF FfTyped, ReaderTyped, Text
<1>4. LastBreak(f, o, b) /\ b \in Nat /\ b <= o
  BY <1>1, <1>2 DEF ParserAt, LastBreak
<1>5. PICK p : p = SubSeq(f, b + 1, o)
  OBVIOUS
<1>6. p \in Text /\ Len(p) = o - b /\ \A i \in 1..(o - b) : p[i] = f[b + i]
  BY <1>3, <1>4, <1>5, Slice
<1>7. CASE state = "DIRSEP" \/ state = "RSYNC107_INVALID" \/ state = "CIPHERNAME" \/ state = "SPACE"
  <2>1. state = "DIRSEP" => InDirsep(o, b)
    BY <1>1, <1>2 DEF ParserAt
  <2>2. state = "RSYNC107_INVALID" => In107(f, o, b)
    BY <1>1, <1>2 DEF ParserAt
  <2>3. state = "CIPHERNAME" => InCipher(f, o, record, b)
    BY <1>1, <1>2 DEF ParserAt
  <2>4. state = "SPACE" => InSpace(f, o, record, b)
    BY <1>1, <1>2 DEF ParserAt
  <2>5. state = "DIRSEP" => o - b <= CipherLen + 1
    BY <1>3, <1>4, <2>1 DEF InDirsep
  <2>6. state = "RSYNC107_INVALID" => o - b <= CipherLen + 1
    BY <1>3, <1>4, <2>2 DEF In107
  <2>7. state = "CIPHERNAME" => o - b <= CipherLen + 1
    <3> SUFFICES ASSUME state = "CIPHERNAME" PROVE o - b <= CipherLen + 1
      OBVIOUS
    <3>1. PICK n \in Nat : o = b + 1 + n /\ n < CipherLen
      BY <2>3 DEF InCipher
    <3> QED
      BY <1>3, <1>4, <3>1
  <2>8. state = "SPACE" => o - b <= CipherLen + 1
    BY <1>3, <1>4, <2>4 DEF InSpace
  <2>9. ~(Len(p) > CipherLen + 2)
    BY <1>3, <1>4, <1>6, <1>7, <2>5, <2>6, <2>7, <2>8
  <2>10. ~Valid(p) /\ state # "PLAINNAME"
    BY <1>7, <2>9 DEF Valid
  <2> QED
    BY <1>1, <1>2, <1>5, <1>6, <2>10
<1>8. CASE state = "INVALID"
  <2>1. InInvalid(f, o, b)
    BY <1>1, <1>2, <1>8 DEF ParserAt
  <2>2. PICK i \in Nat : i > 0 /\ b + i <= o /\ BadAt(i, f[b + i])
    BY <2>1 DEF InInvalid
  <2>3. i \in 1..(o - b)
    BY <1>4, <2>2
  <2>4. BadAt(i, p[i]) /\ i \in 1..Len(p)
    BY <1>6, <2>2, <2>3
  <2>5. ~Valid(p)
    BY <1>6, <2>4, BadNotValid
  <2> QED
    BY <1>1, <1>2, <1>5, <1>6, <1>8, <2>5
<1>9. CASE state = "PLAINNAME"
  <2>1. InPlain(f, o, record, b)
    BY <1>1, <1>2, <1>9 DEF ParserAt
  <2>2. PICK m \in Nat : o = b + CipherLen + 2 + m /\ Digits(f, b, record, CipherLen) /\ Named(f, b, record, m)
    BY <2>1 DEF InPlain
  <2>3. o - b = CipherLen + 2 + m
    BY <1>3, <1>4, <2>2
  <2>4. PICK ci, pl : ci = record.cipher /\ pl = record.plain
    OBVIOUS
  <2>5. ci \in Text /\ pl \in Text /\ ci \in Seq(Hex) /\ record \in Records
    BY <1>3, <2>4, Texts DEF Records
  <2>6. /\ record.dirsep = f[b + 1] /\ f[b + 1] \in Separators /\ Len(ci) = CipherLen
        /\ \A i \in 1..CipherLen : ci[i] = f[b + 1 + i]
    BY <2>2, <2>4 DEF Digits
  <2>7. f[b + CipherLen + 2] = Space /\ Len(pl) = m /\ \A i \in 1..m : pl[i] = f[b + CipherLen + 2 + i]
    BY <2>2, <2>4 DEF Named
  <2>8. p[1] = f[b + 1]
    <3>1. 1 \in 1..(o - b)
      BY <1>3, <2>3
    <3> QED
      BY <1>6, <3>1
  <2>9. \A i \in 1..CipherLen : p[1 + i] = ci[i]
    <3>1. \A i \in 1..CipherLen : 1 + i \in 1..(o - b) /\ b + (1 + i) = b + 1 + i
      BY <1>3, <1>4, <2>3
    <3> QED
      BY <1>6, <2>6, <3>1
  <2>10. p[CipherLen + 2] = Space
    <3>1. CipherLen + 2 \in 1..(o - b) /\ b + (CipherLen + 2) = b + CipherLen + 2
      BY <1>3, <1>4, <2>3
    <3> QED
      BY <1>6, <2>7, <3>1
  <2>11. \A i \in 1..m : p[CipherLen + 2 + i] = pl[i]
    <3>1. \A i \in 1..m : CipherLen + 2 + i \in 1..(o - b) /\ b + (CipherLen + 2 + i) = b + CipherLen + 2 + i
      BY <1>3, <1>4, <2>3
    <3> QED
      BY <1>6, <2>7, <3>1
  <2>12. \A i \in 1..CipherLen : ci[i] \in Hex
    BY <2>5, <2>6, ElementOfSeq
  <2>13. Valid(p) <=> Len(p) > CipherLen + 2
    BY <1>6, <2>6, <2>8, <2>9, <2>10, <2>12, ValidIs
  <2>14. Len(p) > CipherLen + 2 <=> m # 0
    BY <1>3, <1>6, <2>3
  <2>15. m # 0 <=> pl # <<>>
    BY <2>5, <2>7, EmptySeq DEF Text
  <2>16. PICK q : q = Append(p, Nul)
    OBVIOUS
  <2>17. q \in Text /\ Len(q) = Len(p) + 1 /\ (\A i \in 1..Len(p) : q[i] = p[i]) /\ q[Len(p) + 1] = Nul
    BY <1>6, <2>16, Kinds, AppendProperties DEF Text
  <2>18. PICK c \in Nat : c = CipherLen
    BY <1>3
  <2>19. q \in Text /\ Len(q) = c + m + 3 /\ q[c + m + 3] = Nul /\ \A i \in 1..(c + 2 + m) : q[i] = p[i]
    <3>1. Len(p) = c + 2 + m /\ (c + 2 + m) + 1 = c + m + 3
      BY <1>6, <2>3, <2>18
    <3> QED
      BY <2>17, <3>1
  <2>20. q[1] = record.dirsep
    <3>1. 1 \in 1..(c + 2 + m)
      OBVIOUS
    <3> QED
      BY <2>6, <2>8, <2>19, <3>1
  <2>21. \A i \in 1..c : q[1 + i] = ci[i]
    <3>1. \A i \in 1..c : 1 + i \in 1..(c + 2 + m)
      OBVIOUS
    <3> QED
      BY <2>9, <2>18, <2>19, <3>1
  <2>22. q[c + 2] = Space
    <3>1. c + 2 \in 1..(c + 2 + m)
      OBVIOUS
    <3> QED
      BY <2>10, <2>18, <2>19, <3>1
  <2>23. \A i \in 1..m : q[c + 2 + i] = pl[i]
    <3>1. \A i \in 1..m : c + 2 + i \in 1..(c + 2 + m)
      OBVIOUS
    <3> QED
      BY <2>11, <2>18, <2>19, <3>1
  <2>24. Len(ci) = c
    BY <2>6, <2>18
  <2>25. Spelled(q, record)
    BY <2>4, <2>7, <2>19, <2>20, <2>21, <2>22, <2>23, <2>24 DEF Spelled
  <2>26. q = Bytes(record)
    BY <2>5, <2>25, SpelledBytes
  <2>27. Valid(p) <=> Printed(record)
    BY <2>4, <2>13, <2>14, <2>15 DEF Printed
  <2> QED
    BY <1>1, <1>2, <1>5, <1>6, <1>9, <2>16, <2>26, <2>27
<1> QED
  BY <1>3, <1>7, <1>8, <1>9 DEF States

LEMMA ParserStep ==
  ASSUME FfTyped, NEW b, ParserAt(file, offset, state, record, b), RecoverByte
  PROVE  \E c : ParserAt(file', offset', state', record', c)
<1>1. PICK ch : \/ ReadDirsep(ch) \/ Read107(ch) \/ ReadCipher(ch)
                \/ ReadSpace(ch) \/ ReadPlain(ch) \/ ReadInvalid(ch)
  BY DEF RecoverByte
<1>2. PICK o \in Nat, f \in Text : o = offset /\ f = file
  BY DEF FfTyped, ReaderTyped, StoreTyped
<1>3. /\ file' = f /\ offset' = o + 1 /\ ch = f[o + 1]
  BY <1>1, <1>2 DEF ReadDirsep, Read107, ReadCipher, ReadSpace, ReadPlain, ReadInvalid, Turn
<1>4. /\ CipherLen \in Nat /\ CipherLen > 0
      /\ record \in [dirsep : Char, cipher : Seq(Hex), plain : Text]
  BY FormatParams DEF FfTyped, ReaderTyped
<1>5. b \in 0..o /\ (b = 0 \/ f[b] = Nul) /\ \A i \in (b + 1)..o : f[i] # Nul
  BY <1>2 DEF ParserAt, LastBreak
<1>6. CASE ch = Nul
  <2>1. state' = "DIRSEP"
    BY <1>1, <1>6, Kinds DEF ReadDirsep, Read107, ReadCipher, ReadSpace, ReadPlain, ReadInvalid, Turn
  <2>2. LastBreak(f, o + 1, o + 1)
    BY <1>3, <1>6 DEF LastBreak
  <2>3. ParserAt(f, o + 1, state', record', o + 1)
    BY <2>1, <2>2 DEF ParserAt, InDirsep
  <2> QED
    BY <1>3, <2>3
<1>7. CASE ch # Nul
  <2>1. LastBreak(f, o + 1, b)
    <3>1. \A i \in (b + 1)..(o + 1) : i \in (b + 1)..o \/ i = o + 1
      BY <1>5
    <3>2. \A i \in (b + 1)..(o + 1) : f[i] # Nul
      BY <1>3, <1>5, <1>7, <3>1
    <3> QED
      BY <1>5, <3>2 DEF LastBreak
  <2>2. ASSUME state' = "INVALID", NEW i \in Nat, i > 0, b + i <= o + 1, BadAt(i, f[b + i])
        PROVE  ParserAt(f, o + 1, state', record', b)
    BY <2>1, <2>2 DEF ParserAt, InInvalid
  <2>3. CASE ReadDirsep(ch)
    <3>1. state = "DIRSEP" /\ record' = [dirsep |-> ch, cipher |-> <<>>, plain |-> <<>>]
      BY <2>3 DEF ReadDirsep, Turn, NoRecord
    <3>2. o = b
      BY <1>2, <3>1 DEF ParserAt, InDirsep
    <3>3. CASE ch \in Separators
      <4>1. state' = "CIPHERNAME"
        BY <1>7, <2>3, <3>3, Kinds DEF ReadDirsep, Turn
      <4>2. record'.dirsep = ch /\ record'.cipher = <<>> /\ record'.plain = <<>>
        BY <3>1
      <4>3. Digits(f, b, record', 0)
        BY <1>3, <3>2, <3>3, <4>2, Kinds DEF Digits
      <4>4. o + 1 = b + 1 + 0 /\ 0 < CipherLen /\ 0 \in Nat
        BY <1>4, <1>5, <3>2
      <4>5. InCipher(f, o + 1, record', b)
        BY <4>2, <4>3, <4>4 DEF InCipher
      <4> QED
        BY <1>3, <2>1, <4>1, <4>5 DEF ParserAt
    <3>4. CASE ch \notin Separators /\ ch = Space
      <4>1. state' = "RSYNC107_INVALID"
        BY <1>7, <2>3, <3>4 DEF ReadDirsep, Turn
      <4>2. In107(f, o + 1, b)
        BY <1>3, <3>2, <3>4 DEF In107
      <4> QED
        BY <1>3, <2>1, <4>1, <4>2 DEF ParserAt
    <3>5. CASE ch \notin Separators /\ ch # Space
      <4>1. state' = "INVALID"
        BY <1>7, <2>3, <3>5 DEF ReadDirsep, Turn
      <4>2. BadAt(1, f[b + 1]) /\ b + 1 <= o + 1 /\ 1 \in Nat /\ 1 > 0
        BY <1>3, <1>5, <3>2, <3>5 DEF BadAt
      <4>3. ParserAt(f, o + 1, state', record', b)
        BY <2>2, <4>1, <4>2
      <4> QED
        BY <1>3, <4>3
    <3> QED
      BY <3>3, <3>4, <3>5
  <2>4. CASE Read107(ch)
    <3>1. state = "RSYNC107_INVALID" /\ state' = "INVALID"
      BY <1>7, <2>4 DEF Read107, Turn
    <3>2. o = b + 1 /\ f[b + 1] = Space
      BY <1>2, <3>1 DEF ParserAt, In107
    <3>3. Space \notin Separators
      BY Kinds
    <3>4. BadAt(1, f[b + 1])
      BY <3>2, <3>3 DEF BadAt
    <3>5. 1 \in Nat /\ 1 > 0 /\ b + 1 <= o + 1
      BY <1>5
    <3>6. ParserAt(f, o + 1, state', record', b)
      BY <2>2, <3>1, <3>4, <3>5
    <3> QED
      BY <1>3, <3>6
  <2>5. CASE ReadCipher(ch)
    <3>1. state = "CIPHERNAME"
      BY <2>5 DEF ReadCipher, Turn
    <3>2. InCipher(f, o, record, b)
      BY <1>2, <3>1 DEF ParserAt
    <3>3. PICK n \in Nat : o = b + 1 + n /\ n < CipherLen /\ Digits(f, b, record, n) /\ record.plain = <<>>
      BY <3>2 DEF InCipher
    <3>4. CASE ch \notin Hex
      <4>1. state' = "INVALID"
        BY <1>7, <2>5, <3>4 DEF ReadCipher, Turn
      <4>2. n + 2 \in 2..(CipherLen + 1) /\ b + (n + 2) = o + 1 /\ n + 2 \in Nat /\ n + 2 > 0
            /\ b + (n + 2) <= o + 1
        BY <1>4, <1>5, <3>3
      <4>3. BadAt(n + 2, f[b + (n + 2)])
        BY <1>3, <3>4, <4>2 DEF BadAt
      <4>4. ParserAt(f, o + 1, state', record', b)
        BY <2>2, <4>1, <4>2, <4>3
      <4> QED
        BY <1>3, <4>4
    <3>5. CASE ch \in Hex
      <4>1. PICK ci, d : ci = record.cipher /\ d = Append(ci, ch)
        OBVIOUS
      <4>2. /\ Len(ci) = n /\ \A i \in 1..n : ci[i] = f[b + 1 + i]
            /\ record.dirsep = f[b + 1] /\ f[b + 1] \in Separators
        BY <3>3, <4>1 DEF Digits
      <4>3. ci \in Seq(Hex)
        BY <1>4, <4>1
      <4>4. Len(d) = n + 1 /\ (\A i \in 1..n : d[i] = ci[i]) /\ d[n + 1] = ch
        BY <3>5, <4>1, <4>2, <4>3, AppendProperties
      <4>5. record' = [record EXCEPT !.cipher = d]
        BY <2>5, <3>5, <4>1 DEF ReadCipher
      <4>6. record'.cipher = d /\ record'.dirsep = record.dirsep /\ record'.plain = <<>>
        BY <1>4, <3>3, <4>5
      <4>7. \A i \in 1..(n + 1) : d[i] = f[b + 1 + i]
        <5>1. b + 1 + (n + 1) = o + 1
          BY <1>5, <3>3
        <5>2. \A i \in 1..(n + 1) : i \in 1..n \/ i = n + 1
          OBVIOUS
        <5> QED
          BY <1>3, <4>2, <4>4, <5>1, <5>2
      <4>8. Digits(f, b, record', n + 1)
        BY <4>2, <4>4, <4>6, <4>7 DEF Digits
      <4>9. o + 1 = b + 1 + (n + 1)
        BY <1>5, <3>3
      <4>10. state' = IF n + 1 = CipherLen THEN "SPACE" ELSE "CIPHERNAME"
        BY <2>5, <3>5, <4>1, <4>2 DEF ReadCipher, Turn, Complete
      <4>11. CASE n + 1 = CipherLen
        <5>1. InSpace(f, o + 1, record', b)
          BY <4>6, <4>8, <4>9, <4>11 DEF InSpace
        <5>2. state' = "SPACE"
          BY <4>10, <4>11
        <5> QED
          BY <1>3, <2>1, <5>1, <5>2 DEF ParserAt
      <4>12. CASE n + 1 # CipherLen
        <5>1. n + 1 \in Nat /\ n + 1 < CipherLen
          BY <1>4, <3>3, <4>12
        <5>2. InCipher(f, o + 1, record', b)
          BY <4>6, <4>8, <4>9, <5>1 DEF InCipher
        <5>3. state' = "CIPHERNAME"
          BY <4>10, <4>12
        <5> QED
          BY <1>3, <2>1, <5>2, <5>3 DEF ParserAt
      <4> QED
        BY <4>11, <4>12
    <3> QED
      BY <3>4, <3>5
  <2>6. CASE ReadSpace(ch)
    <3>1. state = "SPACE" /\ record' = record
      BY <2>6 DEF ReadSpace, Turn
    <3>2. o = b + 1 + CipherLen /\ Digits(f, b, record, CipherLen) /\ record.plain = <<>>
      BY <1>2, <3>1 DEF ParserAt, InSpace
    <3>3. o + 1 = b + CipherLen + 2 /\ b + (CipherLen + 2) = o + 1 /\ CipherLen + 2 \in Nat /\ CipherLen + 2 > 0
          /\ b + (CipherLen + 2) <= o + 1
      BY <1>4, <1>5, <3>2
    <3>4. CASE ch = Space
      <4>1. state' = "PLAINNAME"
        BY <2>6, <3>4 DEF ReadSpace, Turn
      <4>2. Named(f, b, record', 0)
        BY <1>3, <3>1, <3>2, <3>3, <3>4, Kinds DEF Named
      <4>3. o + 1 = b + CipherLen + 2 + 0 /\ 0 \in Nat
        BY <1>4, <1>5, <3>3
      <4>4. InPlain(f, o + 1, record', b)
        BY <3>1, <3>2, <4>2, <4>3 DEF InPlain
      <4> QED
        BY <1>3, <2>1, <4>1, <4>4 DEF ParserAt
    <3>5. CASE ch # Space
      <4>1. state' = "INVALID"
        BY <1>7, <2>6, <3>5 DEF ReadSpace, Turn
      <4>2. BadAt(CipherLen + 2, f[b + (CipherLen + 2)])
        BY <1>3, <3>3, <3>5 DEF BadAt
      <4>3. ParserAt(f, o + 1, state', record', b)
        BY <2>2, <3>3, <4>1, <4>2
      <4> QED
        BY <1>3, <4>3
    <3> QED
      BY <3>4, <3>5
  <2>7. CASE ReadPlain(ch)
    <3>1. state = "PLAINNAME" /\ state' = "PLAINNAME"
      BY <1>7, <2>7 DEF ReadPlain, Turn
    <3>2. InPlain(f, o, record, b)
      BY <1>2, <3>1 DEF ParserAt
    <3>3. PICK m \in Nat : o = b + CipherLen + 2 + m /\ Digits(f, b, record, CipherLen) /\ Named(f, b, record, m)
      BY <3>2 DEF InPlain
    <3>4. PICK pl, d : pl = record.plain /\ d = Append(pl, ch)
      OBVIOUS
    <3>5. pl \in Text /\ ch \in Char
      <4>1. ch \in Char
        BY <2>7, CharRead DEF ReadPlain
      <4> QED
        BY <1>4, <3>4, <4>1
    <3>6. f[b + CipherLen + 2] = Space /\ Len(pl) = m /\ \A i \in 1..m : pl[i] = f[b + CipherLen + 2 + i]
      BY <3>3, <3>4 DEF Named
    <3>7. Len(d) = m + 1 /\ (\A i \in 1..m : d[i] = pl[i]) /\ d[m + 1] = ch
      BY <3>4, <3>5, <3>6, AppendProperties DEF Text
    <3>8. record' = [record EXCEPT !.plain = d]
      BY <1>7, <2>7, <3>4 DEF ReadPlain
    <3>9. record'.plain = d /\ record'.dirsep = record.dirsep /\ record'.cipher = record.cipher
      BY <1>4, <3>8
    <3>10. o + 1 = b + CipherLen + 2 + (m + 1)
      BY <1>4, <1>5, <3>3
    <3>11. \A i \in 1..(m + 1) : d[i] = f[b + CipherLen + 2 + i]
      <4>1. \A i \in 1..(m + 1) : i \in 1..m \/ i = m + 1
        OBVIOUS
      <4> QED
        BY <1>3, <3>6, <3>7, <3>10, <4>1
    <3>12. Named(f, b, record', m + 1)
      BY <3>6, <3>7, <3>9, <3>11 DEF Named
    <3>13. Digits(f, b, record', CipherLen)
      BY <3>3, <3>9 DEF Digits
    <3>14. m + 1 \in Nat
      OBVIOUS
    <3>15. InPlain(f, o + 1, record', b)
      BY <3>10, <3>12, <3>13, <3>14 DEF InPlain
    <3> QED
      BY <1>3, <2>1, <3>1, <3>15 DEF ParserAt
  <2>8. CASE ReadInvalid(ch)
    <3>1. state = "INVALID" /\ state' = "INVALID"
      BY <1>7, <2>8 DEF ReadInvalid, Turn
    <3>2. InInvalid(f, o, b)
      BY <1>2, <3>1 DEF ParserAt
    <3>3. PICK i \in Nat : i > 0 /\ b + i <= o /\ BadAt(i, f[b + i])
      BY <3>2 DEF InInvalid
    <3>4. b + i <= o + 1
      BY <1>5, <3>3
    <3>5. ParserAt(f, o + 1, state', record', b)
      BY <2>2, <3>1, <3>3, <3>4
    <3> QED
      BY <1>3, <3>5
  <2> QED
    BY <1>1, <2>3, <2>4, <2>5, <2>6, <2>7, <2>8
<1> QED
  BY <1>6, <1>7

-----------------------------------------------------------------------------
(* rsyncrypto_recover prints exactly the records. *)

\* The reader of a process that does not recover is not used.
FfReading ==
  /\ pc = "recover" => /\ \E b : ParserAt(file, offset, state, record, b)
                       /\ out = Delimited(SubSeq(file, 1, offset))
  /\ pc # "recover" => state = "DIRSEP" /\ record = NoRecord /\ out = <<>>
  /\ pc \in {"idle"} \cup Refusals => offset = 0

LEMMA DelimEmpty == Delimited(<<>>) = <<>>
<1>1. Len(<<>>) = 0 /\ [e \in 1..0 |-> Whole(<<>>, e)] = <<>>
  OBVIOUS
<1>2. Delimited(<<>>) = FlattenSeq(<<>>)
  BY <1>1 DEF Delimited
<1> QED
  BY <1>2, FlattenEmpty

\* What a turn of the loop prints is what its character delimits.
LEMMA Prints ==
  ASSUME FfTyped, NEW b, ParserAt(file, offset, state, record, b), RecoverByte
  PROVE  /\ file[offset + 1] \in Char
         /\ out' = out \o Entire(file[offset + 1], SubSeq(file, b + 1, offset))
<1>1. PICK ch : \/ ReadDirsep(ch) \/ Read107(ch) \/ ReadCipher(ch)
                \/ ReadSpace(ch) \/ ReadPlain(ch) \/ ReadInvalid(ch)
  BY DEF RecoverByte
<1>2. ch = file[offset + 1] /\ ch \in Char
  BY <1>1, CharRead DEF ReadDirsep, Read107, ReadCipher, ReadSpace, ReadPlain, ReadInvalid
<1>3. out \in Text /\ out \o <<>> = out
  <2>1. out \in Text
    BY DEF FfTyped, ReaderTyped
  <2> QED
    BY <2>1, ConcatEmptySeq DEF Text
<1>4. PICK p : p = SubSeq(file, b + 1, offset)
  OBVIOUS
<1>5. Valid(p) <=> (state = "PLAINNAME" /\ Printed(record))
  BY <1>4, ParserPiece
<1>6. CASE ~ReadPlain(ch)
  <2>1. state # "PLAINNAME" /\ out' = out
    BY <1>1, <1>6 DEF ReadDirsep, Read107, ReadCipher, ReadSpace, ReadInvalid, Turn
  <2>2. Entire(ch, p) = <<>>
    BY <1>5, <2>1 DEF Entire
  <2> QED
    BY <1>2, <1>3, <1>4, <2>1, <2>2, Zenon
<1>7. CASE ReadPlain(ch)
  <2>1. state = "PLAINNAME"
    BY <1>7 DEF ReadPlain, Turn
  <2>2. Append(p, Nul) = Bytes(record)
    BY <1>4, <2>1, ParserPiece
  <2>3. CASE ch = Nul /\ Printed(record)
    <3>1. out' = out \o Bytes(record)
      BY <1>7, <2>3 DEF ReadPlain
    <3>2. Entire(ch, p) = Bytes(record)
      BY <1>5, <2>1, <2>2, <2>3 DEF Entire
    <3> QED
      BY <1>2, <1>4, <3>1, <3>2, Zenon
  <2>4. CASE ~(ch = Nul /\ Printed(record))
    <3>1. out' = out
      BY <1>7, <2>4 DEF ReadPlain
    <3>2. Entire(ch, p) = <<>>
      BY <1>5, <2>4 DEF Entire
    <3> QED
      BY <1>2, <1>3, <1>4, <3>1, <3>2, Zenon
  <2> QED
    BY <2>3, <2>4
<1> QED
  BY <1>6, <1>7

LEMMA ReadingTurn ==
  ASSUME FfTyped, FfReading, RecoverByte
  PROVE  FfReading'
<1>1. pc = "recover" /\ pc' = pc /\ file' = file /\ offset' = offset + 1 /\ offset < Len(file)
  BY DEF RecoverByte, ReadDirsep, Read107, ReadCipher, ReadSpace, ReadPlain, ReadInvalid, Turn
<1>2. PICK b : ParserAt(file, offset, state, record, b)
  BY <1>1 DEF FfReading
<1>3. \E c : ParserAt(file', offset', state', record', c)
  BY <1>2, ParserStep
<1>4. PICK o \in Nat, f \in Text : o = offset /\ f = file
  BY DEF FfTyped, ReaderTyped, StoreTyped
<1>5. PICK s : s = SubSeq(f, 1, o)
  OBVIOUS
<1>6. o <= Len(f) /\ o < Len(f)
  BY <1>1, <1>4 DEF Text
<1>7. s \in Text /\ Len(s) = o /\ \A j \in 1..o : s[j] = f[j]
  BY <1>5, <1>6, Prefix
<1>8. SubSeq(f, 1, o + 1) = Append(s, f[o + 1])
  BY <1>5, <1>6, Longer
<1>9. Agree(f, s, o) /\ LastBreak(f, o, b)
  BY <1>2, <1>4, <1>7 DEF Agree, ParserAt
<1>10. LastBreak(s, o, b)
  BY <1>9, BreakSame
<1>11. SubSeq(s, b + 1, o) = SubSeq(f, b + 1, o)
  <2>1. b \in Nat /\ b <= o /\ o <= Len(s) /\ \A j \in (b + 1)..o : j \in 1..o
    BY <1>7, <1>10 DEF LastBreak
  <2>2. \A j \in (b + 1)..o : s[j] = f[j]
    BY <1>7, <2>1
  <2> QED
    BY <1>6, <1>7, <2>1, <2>2, SamePart
<1>12. f[o + 1] \in Char /\ out' = out \o Entire(f[o + 1], SubSeq(f, b + 1, o))
  BY <1>2, <1>4, Prints
<1>13. Delimited(Append(s, f[o + 1])) = Delimited(s) \o Entire(f[o + 1], SubSeq(s, b + 1, Len(s)))
  BY <1>7, <1>10, <1>12, DelimNext
<1>14. out = Delimited(s)
  BY <1>1, <1>4, <1>5 DEF FfReading
<1>15. out' = Delimited(SubSeq(f, 1, o + 1))
  BY <1>7, <1>8, <1>11, <1>12, <1>13, <1>14, Zenon
<1>16. out' = Delimited(SubSeq(file', 1, offset'))
  BY <1>1, <1>4, <1>15, Zenon
<1>17. pc' = "recover"
  BY <1>1
<1> QED
  BY <1>3, <1>16, <1>17 DEF FfReading, Refusals

LEMMA ReadingStep == FfTyped /\ FfReading /\ [FfNext]_ffVars => FfReading'
<1> SUFFICES ASSUME FfTyped, FfReading, [FfNext]_ffVars PROVE FfReading'
  OBVIOUS
<1>1. CASE StartRecover
  <2>1. pc # "recover" /\ pc \in {"idle"} \cup Refusals
    BY <1>1 DEF StartRecover, Refusals
  <2>2. offset = 0 /\ state = "DIRSEP" /\ out = <<>>
    BY <2>1 DEF FfReading
  <2>3. file' = file /\ offset' = 0 /\ state' = "DIRSEP" /\ out' = <<>> /\ pc' = "recover"
    BY <1>1, <2>2 DEF StartRecover
  <2>4. LastBreak(file', 0, 0)
    BY DEF LastBreak
  <2>5. ParserAt(file', offset', state', record', 0)
    BY <2>3, <2>4 DEF ParserAt, InDirsep
  <2>6. SubSeq(file', 1, 0) = <<>>
    BY SubSeqEmpty
  <2>7. out' = Delimited(SubSeq(file', 1, offset'))
    BY <2>3, <2>6, DelimEmpty, Zenon
  <2> QED
    BY <2>3, <2>5, <2>7 DEF FfReading, Refusals
<1>2. CASE RecoverByte
  BY <1>2, ReadingTurn
<1>3. CASE RecoverDone \/ FillRefuses \/ ScanFailed \/ WriteMap \/ WriteCut \/ (FillDone /\ pc # "encrypt")
  <2>1. PICK how \in {"idle"} \cup Refusals : Ended(how)
    <3>1. FillRefuses => Verdict \in Refusals
      BY DEF FillRefuses, Verdict, Refusals
    <3> QED
      BY <1>3, <3>1 DEF RecoverDone, FillRefuses, ScanFailed, WriteMap, WriteCut, FillDone
  <2>2. pc' # "recover"
    BY <2>1 DEF Ended, Refusals
  <2> QED
    BY <2>1, <2>2 DEF Ended, FfReading
<1>4. CASE StartFill \/ FillEntry \/ (FillDone /\ pc = "encrypt")
  <2>1. pc # "recover" /\ pc' # "recover" /\ pc' \notin {"idle"} \cup Refusals
    BY <1>4 DEF StartFill, FillEntry, FillDone, Filling, Refusals
  <2>2. state' = state /\ record' = record /\ out' = out
    BY <1>4 DEF StartFill, FillEntry, FillDone
  <2> QED
    BY <2>1, <2>2 DEF FfReading
<1>5. ASSUME NEW p \in Paths, NEW c \in Ciphers, Name(p, c) PROVE FfReading'
  <2>1. pc = "filled" /\ pc' = pc /\ state' = state /\ record' = record /\ out' = out
    BY <1>5 DEF Name
  <2> QED
    BY <2>1 DEF FfReading, Refusals
<1>6. CASE UNCHANGED ffVars
  BY <1>6 DEF ffVars, FfReading
<1> QED
  BY <1>1, <1>2, <1>3, <1>4, <1>5, <1>6 DEF FfNext

LEMMA AlwaysReading == FfSpec => [](FfTyped /\ FfReading)
<1>1. FfInit => FfTyped /\ FfReading
  BY TypedInit DEF FfInit, FfReading
<1>2. FfTyped /\ FfReading /\ [FfNext]_ffVars => (FfTyped /\ FfReading)'
  BY TypedStep, ReadingStep
<1> QED
  BY <1>1, <1>2, PTL DEF FfSpec

\* rsyncrypto_recover prints the valid records of any file, all of them, in their
\* order, and nothing else: at every byte (recover.cpp, main).
THEOREM RecoveryExact == FfSpec => []RecoverExact
<1>1. FfTyped /\ FfReading => RecoverExact
  BY DEF FfReading, RecoverExact
<1> QED
  BY <1>1, AlwaysReading, PTL

-----------------------------------------------------------------------------
(* --ne-nesting *)

\* The last separator of path is at p; there is none if p is 0.
LastSep(path, p) ==
  /\ p \in 0..Len(path) /\ (p = 0 \/ path[p] = DirsepC)
  /\ \A i \in 1..Len(path) : path[i] = DirsepC => i <= p

NoneAdjacent(path) == \A i \in 1..Len(path) : path[i] = DirsepC => i = Len(path) \/ path[i + 1] # DirsepC

\* What FilePart finds behind a place, for the part that starts at right.
PartFound(path, p, right, skip) ==
  SubSeq(path, IF right + skip > p THEN right ELSE p + 1, Len(path))

\* One turn of FilePart.
Hop(path, f, right, skip) ==
  IF right + skip > Len(path) THEN SubSeq(path, right, Len(path))
  ELSE IF path[right + skip] = DirsepC THEN f[<<Behind(right + skip), 1>>]
  ELSE f[<<right, skip + 1>>]

LEMMA HopFinds ==
  ASSUME NEW path \in Text, NEW p, LastSep(path, p), NoneAdjacent(path),
         NEW right \in 1..(Len(path) + 1), NEW skip \in 0..Len(path), NEW f,
         \A r \in 1..(Len(path) + 1), s \in 0..Len(path) :
            r + s > right + skip => f[<<r, s>>] = PartFound(path, p, r, s)
  PROVE  Hop(path, f, right, skip) = PartFound(path, p, right, skip)
<1>1. PICK n \in Nat, a \in Nat : n = Len(path) /\ a = right + skip
  BY DEF Text
<1>2. /\ p \in 0..n /\ (p = 0 \/ path[p] = DirsepC)
      /\ \A i \in 1..n : path[i] = DirsepC => i <= p
  BY <1>1 DEF LastSep
<1>3. CASE a > n
  <2>1. a > p
    BY <1>2, <1>3
  <2>2. Hop(path, f, right, skip) = SubSeq(path, right, Len(path))
    BY <1>1, <1>3, Zenon DEF Hop
  <2>3. PartFound(path, p, right, skip) = SubSeq(path, right, Len(path))
    BY <1>1, <2>1, Zenon DEF PartFound
  <2> QED
    BY <2>2, <2>3, Zenon
<1>4. CASE a <= n /\ path[a] = DirsepC
  <2>1. a \in 1..n /\ a + 1 \in 1..(n + 1) /\ 1 \in 0..n /\ (a + 1) + 1 > right + skip
    BY <1>1, <1>4
  <2>2. a <= p
    BY <1>2, <1>4, <2>1
  <2>3. f[<<a + 1, 1>>] = PartFound(path, p, a + 1, 1)
    BY <1>1, <2>1
  <2>4. Hop(path, f, right, skip) = f[<<a + 1, 1>>]
    BY <1>1, <1>4 DEF Hop, Behind
  <2>5. p # a + 1
    <3>1. a = n \/ path[a + 1] # DirsepC
      BY <1>1, <1>4, <2>1 DEF NoneAdjacent
    <3> QED
      BY <1>2, <2>1, <3>1
  <2>6. (IF (a + 1) + 1 > p THEN a + 1 ELSE p + 1) = p + 1
    BY <1>2, <2>2, <2>5
  <2>7. (IF right + skip > p THEN right ELSE p + 1) = p + 1
    BY <1>1, <1>2, <2>2
  <2>8. PartFound(path, p, a + 1, 1) = SubSeq(path, p + 1, Len(path))
    BY <2>6 DEF PartFound
  <2>9. PartFound(path, p, right, skip) = SubSeq(path, p + 1, Len(path))
    BY <2>7 DEF PartFound
  <2> QED
    BY <2>3, <2>4, <2>8, <2>9
<1>5. CASE a <= n /\ path[a] # DirsepC
  <2>1. a \in 1..n /\ skip + 1 \in 0..n /\ right + (skip + 1) = a + 1 /\ right + (skip + 1) > right + skip
    BY <1>1, <1>5
  <2>2. a # p
    BY <1>2, <1>5, <2>1
  <2>3. f[<<right, skip + 1>>] = PartFound(path, p, right, skip + 1)
    BY <1>1, <2>1
  <2>4. Hop(path, f, right, skip) = f[<<right, skip + 1>>]
    BY <1>1, <1>5 DEF Hop
  <2>5. right + (skip + 1) > p <=> right + skip > p
    BY <1>1, <1>2, <2>1, <2>2
  <2>6. PartFound(path, p, right, skip + 1) = PartFound(path, p, right, skip)
    BY <2>5 DEF PartFound
  <2> QED
    BY <2>3, <2>4, <2>6
<1> QED
  BY <1>1, <1>3, <1>4, <1>5

LEMMA FilePartIs ==
  ASSUME NEW path \in Text, NEW p, LastSep(path, p), NoneAdjacent(path)
  PROVE  FilePart(path) = SubSeq(path, p + 1, Len(path))
<1>1. PICK n \in Nat : n = Len(path)
  BY DEF Text
<1>2. p \in 0..n
  BY <1>1 DEF LastSep
<1>3. PICK g : g = [at \in (1..(n + 1)) \X (0..n) |-> PartFound(path, p, at[1], at[2])]
  OBVIOUS
<1>4. \A r \in 1..(n + 1), s \in 0..n : g[<<r, s>>] = PartFound(path, p, r, s)
  BY <1>3
<1>5. \A r \in 1..(n + 1), s \in 0..n : Hop(path, g, r, s) = PartFound(path, p, r, s)
  BY <1>1, <1>4, HopFinds
<1>6. g = [at \in (1..(n + 1)) \X (0..n) |-> Hop(path, g, at[1], at[2])]
  BY <1>3, <1>5
<1>7. PICK f : f = CHOOSE h : h = [at \in (1..(n + 1)) \X (0..n) |-> Hop(path, h, at[1], at[2])]
  OBVIOUS
<1>8. f = [at \in (1..(n + 1)) \X (0..n) |-> Hop(path, f, at[1], at[2])]
  BY <1>6, <1>7, Zenon
<1>9. \A r \in 1..(n + 1), s \in 0..n : f[<<r, s>>] = Hop(path, f, r, s)
  BY <1>8
<1>10. FilePart(path) = f[<<1, 0>>]
  BY <1>1, <1>7, Zenon DEF FilePart, Hop
<1>11. \A r \in 1..(n + 1), s \in 0..n : f[<<r, s>>] = PartFound(path, p, r, s)
  <2> DEFINE T == {m \in Nat : \E r \in 1..(n + 1), s \in 0..n :
                                  r + s + m = n + n + 1 /\ f[<<r, s>>] # PartFound(path, p, r, s)}
  <2> SUFFICES ASSUME T # {} PROVE FALSE
    <3>1. ASSUME NEW r \in 1..(n + 1), NEW s \in 0..n, f[<<r, s>>] # PartFound(path, p, r, s) PROVE T # {}
      <4>1. n + n + 1 - (r + s) \in Nat /\ r + s + (n + n + 1 - (r + s)) = n + n + 1
        OBVIOUS
      <4>2. n + n + 1 - (r + s) \in T
        BY <3>1, <4>1
      <4> QED
        BY <4>2
    <3> HIDE DEF T
    <3> QED
      BY <3>1
  <2>1. PICK m \in T : \A k \in T : m <= k
    <3>1. T \in SUBSET Nat
      OBVIOUS
    <3> HIDE DEF T
    <3> QED
      BY <3>1, LeastNumber
  <2>2. PICK r \in 1..(n + 1), s \in 0..n : r + s + m = n + n + 1 /\ f[<<r, s>>] # PartFound(path, p, r, s)
    OBVIOUS
  <2>3. ASSUME NEW x \in 1..(n + 1), NEW y \in 0..n, x + y > r + s
        PROVE  f[<<x, y>>] = PartFound(path, p, x, y)
    <3>1. PICK k : k = n + n + 1 - (x + y)
      OBVIOUS
    <3>2. k \in Nat /\ x + y + k = n + n + 1 /\ ~(m <= k)
      <4>1. m \in Nat
        OBVIOUS
      <4> HIDE DEF T
      <4> QED
        BY <2>2, <2>3, <3>1, <4>1
    <3>3. k \notin T
      BY <2>1, <3>2
    <3> QED
      BY <3>2, <3>3
  <2>4. Hop(path, f, r, s) = PartFound(path, p, r, s)
    BY <1>1, <2>2, <2>3, HopFinds
  <2> QED
    BY <1>9, <2>2, <2>4
<1>12. f[<<1, 0>>] = PartFound(path, p, 1, 0)
  BY <1>11
<1>13. (IF 1 + 0 > p THEN 1 ELSE p + 1) = p + 1
  BY <1>2
<1> QED
  BY <1>10, <1>12, <1>13 DEF PartFound

\* The directories of a nested name: each ends in a separator, none is empty.
Directories(q) ==
  /\ q \in Text /\ NoneAdjacent(q)
  /\ Len(q) = 0 \/ q[Len(q)] = DirsepC

\* Directories and a name without separators.
LEMMA DirectoriesAndName ==
  ASSUME NEW q, Directories(q), NEW x \in Text, Len(x) > 0, \A i \in 1..Len(x) : x[i] # DirsepC
  PROVE  q \o x \in Text /\ LastSep(q \o x, Len(q)) /\ NoneAdjacent(q \o x)
<1>1. PICK y : y = q \o x
  OBVIOUS
<1>2. PICK m \in Nat, n \in Nat : m = Len(q) /\ n = Len(x)
  BY DEF Directories, Text
<1>3. /\ y \in Text /\ Len(y) = m + n /\ n > 0
      /\ (\A i \in 1..m : y[i] = q[i]) /\ \A i \in 1..n : y[m + i] = x[i]
  BY <1>1, <1>2, Concat DEF Directories
<1>4. m = 0 \/ q[m] = DirsepC
  BY <1>2 DEF Directories
<1>5. ASSUME NEW i \in 1..(m + n), i > m PROVE y[i] # DirsepC
  <2>1. i - m \in 1..n /\ m + (i - m) = i
    BY <1>5
  <2>2. y[m + (i - m)] = x[i - m]
    BY <1>3, <2>1
  <2> QED
    BY <1>2, <2>1, <2>2
<1>6. LastSep(y, m)
  <2>1. m = 0 \/ y[m] = DirsepC
    BY <1>3, <1>4
  <2>2. \A i \in 1..(m + n) : y[i] = DirsepC => i <= m
    BY <1>5
  <2>3. m \in 0..(m + n)
    OBVIOUS
  <2> QED
    BY <1>3, <2>1, <2>2, <2>3 DEF LastSep
<1>7. NoneAdjacent(y)
  <2> SUFFICES ASSUME NEW i \in 1..(m + n), y[i] = DirsepC, i # m + n PROVE y[i + 1] # DirsepC
    BY <1>3 DEF NoneAdjacent
  <2>1. i <= m
    BY <1>5
  <2>2. CASE i = m
    <3>1. m + 1 \in 1..(m + n) /\ m + 1 > m
      BY <1>3
    <3> QED
      BY <1>5, <2>2, <3>1
  <2>3. CASE i < m
    <3>1. i \in 1..m /\ i + 1 \in 1..m /\ i # m
      BY <2>3
    <3>2. q[i] = DirsepC
      BY <1>3, <3>1
    <3>3. q[i + 1] # DirsepC
      BY <1>2, <3>1, <3>2 DEF Directories, NoneAdjacent
    <3> QED
      BY <1>3, <3>1, <3>3
  <2> QED
    BY <2>1, <2>2, <2>3
<1> QED
  BY <1>1, <1>2, <1>3, <1>6, <1>7

\* One directory more.
LEMMA OneDirectoryMore ==
  ASSUME NEW q, Directories(q), NEW x \in Text, Len(x) > 0, \A i \in 1..Len(x) : x[i] # DirsepC
  PROVE  Append(x, DirsepC) \in Text /\ Directories(q \o Append(x, DirsepC))
<1>1. PICK y, z, d : y = q \o x /\ z = Append(y, DirsepC) /\ d = <<DirsepC>>
  OBVIOUS
<1>2. y \in Text /\ NoneAdjacent(y) /\ LastSep(y, Len(q)) /\ q \in Text
  BY <1>1, DirectoriesAndName DEF Directories
<1>3. d \in Text /\ DirsepC \in Char
  BY <1>1, Kinds DEF Text
<1>4. Append(x, DirsepC) = x \o d /\ z = y \o d
  BY <1>1, <1>2, <1>3, AppendIsConcat DEF Text
<1>5. (q \o x) \o d = q \o (x \o d)
  BY <1>2, <1>3, Assoc
<1>6. z = q \o Append(x, DirsepC)
  BY <1>1, <1>4, <1>5, Zenon
<1>7. PICK m \in Nat, n \in Nat : m = Len(q) /\ n = Len(y)
  BY <1>2 DEF Text
<1>8. /\ z \in Text /\ Len(z) = n + 1 /\ (\A i \in 1..n : z[i] = y[i]) /\ z[n + 1] = DirsepC
  BY <1>1, <1>2, <1>3, <1>7, AppendProperties DEF Text
<1>9. m < n /\ \A i \in 1..n : y[i] = DirsepC => i <= m
  <2>1. n = m + Len(x) /\ Len(x) \in Nat
    BY <1>1, <1>2, <1>7, Concat
  <2>2. m < n
    BY <2>1
  <2> QED
    BY <1>2, <1>7, <2>2 DEF LastSep
<1>10. NoneAdjacent(z)
  <2> SUFFICES ASSUME NEW i \in 1..(n + 1), z[i] = DirsepC, i # n + 1 PROVE z[i + 1] # DirsepC
    BY <1>8 DEF NoneAdjacent
  <2>1. i \in 1..n /\ y[i] = DirsepC
    <3>1. i \in 1..n
      OBVIOUS
    <3> QED
      BY <1>8, <3>1
  <2>2. i # n /\ i + 1 \in 1..n
    BY <1>9, <2>1
  <2>3. y[i + 1] # DirsepC
    BY <1>2, <1>7, <2>1, <2>2 DEF NoneAdjacent
  <2> QED
    BY <1>8, <2>2, <2>3
<1>11. Directories(z)
  BY <1>8, <1>10 DEF Directories
<1>12. Append(x, DirsepC) \in Text
  BY <1>3, AppendProperties DEF Text
<1> QED
  BY <1>6, <1>11, <1>12

\* What nest_name puts in front of a name.
Nest(c, level) == FlattenSeq([n \in 1..level |-> Append(SubSeq(c, 1, n), DirsepC)])

LEMMA NestIs ==
  ASSUME NEW c \in Ciphers, NEW level \in 0..CipherLen
  PROVE  Directories(Nest(c, level))
<1>1. /\ CipherLen \in Nat \ {0} /\ c \in Text /\ Len(c) = CipherLen /\ level \in Nat
      /\ \A i \in 1..CipherLen : c[i] \in Hex
  BY FormatParams, Texts DEF Ciphers
<1>2. \A i \in 1..CipherLen : c[i] # DirsepC
  BY <1>1, FormatParams
<1>3. ASSUME NEW n \in 1..CipherLen
      PROVE  /\ SubSeq(c, 1, n) \in Text /\ Len(SubSeq(c, 1, n)) > 0
             /\ \A i \in 1..Len(SubSeq(c, 1, n)) : SubSeq(c, 1, n)[i] # DirsepC
             /\ Append(SubSeq(c, 1, n), DirsepC) \in Text
  <2>1. PICK x : x = SubSeq(c, 1, n)
    OBVIOUS
  <2>2. n \in Nat /\ n <= Len(c) /\ n > 0 /\ \A i \in 1..n : i \in 1..CipherLen
    BY <1>1
  <2>3. x \in Text /\ Len(x) = n /\ \A i \in 1..n : x[i] = c[i]
    BY <1>1, <2>1, <2>2, Prefix
  <2>4. \A i \in 1..n : x[i] # DirsepC
    BY <1>2, <2>2, <2>3
  <2>5. Append(x, DirsepC) \in Text
    BY <2>3, Kinds, AppendProperties DEF Text
  <2> QED
    BY <2>1, <2>2, <2>3, <2>4, <2>5
<1> DEFINE T == {k \in Nat : k \in 0..level /\ ~Directories(Nest(c, k))}
<1> SUFFICES ASSUME T # {} PROVE FALSE
  <2>1. level \in 0..level
    BY <1>1
  <2> QED
    BY <2>1
<1>4. PICK k \in T : \A j \in T : k <= j
  <2>1. T \in SUBSET Nat
    OBVIOUS
  <2> HIDE DEF T
  <2> QED
    BY <2>1, LeastNumber
<1>5. k \in 0..level /\ ~Directories(Nest(c, k))
  OBVIOUS
<1>6. CASE k = 0
  <2>1. [n \in 1..0 |-> Append(SubSeq(c, 1, n), DirsepC)] = <<>>
    OBVIOUS
  <2>2. Nest(c, 0) = <<>>
    BY <2>1, FlattenEmpty DEF Nest
  <2>3. Directories(<<>>)
    BY Kinds DEF Directories, NoneAdjacent
  <2> QED
    BY <1>5, <1>6, <2>2, <2>3
<1>7. CASE k > 0
  <2>1. PICK j \in Nat : j + 1 = k
    BY <1>5, <1>7
  <2>2. j \in 0..level /\ ~(k <= j) /\ j + 1 \in 1..CipherLen
    BY <1>1, <1>5, <2>1
  <2>3. Directories(Nest(c, j))
    BY <1>4, <2>2
  <2>4. PICK ss, tt : /\ ss = [n \in 1..j |-> Append(SubSeq(c, 1, n), DirsepC)]
                      /\ tt = [n \in 1..(j + 1) |-> Append(SubSeq(c, 1, n), DirsepC)]
    OBVIOUS
  <2>5. j + 1 \in Nat /\ j + 1 \in 1..(j + 1) /\ (\A n \in 1..(j + 1) : n \in 1..CipherLen)
        /\ \A n \in 1..j : n \in 1..(j + 1)
    BY <1>1, <2>2
  <2>6. \A n \in 1..(j + 1) : Append(SubSeq(c, 1, n), DirsepC) \in Text
    BY <1>3, <2>5
  <2>7. ss \in Seq(Text) /\ Len(ss) = j
    BY <2>4, <2>5, <2>6
  <2>8. tt \in Seq(Text) /\ Len(tt) = j + 1
    BY <2>4, <2>5, <2>6
  <2>9. Agree(ss, tt, j) /\ tt[j + 1] = Append(SubSeq(c, 1, j + 1), DirsepC)
    BY <2>4, <2>5 DEF Agree
  <2>10. FlattenSeq(tt) = FlattenSeq(ss) \o tt[j + 1]
    BY <2>7, <2>8, <2>9, FlattenNext
  <2>11. Nest(c, k) = Nest(c, j) \o Append(SubSeq(c, 1, j + 1), DirsepC)
    BY <2>1, <2>4, <2>9, <2>10 DEF Nest
  <2>12. PICK x : x = SubSeq(c, 1, j + 1)
    OBVIOUS
  <2>13. x \in Text /\ Len(x) > 0 /\ \A i \in 1..Len(x) : x[i] # DirsepC
    BY <1>3, <2>2, <2>12
  <2>14. Directories(Nest(c, j) \o Append(x, DirsepC))
    BY <2>3, <2>13, OneDirectoryMore
  <2> QED
    BY <1>5, <2>11, <2>12, <2>14
<1> QED
  BY <1>1, <1>5, <1>6, <1>7

LEMMA NestedName ==
  ASSUME NEW c \in Ciphers, NEW level \in 0..MaxNest
  PROVE  FilePart(NestName(c, level)) = c
<1>1. level \in 0..CipherLen
  BY FormatParams
<1>2. PICK q, path : q = Nest(c, level) /\ path = q \o c
  OBVIOUS
<1>3. NestName(c, level) = path
  BY <1>2 DEF Nest, NestName
<1>4. Directories(q)
  BY <1>1, <1>2, NestIs
<1>5. /\ c \in Text /\ Len(c) > 0 /\ \A i \in 1..Len(c) : c[i] # DirsepC
  <2>1. CipherLen \in Nat \ {0} /\ c \in Text /\ Len(c) = CipherLen /\ \A i \in 1..CipherLen : c[i] \in Hex
    BY FormatParams, Texts DEF Ciphers
  <2> QED
    BY <2>1, FormatParams
<1>6. path \in Text /\ LastSep(path, Len(q)) /\ NoneAdjacent(path)
  BY <1>2, <1>4, <1>5, DirectoriesAndName
<1>7. FilePart(path) = SubSeq(path, Len(q) + 1, Len(path))
  BY <1>6, FilePartIs
<1>8. PICK m \in Nat, n \in Nat : m = Len(q) /\ n = Len(c)
  BY <1>4, <1>5 DEF Directories, Text
<1>9. q \in Text /\ Len(path) = m + n /\ \A i \in 1..n : path[m + i] = c[i]
  BY <1>2, <1>4, <1>5, <1>8, Concat DEF Directories
<1>10. PICK x : x = SubSeq(path, m + 1, m + n)
  OBVIOUS
<1>11. x \in Text /\ Len(x) = n /\ \A i \in 1..n : x[i] = path[m + i]
  <2>1. m + n \in Nat /\ m <= m + n /\ m + n <= Len(path) /\ (m + n) - m = n
    BY <1>9
  <2>2. x \in Text /\ Len(x) = (m + n) - m /\ \A i \in 1..((m + n) - m) : x[i] = path[m + i]
    BY <1>6, <1>10, <2>1, Slice
  <2> QED
    BY <2>1, <2>2
<1>12. x = c
  BY <1>5, <1>8, <1>9, <1>11, SeqEqual DEF Text
<1> QED
  BY <1>3, <1>7, <1>8, <1>9, <1>10, <1>12

\* Decryption finds the name of a file again however deep --ne-nesting puts it, in
\* the last part of its path (filemap.cpp, nest_name and namecat_decrypt).
THEOREM NestedNamesFound == FfSpec => []NestedFound
<1>1. NestedFound
  BY NestedName DEF NestedFound
<1> QED
  BY <1>1, PTL

-----------------------------------------------------------------------------
(* Files of whole lines. *)

\* What fill_map reads as it is written.
Writable(r) ==
  /\ r.dirsep \notin {Space, Nul}
  /\ \A i \in 1..Len(r.cipher) : r.cipher[i] \notin {Space, Nul}
  /\ \A i \in 1..Len(r.plain) : r.plain[i] # Nul

Good == {r \in Records : Writable(r)}

\* Every line of s is the bytes of a record of R.
LinesOf(s, R) == \A b, e \in Nat : IsLine(s, b, e) => \E r \in R : Line(s, b, e) = Bytes(r)

Closed(s) == Len(s) = 0 \/ s[Len(s)] = Nul

\* Between two lines.
AtBreak(s, o) == o = 0 \/ s[o] = Nul

LEMMA OneNul ==
  ASSUME NEW r \in Good
  PROVE  /\ Bytes(r) \in Text /\ Len(Bytes(r)) > 0 /\ Bytes(r)[Len(Bytes(r))] = Nul
         /\ \A i \in 1..Len(Bytes(r)) : Bytes(r)[i] = Nul => i = Len(Bytes(r))
<1>1. r \in Records /\ Writable(r)
  BY DEF Good
<1>2. PICK ci, pl, l : ci = r.cipher /\ pl = r.plain /\ l = Bytes(r)
  OBVIOUS
<1>3. PICK c \in Nat, p \in Nat : c = Len(ci) /\ p = Len(pl)
  BY <1>1, <1>2, RecordSizes
<1>4. Spelled(l, r)
  BY <1>1, <1>2, BytesSpelled
<1>5. /\ l \in Text /\ Len(l) = c + p + 3 /\ l[1] = r.dirsep
      /\ (\A i \in 1..c : l[1 + i] = ci[i]) /\ l[c + 2] = Space
      /\ (\A i \in 1..p : l[c + 2 + i] = pl[i]) /\ l[c + p + 3] = Nul
  BY <1>2, <1>3, <1>4 DEF Spelled
<1>6. r.dirsep # Nul /\ (\A i \in 1..c : ci[i] # Nul) /\ \A i \in 1..p : pl[i] # Nul
  BY <1>1, <1>2, <1>3 DEF Writable
<1>7. ASSUME NEW i \in 1..(c + p + 3), i # c + p + 3 PROVE l[i] # Nul
  <2>1. CASE i = 1
    BY <1>5, <1>6, <2>1
  <2>2. CASE i \in 2..(c + 1)
    <3>1. i - 1 \in 1..c /\ 1 + (i - 1) = i
      BY <2>2
    <3>2. l[1 + (i - 1)] # Nul
      BY <1>5, <1>6, <3>1
    <3> QED
      BY <3>1, <3>2
  <2>3. CASE i = c + 2
    BY <1>5, <2>3, Kinds
  <2>4. CASE i \in (c + 3)..(c + p + 2)
    <3>1. i - (c + 2) \in 1..p /\ c + 2 + (i - (c + 2)) = i
      BY <2>4
    <3>2. l[c + 2 + (i - (c + 2))] # Nul
      BY <1>5, <1>6, <3>1
    <3> QED
      BY <3>1, <3>2
  <2>5. i = 1 \/ i \in 2..(c + 1) \/ i = c + 2 \/ i \in (c + 3)..(c + p + 2)
    BY <1>7
  <2> QED
    BY <2>1, <2>2, <2>3, <2>4, <2>5
<1>8. Len(l) > 0
  BY <1>5
<1> QED
  BY <1>2, <1>5, <1>7, <1>8

\* fill_map reads a record as it stands in its line.
LEMMA ReadsRecord ==
  ASSUME file \in Text, offset \in Nat, NEW e, IsLine(file, offset, e),
         NEW r \in Good, Line(file, offset, e) = Bytes(r)
  PROVE  WellFormed /\ NulAt = e /\ Entry = r
<1>1. r \in Records /\ Writable(r)
  BY DEF Good
<1>2. PICK ci, pl, l, o : ci = r.cipher /\ pl = r.plain /\ l = Bytes(r) /\ o = offset
  OBVIOUS
<1>3. PICK c \in Nat, p \in Nat, n \in Nat : c = Len(ci) /\ p = Len(pl) /\ n = Len(file)
  BY <1>1, <1>2, RecordSizes DEF Text
<1>4. Spelled(l, r)
  BY <1>1, <1>2, BytesSpelled
<1>5. /\ l \in Text /\ Len(l) = c + p + 3 /\ l[1] = r.dirsep
      /\ (\A i \in 1..c : l[1 + i] = ci[i]) /\ l[c + 2] = Space
      /\ (\A i \in 1..p : l[c + 2 + i] = pl[i]) /\ l[c + p + 3] = Nul
  BY <1>2, <1>3, <1>4 DEF Spelled
<1>6. e \in 1..n /\ o \in Nat /\ o <= e - 1
  BY <1>2, <1>3 DEF IsLine, LastBreak
<1>7. l = SubSeq(file, o + 1, e)
  BY <1>2 DEF Line
<1>8. Len(l) = e - o /\ \A i \in 1..(e - o) : l[i] = file[o + i]
  <2>1. e \in Nat /\ o <= e /\ e <= Len(file)
    BY <1>3, <1>6
  <2> QED
    BY <1>6, <1>7, <2>1, Slice
<1>9. e = o + c + p + 3 /\ e - o = c + p + 3
  BY <1>5, <1>6, <1>8
<1>10. file[o + 1] = r.dirsep
  <2>1. 1 \in 1..(e - o)
    BY <1>9
  <2> QED
    BY <1>5, <1>8, <2>1
<1>11. \A i \in 1..c : file[o + 1 + i] = ci[i]
  <2>1. \A i \in 1..c : 1 + i \in 1..(e - o) /\ o + (1 + i) = o + 1 + i
    BY <1>6, <1>9
  <2> QED
    BY <1>5, <1>8, <2>1
<1>12. file[o + c + 2] = Space
  <2>1. c + 2 \in 1..(e - o) /\ o + (c + 2) = o + c + 2
    BY <1>6, <1>9
  <2> QED
    BY <1>5, <1>8, <2>1
<1>13. \A i \in 1..p : file[o + c + 2 + i] = pl[i]
  <2>1. \A i \in 1..p : c + 2 + i \in 1..(e - o) /\ o + (c + 2 + i) = o + c + 2 + i
    BY <1>6, <1>9
  <2> QED
    BY <1>5, <1>8, <2>1
<1>14. file[e] = Nul
  <2>1. c + p + 3 \in 1..(e - o) /\ o + (c + p + 3) = e
    BY <1>6, <1>9
  <2> QED
    BY <1>5, <1>8, <2>1
<1>15. r.dirsep \notin {Space, Nul} /\ (\A i \in 1..c : ci[i] \notin {Space, Nul}) /\ \A i \in 1..p : pl[i] # Nul
  BY <1>1, <1>2, <1>3 DEF Writable
<1>16. SpaceAt = o + c + 2
  <2>1. o + 2 \in Nat \ {0} /\ o + c + 2 \in Nat /\ o + 2 <= o + c + 2 /\ o + c + 2 <= Len(file)
    BY <1>3, <1>6, <1>9
  <2>2. ASSUME NEW j \in (o + 2)..((o + c + 2) - 1) PROVE file[j] \notin {Space, Nul}
    <3>1. j - (o + 1) \in 1..c /\ o + 1 + (j - (o + 1)) = j
      BY <1>6
    <3>2. file[o + 1 + (j - (o + 1))] \notin {Space, Nul}
      BY <1>11, <1>15, <3>1
    <3> QED
      BY <3>1, <3>2
  <2>3. file[o + c + 2] \in {Space, Nul}
    BY <1>12
  <2>4. From(o + 2, {Space, Nul}) = o + c + 2
    BY <2>1, <2>2, <2>3, FirstIs
  <2> QED
    BY <1>2, <2>4 DEF SpaceAt
<1>17. NulAt = e
  <2>1. (o + c + 2) + 1 \in Nat \ {0} /\ e \in Nat /\ (o + c + 2) + 1 <= e /\ e <= Len(file)
    BY <1>3, <1>6, <1>9
  <2>2. ASSUME NEW j \in ((o + c + 2) + 1)..(e - 1) PROVE file[j] \notin {Nul}
    <3>1. j - (o + c + 2) \in 1..p /\ o + c + 2 + (j - (o + c + 2)) = j
      BY <1>6, <1>9
    <3>2. file[o + c + 2 + (j - (o + c + 2))] # Nul
      BY <1>13, <1>15, <3>1
    <3> QED
      BY <3>1, <3>2
  <2>3. file[e] \in {Nul}
    BY <1>14
  <2>4. From((o + c + 2) + 1, {Nul}) = e
    BY <2>1, <2>2, <2>3, FirstIs
  <2> QED
    BY <1>16, <2>4 DEF NulAt
<1>18. WellFormed
  <2>1. SpaceAt <= Len(file) /\ NulAt <= Len(file)
    BY <1>3, <1>6, <1>9, <1>16, <1>17
  <2> QED
    BY <1>2, <1>10, <1>12, <1>15, <1>16, <2>1 DEF WellFormed, NulTerminated
<1>19. ci \in Text /\ pl \in Text
  BY <1>1, <1>2 DEF Records
<1>20. SubSeq(file, o + 2, (o + c + 2) - 1) = ci
  <2>1. PICK a \in Nat, b \in Nat : a = o + 1 /\ b = o + c + 1
    BY <1>6
  <2>2. PICK x : x = SubSeq(file, a + 1, b)
    OBVIOUS
  <2>3. a <= b /\ b <= Len(file) /\ b - a = c
    BY <1>3, <1>6, <1>9, <2>1
  <2>4. x \in Text /\ Len(x) = c /\ \A j \in 1..c : x[j] = file[a + j]
    BY <2>2, <2>3, Slice
  <2>5. \A j \in 1..c : x[j] = ci[j]
    BY <1>11, <2>1, <2>4
  <2>6. x = ci
    BY <1>3, <1>19, <2>4, <2>5, SeqEqual DEF Text
  <2>7. a + 1 = o + 2 /\ b = (o + c + 2) - 1
    BY <1>6, <2>1
  <2> QED
    BY <2>2, <2>6, <2>7
<1>21. SubSeq(file, (o + c + 2) + 1, e - 1) = pl
  <2>1. PICK a \in Nat, b \in Nat : a = o + c + 2 /\ b = e - 1
    BY <1>6
  <2>2. PICK x : x = SubSeq(file, a + 1, b)
    OBVIOUS
  <2>3. a <= b /\ b <= Len(file) /\ b - a = p
    BY <1>3, <1>6, <1>9, <2>1
  <2>4. x \in Text /\ Len(x) = p /\ \A j \in 1..p : x[j] = file[a + j]
    BY <2>2, <2>3, Slice
  <2>5. \A j \in 1..p : x[j] = pl[j]
    BY <1>13, <2>1, <2>4
  <2>6. x = pl
    BY <1>3, <1>19, <2>4, <2>5, SeqEqual DEF Text
  <2> QED
    BY <2>1, <2>2, <2>6
<1>22. Entry = [dirsep |-> r.dirsep, cipher |-> ci, plain |-> pl]
  BY <1>2, <1>10, <1>16, <1>17, <1>20, <1>21 DEF Entry
<1>23. Entry = r
  BY <1>1, <1>2, <1>22 DEF Records
<1> QED
  BY <1>17, <1>18, <1>23

\* A line is there to read.
LEMMA LineThere ==
  ASSUME NEW s \in Text, Closed(s), NEW o \in Nat, o < Len(s), AtBreak(s, o)
  PROVE  \E e \in Nat : IsLine(s, o, e)
<1>1. PICK n \in Nat : n = Len(s)
  BY DEF Text
<1> DEFINE T == {e \in Nat : e \in (o + 1)..n /\ s[e] = Nul}
<1>2. n \in T
  BY <1>1 DEF Closed
<1>3. PICK e \in T : \A d \in T : e <= d
  <2>1. T \in SUBSET Nat /\ T # {}
    BY <1>2
  <2> HIDE DEF T
  <2> QED
    BY <2>1, LeastNumber
<1>4. e \in (o + 1)..n /\ s[e] = Nul
  OBVIOUS
<1>5. \A i \in (o + 1)..(e - 1) : s[i] # Nul
  <2>1. \A i \in (o + 1)..(e - 1) : i \in (o + 1)..n /\ ~(e <= i)
    BY <1>4
  <2> QED
    BY <1>3, <2>1
<1>6. o \in 0..(e - 1) /\ e \in 1..n
  BY <1>4
<1>7. IsLine(s, o, e)
  BY <1>1, <1>4, <1>5, <1>6 DEF IsLine, LastBreak, AtBreak
<1> QED
  BY <1>4, <1>7

\* What fill_map takes for a record is a line.
LEMMA EntryLine ==
  ASSUME file \in Text, offset \in Nat, offset < Len(file), AtBreak(file, offset), WellFormed
  PROVE  IsLine(file, offset, NulAt)
<1>1. PICK o \in Nat, k \in Nat, z \in Nat, n \in Nat :
         o = offset /\ k = SpaceAt /\ z = NulAt /\ n = Len(file)
  <2>1. SpaceAt \in Nat /\ NulAt \in Nat
    BY Places
  <2>2. Len(file) \in Nat
    BY DEF Text
  <2> QED
    BY <2>1, <2>2
<1>2. /\ o \in Nat /\ k \in (o + 2)..n /\ z \in (k + 1)..n /\ file[k] = Space /\ file[z] = Nul
      /\ file[o + 1] \notin {Space, Nul}
  BY <1>1, EntryType DEF WellFormed
<1>3. First(file, o + 2, {Space, Nul}, k) /\ First(file, k + 1, {Nul}, z)
  BY <1>1, Places
<1>4. ASSUME NEW i \in (o + 1)..(z - 1) PROVE file[i] # Nul
  <2>1. i = o + 1 \/ i \in (o + 2)..(k - 1) \/ i = k \/ i \in (k + 1)..(z - 1)
    BY <1>2
  <2>2. CASE i \in (o + 2)..(k - 1)
    <3>1. i \in (o + 2)..n /\ ~(k <= i)
      BY <1>2, <2>2
    <3> QED
      BY <1>1, <1>3, <3>1 DEF First
  <2>3. CASE i \in (k + 1)..(z - 1)
    <3>1. i \in (k + 1)..n /\ ~(z <= i)
      BY <1>2, <2>3
    <3> QED
      BY <1>1, <1>3, <3>1 DEF First
  <2> QED
    BY <1>2, <2>1, <2>2, <2>3, Kinds
<1>5. o \in 0..(z - 1) /\ z \in 1..n
  BY <1>2
<1> QED
  BY <1>1, <1>2, <1>4, <1>5 DEF IsLine, LastBreak, AtBreak

\* The lines of s are the lines of s and a text behind it, but for its last.
LEMMA LineBefore ==
  ASSUME NEW s \in Text, NEW w \in Text, NEW b \in Nat, NEW e \in Nat, e <= Len(s)
  PROVE  /\ IsLine(s \o w, b, e) <=> IsLine(s, b, e)
         /\ IsLine(s, b, e) => Line(s \o w, b, e) = Line(s, b, e)
<1>1. PICK t : t = s \o w
  OBVIOUS
<1>2. PICK n \in Nat, m \in Nat : n = Len(s) /\ m = Len(t)
  BY <1>1, Concat DEF Text
<1>3. t \in Text /\ n <= m /\ \A i \in 1..n : t[i] = s[i]
  <2>1. t \in Text /\ m = n + Len(w) /\ Len(w) \in Nat /\ \A i \in 1..n : t[i] = s[i]
    BY <1>1, <1>2, Concat
  <2> QED
    BY <2>1
<1>4. IsLine(t, b, e) <=> IsLine(s, b, e)
  <2>1. CASE e > 0
    <3>1. e \in 1..n /\ e \in 1..m /\ e - 1 \in Nat /\ \A i \in 1..(e - 1) : i \in 1..n
      BY <1>2, <1>3, <2>1
    <3>2. Agree(s, t, e - 1) /\ Agree(t, s, e - 1) /\ s[e] = t[e]
      BY <1>3, <3>1 DEF Agree
    <3>3. LastBreak(s, e - 1, b) <=> LastBreak(t, e - 1, b)
      BY <3>1, <3>2, BreakSame
    <3> QED
      BY <1>2, <3>1, <3>2, <3>3 DEF IsLine
  <2>2. CASE e = 0
    <3>1. e \notin 1..n /\ e \notin 1..m
      BY <2>2
    <3> QED
      BY <1>2, <3>1 DEF IsLine
  <2> QED
    BY <2>1, <2>2
<1>5. IsLine(s, b, e) => Line(t, b, e) = Line(s, b, e)
  <2> SUFFICES ASSUME IsLine(s, b, e) PROVE Line(t, b, e) = Line(s, b, e)
    OBVIOUS
  <2>1. b <= e /\ e <= Len(s) /\ e <= Len(t)
    BY <1>2, <1>3 DEF IsLine, LastBreak
  <2>2. \A j \in (b + 1)..e : j \in 1..n
    BY <1>2, <2>1
  <2>3. \A j \in (b + 1)..e : t[j] = s[j]
    BY <1>3, <2>2
  <2>4. SubSeq(t, b + 1, e) = SubSeq(s, b + 1, e)
    BY <1>3, <2>1, <2>3, SamePart
  <2> QED
    BY <2>4 DEF Line
<1> QED
  BY <1>1, <1>4, <1>5

\* What is behind a whole number of lines is a line of its own.
LEMMA LineBehind ==
  ASSUME NEW s \in Text, Closed(s), NEW l \in Text, Len(l) > 0, l[Len(l)] = Nul,
         \A i \in 1..Len(l) : l[i] = Nul => i = Len(l)
  PROVE  /\ Closed(s \o l)
         /\ IsLine(s \o l, Len(s), Len(s) + Len(l)) /\ Line(s \o l, Len(s), Len(s) + Len(l)) = l
         /\ \A b, e \in Nat : IsLine(s \o l, b, e) /\ e > Len(s) => b = Len(s) /\ e = Len(s) + Len(l)
<1>1. PICK t : t = s \o l
  OBVIOUS
<1>2. PICK n \in Nat, m \in Nat : n = Len(s) /\ m = Len(l)
  BY DEF Text
<1>3. t \in Text /\ Len(t) = n + m /\ (\A i \in 1..n : t[i] = s[i]) /\ \A i \in 1..m : t[n + i] = l[i]
  BY <1>1, <1>2, Concat
<1>4. m > 0 /\ l[m] = Nul /\ \A i \in 1..m : l[i] = Nul => i = m
  BY <1>2
<1>5. t[n + m] = Nul
  <2>1. m \in 1..m
    BY <1>4
  <2> QED
    BY <1>3, <1>4, <2>1
<1>6. \A i \in (n + 1)..(n + m) : t[i] = Nul => i = n + m
  <2> SUFFICES ASSUME NEW i \in (n + 1)..(n + m), t[i] = Nul PROVE i = n + m
    OBVIOUS
  <2>1. PICK j : j = i - n
    OBVIOUS
  <2>2. j \in 1..m /\ n + j = i
    BY <2>1
  <2>3. l[j] = Nul
    BY <1>3, <2>2
  <2> QED
    BY <1>4, <2>2, <2>3
<1>7. n = 0 \/ t[n] = Nul
  <2>1. n = 0 \/ s[n] = Nul
    BY <1>2 DEF Closed
  <2>2. n # 0 => n \in 1..n
    OBVIOUS
  <2> QED
    BY <1>3, <2>1, <2>2
<1>8. Closed(t)
  BY <1>3, <1>5 DEF Closed
<1>9. IsLine(t, n, n + m)
  <2>1. n + m \in 1..(n + m) /\ n \in 0..((n + m) - 1)
    BY <1>4
  <2>2. \A i \in (n + 1)..((n + m) - 1) : i \in (n + 1)..(n + m) /\ i # n + m
    OBVIOUS
  <2>3. \A i \in (n + 1)..((n + m) - 1) : t[i] # Nul
    BY <1>6, <2>2
  <2>4. LastBreak(t, (n + m) - 1, n)
    BY <1>7, <2>1, <2>3 DEF LastBreak
  <2> QED
    BY <1>3, <1>5, <2>1, <2>4 DEF IsLine
<1>10. Line(t, n, n + m) = l
  <2>1. PICK x : x = SubSeq(t, n + 1, n + m)
    OBVIOUS
  <2>2. n <= n + m /\ n + m <= Len(t) /\ (n + m) - n = m /\ n + m \in Nat
    BY <1>3
  <2>3. x \in Text /\ Len(x) = (n + m) - n /\ \A j \in 1..((n + m) - n) : x[j] = t[n + j]
    BY <1>3, <2>1, <2>2, Slice
  <2>4. Len(x) = m /\ \A j \in 1..m : x[j] = l[j]
    BY <1>3, <2>2, <2>3
  <2>5. x = l
    BY <1>2, <2>3, <2>4, SeqEqual DEF Text
  <2> QED
    BY <2>1, <2>5 DEF Line
<1>11. ASSUME NEW b \in Nat, NEW e \in Nat, IsLine(t, b, e), e > n
       PROVE  b = n /\ e = n + m
  <2>1. e \in 1..(n + m) /\ t[e] = Nul /\ b \in 0..(e - 1) /\ (b = 0 \/ t[b] = Nul)
        /\ \A i \in (b + 1)..(e - 1) : t[i] # Nul
    BY <1>3, <1>11 DEF IsLine, LastBreak
  <2>2. e = n + m
    <3>1. e \in (n + 1)..(n + m)
      BY <1>11, <2>1
    <3> QED
      BY <1>6, <2>1, <3>1
  <2>3. ~(b < n)
    <3>1. b < n => n \in (b + 1)..(e - 1) /\ n # 0
      BY <1>11
    <3> QED
      BY <1>7, <2>1, <3>1
  <2>4. ~(b > n)
    <3>1. b > n => b \in (n + 1)..(n + m) /\ b # n + m /\ b # 0
      BY <2>1, <2>2
    <3> QED
      BY <1>6, <2>1, <3>1
  <2> QED
    BY <2>2, <2>3, <2>4
<1> QED
  BY <1>1, <1>2, <1>8, <1>9, <1>10, <1>11

\* Lines stay the bytes of records when a record is written behind them.
LEMMA LinesNext ==
  ASSUME NEW R, NEW s \in Text, Closed(s), LinesOf(s, R), NEW r \in Good, NEW q \in R, Bytes(r) = Bytes(q)
  PROVE  s \o Bytes(r) \in Text /\ Closed(s \o Bytes(r)) /\ LinesOf(s \o Bytes(r), R)
<1>1. PICK l : l = Bytes(r)
  OBVIOUS
<1>2. l \in Text /\ Len(l) > 0 /\ l[Len(l)] = Nul /\ \A i \in 1..Len(l) : l[i] = Nul => i = Len(l)
  BY <1>1, OneNul
<1>3. /\ Closed(s \o l) /\ Line(s \o l, Len(s), Len(s) + Len(l)) = l
      /\ \A b, e \in Nat : IsLine(s \o l, b, e) /\ e > Len(s) => b = Len(s) /\ e = Len(s) + Len(l)
  BY <1>2, LineBehind
<1>4. ASSUME NEW b \in Nat, NEW e \in Nat, IsLine(s \o l, b, e)
      PROVE  \E x \in R : Line(s \o l, b, e) = Bytes(x)
  <2>1. CASE e <= Len(s)
    <3>1. IsLine(s, b, e) /\ Line(s \o l, b, e) = Line(s, b, e)
      BY <1>2, <1>4, <2>1, LineBefore
    <3> QED
      BY <3>1 DEF LinesOf
  <2>2. CASE e > Len(s)
    <3>1. Line(s \o l, b, e) = l
      BY <1>3, <1>4, <2>2, Zenon
    <3> QED
      BY <1>1, <3>1
  <2>3. Len(s) \in Nat
    BY DEF Text
  <2> QED
    BY <2>1, <2>2, <2>3
<1>5. s \o l \in Text
  BY <1>2, Concat
<1> QED
  BY <1>1, <1>3, <1>4, <1>5 DEF LinesOf

\* Text without a NUL delimits nothing.
LEMMA DelimText ==
  ASSUME NEW s \in Text, NEW w \in Text, \A i \in 1..Len(w) : w[i] # Nul
  PROVE  Delimited(s \o w) = Delimited(s)
<1>1. PICK n \in Nat : n = Len(w)
  BY DEF Text
<1> DEFINE T == {k \in Nat : k <= n /\ Delimited(s \o SubSeq(w, 1, k)) # Delimited(s)}
<1> SUFFICES ASSUME T # {} PROVE FALSE
  <2>1. SubSeq(w, 1, n) = w
    BY <1>1, SubSeqFull DEF Text
  <2> SUFFICES ASSUME Delimited(s \o w) # Delimited(s) PROVE n \in T
    OBVIOUS
  <2>2. Delimited(s \o SubSeq(w, 1, n)) # Delimited(s)
    BY <2>1, Zenon
  <2> QED
    BY <2>2
<1>2. PICK k \in T : \A j \in T : k <= j
  <2>1. T \in SUBSET Nat
    OBVIOUS
  <2> HIDE DEF T
  <2> QED
    BY <2>1, LeastNumber
<1>3. k \in Nat /\ k <= n /\ Delimited(s \o SubSeq(w, 1, k)) # Delimited(s)
  OBVIOUS
<1>4. CASE k = 0
  <2>1. SubSeq(w, 1, 0) = <<>>
    BY SubSeqEmpty
  <2>2. s \o <<>> = s
    BY ConcatEmptySeq DEF Text
  <2> QED
    BY <1>3, <1>4, <2>1, <2>2, Zenon
<1>5. CASE k > 0
  <2>1. PICK j \in Nat : j + 1 = k
    BY <1>3, <1>5
  <2>2. j <= n /\ j < Len(w) /\ j <= Len(w) /\ ~(k <= j) /\ j + 1 \in 1..Len(w)
    BY <1>1, <1>3, <2>1
  <2>3. j \notin T
    BY <1>2, <2>2
  <2>4. Delimited(s \o SubSeq(w, 1, j)) = Delimited(s)
    BY <2>2, <2>3
  <2>5. PICK x, ch : x = SubSeq(w, 1, j) /\ ch = w[j + 1]
    OBVIOUS
  <2>6. x \in Text /\ ch \in Char /\ ch # Nul
    <3>1. x \in Text
      BY <2>2, <2>5, Prefix
    <3>2. ch \in Char
      BY <2>2, <2>5, ElementOfSeq DEF Text
    <3> QED
      BY <2>2, <2>5, <3>1, <3>2
  <2>7. SubSeq(w, 1, k) = Append(x, ch)
    BY <2>1, <2>2, <2>5, Longer
  <2>8. PICK y, d : y = s \o x /\ d = <<ch>>
    OBVIOUS
  <2>9. y \in Text /\ d \in Text
    BY <2>6, <2>8, Concat DEF Text
  <2>10. Append(x, ch) = x \o d /\ Append(y, ch) = y \o d
    BY <2>6, <2>8, <2>9, AppendIsConcat DEF Text
  <2>11. (s \o x) \o d = s \o (x \o d)
    BY <2>6, <2>9, Assoc
  <2>12. s \o SubSeq(w, 1, k) = Append(y, ch)
    BY <2>7, <2>8, <2>10, <2>11, Zenon
  <2>13. Len(y) \in Nat
    BY <2>9 DEF Text
  <2>14. PICK b \in 0..Len(y) : LastBreak(y, Len(y), b)
    BY <2>13, BreakExists
  <2>15. Delimited(y) \in Text /\ Delimited(Append(y, ch)) = Delimited(y) \o Entire(ch, SubSeq(y, b + 1, Len(y)))
    BY <2>6, <2>9, <2>14, DelimNext
  <2>16. Entire(ch, SubSeq(y, b + 1, Len(y))) = <<>>
    BY <2>6 DEF Entire
  <2>17. Delimited(y) \o <<>> = Delimited(y)
    BY <2>15, ConcatEmptySeq DEF Text
  <2>18. Delimited(Append(y, ch)) = Delimited(y)
    BY <2>15, <2>16, <2>17, Zenon
  <2> QED
    BY <1>3, <2>4, <2>5, <2>8, <2>12, <2>18, Zenon
<1> QED
  BY <1>3, <1>4, <1>5

\* What a valid line behind whole lines delimits.
LEMMA DelimLine ==
  ASSUME NEW s \in Text, Closed(s), NEW p \in Text, \A i \in 1..Len(p) : p[i] # Nul, Valid(p)
  PROVE  Delimited(s \o Append(p, Nul)) = Delimited(s) \o Append(p, Nul)
<1>1. PICK y, d : y = s \o p /\ d = <<Nul>>
  OBVIOUS
<1>2. PICK n \in Nat, m \in Nat : n = Len(s) /\ m = Len(p)
  BY DEF Text
<1>3. /\ y \in Text /\ Len(y) = n + m
      /\ (\A i \in 1..n : y[i] = s[i]) /\ \A i \in 1..m : y[n + i] = p[i]
  BY <1>1, <1>2, Concat
<1>4. d \in Text
  BY <1>1, Kinds DEF Text
<1>5. Append(p, Nul) = p \o d /\ Append(y, Nul) = y \o d
  BY <1>1, <1>3, Kinds, AppendIsConcat DEF Text
<1>6. (s \o p) \o d = s \o (p \o d)
  BY <1>4, Assoc
<1>7. s \o Append(p, Nul) = Append(y, Nul)
  BY <1>1, <1>5, <1>6, Zenon
<1>8. LastBreak(y, Len(y), n)
  <2>1. n = 0 \/ y[n] = Nul
    <3>1. n = 0 \/ (s[n] = Nul /\ n \in 1..n)
      BY <1>2 DEF Closed
    <3> QED
      BY <1>3, <3>1
  <2>2. ASSUME NEW i \in (n + 1)..(n + m) PROVE y[i] # Nul
    <3>1. PICK j : j = i - n
      OBVIOUS
    <3>2. j \in 1..m /\ n + j = i
      BY <3>1
    <3> QED
      BY <1>2, <1>3, <3>2
  <2>3. n \in 0..(n + m)
    OBVIOUS
  <2> QED
    BY <1>3, <2>1, <2>2, <2>3 DEF LastBreak
<1>9. Delimited(Append(y, Nul)) = Delimited(y) \o Entire(Nul, SubSeq(y, n + 1, Len(y)))
  BY <1>3, <1>8, Kinds, DelimNext
<1>10. SubSeq(y, n + 1, Len(y)) = p
  <2>1. PICK x : x = SubSeq(y, n + 1, n + m)
    OBVIOUS
  <2>2. n <= n + m /\ n + m <= Len(y) /\ (n + m) - n = m /\ n + m \in Nat
    BY <1>3
  <2>3. x \in Text /\ Len(x) = (n + m) - n /\ \A j \in 1..((n + m) - n) : x[j] = y[n + j]
    BY <1>3, <2>1, <2>2, Slice
  <2>4. Len(x) = m /\ \A j \in 1..m : x[j] = p[j]
    BY <1>3, <2>2, <2>3
  <2>5. x = p
    BY <1>2, <2>3, <2>4, SeqEqual DEF Text
  <2> QED
    BY <1>3, <2>1, <2>5
<1>11. Entire(Nul, p) = Append(p, Nul)
  BY DEF Entire
<1>12. Delimited(y) = Delimited(s)
  BY <1>1, DelimText
<1> QED
  BY <1>7, <1>9, <1>10, <1>11, <1>12, Zenon

-----------------------------------------------------------------------------
(* What rsyncrypto_recover prints is read again. *)

LEMMA RecordGood ==
  ASSUME FfTyped, NEW b, ParserAt(file, offset, state, record, b), state = "PLAINNAME"
  PROVE  record \in Good
<1>1. PICK o \in Nat, f \in Text : o = offset /\ f = file
  BY DEF FfTyped, ReaderTyped, StoreTyped
<1>2. record \in [dirsep : Char, cipher : Seq(Hex), plain : Text] /\ CipherLen \in Nat
  BY FormatParams DEF FfTyped, ReaderTyped
<1>3. PICK ci, pl : ci = record.cipher /\ pl = record.plain
  OBVIOUS
<1>4. ci \in Seq(Hex) /\ pl \in Text /\ record \in Records
  BY <1>2, <1>3, Texts DEF Records
<1>5. b \in 0..o /\ \A i \in (b + 1)..o : f[i] # Nul
  BY <1>1 DEF ParserAt, LastBreak
<1>6. PICK m \in Nat : o = b + CipherLen + 2 + m /\ Digits(f, b, record, CipherLen) /\ Named(f, b, record, m)
  BY <1>1 DEF ParserAt, InPlain
<1>7. record.dirsep \notin {Space, Nul}
  BY <1>6, Kinds DEF Digits
<1>8. \A i \in 1..Len(ci) : ci[i] \notin {Space, Nul}
  <2>1. \A i \in 1..Len(ci) : ci[i] \in Hex
    BY <1>4, ElementOfSeq
  <2> QED
    BY <2>1, Kinds
<1>9. \A i \in 1..Len(pl) : pl[i] # Nul
  <2>1. Len(pl) = m /\ \A i \in 1..m : pl[i] = f[b + CipherLen + 2 + i]
    BY <1>3, <1>6 DEF Named
  <2>2. \A i \in 1..m : b + CipherLen + 2 + i \in (b + 1)..o
    BY <1>2, <1>5, <1>6
  <2> QED
    BY <1>5, <2>1, <2>2
<1> QED
  BY <1>3, <1>4, <1>7, <1>8, <1>9 DEF Good, Writable

\* What a turn of the loop prints is the line it ends, and a good one.
LinePrinted(p, b) ==
  /\ out' = out \o Bytes(record) /\ record \in Good
  /\ p \in Text /\ Valid(p) /\ (\A i \in 1..Len(p) : p[i] # Nul) /\ Append(p, Nul) = Bytes(record)
  /\ IsLine(file, b, offset + 1) /\ Line(file, b, offset + 1) = Bytes(record)

LEMMA PrintsLine ==
  ASSUME FfTyped, NEW b, ParserAt(file, offset, state, record, b), RecoverByte
  PROVE  out' = out \/ \E p : LinePrinted(p, b)
<1>1. PICK o \in Nat, f \in Text : o = offset /\ f = file
  BY DEF FfTyped, ReaderTyped, StoreTyped
<1>2. PICK p, ch : p = SubSeq(f, b + 1, o) /\ ch = f[o + 1]
  OBVIOUS
<1>3. out' = out \o Entire(ch, p)
  BY <1>1, <1>2, Prints
<1>4. p \in Text /\ (Valid(p) <=> (state = "PLAINNAME" /\ Printed(record)))
      /\ (state = "PLAINNAME" => Append(p, Nul) = Bytes(record))
  BY <1>1, <1>2, ParserPiece
<1>5. CASE ch = Nul /\ Valid(p)
  <2>1. state = "PLAINNAME"
    BY <1>4, <1>5
  <2>2. record \in Good
    BY <2>1, RecordGood
  <2>3. out' = out \o Bytes(record)
    BY <1>3, <1>4, <1>5, <2>1 DEF Entire
  <2>4. LastBreak(f, o, b) /\ b \in 0..o /\ \A i \in (b + 1)..o : f[i] # Nul
    BY <1>1 DEF ParserAt, LastBreak
  <2>5. o < Len(f) /\ Len(f) \in Nat
    BY <1>1 DEF RecoverByte, ReadDirsep, Read107, ReadCipher, ReadSpace, ReadPlain, ReadInvalid, Turn, Text
  <2>6. \A i \in 1..Len(p) : p[i] # Nul
    <3>1. b <= o /\ o <= Len(f) /\ b \in Nat
      BY <2>4, <2>5
    <3>2. Len(p) = o - b /\ \A i \in 1..(o - b) : p[i] = f[b + i]
      BY <1>2, <3>1, Slice
    <3>3. \A i \in 1..(o - b) : b + i \in (b + 1)..o
      BY <3>1
    <3> QED
      BY <2>4, <3>2, <3>3
  <2>7. IsLine(f, b, o + 1)
    <3>1. o + 1 \in 1..Len(f) /\ (o + 1) - 1 = o
      BY <2>5
    <3> QED
      BY <1>2, <1>5, <2>4, <3>1 DEF IsLine
  <2>8. Line(f, b, o + 1) = Append(p, Nul)
    <3>1. PICK q, x : q = Append(p, Nul) /\ x = SubSeq(f, b + 1, o + 1)
      OBVIOUS
    <3>2. b \in Nat /\ b <= o + 1 /\ o + 1 \in Nat /\ o + 1 <= Len(f) /\ (o + 1) - b = (o - b) + 1
          /\ o - b \in Nat /\ b <= o /\ o <= Len(f)
      BY <2>4, <2>5
    <3>3. x \in Text /\ Len(x) = (o + 1) - b /\ \A j \in 1..((o + 1) - b) : x[j] = f[b + j]
      BY <3>1, <3>2, Slice
    <3>4. Len(p) = o - b /\ \A j \in 1..(o - b) : p[j] = f[b + j]
      BY <1>2, <3>2, Slice
    <3>5. q \in Text /\ Len(q) = (o - b) + 1 /\ (\A j \in 1..(o - b) : q[j] = p[j]) /\ q[(o - b) + 1] = Nul
      BY <1>4, <3>1, <3>4, Kinds, AppendProperties DEF Text
    <3>6. b + ((o - b) + 1) = o + 1 /\ \A j \in 1..((o - b) + 1) : j \in 1..(o - b) \/ j = (o - b) + 1
      BY <3>2
    <3>7. ASSUME NEW j \in 1..((o - b) + 1) PROVE x[j] = q[j]
      <4>1. x[j] = f[b + j]
        BY <3>2, <3>3
      <4>2. CASE j \in 1..(o - b)
        BY <3>4, <3>5, <4>1, <4>2
      <4>3. CASE j = (o - b) + 1
        <5>1. x[j] = f[o + 1]
          BY <3>6, <4>1, <4>3
        <5> QED
          BY <1>2, <1>5, <3>5, <4>3, <5>1
      <4> QED
        BY <3>6, <4>2, <4>3
    <3>8. x = q
      BY <3>2, <3>3, <3>5, <3>7, SeqEqual DEF Text
    <3> QED
      BY <3>1, <3>8 DEF Line
  <2>9. LinePrinted(p, b)
    BY <1>1, <1>4, <1>5, <2>1, <2>2, <2>3, <2>6, <2>7, <2>8 DEF LinePrinted
  <2> QED
    BY <2>9
<1>6. CASE ~(ch = Nul /\ Valid(p))
  <2>1. out \in Text
    BY DEF FfTyped, ReaderTyped
  <2>2. out \o <<>> = out
    BY <2>1, ConcatEmptySeq DEF Text
  <2>3. Entire(ch, p) = <<>>
    BY <1>6 DEF Entire
  <2> QED
    BY <1>3, <2>2, <2>3, Zenon
<1> QED
  BY <1>5, <1>6

Clean(s) == Closed(s) /\ LinesOf(s, Good) /\ Delimited(s) = s

FfClean ==
  /\ pc = "recover" => Clean(out)
  /\ by = "recover" => Clean(file) /\ pc # "corrupt"
  /\ Filling => AtBreak(file, offset)

LEMMA CleanEmpty == Clean(<<>>)
<1>1. Len(<<>>) = 0
  OBVIOUS
<1>2. \A b, e \in Nat : ~IsLine(<<>>, b, e)
  BY <1>1 DEF IsLine
<1> QED
  BY <1>1, <1>2, DelimEmpty DEF Clean, Closed, LinesOf

LEMMA CleanTurn ==
  ASSUME FfTyped, FfReading, RecoverByte, Clean(out)
  PROVE  Clean(out')
<1>1. pc = "recover"
  BY DEF RecoverByte, ReadDirsep, Read107, ReadCipher, ReadSpace, ReadPlain, ReadInvalid, Turn
<1>2. PICK b : ParserAt(file, offset, state, record, b)
  BY <1>1 DEF FfReading
<1>3. CASE out' = out
  BY <1>3, Zenon
<1>4. ASSUME NEW p, LinePrinted(p, b) PROVE Clean(out')
  <2>1. PICK s : s = out
    OBVIOUS
  <2>2. s \in Text /\ Closed(s) /\ LinesOf(s, Good) /\ Delimited(s) = s
    BY <2>1 DEF FfTyped, ReaderTyped, Clean
  <2>3. /\ out' = s \o Bytes(record) /\ record \in Good
        /\ p \in Text /\ Valid(p) /\ (\A i \in 1..Len(p) : p[i] # Nul) /\ Append(p, Nul) = Bytes(record)
    BY <1>4, <2>1 DEF LinePrinted
  <2>4. Closed(s \o Bytes(record)) /\ LinesOf(s \o Bytes(record), Good)
    BY <2>2, <2>3, LinesNext
  <2>5. Delimited(s \o Append(p, Nul)) = Delimited(s) \o Append(p, Nul)
    BY <2>2, <2>3, DelimLine
  <2>6. Delimited(s \o Bytes(record)) = s \o Bytes(record)
    BY <2>2, <2>3, <2>5, Zenon
  <2> QED
    BY <2>3, <2>4, <2>6 DEF Clean
<1> QED
  BY <1>2, <1>3, <1>4, PrintsLine

\* fill_map finds a line it can read in a file of such lines.
LEMMA CleanReads ==
  ASSUME file \in Text, offset \in Nat, offset < Len(file), AtBreak(file, offset), Closed(file),
         NEW R, R \subseteq Good, LinesOf(file, R)
  PROVE  WellFormed
<1>1. PICK e \in Nat : IsLine(file, offset, e)
  BY LineThere
<1>2. PICK r \in R : Line(file, offset, e) = Bytes(r)
  BY <1>1 DEF LinesOf
<1>3. r \in Good
  BY <1>2
<1> QED
  BY <1>1, <1>2, <1>3, ReadsRecord

LEMMA CleanStep == FfTyped /\ FfReading /\ FfClean /\ [FfNext]_ffVars => FfClean'
<1> SUFFICES ASSUME FfTyped, FfReading, FfClean, [FfNext]_ffVars PROVE FfClean'
  OBVIOUS
<1>1. CASE StartRecover
  <2>1. pc # "recover" /\ ~Filling' /\ out' = out /\ file' = file /\ by' = by /\ pc' = "recover"
    BY <1>1 DEF StartRecover, Refusals, Filling
  <2>2. out' = <<>>
    BY <2>1 DEF FfReading
  <2> QED
    BY <2>1, <2>2, CleanEmpty DEF FfClean
<1>2. CASE RecoverByte
  <2>1. pc = "recover" /\ pc' = pc /\ file' = file /\ by' = by
    BY <1>2 DEF RecoverByte, ReadDirsep, Read107, ReadCipher, ReadSpace, ReadPlain, ReadInvalid, Turn
  <2>2. Clean(out')
    BY <1>2, <2>1, CleanTurn DEF FfClean
  <2> QED
    BY <2>1, <2>2 DEF FfClean, Filling
<1>3. CASE RecoverDone
  <2>1. pc = "recover" /\ file' = out /\ pc' = "idle"
    BY <1>3 DEF RecoverDone, Ended
  <2>2. Clean(file')
    BY <2>1 DEF FfClean
  <2> QED
    BY <2>1, <2>2 DEF FfClean, Filling
<1>4. CASE StartFill
  <2>1. offset = 0
    BY <1>4 DEF StartFill, FfReading
  <2>2. offset' = 0 /\ pc' \in {"encrypt", "decrypt"} /\ file' = file /\ by' = by
    BY <1>4, <2>1 DEF StartFill
  <2> QED
    BY <2>2 DEF FfClean, AtBreak
<1>5. CASE FillEntry
  <2>1. file \in Text /\ offset \in Nat /\ offset < Len(file) /\ WellFormed
    BY <1>5 DEF FfTyped, ReaderTyped, StoreTyped, FillEntry, Verdict
  <2>2. file[NulAt] = Nul
    BY <2>1, EntryType
  <2>3. offset' = NulAt /\ file' = file /\ by' = by /\ pc' = pc /\ pc # "recover" /\ pc # "corrupt"
    BY <1>5 DEF FillEntry, Filling
  <2>4. AtBreak(file', offset')
    BY <2>2, <2>3 DEF AtBreak
  <2> QED
    BY <2>3, <2>4 DEF FfClean
<1>6. CASE FillRefuses
  <2>1. file \in Text /\ offset \in Nat /\ offset < Len(file)
    BY <1>6 DEF FfTyped, ReaderTyped, StoreTyped, FillRefuses
  <2>2. pc' = Verdict /\ Verdict \in Refusals /\ file' = file /\ by' = by
    BY <1>6 DEF FillRefuses, Ended, Verdict, Refusals
  <2>3. pc' # "recover" /\ ~Filling'
    BY <2>2 DEF Refusals, Filling
  <2>4. by = "recover" => WellFormed
    <3> SUFFICES ASSUME by = "recover" PROVE WellFormed
      OBVIOUS
    <3>1. Closed(file) /\ LinesOf(file, Good) /\ AtBreak(file, offset)
      BY <1>6 DEF FfClean, Clean, FillRefuses
    <3> QED
      BY <2>1, <3>1, CleanReads
  <2>5. WellFormed => Verdict # "corrupt"
    BY DEF Verdict
  <2> QED
    BY <2>2, <2>3, <2>4, <2>5 DEF FfClean
<1>7. CASE FillDone
  <2>1. file' = file /\ by' = by /\ pc' \in {"filled", "idle"}
    BY <1>7 DEF FillDone, Ended
  <2> QED
    BY <2>1 DEF FfClean, Filling
<1>8. CASE ScanFailed
  <2>1. file' = file /\ by' = by /\ pc' = "idle"
    BY <1>8 DEF ScanFailed, Ended
  <2> QED
    BY <2>1 DEF FfClean, Filling
<1>9. CASE WriteMap \/ WriteCut
  <2>1. by' \in {"write", "cut"} /\ pc' = "idle"
    BY <1>9 DEF WriteMap, WriteCut, Ended
  <2> QED
    BY <2>1 DEF FfClean, Filling
<1>10. ASSUME NEW p \in Paths, NEW c \in Ciphers, Name(p, c) PROVE FfClean'
  <2>1. file' = file /\ by' = by /\ pc' = pc /\ pc = "filled"
    BY <1>10 DEF Name
  <2> QED
    BY <2>1 DEF FfClean, Filling
<1>11. CASE UNCHANGED ffVars
  BY <1>11 DEF ffVars, FfClean, Filling
<1> QED
  BY <1>1, <1>2, <1>3, <1>4, <1>5, <1>6, <1>7, <1>8, <1>9, <1>10, <1>11 DEF FfNext

LEMMA AlwaysClean == FfSpec => [](FfTyped /\ FfReading /\ FfClean)
<1>1. FfInit => FfTyped /\ FfReading /\ FfClean
  BY TypedInit DEF FfInit, FfReading, FfClean, Filling
<1>2. FfTyped /\ FfReading /\ FfClean /\ [FfNext]_ffVars => (FfTyped /\ FfReading /\ FfClean)'
  BY TypedStep, ReadingStep, CleanStep
<1> QED
  BY <1>1, <1>2, PTL DEF FfSpec

\* A map that rsyncrypto_recover printed is never "Corrupt filemap" to fill_map, and
\* recovering it again changes nothing (recover.cpp, filemap.cpp).
THEOREM RecoveredIsReadable == FfSpec => []RecoveredReadable
<1>1. FfTyped /\ FfReading /\ FfClean => RecoveredReadable
  BY DEF FfClean, Clean, RecoveredReadable
<1> QED
  BY <1>1, AlwaysClean, PTL

-----------------------------------------------------------------------------
(* fill_map reads what write_map set out to write. *)

LEMMA JoinedLines ==
  ASSUME NEW R, R \subseteq Good, NEW rs \in Seq(R), NEW l \in 0..Len(rs)
  PROVE  Joined(rs, l) \in Text /\ Closed(Joined(rs, l)) /\ LinesOf(Joined(rs, l), R)
<1> DEFINE Laid(k) == Joined(rs, k) \in Text /\ Closed(Joined(rs, k)) /\ LinesOf(Joined(rs, k), R)
<1> DEFINE T == {k \in Nat : k \in 0..Len(rs) /\ ~Laid(k)}
<1> SUFFICES ASSUME T # {} PROVE FALSE
  OBVIOUS
<1>1. PICK k \in T : \A j \in T : k <= j
  <2>1. T \in SUBSET Nat
    OBVIOUS
  <2> HIDE DEF T
  <2> QED
    BY <2>1, LeastNumber
<1>2. k \in Nat /\ k \in 0..Len(rs) /\ ~Laid(k)
  OBVIOUS
<1>3. R \subseteq Records
  BY DEF Good
<1>4. rs \in Seq(Records) /\ Len(rs) \in Nat /\ \A i \in 1..Len(rs) : rs[i] \in R
  BY <1>3
<1>5. k # 0
  <2>1. Joined(rs, 0) = <<>>
    BY JoinedNone
  <2>2. \A b, e \in Nat : ~IsLine(<<>>, b, e)
    BY Kinds DEF IsLine
  <2>3. Laid(0)
    BY <2>1, <2>2, Kinds DEF Closed, LinesOf
  <2> HIDE DEF Laid
  <2> QED
    BY <1>2, <2>3
<1>6. PICK j \in Nat : j + 1 = k
  BY <1>2, <1>5
<1>7. ~(k <= j) /\ j \in 0..Len(rs) /\ j + 1 \in 1..Len(rs) /\ j + 1 <= Len(rs)
  BY <1>2, <1>4, <1>6
<1>8. Laid(j)
  BY <1>1, <1>7
<1>9. Joined(rs, j + 1) = Joined(rs, j) \o Bytes(rs[j + 1])
  BY <1>4, <1>7, JoinedNext
<1>10. PICK s, r : s = Joined(rs, j) /\ r = rs[j + 1]
  OBVIOUS
<1>11. r \in R /\ r \in Good
  BY <1>4, <1>7, <1>10
<1>12. s \in Text /\ Closed(s) /\ LinesOf(s, R)
  BY <1>8, <1>10
<1>13. s \o Bytes(r) \in Text /\ Closed(s \o Bytes(r)) /\ LinesOf(s \o Bytes(r), R)
  BY <1>11, <1>12, LinesNext
<1>14. Joined(rs, k) = s \o Bytes(r)
  BY <1>6, <1>9, <1>10
<1> QED
  BY <1>2, <1>13, <1>14

\* Record k + 1 of a map is its line k + 1.
LEMMA NthLine ==
  ASSUME NEW R, R \subseteq Good, NEW rs \in Seq(R), NEW k \in Nat, k + 1 <= Len(rs),
         NEW s, s = Joined(rs, Len(rs))
  PROVE  /\ rs[k + 1] \in R /\ s \in Text
         /\ Len(Joined(rs, k)) \in Nat /\ Len(Joined(rs, k + 1)) \in Nat
         /\ Len(Joined(rs, k)) < Len(Joined(rs, k + 1)) /\ Len(Joined(rs, k + 1)) <= Len(s)
         /\ IsLine(s, Len(Joined(rs, k)), Len(Joined(rs, k + 1)))
         /\ Line(s, Len(Joined(rs, k)), Len(Joined(rs, k + 1))) = Bytes(rs[k + 1])
<1>1. R \subseteq Records
  BY DEF Good
<1>2. rs \in Seq(Records) /\ Len(rs) \in Nat /\ \A i \in 1..Len(rs) : rs[i] \in R
  BY <1>1
<1>3. k \in 0..Len(rs) /\ k + 1 \in 0..Len(rs) /\ k + 1 \in 1..Len(rs) /\ Len(rs) \in 0..Len(rs)
  BY <1>2
<1>4. PICK p, q, r : p = Joined(rs, k) /\ q = Joined(rs, k + 1) /\ r = rs[k + 1]
  OBVIOUS
<1>5. r \in R /\ r \in Good
  BY <1>2, <1>3, <1>4
<1>6. PICK l : l = Bytes(r)
  OBVIOUS
<1>7. /\ l \in Text /\ Len(l) > 0 /\ l[Len(l)] = Nul
      /\ \A i \in 1..Len(l) : l[i] = Nul => i = Len(l)
  BY <1>5, <1>6, OneNul
<1>8. p \in Text /\ Closed(p)
  BY <1>3, <1>4, JoinedLines
<1>9. q = p \o l
  BY <1>2, <1>4, <1>6, JoinedNext
<1>10. q \in Text /\ s \in Text
  BY <1>3, <1>4, JoinedLines
<1>11. PICK w \in Text : s = q \o w
  BY <1>2, <1>3, <1>4, JoinedStarts
<1>12. Len(p) \in Nat /\ Len(l) \in Nat /\ Len(q) = Len(p) + Len(l)
  BY <1>7, <1>8, <1>9, Concat
<1>13. Len(w) \in Nat /\ Len(s) = Len(q) + Len(w)
  BY <1>10, <1>11, Concat
<1>14. IsLine(q, Len(p), Len(p) + Len(l)) /\ Line(q, Len(p), Len(p) + Len(l)) = l
  BY <1>7, <1>8, <1>9, LineBehind
<1>15. IsLine(q, Len(p), Len(q)) /\ Line(q, Len(p), Len(q)) = l
  BY <1>12, <1>14
<1>16. Len(q) \in Nat /\ Len(q) <= Len(q)
  BY <1>12
<1>17. IsLine(s, Len(p), Len(q)) /\ Line(s, Len(p), Len(q)) = l
  BY <1>10, <1>11, <1>12, <1>15, <1>16, LineBefore
<1>18. Len(p) < Len(q) /\ Len(q) <= Len(s)
  BY <1>7, <1>12, <1>13
<1> QED
  BY <1>4, <1>5, <1>6, <1>10, <1>12, <1>16, <1>17, <1>18, Zenon

\* Of a map cut anywhere, the lines that are left are lines of the map.
LEMMA CutLines ==
  ASSUME NEW R, NEW s \in Text, LinesOf(s, R), NEW n \in Nat, n <= Len(s)
  PROVE  SubSeq(s, 1, n) \in Text /\ LinesOf(SubSeq(s, 1, n), R)
<1>1. PICK p, w : p = SubSeq(s, 1, n) /\ w = SubSeq(s, n + 1, Len(s))
  OBVIOUS
<1>2. PICK m \in Nat : m = Len(s)
  BY DEF Text
<1>3. p \in Text /\ Len(p) = n /\ \A j \in 1..n : p[j] = s[j]
  BY <1>1, Prefix
<1>4. w \in Text /\ Len(w) = m - n /\ \A j \in 1..(m - n) : w[j] = s[n + j]
  BY <1>1, <1>2, Slice
<1>5. s = p \o w
  <2>1. PICK x : x = p \o w
    OBVIOUS
  <2>2. /\ x \in Text /\ Len(x) = n + (m - n) /\ (\A i \in 1..n : x[i] = p[i])
        /\ \A i \in 1..(m - n) : x[n + i] = w[i]
    <3>1. PICK a, d : a = Len(p) /\ d = Len(w)
      OBVIOUS
    <3>2. /\ x \in Text /\ Len(x) = a + d /\ (\A i \in 1..a : x[i] = p[i])
          /\ \A i \in 1..d : x[a + i] = w[i]
      BY <1>3, <1>4, <2>1, <3>1, Concat
    <3>3. a = n /\ d = m - n
      BY <1>3, <1>4, <3>1
    <3> QED
      BY <3>2, <3>3
  <2>3. Len(x) = m
    BY <1>2, <2>2
  <2>4. ASSUME NEW i \in 1..m PROVE x[i] = s[i]
    <3>1. CASE i <= n
      <4>1. i \in 1..n
        BY <3>1
      <4> QED
        BY <1>3, <2>2, <4>1
    <3>2. CASE ~(i <= n)
      <4>1. PICK j \in Nat : n + j = i
        BY <3>2
      <4>2. j \in 1..(m - n)
        BY <1>2, <3>2, <4>1
      <4> QED
        BY <1>4, <2>2, <4>1, <4>2
    <3> QED
      BY <3>1, <3>2
  <2> QED
    BY <1>2, <2>1, <2>2, <2>3, <2>4, SeqEqual DEF Text
<1>6. ASSUME NEW b \in Nat, NEW e \in Nat, IsLine(p, b, e) PROVE \E r \in R : Line(p, b, e) = Bytes(r)
  <2>1. e <= Len(p)
    BY <1>3, <1>6 DEF IsLine
  <2>2. IsLine(s, b, e) /\ Line(s, b, e) = Line(p, b, e)
    BY <1>3, <1>4, <1>5, <1>6, <2>1, LineBefore
  <2> QED
    BY <2>2 DEF LinesOf
<1> QED
  BY <1>1, <1>3, <1>6 DEF LinesOf

LEMMA EntryGood ==
  ASSUME file \in Text, offset \in Nat, offset < Len(file), WellFormed
  PROVE  Entry \in Good
<1>1. /\ Entry \in Records /\ Entry.dirsep \notin {Space, Nul}
      /\ SpaceAt \in (offset + 2)..Len(file) /\ NulAt \in (SpaceAt + 1)..Len(file)
  BY EntryType
<1>2. First(file, offset + 2, {Space, Nul}, SpaceAt) /\ First(file, SpaceAt + 1, {Nul}, NulAt)
  BY Places
<1>3. PICK o \in Nat, k \in Nat, z \in Nat, n \in Nat :
         o = offset /\ k = SpaceAt /\ z = NulAt /\ n = Len(file)
  <2>1. SpaceAt \in Nat /\ NulAt \in Nat
    BY Places
  <2>2. Len(file) \in Nat
    BY DEF Text
  <2> QED
    BY <2>1, <2>2
<1>4. k \in (o + 2)..n /\ z \in (k + 1)..n
  BY <1>1, <1>3
<1>5. Entry.cipher = SubSeq(file, o + 2, k - 1) /\ Entry.plain = SubSeq(file, k + 1, z - 1)
  BY <1>3 DEF Entry
<1>6. \A i \in 1..Len(Entry.cipher) : Entry.cipher[i] \notin {Space, Nul}
  <2>1. PICK a \in Nat, d \in Nat : a = o + 1 /\ d = k - 1
    BY <1>4
  <2>2. a <= d /\ d <= n /\ a + 1 = o + 2
    BY <1>4, <2>1
  <2>3. Entry.cipher = SubSeq(file, a + 1, d)
    BY <1>5, <2>1, <2>2
  <2>4. Len(Entry.cipher) = d - a /\ \A j \in 1..(d - a) : Entry.cipher[j] = file[a + j]
    <3>1. PICK x : x = SubSeq(file, a + 1, d)
      OBVIOUS
    <3>2. Len(x) = d - a /\ \A j \in 1..(d - a) : x[j] = file[a + j]
      BY <1>3, <2>2, <3>1, Slice
    <3> QED
      BY <2>3, <3>1, <3>2, Zenon
  <2>5. \A j \in 1..(d - a) : a + j \in (o + 2)..n /\ ~(k <= a + j)
    BY <1>4, <2>1
  <2> QED
    BY <1>2, <1>3, <2>4, <2>5 DEF First
<1>7. \A i \in 1..Len(Entry.plain) : Entry.plain[i] # Nul
  <2>1. PICK d \in Nat : d = z - 1
    BY <1>4
  <2>2. k <= d /\ d <= n
    BY <1>4, <2>1
  <2>3. Entry.plain = SubSeq(file, k + 1, d)
    BY <1>5, <2>1
  <2>4. Len(Entry.plain) = d - k /\ \A j \in 1..(d - k) : Entry.plain[j] = file[k + j]
    BY <1>3, <2>2, <2>3, Slice
  <2>5. \A j \in 1..(d - k) : k + j \in (k + 1)..n /\ ~(z <= k + j)
    BY <1>4, <2>1
  <2> QED
    BY <1>2, <1>3, <2>4, <2>5 DEF First
<1> QED
  BY <1>1, <1>6, <1>7 DEF Good, Writable

LEMMA KeptGood ==
  ASSUME NEW r \in Good
  PROVE  Kept(r) \in Good
<1>1. r \in Records /\ Writable(r)
  BY DEF Good
<1>2. /\ Kept(r) \in Records /\ Kept(r).dirsep = r.dirsep /\ Kept(r).cipher = r.cipher
      /\ Kept(r).plain = Translated(r) /\ Len(Translated(r)) = Len(r.plain)
      /\ \A i \in 1..Len(r.plain) :
           Translated(r)[i] = IF r.plain[i] = r.dirsep THEN DirsepC ELSE r.plain[i]
  BY <1>1, KeptType
<1>3. \A i \in 1..Len(r.plain) : Translated(r)[i] # Nul
  BY <1>1, <1>2, Kinds DEF Writable
<1> QED
  BY <1>1, <1>2, <1>3 DEF Good, Writable

\* A record of this platform is kept as it is.
LEMMA KeptOwn ==
  ASSUME NEW r \in Records, r.dirsep = DirsepC
  PROVE  Kept(r) = r /\ Translated(r) = r.plain /\ ~Untranslatable(r)
<1>1. /\ Kept(r) \in Records /\ Kept(r).dirsep = r.dirsep /\ Kept(r).cipher = r.cipher
      /\ Kept(r).plain = Translated(r) /\ Len(Translated(r)) = Len(r.plain)
      /\ \A i \in 1..Len(r.plain) :
           Translated(r)[i] = IF r.plain[i] = r.dirsep THEN DirsepC ELSE r.plain[i]
  BY KeptType
<1>2. PICK p, q : p = Translated(r) /\ q = r.plain
  OBVIOUS
<1>3. p \in Text /\ q \in Text
  BY <1>1, <1>2 DEF Records
<1>4. Len(p) = Len(q) /\ \A i \in 1..Len(q) : p[i] = q[i]
  BY <1>1, <1>2
<1>5. p = q
  BY <1>3, <1>4, SeqEqual DEF Text
<1>6. Kept(r) = r
  BY <1>1, <1>2, <1>5 DEF Records
<1> QED
  BY <1>2, <1>5, <1>6 DEF Untranslatable

LEMMA NewGood ==
  ASSUME NEW p \in Paths, NEW c \in Ciphers
  PROVE  [dirsep |-> DirsepC, cipher |-> c, plain |-> p] \in Good
<1>1. [dirsep |-> DirsepC, cipher |-> c, plain |-> p] \in Records
  BY NewRecord
<1>2. \A i \in 1..Len(c) : c[i] \notin {Space, Nul}
  <2>1. c \in Seq(Hex)
    BY Texts
  <2>2. \A i \in 1..Len(c) : c[i] \in Hex
    BY <2>1, ElementOfSeq
  <2> QED
    BY <2>2, Kinds
<1>3. \A i \in 1..Len(p) : p[i] # Nul
  <2>1. p \in Seq(STRING) /\ Nul \notin ToSet(p)
    BY FormatBytes
  <2>2. DOMAIN p = 1..Len(p)
    BY <2>1
  <2> QED
    BY <2>1, <2>2 DEF ToSet
<1> QED
  BY <1>1, <1>2, <1>3, Kinds DEF Good, Writable

UniqueC(N) == \A r, q \in N : r.cipher = q.cipher => r = q
UniqueP(N) == \A r, q \in N : r.plain = q.plain => r = q

NamesOK ==
  /\ names \subseteq Good /\ UniqueC(names)
  /\ pc \in {"encrypt", "filled"} => UniqueP(names)
  /\ pc \in {"idle", "recover"} \cup Refusals => names = {}

MeantOK == meant \subseteq Good /\ UniqueC(meant) /\ UniqueP(meant)

\* Whatever happened to it, nothing but records of the map is left of it.
FromMeant == meant # {} => LinesOf(file, meant) /\ (pc = "recover" => LinesOf(out, meant))

\* fill_map has taken the first k records.
Taken(rs, k) == offset = Len(Joined(rs, k)) /\ names = {Kept(rs[i]) : i \in 1..k}

WrittenAs(rs) ==
  /\ Listed(rs, meant) /\ file = Joined(rs, Len(rs))
  /\ Filling => \E k \in 0..Len(rs) : Taken(rs, k)

Written == by = "write" => \E rs : WrittenAs(rs)

NoneInvented == Filling /\ meant # {} => names \subseteq {Kept(r) : r \in meant}

Own(N) == \A r \in N : r.dirsep = DirsepC
NotRefused == by = "write" /\ Own(meant) => pc \notin Refusals

FfMeant == NamesOK /\ MeantOK /\ FromMeant /\ Written /\ NoneInvented /\ NotRefused

\* A step that changes none of these.
KeepsFile == file' = file /\ meant' = meant /\ by' = by

LEMMA NamesStep == FfTyped /\ FfMeant /\ [FfNext]_ffVars => NamesOK'
<1> SUFFICES ASSUME FfTyped, FfMeant, [FfNext]_ffVars PROVE NamesOK'
  OBVIOUS
<1> USE DEF NamesOK
<1>1. NamesOK
  BY DEF FfMeant
<1>2. CASE names' = {}
  BY <1>2 DEF UniqueC, UniqueP
<1>3. CASE StartFill
  <2>1. names' = {}
    BY <1>1, <1>3 DEF StartFill
  <2> QED
    BY <1>2, <2>1
<1>4. CASE FillEntry
  <2>1. /\ file \in Text /\ offset \in Nat /\ offset < Len(file) /\ WellFormed
        /\ names' = names \cup {Kept(Entry)} /\ pc' = pc /\ pc \in {"encrypt", "decrypt"} /\ ~Duplicate(Entry)
    BY <1>4 DEF FfTyped, ReaderTyped, StoreTyped, FillEntry, Verdict, Filling
  <2>2. PICK r, q : r = Entry /\ q = Kept(r)
    OBVIOUS
  <2>3. r \in Good /\ q \in Good /\ names' = names \cup {q}
    BY <2>1, <2>2, EntryGood, KeptGood
  <2>4. q.cipher = r.cipher /\ q.plain = Translated(r)
    BY <2>2, <2>3, KeptType DEF Good
  <2>5. \A e \in names : e.cipher # q.cipher /\ (pc = "encrypt" => e.plain # q.plain)
    BY <2>1, <2>2, <2>4 DEF Duplicate
  <2>6. names' \subseteq Good
    BY <1>1, <2>3
  <2>7. UniqueC(names')
    BY <1>1, <2>3, <2>5 DEF UniqueC
  <2>8. pc' = "encrypt" => UniqueP(names')
    BY <1>1, <2>1, <2>3, <2>5 DEF UniqueP
  <2> QED
    BY <2>1, <2>6, <2>7, <2>8 DEF Refusals
<1>5. CASE FillDone
  <2>1. CASE pc = "encrypt"
    BY <1>1, <1>5, <2>1 DEF FillDone, Refusals
  <2>2. CASE pc # "encrypt"
    BY <1>2, <1>5, <2>2 DEF FillDone, Ended
  <2> QED
    BY <2>1, <2>2
<1>6. ASSUME NEW p \in Paths, NEW c \in Ciphers, Name(p, c) PROVE NamesOK'
  <2>1. PICK q : q = [dirsep |-> DirsepC, cipher |-> c, plain |-> p]
    OBVIOUS
  <2>2. q \in Good /\ q.cipher = c /\ q.plain = p
    BY <2>1, NewGood
  <2>3. /\ names' = names \cup {q} /\ pc' = pc /\ pc = "filled"
        /\ \A e \in names : e.plain # q.plain /\ e.cipher # q.cipher
    BY <1>6, <2>1, <2>2 DEF Name
  <2>4. names' \subseteq Good
    BY <1>1, <2>2, <2>3
  <2>5. UniqueC(names')
    BY <1>1, <2>3 DEF UniqueC
  <2>6. UniqueP(names')
    BY <1>1, <2>3 DEF UniqueP
  <2> QED
    BY <2>3, <2>4, <2>5, <2>6 DEF Refusals
<1>7. CASE StartRecover
  BY <1>1, <1>7 DEF StartRecover
<1>8. CASE RecoverByte
  BY <1>1, <1>8 DEF RecoverByte, ReadDirsep, Read107, ReadCipher, ReadSpace, ReadPlain, ReadInvalid, Turn
<1>9. CASE RecoverDone \/ FillRefuses \/ ScanFailed \/ WriteMap \/ WriteCut
  <2>1. names' = {}
    BY <1>9 DEF RecoverDone, FillRefuses, ScanFailed, WriteMap, WriteCut, Ended
  <2> QED
    BY <1>2, <2>1
<1>10. CASE UNCHANGED ffVars
  BY <1>1, <1>10 DEF ffVars
<1> QED
  BY <1>3, <1>4, <1>5, <1>6, <1>7, <1>8, <1>9, <1>10 DEF FfNext

LEMMA MeantStep == FfMeant /\ [FfNext]_ffVars => MeantOK'
<1> SUFFICES ASSUME FfMeant, [FfNext]_ffVars PROVE MeantOK'
  OBVIOUS
<1>1. NamesOK /\ MeantOK
  BY DEF FfMeant
<1>2. CASE meant' = meant
  BY <1>1, <1>2 DEF MeantOK
<1>3. CASE WriteMap \/ WriteCut
  <2>1. meant' = names /\ pc = "filled"
    BY <1>3 DEF WriteMap, WriteCut
  <2> QED
    BY <1>1, <2>1 DEF MeantOK, NamesOK
<1>4. WriteMap \/ WriteCut \/ meant' = meant
  BY DEF FfNext, ffVars, StartRecover, RecoverByte, ReadDirsep, Read107, ReadCipher, ReadSpace, ReadPlain,
         ReadInvalid, Turn, RecoverDone, StartFill, FillEntry, FillRefuses, FillDone, ScanFailed, Name
<1> QED
  BY <1>2, <1>3, <1>4

\* What the steps do to the file and its history.
LEMMA FileSteps ==
  ASSUME [FfNext]_ffVars
  PROVE  \/ KeepsFile
         \/ RecoverDone
         \/ WriteMap
         \/ WriteCut
BY DEF FfNext, ffVars, StartRecover, RecoverByte, ReadDirsep, Read107, ReadCipher, ReadSpace, ReadPlain,
       ReadInvalid, Turn, StartFill, FillEntry, FillRefuses, FillDone, ScanFailed, Name, KeepsFile

\* What is printed are lines of the file.
LEMMA PrintedMeant ==
  ASSUME FfTyped, FfReading, FfClean, RecoverByte, NEW R, LinesOf(file, R), LinesOf(out, R)
  PROVE  LinesOf(out', R)
<1>1. pc = "recover"
  BY DEF RecoverByte, ReadDirsep, Read107, ReadCipher, ReadSpace, ReadPlain, ReadInvalid, Turn
<1>2. PICK b : ParserAt(file, offset, state, record, b)
  BY <1>1 DEF FfReading
<1>3. CASE out' = out
  BY <1>3
<1>4. ASSUME NEW p, LinePrinted(p, b) PROVE LinesOf(out', R)
  <2>1. PICK s, f, o : s = out /\ f = file /\ o = offset
    OBVIOUS
  <2>2. s \in Text /\ Closed(s) /\ LinesOf(s, R) /\ LinesOf(f, R) /\ o \in Nat
    BY <1>1, <2>1 DEF FfTyped, ReaderTyped, FfClean, Clean
  <2>3. /\ out' = s \o Bytes(record) /\ record \in Good
        /\ IsLine(f, b, o + 1) /\ Line(f, b, o + 1) = Bytes(record)
    BY <1>4, <2>1 DEF LinePrinted
  <2>4. b \in Nat /\ o + 1 \in Nat
    BY <2>2, <2>3 DEF IsLine, LastBreak
  <2>5. PICK q \in R : Bytes(record) = Bytes(q)
    BY <2>2, <2>3, <2>4 DEF LinesOf
  <2>6. LinesOf(s \o Bytes(record), R)
    BY <2>2, <2>3, <2>5, LinesNext
  <2> QED
    BY <2>3, <2>6
<1> QED
  BY <1>2, <1>3, <1>4, PrintsLine

LEMMA FromMeantStep ==
  FfTyped /\ FfReading /\ FfClean /\ FfMeant /\ [FfNext]_ffVars => FromMeant'
<1> SUFFICES ASSUME FfTyped, FfReading, FfClean, FfMeant, [FfNext]_ffVars PROVE FromMeant'
  OBVIOUS
<1>1. FromMeant /\ NamesOK
  BY DEF FfMeant
<1>2. CASE KeepsFile
  <2> SUFFICES ASSUME meant # {} PROVE LinesOf(file, meant) /\ (pc' = "recover" => LinesOf(out', meant))
    BY <1>2 DEF FromMeant, KeepsFile
  <2>1. LinesOf(file, meant) /\ (pc = "recover" => LinesOf(out, meant))
    BY <1>1 DEF FromMeant
  <2>2. CASE RecoverByte
    <3>1. pc = "recover"
      BY <2>2 DEF RecoverByte, ReadDirsep, Read107, ReadCipher, ReadSpace, ReadPlain, ReadInvalid, Turn
    <3> QED
      BY <2>1, <2>2, <3>1, PrintedMeant
  <2>3. CASE StartRecover
    <3>1. out' = out /\ pc # "recover"
      BY <2>3 DEF StartRecover, Refusals
    <3>2. out' = <<>>
      BY <3>1 DEF FfReading
    <3>3. \A b, e \in Nat : ~IsLine(<<>>, b, e)
      BY Kinds DEF IsLine
    <3> QED
      BY <2>1, <3>2, <3>3 DEF LinesOf
  <2>4. CASE UNCHANGED ffVars
    BY <2>1, <2>4 DEF ffVars
  <2>5. RecoverByte \/ StartRecover \/ UNCHANGED ffVars \/ pc' # "recover"
    BY DEF FfNext, RecoverDone, StartFill, FillEntry, FillRefuses, FillDone, ScanFailed, Name, WriteMap, WriteCut,
           Ended, Filling, Verdict
  <2> QED
    BY <2>1, <2>2, <2>3, <2>4, <2>5
<1>3. CASE RecoverDone
  <2>1. pc = "recover" /\ file' = out /\ pc' = "idle" /\ meant' = meant /\ by' = "recover"
    BY <1>3 DEF RecoverDone, Ended
  <2> QED
    BY <1>1, <2>1 DEF FromMeant
<1>4. CASE WriteMap \/ WriteCut
  <2>1. pc = "filled" /\ pc' = "idle" /\ meant' = names
    BY <1>4 DEF WriteMap, WriteCut, Ended
  <2>2. PICK m, N : m = MapBytes /\ N = names
    OBVIOUS
  <2>3. PICK rs : rs = SetToSeq(N)
    OBVIOUS
  <2>4. IsFiniteSet(N) /\ N \subseteq Good
    BY <1>1, <2>2 DEF NamesOK, FfTyped, StoreTyped, RecordsTyped
  <2>5. Listed(rs, N) /\ m = Joined(rs, Len(rs))
    BY <2>2, <2>3, <2>4, ListOf, MapIsJoined
  <2>6. rs \in Seq(N) /\ Len(rs) \in 0..Len(rs)
    BY <2>5 DEF Listed
  <2>7. m \in Text /\ LinesOf(m, N)
    BY <2>4, <2>5, <2>6, JoinedLines
  <2>8. CASE file' = m
    BY <2>1, <2>2, <2>7, <2>8 DEF FromMeant
  <2>9. ASSUME NEW n \in 0..(Len(m) - 1), file' = SubSeq(m, 1, n) PROVE FromMeant'
    <3>1. n \in Nat /\ n <= Len(m)
      BY <2>7, <2>9 DEF Text
    <3>2. LinesOf(file', N)
      BY <2>7, <2>9, <3>1, CutLines
    <3> QED
      BY <2>1, <2>2, <3>2 DEF FromMeant
  <2> QED
    BY <1>4, <2>2, <2>8, <2>9 DEF WriteMap, WriteCut
<1> QED
  BY <1>2, <1>3, <1>4, FileSteps

\* Where fill_map is in what write_map wrote: at a line it can read, or at the end.
LEMMA TakenNext ==
  ASSUME FfTyped, MeantOK, NEW rs, WrittenAs(rs), NEW k \in 0..Len(rs), Taken(rs, k), offset < Len(file)
  PROVE  /\ k + 1 \in 1..Len(rs) /\ rs[k + 1] \in meant
         /\ WellFormed /\ Entry = rs[k + 1] /\ NulAt = Len(Joined(rs, k + 1))
<1>1. rs \in Seq(meant) /\ Len(rs) \in Nat /\ meant \subseteq Good
  BY DEF WrittenAs, Listed, MeantOK
<1>2. offset = Len(Joined(rs, k)) /\ file = Joined(rs, Len(rs)) /\ file \in Text /\ offset \in Nat
  BY DEF Taken, WrittenAs, FfTyped, ReaderTyped, StoreTyped
<1>3. Len(file) \in Nat
  BY <1>2 DEF Text
<1>4. k # Len(rs)
  BY <1>2, <1>3
<1>5. k \in Nat /\ k + 1 <= Len(rs) /\ k + 1 \in 1..Len(rs)
  BY <1>1, <1>4
<1>6. PICK e : e = Len(Joined(rs, k + 1))
  OBVIOUS
<1>7. rs[k + 1] \in meant /\ IsLine(file, offset, e) /\ Line(file, offset, e) = Bytes(rs[k + 1])
  BY <1>1, <1>2, <1>5, <1>6, NthLine
<1>8. rs[k + 1] \in Good
  BY <1>1, <1>7
<1>9. WellFormed /\ NulAt = e /\ Entry = rs[k + 1]
  BY <1>2, <1>7, <1>8, ReadsRecord
<1> QED
  BY <1>5, <1>6, <1>7, <1>9

LEMMA TakenAll ==
  ASSUME FfTyped, MeantOK, NEW rs, WrittenAs(rs), NEW k \in 0..Len(rs), Taken(rs, k), offset >= Len(file)
  PROVE  names = {Kept(r) : r \in meant}
<1>1. rs \in Seq(meant) /\ Len(rs) \in Nat /\ meant \subseteq Good /\ \A r \in meant : \E i \in 1..Len(rs) : rs[i] = r
  BY DEF WrittenAs, Listed, MeantOK
<1>2. offset = Len(Joined(rs, k)) /\ file = Joined(rs, Len(rs)) /\ names = {Kept(rs[i]) : i \in 1..k}
  BY DEF Taken, WrittenAs
<1>3. k = Len(rs)
  <2> SUFFICES ASSUME k # Len(rs) PROVE FALSE
    OBVIOUS
  <2>1. k \in Nat /\ k + 1 <= Len(rs)
    BY <1>1
  <2>2. PICK a, b, n : a = Len(Joined(rs, k)) /\ b = Len(Joined(rs, k + 1)) /\ n = Len(file)
    OBVIOUS
  <2>3. a \in Nat /\ b \in Nat /\ a < b /\ b <= n /\ file \in Text
    BY <1>1, <1>2, <2>1, <2>2, NthLine
  <2>4. n \in Nat /\ a >= n
    BY <1>2, <2>2, <2>3 DEF Text
  <2> QED
    BY <2>3, <2>4
<1>4. \A i \in 1..Len(rs) : rs[i] \in meant
  BY <1>1
<1> QED
  BY <1>1, <1>2, <1>3, <1>4

\* A map of this platform has nothing to be refused.
LEMMA NothingRefused ==
  ASSUME FfTyped, MeantOK, NEW rs, WrittenAs(rs), NEW k \in 0..Len(rs), Taken(rs, k), offset < Len(file),
         Own(meant)
  PROVE  Verdict = "good"
<1>1. /\ k + 1 \in 1..Len(rs) /\ rs[k + 1] \in meant /\ WellFormed /\ Entry = rs[k + 1]
  BY TakenNext
<1>2. /\ rs \in Seq(meant) /\ Len(rs) \in Nat /\ meant \subseteq Good /\ UniqueC(meant) /\ UniqueP(meant)
      /\ \A i, j \in 1..Len(rs) : rs[i] = rs[j] => i = j
  BY DEF WrittenAs, Listed, MeantOK
<1>3. PICK r : r = rs[k + 1]
  OBVIOUS
<1>4. \A q \in meant : Kept(q) = q /\ Translated(q) = q.plain /\ ~Untranslatable(q)
  <2>1. meant \subseteq Records
    BY <1>2 DEF Good
  <2> QED
    BY <2>1, KeptOwn DEF Own
<1>5. names = {Kept(rs[i]) : i \in 1..k}
  BY DEF Taken
<1>6. ASSUME Duplicate(r) PROVE FALSE
  <2>1. PICK e \in names : e.cipher = r.cipher \/ e.plain = Translated(r)
    BY <1>6 DEF Duplicate
  <2>2. PICK i \in 1..k : e = Kept(rs[i])
    BY <1>5, <2>1
  <2>3. i \in 1..Len(rs) /\ i # k + 1
    BY <1>2
  <2>4. rs[i] \in meant
    BY <1>2, <2>3
  <2>5. e = rs[i] /\ Translated(r) = r.plain /\ r \in meant /\ e \in meant
    BY <1>1, <1>3, <1>4, <2>2, <2>4
  <2>6. e = r
    BY <1>2, <2>1, <2>5 DEF UniqueC, UniqueP
  <2>7. rs[i] = rs[k + 1]
    BY <1>3, <2>5, <2>6
  <2> QED
    BY <1>1, <1>2, <2>3, <2>7
<1> QED
  BY <1>1, <1>3, <1>4, <1>6 DEF Verdict

LEMMA WrittenStep ==
  FfTyped /\ FfReading /\ FfMeant /\ [FfNext]_ffVars => Written'
<1> SUFFICES ASSUME FfTyped, FfReading, FfMeant, [FfNext]_ffVars PROVE Written'
  OBVIOUS
<1>1. Written /\ NamesOK /\ MeantOK
  BY DEF FfMeant
<1>2. CASE KeepsFile
  <2> SUFFICES ASSUME by = "write" PROVE Written'
    BY <1>2 DEF Written, KeepsFile
  <2>1. PICK rs : WrittenAs(rs)
    BY <1>1 DEF Written
  <2>2. Listed(rs, meant') /\ file' = Joined(rs, Len(rs)) /\ by' = by /\ rs \in Seq(meant)
    BY <1>2, <2>1 DEF WrittenAs, KeepsFile, Listed
  <2>3. (\E k \in 0..Len(rs) : Taken(rs, k)') => WrittenAs(rs)'
    BY <2>2 DEF WrittenAs
  <2>4. ~Filling' => WrittenAs(rs)'
    BY <2>2 DEF WrittenAs
  <2>5. CASE StartFill
    <3>1. offset' = 0 /\ names' = {}
      BY <1>1, <2>5 DEF StartFill, FfReading, NamesOK
    <3>2. Joined(rs, 0) = <<>> /\ Len(<<>>) = 0 /\ 0 \in 0..Len(rs)
      BY <2>2, JoinedNone, Kinds
    <3>3. {Kept(rs[i]) : i \in 1..0} = {}
      OBVIOUS
    <3>4. Taken(rs, 0)'
      BY <3>1, <3>2, <3>3 DEF Taken
    <3> QED
      BY <2>3, <3>2, <3>4 DEF Written
  <2>6. CASE FillEntry
    <3>1. Filling /\ offset < Len(file) /\ names' = names \cup {Kept(Entry)} /\ offset' = NulAt
      BY <2>6 DEF FillEntry
    <3>2. PICK k \in 0..Len(rs) : Taken(rs, k)
      BY <2>1, <3>1 DEF WrittenAs
    <3>3. k + 1 \in 1..Len(rs) /\ Entry = rs[k + 1] /\ NulAt = Len(Joined(rs, k + 1))
      BY <1>1, <2>1, <3>1, <3>2, TakenNext
    <3>4. names = {Kept(rs[i]) : i \in 1..k}
      BY <3>2 DEF Taken
    <3>5. names' = {Kept(rs[i]) : i \in 1..(k + 1)}
      <4>1. 1..(k + 1) = (1..k) \cup {k + 1}
        OBVIOUS
      <4> QED
        BY <3>1, <3>3, <3>4, <4>1
    <3>6. Taken(rs, k + 1)' /\ k + 1 \in 0..Len(rs)
      BY <3>1, <3>3, <3>5 DEF Taken
    <3> QED
      BY <2>3, <3>6 DEF Written
  <2>7. CASE UNCHANGED ffVars
    BY <1>1, <2>7 DEF ffVars, Written, WrittenAs, Filling, Taken
  <2>8. StartFill \/ FillEntry \/ UNCHANGED ffVars \/ ~Filling'
    BY DEF FfNext, StartRecover, RecoverByte, ReadDirsep, Read107, ReadCipher, ReadSpace, ReadPlain, ReadInvalid,
           Turn, RecoverDone, FillRefuses, FillDone, ScanFailed, Name, WriteMap, WriteCut, Ended, Filling, Verdict
  <2> QED
    BY <2>4, <2>5, <2>6, <2>7, <2>8 DEF Written
<1>3. CASE RecoverDone \/ WriteCut
  <2>1. by' # "write"
    BY <1>3 DEF RecoverDone, WriteCut
  <2> QED
    BY <2>1 DEF Written
<1>4. CASE WriteMap
  <2>1. meant' = names /\ file' = MapBytes /\ pc' = "idle"
    BY <1>4 DEF WriteMap, Ended
  <2>2. IsFiniteSet(names)
    BY DEF FfTyped, StoreTyped, RecordsTyped
  <2>3. PICK rs : rs = SetToSeq(names)
    OBVIOUS
  <2>4. Listed(rs, names) /\ MapBytes = Joined(rs, Len(rs))
    BY <2>2, <2>3, ListOf, MapIsJoined
  <2>5. WrittenAs(rs)'
    BY <2>1, <2>4 DEF WrittenAs, Filling
  <2> QED
    BY <2>5 DEF Written
<1> QED
  BY <1>2, <1>3, <1>4, FileSteps

LEMMA NoneInventedStep ==
  FfTyped /\ FfClean /\ FfMeant /\ [FfNext]_ffVars => NoneInvented'
<1> SUFFICES ASSUME FfTyped, FfClean, FfMeant, [FfNext]_ffVars PROVE NoneInvented'
  OBVIOUS
<1>1. NoneInvented /\ NamesOK /\ MeantOK /\ FromMeant
  BY DEF FfMeant
<1>2. CASE StartFill
  <2>1. names' = {}
    BY <1>1, <1>2 DEF StartFill, NamesOK
  <2> QED
    BY <2>1 DEF NoneInvented
<1>3. CASE FillEntry
  <2>1. /\ file \in Text /\ offset \in Nat /\ offset < Len(file) /\ WellFormed /\ Filling /\ AtBreak(file, offset)
        /\ names' = names \cup {Kept(Entry)} /\ meant' = meant
    BY <1>3 DEF FfTyped, ReaderTyped, StoreTyped, FillEntry, Verdict, FfClean
  <2> SUFFICES ASSUME meant # {} PROVE names' \subseteq {Kept(r) : r \in meant}
    BY <2>1 DEF NoneInvented
  <2>2. PICK e : e = NulAt
    OBVIOUS
  <2>3. IsLine(file, offset, e)
    BY <2>1, <2>2, EntryLine
  <2>4. e \in Nat
    BY <2>1, <2>2, Places
  <2>5. PICK r \in meant : Line(file, offset, e) = Bytes(r)
    BY <1>1, <2>1, <2>3, <2>4 DEF FromMeant, LinesOf
  <2>6. r \in Good
    BY <1>1, <2>5 DEF MeantOK
  <2>7. Entry = r
    BY <2>1, <2>3, <2>5, <2>6, ReadsRecord
  <2>8. names \subseteq {Kept(q) : q \in meant}
    BY <1>1, <2>1 DEF NoneInvented
  <2> QED
    BY <2>1, <2>5, <2>7, <2>8
<1>4. CASE UNCHANGED ffVars
  BY <1>1, <1>4 DEF ffVars, NoneInvented, Filling
<1>5. StartFill \/ FillEntry \/ UNCHANGED ffVars \/ ~Filling'
  BY DEF FfNext, StartRecover, RecoverByte, ReadDirsep, Read107, ReadCipher, ReadSpace, ReadPlain, ReadInvalid,
         Turn, RecoverDone, FillRefuses, FillDone, ScanFailed, Name, WriteMap, WriteCut, Ended, Filling, Verdict
<1> QED
  BY <1>2, <1>3, <1>4, <1>5 DEF NoneInvented

LEMMA NotRefusedStep == FfTyped /\ FfMeant /\ [FfNext]_ffVars => NotRefused'
<1> SUFFICES ASSUME FfTyped, FfMeant, [FfNext]_ffVars PROVE NotRefused'
  OBVIOUS
<1>1. NotRefused /\ Written /\ MeantOK
  BY DEF FfMeant
<1>2. CASE FillRefuses
  <2>1. by' = by /\ meant' = meant /\ Filling /\ offset < Len(file) /\ Verdict # "good"
    BY <1>2 DEF FillRefuses
  <2> SUFFICES ASSUME by = "write", Own(meant) PROVE FALSE
    BY <2>1 DEF NotRefused, Own
  <2>2. PICK rs : WrittenAs(rs)
    BY <1>1 DEF Written
  <2>3. PICK k \in 0..Len(rs) : Taken(rs, k)
    BY <2>1, <2>2 DEF WrittenAs
  <2> QED
    BY <1>1, <2>1, <2>2, <2>3, NothingRefused
<1>3. CASE KeepsFile /\ pc' = pc
  BY <1>1, <1>3 DEF KeepsFile, NotRefused, Own
<1>4. CASE pc' \notin Refusals
  BY <1>4 DEF NotRefused, Refusals
<1>5. FillRefuses \/ (KeepsFile /\ pc' = pc) \/ pc' \notin Refusals
  BY DEF FfNext, ffVars, StartRecover, RecoverByte, ReadDirsep, Read107, ReadCipher, ReadSpace, ReadPlain, ReadInvalid,
         Turn, RecoverDone, StartFill, FillEntry, FillDone, ScanFailed, Name, WriteMap, WriteCut, Ended, Refusals,
         KeepsFile
<1> QED
  BY <1>2, <1>3, <1>4, <1>5

LEMMA MeantNow == FfTyped /\ FfMeant => RereadAsMeant
<1> SUFFICES ASSUME FfTyped, FfMeant PROVE RereadAsMeant
  OBVIOUS
<1>1. Written /\ MeantOK /\ NoneInvented /\ NotRefused
  BY DEF FfMeant
<1>2. ASSUME by = "write", Own(meant), Filling, offset >= Len(file) PROVE names = meant
  <2>1. PICK rs : WrittenAs(rs)
    BY <1>1, <1>2 DEF Written
  <2>2. PICK k \in 0..Len(rs) : Taken(rs, k)
    BY <1>2, <2>1 DEF WrittenAs
  <2>3. names = {Kept(r) : r \in meant}
    BY <1>1, <1>2, <2>1, <2>2, TakenAll
  <2>4. \A r \in meant : Kept(r) = r
    <3>1. meant \subseteq Records
      BY <1>1 DEF MeantOK, Good
    <3> QED
      BY <1>2, <3>1, KeptOwn DEF Own
  <2> QED
    BY <2>3, <2>4
<1> QED
  BY <1>1, <1>2 DEF RereadAsMeant, NoneInvented, NotRefused, Own

\* fill_map reads what write_map set out to write: all of it when the writing was
\* finished and the names are this platform's; and whatever was cut off, recovered
\* or refused, never a name for a file it was not given (filemap.cpp).
THEOREM RereadCorrect == FfSpec => []RereadAsMeant
<1>1. FfInit => FfTyped /\ FfReading /\ FfClean
  BY TypedInit DEF FfInit, FfReading, FfClean, Filling
<1>2. FfInit => FfMeant
  BY DEF FfInit, FfMeant, NamesOK, MeantOK, FromMeant, Written, NoneInvented, NotRefused, UniqueC, UniqueP,
         Filling, Refusals
<1>3. FfTyped /\ FfReading /\ FfClean /\ FfMeant /\ [FfNext]_ffVars => FfMeant'
  BY NamesStep, MeantStep, FromMeantStep, WrittenStep, NoneInventedStep, NotRefusedStep DEF FfMeant
<1>4. FfTyped /\ FfReading /\ FfClean /\ [FfNext]_ffVars => (FfTyped /\ FfReading /\ FfClean)'
  BY TypedStep, ReadingStep, CleanStep
<1>5. FfSpec => [](FfTyped /\ FfReading /\ FfClean /\ FfMeant)
  BY <1>1, <1>2, <1>3, <1>4, PTL DEF FfSpec
<1> QED
  BY <1>5, MeantNow, PTL
=============================================================================
