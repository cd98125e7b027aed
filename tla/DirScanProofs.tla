---------------------------- MODULE DirScanProofs ----------------------------
(***************************************************************************)
(* Theorems about DirScan, for all trees of paths, lists, options, changes *)
(* and failures: the trees stay trees, which files left alone are tried,   *)
(* what --delete leaves of what is gone, and what it takes.                *)
(***************************************************************************)
EXTENDS DirScan, TLAPS

-----------------------------------------------------------------------------
(* Paths.  All that is known of them from here on: which are above which. *)

Name == UNION {Range(s) : s \in Sources}

Path == Seq(Name)

LEMMA SourcesArePaths ==
  /\ Sources \subseteq Path /\ <<>> \in Path /\ <<>> \notin Sources
  /\ \A s \in Sources : Above(s) \subseteq Sources \cup {<<>>}
<1>1. ASSUME NEW s \in Sources  PROVE s \in Path
  <2>1. s \in Seq(Range(s))  BY ScanParams
  <2>2. Range(s) \subseteq Name  BY DEF Name
  <2>3. \A i \in 1..Len(s) : s[i] \in Name  BY <2>1, <2>2
  <2> QED  BY <2>1, <2>3 DEF Path
<1> QED  BY <1>1, ScanParams DEF Path

\* What a prefix is, element by element.
LEMMA PrefixIs ==
  ASSUME NEW p \in Path, NEW q
  PROVE  q \in Prefixes(p) <=> /\ q \in Path /\ Len(q) <= Len(p)
                               /\ \A i \in 1..Len(q) : q[i] = p[i]
<1>1. ASSUME NEW l \in 0..Len(p)
      PROVE  /\ SubSeq(p, 1, l) \in Path /\ Len(SubSeq(p, 1, l)) = l
             /\ \A i \in 1..l : SubSeq(p, 1, l)[i] = p[i]
  BY DEF Path
<1>2. ASSUME q \in Prefixes(p)
      PROVE  /\ q \in Path /\ Len(q) <= Len(p)
             /\ \A i \in 1..Len(q) : q[i] = p[i]
  <2>1. PICK l \in 0..Len(p) : q = SubSeq(p, 1, l)  BY <1>2 DEF Prefixes
  <2>2. Len(p) \in Nat  BY DEF Path
  <2> QED  BY <1>1, <2>1, <2>2
<1>3. ASSUME q \in Path, Len(q) <= Len(p), \A i \in 1..Len(q) : q[i] = p[i]
      PROVE  q \in Prefixes(p)
  <2>1. Len(q) \in 0..Len(p)  BY <1>3 DEF Path
  <2>2. q = SubSeq(p, 1, Len(q))  BY <1>3, <1>1, <2>1 DEF Path
  <2> QED  BY <2>1, <2>2 DEF Prefixes
<1> QED  BY <1>2, <1>3

LEMMA PathsEqual ==
  ASSUME NEW p \in Path, NEW q \in Path, Len(p) = Len(q), \A i \in 1..Len(p) : p[i] = q[i]
  PROVE  p = q
BY DEF Path

\* Prefixes are an order in which what is below one path is a chain.
LEMMA PrefixOrder ==
  ASSUME NEW p \in Path, NEW q \in Prefixes(p)
  PROVE  /\ p \in Prefixes(p) /\ <<>> \in Prefixes(p) /\ q \in Path
         /\ \A r \in Prefixes(q) : r \in Prefixes(p)
         /\ p \in Prefixes(q) => p = q
         /\ \A r \in Prefixes(p) : q \in Prefixes(r) \/ r \in Prefixes(q)
         /\ Len(q) \in 0..Len(p) /\ Len(p) \in Nat /\ (Len(q) = Len(p) <=> q = p)
<1>1. q \in Path /\ Len(q) \in Nat /\ Len(p) \in Nat /\ Len(q) <= Len(p)
  BY PrefixIs DEF Path
<1>2. p \in Prefixes(p)  BY PrefixIs, <1>1
<1>3. <<>> \in Prefixes(p)
  <2>1. <<>> \in Path /\ Len(<<>>) = 0  BY DEF Path
  <2> QED  BY PrefixIs, <1>1, <2>1
<1>4. ASSUME NEW r \in Prefixes(q)  PROVE r \in Prefixes(p)
  <2>1. /\ r \in Path /\ Len(r) <= Len(q) /\ Len(r) \in Nat
        /\ \A i \in 1..Len(r) : r[i] = q[i]
    BY PrefixIs, <1>1 DEF Path
  <2>2. \A i \in 1..Len(q) : q[i] = p[i]  BY PrefixIs
  <2>3. \A i \in 1..Len(r) : r[i] = p[i]  BY <2>1, <2>2, <1>1
  <2> QED  BY <2>1, <2>3, <1>1, PrefixIs
<1>5. ASSUME Len(q) = Len(p)  PROVE q = p
  <2>1. \A i \in 1..Len(q) : q[i] = p[i]  BY PrefixIs
  <2> QED  BY <2>1, <1>1, <1>5, PathsEqual
<1>6. ASSUME p \in Prefixes(q)  PROVE p = q
  BY <1>6, <1>5, <1>1, PrefixIs
<1>7. ASSUME NEW r \in Prefixes(p), NEW s \in Prefixes(p), Len(r) <= Len(s)
      PROVE  r \in Prefixes(s)
  <2>1. /\ r \in Path /\ s \in Path /\ Len(r) \in Nat /\ Len(s) \in Nat
        /\ \A i \in 1..Len(r) : r[i] = p[i]
        /\ \A i \in 1..Len(s) : s[i] = p[i]
    BY PrefixIs DEF Path
  <2>2. \A i \in 1..Len(r) : r[i] = s[i]  BY <2>1, <1>7
  <2> QED  BY <2>1, <2>2, <1>7, PrefixIs
<1>8. ASSUME NEW r \in Prefixes(p)  PROVE q \in Prefixes(r) \/ r \in Prefixes(q)
  <2>1. r \in Path /\ Len(r) \in Nat  BY PrefixIs DEF Path
  <2>2. Len(r) <= Len(q) \/ Len(q) <= Len(r)  BY <2>1, <1>1
  <2> QED  BY <2>2, <1>7
<1> QED  BY <1>1, <1>2, <1>3, <1>4, <1>5, <1>6, <1>8

\* Below a directory: the way to it leads through one of its entries.
LEMMA NextOnTheWay ==
  ASSUME NEW p \in Path, NEW d \in Above(p)
  PROVE  \E c \in Prefixes(p) : c # <<>> /\ Front(c) = d /\ Len(c) = Len(d) + 1
<1>1. d \in Path /\ Len(d) \in Nat /\ Len(p) \in Nat /\ Len(d) < Len(p)
  BY PrefixOrder DEF Above, Path
<1> DEFINE c == SubSeq(p, 1, Len(d) + 1)
<1>2. c \in Path /\ Len(c) = Len(d) + 1 /\ \A i \in 1..(Len(d) + 1) : c[i] = p[i]
  BY <1>1 DEF Path
<1>3. c \in Prefixes(p)
  <2>1. Len(d) + 1 \in 0..Len(p)  BY <1>1
  <2> QED  BY <2>1 DEF Prefixes
<1>4. c # <<>>
  <2>1. Len(<<>>) = 0  OBVIOUS
  <2> QED  BY <2>1, <1>1, <1>2
<1>5. Front(c) = d
  <2> HIDE DEF c
  <2>1. Front(c) \in Path /\ Len(Front(c)) = Len(d) /\ \A i \in 1..Len(d) : Front(c)[i] = c[i]
    BY <1>1, <1>2 DEF Path, Front
  <2>2. \A i \in 1..Len(d) : d[i] = p[i]  BY PrefixIs DEF Above
  <2>3. \A i \in 1..Len(d) : Front(c)[i] = d[i]  BY <1>1, <1>2, <2>1, <2>2
  <2> QED  BY <2>1, <2>3, <1>1, PathsEqual
<1> HIDE DEF c
<1> QED  BY <1>2, <1>3, <1>4, <1>5

\* The directory a path is in.
LEMMA FrontIs ==
  ASSUME NEW p \in Path, p # <<>>
  PROVE  /\ Front(p) \in Path /\ Front(p) \in Above(p) /\ Prefixes(Front(p)) = Above(p)
         /\ Len(p) = Len(Front(p)) + 1 /\ Len(Front(p)) \in Nat
<1>1. Len(p) \in Nat \ {0}  BY DEF Path
<1>2. Front(p) \in Path /\ Len(Front(p)) = Len(p) - 1 /\ \A i \in 1..(Len(p) - 1) : Front(p)[i] = p[i]
  <2>1. ASSUME NEW n \in 0..Len(p)
        PROVE  /\ SubSeq(p, 1, n) \in Path /\ Len(SubSeq(p, 1, n)) = n
               /\ \A i \in 1..n : SubSeq(p, 1, n)[i] = p[i]
    BY DEF Path
  <2>2. Len(p) - 1 \in 0..Len(p)  BY <1>1
  <2> QED  BY <2>1, <2>2 DEF Front
<1>3. Front(p) \in Prefixes(p) /\ Front(p) # p
  BY <1>1, <1>2, PrefixIs
<1>4. ASSUME NEW q \in Prefixes(Front(p))  PROVE q \in Above(p)
  <2>1. q \in Prefixes(p)  BY <1>3, PrefixOrder
  <2>2. Len(q) <= Len(p) - 1  BY <1>2, PrefixIs
  <2>3. q # p  BY <2>2, <1>1
  <2> QED  BY <2>1, <2>3 DEF Above
<1>5. ASSUME NEW q \in Above(p)  PROVE q \in Prefixes(Front(p))
  <2>1. q \in Prefixes(p) /\ q # p  BY DEF Above
  <2>2. Front(p) \in Prefixes(q) \/ q \in Prefixes(Front(p))  BY <2>1, <1>3, PrefixOrder
  <2>3. ASSUME Front(p) \in Prefixes(q)  PROVE q = Front(p)
    <3>1. q \in Path /\ Len(q) \in 0..Len(p) /\ Len(q) # Len(p)  BY <2>1, PrefixOrder
    <3>2. Len(Front(p)) <= Len(q)  BY <2>3, <3>1, PrefixIs
    <3>3. Len(q) = Len(Front(p))  BY <3>1, <3>2, <1>1, <1>2
    <3> QED  BY <3>1, <3>3, <2>3, PrefixOrder
  <2>4. Front(p) \in Prefixes(Front(p))  BY <1>2, PrefixIs
  <2> QED  BY <2>2, <2>3, <2>4
<1> QED  BY <1>1, <1>2, <1>3, <1>4, <1>5 DEF Above

LEMMA IsPrefixIs ==
  ASSUME NEW p \in Path, NEW q \in Path
  PROVE  IsPrefix(q, p) <=> q \in Prefixes(p)
<1>1. ASSUME NEW r \in Path, NEW n \in 0..Len(r)
      PROVE  /\ SubSeq(r, 1, n) \in Path /\ Len(SubSeq(r, 1, n)) = n
             /\ \A i \in 1..n : SubSeq(r, 1, n)[i] = r[i]
  BY DEF Path
<1>2. Len(q) \in Nat /\ Len(p) \in Nat  BY DEF Path
<1>3. ASSUME IsPrefix(q, p)  PROVE q \in Prefixes(p)
  <2>1. Len(q) <= Len(p) /\ SubSeq(q, 1, Len(q)) = SubSeq(p, 1, Len(q))  BY <1>3 DEF IsPrefix
  <2>2. \A i \in 1..Len(q) : SubSeq(q, 1, Len(q))[i] = q[i]  BY <1>1, <1>2
  <2>3. Len(q) \in 0..Len(p)  BY <2>1, <1>2
  <2>4. \A i \in 1..Len(q) : SubSeq(p, 1, Len(q))[i] = p[i]  BY <1>1, <2>3
  <2> QED  BY <2>1, <2>2, <2>4, PrefixIs
<1>4. ASSUME q \in Prefixes(p)  PROVE IsPrefix(q, p)
  <2>1. Len(q) <= Len(p) /\ \A i \in 1..Len(q) : q[i] = p[i]  BY <1>4, PrefixIs
  <2>2. Len(q) \in 0..Len(p) /\ Len(q) \in 0..Len(q)  BY <2>1, <1>2
  <2>3. SubSeq(q, 1, Len(q)) = SubSeq(p, 1, Len(q))
    <3>1. \A i \in 1..Len(q) : SubSeq(q, 1, Len(q))[i] = SubSeq(p, 1, Len(q))[i]
      BY <1>1, <2>1, <2>2
    <3>2. /\ SubSeq(q, 1, Len(q)) \in Path /\ Len(SubSeq(q, 1, Len(q))) = Len(q)
          /\ SubSeq(p, 1, Len(q)) \in Path /\ Len(SubSeq(p, 1, Len(q))) = Len(q)
      BY <1>1, <2>2
    <3> QED  BY <3>1, <3>2, PathsEqual
  <2> QED  BY <2>1, <2>3 DEF IsPrefix
<1> QED  BY <1>3, <1>4

LEMMA BelowIs ==
  ASSUME NEW p \in Path
  PROVE  Below(p) = {q \in Sources : p \in Above(q)}
BY IsPrefixIs, SourcesArePaths DEF Below, Above

\* What is left of a path when its first names are cut off.
LEMMA DropIs ==
  ASSUME NEW s \in Path, NEW n \in 0..Len(s)
  PROVE  /\ Drop(s, n) \in Path /\ Len(Drop(s, n)) = Len(s) - n
         /\ \A i \in 1..(Len(s) - n) : Drop(s, n)[i] = s[n + i]
<1>1. Len(s) \in Nat /\ n \in Nat /\ n + 1 \in 1..(Len(s) + 1)  BY DEF Path
<1>2. Drop(s, n) \in Path  BY <1>1 DEF Path, Drop
<1>3. Len(Drop(s, n)) = Len(s) - n  BY <1>1 DEF Path, Drop
<1>4. ASSUME NEW i \in 1..(Len(s) - n)  PROVE Drop(s, n)[i] = s[n + i]
  BY <1>1 DEF Path, Drop
<1> QED  BY <1>2, <1>3, <1>4

LEMMA DropKeepsOrder ==
  ASSUME NEW s \in Path, NEW r \in Prefixes(s), NEW n \in 0..Len(r)
  PROVE  /\ Drop(r, n) \in Prefixes(Drop(s, n)) /\ n \in 0..Len(s)
         /\ Drop(r, n) = Drop(s, n) => r = s
<1>1. /\ r \in Path /\ Len(r) <= Len(s) /\ Len(r) \in Nat /\ Len(s) \in Nat /\ n \in 0..Len(s)
      /\ \A i \in 1..Len(r) : r[i] = s[i]
  BY PrefixIs DEF Path
<1>2. /\ Drop(r, n) \in Path /\ Len(Drop(r, n)) = Len(r) - n
      /\ \A i \in 1..(Len(r) - n) : Drop(r, n)[i] = r[n + i]
  BY <1>1, DropIs
<1>3. /\ Drop(s, n) \in Path /\ Len(Drop(s, n)) = Len(s) - n
      /\ \A i \in 1..(Len(s) - n) : Drop(s, n)[i] = s[n + i]
  BY <1>1, DropIs
<1>4. \A i \in 1..(Len(r) - n) : Drop(r, n)[i] = Drop(s, n)[i]
  <2> TAKE i \in 1..(Len(r) - n)
  <2>1. n + i \in 1..Len(r) /\ i \in 1..(Len(s) - n)  BY <1>1
  <2> QED  BY <2>1, <1>1, <1>2, <1>3
<1>5. Drop(r, n) \in Prefixes(Drop(s, n))  BY <1>1, <1>2, <1>3, <1>4, PrefixIs
<1>6. ASSUME Drop(r, n) = Drop(s, n)  PROVE r = s
  <2>1. Len(r) = Len(s)  BY <1>6, <1>1, <1>2, <1>3
  <2> QED  BY <2>1, <1>1, PrefixOrder
<1> QED  BY <1>1, <1>5, <1>6

\* What is above such a rest is the rest of something above.
LEMMA AboveDrop ==
  ASSUME NEW s \in Path, NEW n \in 0..Len(s), NEW q \in Prefixes(Drop(s, n))
  PROVE  \E r \in Prefixes(s) : n \in 0..Len(r) /\ q = Drop(r, n) /\ (q # Drop(s, n) => r # s)
<1>1. /\ Drop(s, n) \in Path /\ Len(Drop(s, n)) = Len(s) - n /\ Len(s) \in Nat
      /\ \A i \in 1..(Len(s) - n) : Drop(s, n)[i] = s[n + i]
  BY DropIs DEF Path
<1>2. /\ q \in Path /\ Len(q) \in Nat /\ Len(q) <= Len(s) - n
      /\ \A i \in 1..Len(q) : q[i] = Drop(s, n)[i]
  BY <1>1, PrefixIs DEF Path
<1>3. PICK m \in 0..Len(s) : m = n + Len(q)  BY <1>1, <1>2
<1>4. /\ SubSeq(s, 1, m) \in Path /\ Len(SubSeq(s, 1, m)) = m
      /\ \A i \in 1..m : SubSeq(s, 1, m)[i] = s[i]
  BY DEF Path
<1>5. PICK r : r = SubSeq(s, 1, m)  OBVIOUS
<1>6. /\ r \in Path /\ Len(r) = m /\ \A i \in 1..m : r[i] = s[i]  BY <1>4, <1>5
<1>7. r \in Prefixes(s)  BY <1>6, PrefixIs
<1>8. n \in 0..Len(r)  BY <1>2, <1>3, <1>6
<1>9. /\ Drop(r, n) \in Path /\ Len(Drop(r, n)) = Len(q)
      /\ \A i \in 1..Len(q) : Drop(r, n)[i] = r[n + i]
  <2>1. Len(r) - n = Len(q)  BY <1>2, <1>3, <1>6
  <2> QED  BY <2>1, <1>6, <1>8, DropIs
<1>10. \A i \in 1..Len(q) : Drop(r, n)[i] = q[i]
  <2> TAKE i \in 1..Len(q)
  <2>1. n + i \in 1..m /\ i \in 1..(Len(s) - n)  BY <1>1, <1>2, <1>3
  <2> QED  BY <2>1, <1>1, <1>2, <1>6, <1>9
<1>11. q = Drop(r, n)  BY <1>2, <1>9, <1>10, PathsEqual
<1> QED  BY <1>7, <1>8, <1>11

\* What was cut off, put back.
LEMMA PutBack ==
  ASSUME NEW s \in Path, NEW n \in 0..Len(s), NEW r \in Path, n <= Len(r),
         \A i \in 1..n : r[i] = s[i]
  PROVE  SubSeq(r, 1, n) \o Drop(s, n) = s
<1>1. /\ Drop(s, n) \in Path /\ Len(Drop(s, n)) = Len(s) - n /\ Len(s) \in Nat
      /\ \A i \in 1..(Len(s) - n) : Drop(s, n)[i] = s[n + i]
  BY DropIs DEF Path
<1>2. n \in 0..Len(r) /\ n \in Nat  BY DEF Path
<1>3. /\ SubSeq(r, 1, n) \in Path /\ Len(SubSeq(r, 1, n)) = n
      /\ \A i \in 1..n : SubSeq(r, 1, n)[i] = r[i]
  BY <1>2 DEF Path
<1>4. PICK a : a = SubSeq(r, 1, n)  OBVIOUS
<1>5. PICK b : b = Drop(s, n)  OBVIOUS
<1>6. a \in Path /\ Len(a) = n /\ \A i \in 1..n : a[i] = s[i]  BY <1>3, <1>4
<1>7. b \in Path /\ Len(b) = Len(s) - n /\ \A i \in 1..(Len(s) - n) : b[i] = s[n + i]
  BY <1>1, <1>5
<1>8. /\ a \o b \in Path /\ Len(a \o b) = Len(s)
      /\ \A i \in 1..Len(s) : (a \o b)[i] = IF i <= n THEN a[i] ELSE b[i - n]
  <2>1. /\ a \o b \in Path /\ Len(a \o b) = Len(a) + Len(b)
        /\ \A i \in 1..(Len(a) + Len(b)) : (a \o b)[i] = IF i <= Len(a) THEN a[i] ELSE b[i - Len(a)]
    BY <1>6, <1>7 DEF Path
  <2>2. Len(a) + Len(b) = Len(s)  BY <1>1, <1>2, <1>6, <1>7
  <2> QED  BY <2>1, <2>2, <1>6
<1>9. \A i \in 1..Len(s) : (a \o b)[i] = s[i]
  <2> TAKE i \in 1..Len(s)
  <2>1. CASE i <= n  BY <2>1, <1>2, <1>6, <1>8
  <2>2. CASE ~(i <= n)
    <3>1. i - n \in 1..(Len(s) - n) /\ n + (i - n) = i  BY <2>2, <1>1, <1>2
    <3>2. b[i - n] = s[n + (i - n)]  BY <3>1, <1>7
    <3> QED  BY <3>1, <3>2, <2>2, <1>8
  <2> QED  BY <2>1, <2>2
<1>10. a \o b = s
  <2>1. \A i \in 1..Len(a \o b) : (a \o b)[i] = s[i]  BY <1>8, <1>9
  <2>2. PICK c : c = a \o b  OBVIOUS
  <2>3. c \in Path /\ Len(c) = Len(s) /\ \A i \in 1..Len(c) : c[i] = s[i]
    BY <1>8, <2>1, <2>2
  <2>4. c = s  BY <2>3, PathsEqual
  <2> QED  BY <2>2, <2>4
<1> QED  BY <1>4, <1>5, <1>10

LEMMA RelsArePaths ==
  /\ Rels \subseteq Path
  /\ \A p \in Rels : Prefixes(p) \subseteq Rels
  /\ \A s \in Sources, n \in Nat : Drop(s, n) \in Rels /\ <<>> \in Rels
<1>1. ASSUME NEW p \in Rels
      PROVE  \E s \in Sources : \E n \in 0..Len(s) : p = Drop(s, n)
  BY DEF Rels
<1>2. ASSUME NEW s \in Sources, NEW n \in 0..Len(s)  PROVE Drop(s, n) \in Rels
  BY DEF Rels
<1>3. ASSUME NEW s \in Sources  PROVE <<>> \in Rels
  <2>1. s \in Path /\ Len(s) \in 0..Len(s) /\ Len(s) \in Nat  BY SourcesArePaths DEF Path
  <2>2. Drop(s, Len(s)) \in Path /\ Len(Drop(s, Len(s))) = 0
    <3>1. Len(Drop(s, Len(s))) = Len(s) - Len(s) /\ Drop(s, Len(s)) \in Path  BY <2>1, DropIs
    <3> QED  BY <3>1, <2>1
  <2>3. Drop(s, Len(s)) = <<>>  BY <2>2 DEF Path
  <2> QED  BY <2>1, <2>3, <1>2
<1>4. ASSUME NEW p \in Rels  PROVE p \in Path
  BY <1>1, DropIs, SourcesArePaths
<1>5. ASSUME NEW p \in Rels, NEW q \in Prefixes(p)  PROVE q \in Rels
  <2>1. PICK s \in Sources : \E n \in 0..Len(s) : p = Drop(s, n)  BY <1>1
  <2>6. PICK n \in 0..Len(s) : p = Drop(s, n)  BY <2>1
  <2>2. PICK r \in Prefixes(s) : n \in 0..Len(r) /\ q = Drop(r, n)
    BY <2>6, AboveDrop, SourcesArePaths
  <2>3. r \in Sources \/ r = <<>>  BY SourcesArePaths DEF Above
  <2>4. CASE r \in Sources  BY <2>2, <2>4, <1>2
  <2>5. CASE r = <<>>
    <3>1. n = 0  BY <2>2, <2>5
    <3>2. Drop(r, n) = <<>>  BY <3>1, <2>5 DEF Drop
    <3> QED  BY <3>2, <2>2, <1>3
  <2> QED  BY <2>3, <2>4, <2>5
<1>6. ASSUME NEW s \in Sources, NEW n \in Nat  PROVE Drop(s, n) \in Rels
  <2>1. s \in Path /\ Len(s) \in Nat  BY SourcesArePaths DEF Path
  <2>2. CASE n <= Len(s)  BY <2>1, <2>2, <1>2
  <2>3. CASE ~(n <= Len(s))
    <3>1. Drop(s, n) = <<>>  BY <2>1, <2>3 DEF Drop, Path
    <3> QED  BY <3>1, <1>3
  <2> QED  BY <2>2, <2>3
<1> QED  BY <1>3, <1>4, <1>5, <1>6

-----------------------------------------------------------------------------
(* Trees *)

Kinds == {"none", "file", "dir"}

\* A tree over dstdir or keydir, which are directories themselves.
Tree(t) ==
  /\ t \in [Rels -> Kinds] /\ IsTree(t)
  /\ \A p \in Rels : p = <<>> => t[p] = "dir"

LEMMA ChildrenAre ==
  ASSUME NEW t, DOMAIN t \subseteq Path, NEW d, NEW c \in Children(t, d)
  PROVE  /\ c \in DOMAIN t /\ c # <<>> /\ d \in Above(c) /\ d \in Path /\ t[c] # "none"
         /\ Len(c) = Len(d) + 1 /\ Len(d) \in Nat
BY FrontIs DEF Children

\* What a directory has below it is below one of its entries.
LEMMA EntryAbove ==
  ASSUME NEW D \in SUBSET Path, NEW K, NEW t \in [D -> K], IsTree(t),
         \A p \in D : Prefixes(p) \subseteq D \cup {<<>>},
         NEW p \in D, NEW d \in Above(p), t[p] # "none"
  PROVE  \E c \in Children(t, d) : c \in Prefixes(p)
<1>1. PICK c \in Prefixes(p) : c # <<>> /\ Front(c) = d
  BY NextOnTheWay
<1>2. c \in D  BY <1>1
<1>3. t[c] # "none"
  <2>1. CASE c = p  BY <2>1
  <2>2. CASE c # p
    <3>1. c \in Above(p)  BY <2>2, <1>1 DEF Above
    <3>2. p \in DOMAIN t  OBVIOUS
    <3> QED  BY <3>1, <3>2, <1>1 DEF IsTree
  <2> QED  BY <2>1, <2>2
<1>4. c \in Children(t, d)  BY <1>1, <1>2, <1>3 DEF Children
<1> QED  BY <1>1, <1>4

\* mkpath fills in directories, and nothing else.
LEMMA MkPathMakes ==
  ASSUME NEW t, Tree(t), NEW d \in Rels, ~MkPathFails(t, d)
  PROVE  /\ Tree(MkPath(t, d))
         /\ \A q \in Rels : /\ t[q] # "none" => MkPath(t, d)[q] = t[q]
                            /\ q \in Prefixes(d) => MkPath(t, d)[q] # "none"
                            /\ q \in Above(d) => MkPath(t, d)[q] = "dir"
                            /\ q \notin Prefixes(d) => MkPath(t, d)[q] = t[q]
                            /\ t[q] = "none" => MkPath(t, d)[q] \in {"none", "dir"}
<1> DEFINE u == MkPath(t, d)
<1>1. t \in [Rels -> Kinds] /\ IsTree(t) /\ \A p \in Rels : p = <<>> => t[p] = "dir"
  BY DEF Tree
<1>2. u \in [Rels -> Kinds] /\ \A q \in Rels :
        u[q] = IF q \in Prefixes(d) /\ t[q] = "none" THEN "dir" ELSE t[q]
  BY <1>1 DEF MkPath, Kinds
<1> HIDE DEF u
<1>3. ASSUME NEW q \in Rels, q \in Above(d)  PROVE u[q] = "dir"
  <2>1. t[q] # "file"  BY <1>3 DEF MkPathFails
  <2>2. q \in Prefixes(d)  BY <1>3 DEF Above
  <2> QED  BY <2>1, <2>2, <1>1, <1>2 DEF Kinds
<1>4. ASSUME NEW p \in Rels, u[p] # "none", NEW q \in Above(p), q # <<>>  PROVE u[q] = "dir"
  <2>1. q \in Rels /\ q \in Prefixes(p) /\ q # p  BY RelsArePaths DEF Above
  <2>2. CASE t[p] # "none"
    <3>1. t[q] = "dir"  BY <2>2, <1>1, <1>4 DEF IsTree
    <3> QED  BY <3>1, <2>1, <1>2
  <2>3. CASE t[p] = "none"
    <3>1. p \in Prefixes(d)  BY <2>3, <1>2, <1>4
    <3>2. q \in Prefixes(d) /\ q # d
      BY <3>1, <2>1, PrefixOrder, RelsArePaths
    <3> QED  BY <3>2, <2>1, <1>3 DEF Above
  <2> QED  BY <2>2, <2>3
<1>5. IsTree(u)  BY <1>2, <1>4 DEF IsTree
<1>6. Tree(u)  BY <1>1, <1>2, <1>5 DEF Tree
<1> QED  BY <1>2, <1>3, <1>6, RelsArePaths DEF u, Above, Kinds

\* A file is put where its directories are and no directory stands.
LEMMA FilePut ==
  ASSUME NEW t, Tree(t), NEW p \in Rels, p # <<>>, t[p] # "dir", \A q \in Above(p) : t[q] = "dir"
  PROVE  Tree([t EXCEPT ![p] = "file"])
<1> DEFINE u == [t EXCEPT ![p] = "file"]
<1>1. t \in [Rels -> Kinds] /\ IsTree(t) /\ \A q \in Rels : q = <<>> => t[q] = "dir"
  BY DEF Tree
<1>2. u \in [Rels -> Kinds] /\ u[p] = "file" /\ \A q \in Rels : q # p => u[q] = t[q]
  BY <1>1 DEF Kinds
<1> HIDE DEF u
<1>3. ASSUME NEW r \in Rels, u[r] # "none", NEW q \in Above(r), q # <<>>  PROVE u[q] = "dir"
  <2>1. q \in Rels  BY RelsArePaths DEF Above
  <2>2. CASE r = p
    <3>1. q # p /\ t[q] = "dir"  BY <2>2 DEF Above
    <3> QED  BY <3>1, <2>1, <1>2
  <2>3. CASE r # p
    <3>1. t[q] = "dir"  BY <2>3, <1>1, <1>2, <1>3 DEF IsTree
    <3> QED  BY <3>1, <2>1, <1>2
  <2> QED  BY <2>2, <2>3
<1> QED  BY <1>1, <1>2, <1>3 DEF Tree, IsTree

LEMMA FileMade ==
  ASSUME NEW t, Tree(t), NEW p \in Rels, t[p] # "dir", ~BelowFile(t, p)
  PROVE  LET u == [MkPath(t, Front(p)) EXCEPT ![p] = "file"]
         IN  /\ Tree(u) /\ p # <<>> /\ u[p] = "file"
             /\ \A q \in Rels \ {p} : /\ t[q] # "none" => u[q] = t[q]
                                      /\ t[q] = "none" => u[q] \in {"none", "dir"}
                                      /\ q \notin Prefixes(p) => u[q] = t[q]
<1>1. p # <<>>  BY DEF Tree
<1>2. p \in Path  BY RelsArePaths
<1>3. Front(p) \in Rels /\ Front(p) \in Above(p) /\ Prefixes(Front(p)) = Above(p)
  BY <1>1, <1>2, FrontIs, RelsArePaths DEF Above
<1>4. p \notin Prefixes(Front(p))  BY <1>3 DEF Above
<1>5. ~MkPathFails(t, Front(p))
  <2>1. Above(Front(p)) \subseteq Above(p)  BY <1>3 DEF Above
  <2> QED  BY <2>1 DEF MkPathFails, BelowFile
<1> DEFINE v == MkPath(t, Front(p))
<1>6. /\ Tree(v)
      /\ \A q \in Rels : /\ t[q] # "none" => v[q] = t[q]
                         /\ q \in Prefixes(Front(p)) => v[q] # "none"
                         /\ q \notin Prefixes(Front(p)) => v[q] = t[q]
                         /\ t[q] = "none" => v[q] \in {"none", "dir"}
  BY <1>3, <1>5, MkPathMakes
<1> HIDE DEF v
<1>7. v[p] # "dir"  BY <1>4, <1>6
<1>8. \A q \in Above(p) : v[q] = "dir"
  <2> TAKE q \in Above(p)
  <2>1. q \in Rels  BY RelsArePaths DEF Above
  <2>2. t[q] # "file"  BY DEF BelowFile
  <2>3. t[q] \in Kinds  BY <2>1 DEF Tree
  <2> QED  BY <2>1, <2>2, <2>3, <1>3, <1>6 DEF Kinds
<1>9. Tree([v EXCEPT ![p] = "file"])  BY <1>1, <1>6, <1>7, <1>8, FilePut
<1>10. v \in [Rels -> Kinds]  BY <1>6 DEF Tree
<1>11. \A q \in Rels \ {p} : q \notin Prefixes(p) => q \notin Prefixes(Front(p))
  BY <1>3 DEF Above
<1> QED  BY <1>1, <1>6, <1>9, <1>10, <1>11 DEF v

\* What has nothing below it can go.
LEMMA LeafTaken ==
  ASSUME NEW t, Tree(t), NEW p \in Rels, p # <<>>, t[p] = "file" \/ Children(t, p) = {}
  PROVE  Tree([t EXCEPT ![p] = "none"])
<1> DEFINE u == [t EXCEPT ![p] = "none"]
<1>1. t \in [Rels -> Kinds] /\ IsTree(t) /\ \A q \in Rels : q = <<>> => t[q] = "dir"
  BY DEF Tree
<1>2. u \in [Rels -> Kinds] /\ u[p] = "none" /\ \A q \in Rels : q # p => u[q] = t[q]
  BY <1>1 DEF Kinds
<1> HIDE DEF u
<1>3. ASSUME NEW r \in Rels, u[r] # "none", NEW q \in Above(r), q # <<>>  PROVE u[q] = "dir"
  <2>1. q \in Rels /\ r # p /\ t[r] # "none"  BY <1>2, <1>3, RelsArePaths DEF Above
  <2>2. t[q] = "dir"  BY <2>1, <1>1, <1>3 DEF IsTree
  <2>3. q # p
    <3>1. CASE t[p] = "file"  BY <3>1, <2>2
    <3>2. CASE Children(t, p) = {}
      <4>1. ASSUME q = p  PROVE FALSE
        <5>1. \A s \in Rels : Prefixes(s) \subseteq Rels \cup {<<>>}  BY RelsArePaths
        <5>2. p \in Above(r)  BY <4>1, <1>3
        <5>3. Rels \in SUBSET Path  BY RelsArePaths
        <5> QED  BY <5>1, <5>2, <5>3, <3>2, <2>1, <1>1, EntryAbove
      <4> QED  BY <4>1
    <3> QED  BY <3>1, <3>2
  <2> QED  BY <2>1, <2>2, <2>3, <1>2
<1> QED  BY <1>1, <1>2, <1>3 DEF Tree, IsTree

\* The directories of an encrypted file, where no file is in the way.
LEMMA DirsMade ==
  ASSUME Tree(enc), NEW p \in Rels, p # <<>>, ~BelowFile(enc, p)
  PROVE  /\ Tree(WithDirs(p))
         /\ \A q \in Rels : /\ enc[q] # "none" => WithDirs(p)[q] = enc[q]
                            /\ enc[q] = "none" => WithDirs(p)[q] \in {"none", "dir"}
                            /\ q \notin Prefixes(p) => WithDirs(p)[q] = enc[q]
<1>1. /\ Front(p) \in Rels /\ Prefixes(Front(p)) = Above(p)
  <2>1. p \in Path  BY RelsArePaths
  <2> QED  BY <2>1, FrontIs, RelsArePaths DEF Above
<1>2. ~MkPathFails(enc, Front(p))
  <2>1. Above(Front(p)) \subseteq Above(p)  BY <1>1 DEF Above
  <2> QED  BY <2>1 DEF MkPathFails, BelowFile
<1> DEFINE v == MkPath(enc, Front(p))
<1>3. /\ Tree(v)
      /\ \A q \in Rels : /\ enc[q] # "none" => v[q] = enc[q]
                         /\ q \notin Prefixes(Front(p)) => v[q] = enc[q]
                         /\ enc[q] = "none" => v[q] \in {"none", "dir"}
  BY <1>1, <1>2, MkPathMakes
<1>4. \A q \in Rels : q \notin Prefixes(p) => q \notin Prefixes(Front(p))
  BY <1>1 DEF Above
<1>5. WithDirs(p) = v  BY DEF WithDirs
<1> HIDE DEF v
<1> QED  BY <1>3, <1>4, <1>5

\* A failure is counted, or comes of what is there.
LEMMA FailureCounted ==
  ASSUME mishaps \in 0..MaxMishaps, NEW cause, Throws(cause)
  PROVE  mishaps' \in 0..MaxMishaps
BY ScanParams DEF Throws, Mishap

\* What the encryption of a file, good or bad, does to the trees.
LEMMA Encrypted ==
  ASSUME Tree(enc), Tree(key), from \in [Rels -> Sources \cup {<<>>}], mishaps \in 0..MaxMishaps,
         NEW s \in Sources, NEW p \in Rels, EncryptFile(s, p) \/ EncryptFails(s, p)
  PROVE  /\ Tree(enc') /\ Tree(key')
         /\ from' \in [Rels -> Sources \cup {<<>>}] /\ mishaps' \in 0..MaxMishaps
         /\ enc' = enc \/ plain[s] # "none"
         /\ \A q \in Rels :
              /\ enc'[q] = "file" => \/ q = p /\ from'[q] = s
                                     \/ enc[q] = "file" /\ from'[q] = from[q]
              /\ enc[q] # "none" => enc'[q] # "none"
              /\ q \notin Prefixes(p) => enc'[q] = enc[q]
<1>1. mishaps' \in 0..MaxMishaps
  <2>1. CASE EncryptFile(s, p)  BY <2>1 DEF EncryptFile
  <2>2. CASE EncryptFails(s, p)
    <3>1. PICK cause : Throws(cause)  BY <2>2 DEF EncryptFails
    <3> QED  BY <3>1, FailureCounted
  <2> QED  BY <2>1, <2>2
<1>2. CASE UNCHANGED <<enc, key, from>>  BY <1>1, <1>2
<1>3. ASSUME ~NoDirs(s, p)
      PROVE  p # <<>> /\ ~BelowFile(enc, p) /\ key[p] # "dir" /\ plain[s] # "none"
  BY <1>3 DEF NoDirs, KeyUnreadable, Unopened, Tree
<1>4. ASSUME ~NoDirs(s, p), ~NoHeader(s, p), key' = WithKey(p)  PROVE Tree(key')
  BY <1>3, <1>4, FileMade DEF NoHeader, NoKeyFile, WithKey
<1>5. ASSUME ~NoDirs(s, p), enc' = WithDirs(p), Tree(key'), UNCHANGED from
      PROVE  /\ Tree(enc') /\ Tree(key') /\ from' \in [Rels -> Sources \cup {<<>>}]
             /\ plain[s] # "none"
             /\ \A q \in Rels : /\ enc'[q] = "file" => enc[q] = "file" /\ from'[q] = from[q]
                                /\ enc[q] # "none" => enc'[q] # "none"
                                /\ q \notin Prefixes(p) => enc'[q] = enc[q]
  <2>1. /\ Tree(enc')
        /\ \A q \in Rels : /\ enc[q] # "none" => enc'[q] = enc[q]
                           /\ enc[q] = "none" => enc'[q] \in {"none", "dir"}
                           /\ q \notin Prefixes(p) => enc'[q] = enc[q]
    BY <1>3, <1>5, DirsMade
  <2> QED  BY <1>3, <1>5, <2>1
<1>6. CASE EncryptFails(s, p)
  <2>1. CASE /\ ~NoDirs(s, p) /\ enc' = WithDirs(p) /\ UNCHANGED <<key, from>>
    BY <1>1, <1>5, <2>1
  <2>2. CASE /\ ~NoDirs(s, p) /\ ~NoHeader(s, p) /\ enc' = WithDirs(p) /\ key' = WithKey(p)
             /\ UNCHANGED from
    BY <1>1, <1>4, <1>5, <2>2
  <2> QED  BY <1>2, <1>6, <2>1, <2>2 DEF EncryptFails
<1>7. CASE EncryptFile(s, p)
  <2>1. /\ ~NoDirs(s, p) /\ ~NoHeader(s, p) /\ key' = WithKey(p)
        /\ from' = [from EXCEPT ![p] = s]
    BY <1>7 DEF EncryptFile
  <2>2. Tree(key') /\ plain[s] # "none"  BY <1>3, <1>4, <2>1
  <2>6. enc[p] # "dir" /\ ~BelowFile(enc, p)  BY <1>3, <1>7, <2>1 DEF EncryptFile, NoRename
  <2>7. enc' = [MkPath(enc, Front(p)) EXCEPT ![p] = "file"]  BY <1>7 DEF EncryptFile, WithDirs
  <2>3. /\ Tree(enc') /\ enc'[p] = "file"
        /\ \A q \in Rels \ {p} : /\ enc[q] # "none" => enc'[q] = enc[q]
                                 /\ enc[q] = "none" => enc'[q] \in {"none", "dir"}
                                 /\ q \notin Prefixes(p) => enc'[q] = enc[q]
    BY <2>6, <2>7, FileMade
  <2>4. p \in Prefixes(p)  BY PrefixOrder, RelsArePaths, PrefixIs
  <2>5. /\ from' \in [Rels -> Sources \cup {<<>>}] /\ from'[p] = s
        /\ \A q \in Rels \ {p} : from'[q] = from[q]
    BY <2>1
  <2> QED  BY <1>1, <2>2, <2>3, <2>4, <2>5
<1> QED  BY <1>6, <1>7

-----------------------------------------------------------------------------
(* The stack of the recursion *)

LEMMA TopIs ==
  ASSUME run \in Run, run.stack # <<>>
  PROVE  /\ Len(run.stack) \in Nat \ {0} /\ Top \in Level
         /\ run.stack \in Seq(Level) /\ Top = run.stack[Len(run.stack)]
         /\ \A i \in 1..Len(run.stack) : run.stack[i] \in Level
<1>1. run.stack \in Seq(Level)  BY DEF Run
<1> HIDE DEF Level
<1>2. Len(run.stack) \in Nat \ {0}  BY <1>1
<1>3. Top = run.stack[Len(run.stack)]  BY DEF Top
<1> QED  BY <1>1, <1>2, <1>3

\* The run is at the same item, and has forgotten nothing of what it did.
Same(r) ==
  /\ r.at = run.at /\ r.opt = run.opt /\ r.items = run.items /\ r.line = run.line
  /\ r.err = run.err /\ r.root = run.root /\ r.cut = run.cut
  /\ r.scanned = run.scanned /\ r.moved = run.moved
  /\ run.tried \subseteq r.tried /\ run.unread \subseteq r.unread
  /\ run.unlisted \subseteq r.unlisted /\ run.stuck \subseteq r.stuck

\* One level then and later: at most p is off its list, and no error is forgotten.
Lower(f, g, p) ==
  g.dir = f.dir /\ g.todo \subseteq f.todo /\ f.todo \subseteq g.todo \cup {p} /\ (f.err => g.err)

\* r is the run when it has passed entry p; e: with an error.
Passes(r, p, e) ==
  /\ r \in Run /\ Same(r) /\ r.now = Nothing /\ r.since = {}
  /\ Len(r.stack) = Len(run.stack)
  /\ \A i \in 1..Len(run.stack) : Lower(run.stack[i], r.stack[i], p)
  /\ e => r.stack[Len(run.stack)].err

LEMMA PassedIs ==
  ASSUME run \in Run, run.stack # <<>>, NEW p, NEW e \in BOOLEAN
  PROVE  /\ Passes(Passed(p, e), p, e) /\ Passed(p, e).unread = run.unread
         /\ Passed(p, e).unlisted = run.unlisted
<1>1. /\ run.stack \in Seq(Level) /\ Len(run.stack) \in Nat \ {0}
      /\ \A i \in 1..Len(run.stack) : run.stack[i] \in Level
  BY TopIs
<1>2. PICK n \in Nat \ {0} : n = Len(run.stack)  BY <1>1
<1>3. n \in 1..Len(run.stack)  BY <1>1, <1>2
<1>4. PICK f \in Level : f = run.stack[n] /\ f = Top  BY <1>1, <1>2, <1>3 DEF Top
<1>5. PICK g : g = [f EXCEPT !.todo = @ \ {p}, !.err = @ \/ e]  OBVIOUS
<1>6. g \in Level /\ Lower(f, g, p) /\ (e => g.err)
  BY <1>5 DEF Level, Lower
<1>7. PICK st : st = [run.stack EXCEPT ![n] = g]  OBVIOUS
<1>8. st \in Seq(Level) /\ Len(st) = n /\ st[n] = g /\ \A i \in 1..n : i # n => st[i] = run.stack[i]
  BY <1>1, <1>2, <1>6, <1>7
<1>9. PICK r : r = Passed(p, e)  OBVIOUS
<1>10. r = [run EXCEPT !.now = Nothing, !.since = {}, !.stack = st]
  BY <1>2, <1>4, <1>5, <1>7, <1>9 DEF Passed, Run
<1>11. Nothing \in Entry  BY DEF Nothing, Entry
<1>12. /\ r \in Run /\ r.now = Nothing /\ r.since = {} /\ r.stack = st
       /\ Same(r) /\ r.unread = run.unread /\ r.unlisted = run.unlisted
  BY <1>8, <1>10, <1>11 DEF Run, Same
<1>13. ASSUME NEW i \in 1..Len(run.stack)  PROVE Lower(run.stack[i], st[i], p)
  <2>1. CASE i = n  BY <2>1, <1>4, <1>6, <1>8
  <2>2. CASE i # n  BY <2>2, <1>2, <1>8 DEF Lower
  <2> QED  BY <2>1, <2>2
<1> QED  BY <1>2, <1>6, <1>8, <1>9, <1>12, <1>13 DEF Passes

\* The ways in which a step takes an entry off the list.
LEMMA TakenIs ==
  ASSUME run \in Run, run.stack # <<>>, NEW p, NEW e \in BOOLEAN,
         NEW t \in SUBSET Sources, NEW u \in SUBSET Sources, NEW k \in SUBSET Rels,
         \/ run' = Passed(p, e) /\ t = {} /\ u = {} /\ k = {}
         \/ run' = [Passed(p, e) EXCEPT !.tried = @ \cup t] /\ u = {} /\ k = {}
         \/ run' = [Passed(p, e) EXCEPT !.unread = @ \cup u] /\ t = {} /\ k = {}
         \/ run' = [Passed(p, e) EXCEPT !.stuck = @ \cup k] /\ t = {} /\ u = {}
  PROVE  /\ Passes(run', p, e) /\ run'.unlisted = run.unlisted /\ run'.unread = run.unread \cup u
         /\ t \subseteq run'.tried /\ k \subseteq run'.stuck
<1>1. PICK r : r = Passed(p, e)  OBVIOUS
<1>2. Passes(r, p, e) /\ r.unread = run.unread /\ r.unlisted = run.unlisted
  BY <1>1, PassedIs
<1>3. r \in Run  BY <1>2 DEF Passes
<1>4. ASSUME /\ run' \in Run /\ run'.now = r.now /\ run'.since = r.since /\ run'.stack = r.stack
             /\ run'.at = r.at /\ run'.opt = r.opt /\ run'.items = r.items /\ run'.line = r.line
             /\ run'.err = r.err /\ run'.root = r.root /\ run'.cut = r.cut
             /\ run'.scanned = r.scanned /\ run'.moved = r.moved
             /\ r.tried \subseteq run'.tried /\ r.unread \subseteq run'.unread
             /\ r.unlisted \subseteq run'.unlisted /\ r.stuck \subseteq run'.stuck
      PROVE  Passes(run', p, e)
  BY <1>2, <1>4 DEF Passes, Same
<1>5. CASE run' = r /\ t = {} /\ u = {} /\ k = {}
  BY <1>2, <1>5
<1>6. CASE run' = [r EXCEPT !.tried = @ \cup t] /\ u = {} /\ k = {}
  <2>1. /\ run' \in Run /\ run'.now = r.now /\ run'.since = r.since /\ run'.stack = r.stack
        /\ run'.at = r.at /\ run'.opt = r.opt /\ run'.items = r.items /\ run'.line = r.line
        /\ run'.err = r.err /\ run'.root = r.root /\ run'.cut = r.cut
        /\ run'.scanned = r.scanned /\ run'.moved = r.moved
        /\ run'.tried = r.tried \cup t /\ run'.unread = r.unread
        /\ run'.unlisted = r.unlisted /\ run'.stuck = r.stuck
    BY <1>3, <1>6 DEF Run
  <2> QED  BY <1>2, <1>4, <1>6, <2>1
<1>7. CASE run' = [r EXCEPT !.unread = @ \cup u] /\ t = {} /\ k = {}
  <2>1. /\ run' \in Run /\ run'.now = r.now /\ run'.since = r.since /\ run'.stack = r.stack
        /\ run'.at = r.at /\ run'.opt = r.opt /\ run'.items = r.items /\ run'.line = r.line
        /\ run'.err = r.err /\ run'.root = r.root /\ run'.cut = r.cut
        /\ run'.scanned = r.scanned /\ run'.moved = r.moved
        /\ run'.tried = r.tried /\ run'.unread = r.unread \cup u
        /\ run'.unlisted = r.unlisted /\ run'.stuck = r.stuck
    BY <1>3, <1>7 DEF Run
  <2> QED  BY <1>2, <1>4, <1>7, <2>1
<1>8. CASE run' = [r EXCEPT !.stuck = @ \cup k] /\ t = {} /\ u = {}
  <2>1. /\ run' \in Run /\ run'.now = r.now /\ run'.since = r.since /\ run'.stack = r.stack
        /\ run'.at = r.at /\ run'.opt = r.opt /\ run'.items = r.items /\ run'.line = r.line
        /\ run'.err = r.err /\ run'.root = r.root /\ run'.cut = r.cut
        /\ run'.scanned = r.scanned /\ run'.moved = r.moved
        /\ run'.tried = r.tried /\ run'.unread = r.unread
        /\ run'.unlisted = r.unlisted /\ run'.stuck = r.stuck \cup k
    BY <1>3, <1>8 DEF Run
  <2> QED  BY <1>2, <1>4, <1>8, <2>1
<1> QED  BY <1>1, <1>5, <1>6, <1>7, <1>8

LEMMA PoppedIs ==
  ASSUME run \in Run, Len(run.stack) > 1
  PROVE  /\ run.stack # <<>> /\ Popped \in Seq(Level) /\ Len(Popped) = Len(run.stack) - 1
         /\ Len(Popped) \in Nat \ {0}
         /\ \A i \in 1..Len(Popped) : /\ Popped[i].dir = run.stack[i].dir
                                      /\ Popped[i].todo = run.stack[i].todo
                                      /\ run.stack[i].err => Popped[i].err
         /\ Top.err => Popped[Len(Popped)].err
<1>1. run.stack \in Seq(Level) /\ Len(run.stack) \in Nat  BY DEF Run
<1>2. PICK n \in Nat : n = Len(run.stack) /\ n > 1  BY <1>1
<1>3. PICK below : below = Front(run.stack)  OBVIOUS
<1>4. below \in Seq(Level) /\ Len(below) = n - 1 /\ \A i \in 1..(n - 1) : below[i] = run.stack[i]
  <2>1. ASSUME NEW m \in 0..n
        PROVE  /\ SubSeq(run.stack, 1, m) \in Seq(Level) /\ Len(SubSeq(run.stack, 1, m)) = m
               /\ \A i \in 1..m : SubSeq(run.stack, 1, m)[i] = run.stack[i]
    BY <1>1, <1>2
  <2>2. n - 1 \in 0..n /\ below = SubSeq(run.stack, 1, n - 1)  BY <1>2, <1>3 DEF Front
  <2> QED  BY <2>1, <2>2
<1>5. below # <<>> /\ run.stack # <<>>  BY <1>2, <1>4
<1>6. PICK m \in Nat \ {0} : m = n - 1  BY <1>2
<1>7. below[m] \in Level  BY <1>4, <1>6
<1>8. PICK g : g = [below[m] EXCEPT !.err = TRUE]  OBVIOUS
<1>9. g \in Level /\ g.dir = below[m].dir /\ g.todo = below[m].todo /\ g.err
  BY <1>7, <1>8 DEF Level
<1>10. CASE ~Top.err
  <2>1. Popped = below  BY <1>10, <1>3 DEF Popped
  <2> QED  BY <2>1, <1>2, <1>4, <1>5, <1>6, <1>10
<1>11. CASE Top.err
  <2>1. Popped = [below EXCEPT ![m] = g]
    BY <1>3, <1>4, <1>5, <1>6, <1>8, <1>11 DEF Popped
  <2>2. PICK st : st = [below EXCEPT ![m] = g]  OBVIOUS
  <2>3. /\ st \in Seq(Level) /\ Len(st) = m /\ st[m] = g
        /\ \A i \in 1..m : i # m => st[i] = below[i]
    BY <2>2, <1>4, <1>6, <1>9
  <2>4. ASSUME NEW i \in 1..m
        PROVE  /\ st[i].dir = run.stack[i].dir /\ st[i].todo = run.stack[i].todo
               /\ run.stack[i].err => st[i].err
    <3>1. below[i] = run.stack[i]  BY <1>4, <1>6
    <3> QED  BY <3>1, <2>3, <1>9
  <2> QED  BY <2>1, <2>2, <2>3, <2>4, <1>2, <1>5, <1>6, <1>9
<1> QED  BY <1>10, <1>11

-----------------------------------------------------------------------------
(* The type invariant, and where in the trees a run is. *)

DataOK ==
  /\ windows \in BOOLEAN
  /\ plain \in [Sources -> {"none", "file", "dir", "link"}] /\ IsTree(plain)
  /\ Tree(enc) /\ Tree(key)
  /\ from \in [Rels -> Sources \cup {<<>>}]
  /\ run \in Run
  /\ mishaps \in 0..MaxMishaps /\ twice \in BOOLEAN

\* A level of the scan of a plain directory: the directory is the root of the
\* scan or below it, its entries are below.
ScanLevel(f, root) ==
  f.dir \in Sources /\ root \in Prefixes(f.dir) /\ f.todo \subseteq Below(root)

\* Level i of the scan of the encrypted tree, from a path of length n; all
\* directories but the first are still to be removed or kept.
DeleteLevel(t, f, i, n) ==
  /\ f.dir \in Rels /\ Len(f.dir) = n + i - 1
  /\ f.todo \subseteq Rels /\ \A p \in f.todo : Len(p) = n + i
  /\ i > 1 => t[f.dir] = "dir"

Depth(r) == Len(r.root) - r.cut

StackOK(t, r) ==
  /\ r.at = "scan" => \A i \in 1..Len(r.stack) : ScanLevel(r.stack[i], r.root)
  /\ r.at = "delete" => \A i \in 1..Len(r.stack) : DeleteLevel(t, r.stack[i], i, Depth(r))
  /\ r.at = "delete" /\ r.now # Nothing => t[r.now.path] = "file"

\* A line that can be trimmed.
Legible(l) == CalcTrim(l.path) # NoTrim /\ (l.slash => SecondTrim(l) # NoTrim)

\* The directory a run is in is one of those scanned, the entry in hand one of the
\* directory's, the line in hand one that can be trimmed.
RunOK(r) ==
  /\ r.at = "idle" => r.scanned = {}
  /\ \A d \in r.scanned : d.cut <= Len(d.root)
  /\ r.at \in {"scan", "delete"} =>
       /\ r.stack # <<>> /\ r.root \in Sources
       /\ [root |-> r.root, cut |-> r.cut] \in r.scanned
  /\ r.now # Nothing => /\ r.at \in {"scan", "delete"}
                        /\ r.now.path \in r.stack[Len(r.stack)].todo
  /\ \A l \in r.line : Legible(l)

Healthy == DataOK /\ RunOK(run) /\ StackOK(enc, run)

LEMMA HealthyTypes == Healthy => DsTypeOK
BY DEF Healthy, DataOK, DsTypeOK, Tree, Kinds

LEMMA FreshIs ==
  ASSUME NEW o \in [del : BOOLEAN, delkey : BOOLEAN]
  PROVE  /\ Fresh(o) \in Run /\ Fresh(o).at = "next" /\ Fresh(o).opt = o
         /\ Fresh(o).scanned = {} /\ Fresh(o).items = {} /\ Fresh(o).line = {}
         /\ Fresh(o).now = Nothing /\ Fresh(o).err = FALSE /\ Fresh(o).unread = {}
         /\ RunOK(Fresh(o))
<1>1. <<>> \in Seq(Level) /\ Nothing \in Entry  BY DEF Nothing, Entry
<1>2. /\ Fresh(o) \in Run /\ Fresh(o).at = "next" /\ Fresh(o).opt = o
      /\ Fresh(o).scanned = {} /\ Fresh(o).items = {} /\ Fresh(o).line = {}
      /\ Fresh(o).now = Nothing /\ Fresh(o).err = FALSE /\ Fresh(o).unread = {}
  BY <1>1 DEF Fresh, Run
<1> QED  BY <1>2 DEF RunOK

LEMMA NoRunIs ==
  /\ NoRun \in Run /\ NoRun.at = "idle" /\ NoRun.scanned = {} /\ NoRun.now = Nothing
  /\ NoRun.unread = {} /\ RunOK(NoRun) /\ \A t : StackOK(t, NoRun)
<1>1. PICK o \in [del : BOOLEAN, delkey : BOOLEAN] : o = [del |-> FALSE, delkey |-> FALSE]
  OBVIOUS
<1>2. PICK f \in Run : /\ f = Fresh(o) /\ f.scanned = {} /\ f.line = {} /\ f.now = Nothing
                       /\ f.unread = {}
  BY FreshIs
<1>3. NoRun = [f EXCEPT !.at = "idle"]  BY <1>1, <1>2 DEF NoRun
<1>4. /\ NoRun \in Run /\ NoRun.at = "idle" /\ NoRun.scanned = {} /\ NoRun.now = Nothing
      /\ NoRun.unread = {} /\ NoRun.line = {}
  BY <1>2, <1>3, SMTT(20) DEF Run
<1> QED  BY <1>4 DEF RunOK, StackOK

LEMMA InitHealthy == DsInit => Healthy
<1> SUFFICES ASSUME DsInit PROVE Healthy  OBVIOUS
<1>1. Tree(Empty)
  <2>1. Empty \in [Rels -> Kinds] /\ \A p \in Rels : Empty[p] = IF p = <<>> THEN "dir" ELSE "none"
    BY DEF Empty, Kinds
  <2>2. ASSUME NEW p \in Rels, Empty[p] # "none", NEW q \in Above(p)  PROVE q = <<>>
    <3>1. p = <<>> /\ p \in Path  BY <2>1, <2>2, RelsArePaths
    <3>2. q \in Prefixes(p) /\ q # p  BY DEF Above
    <3>3. <<>> \in Prefixes(q)  BY <3>1, <3>2, PrefixOrder
    <3> QED  BY <3>1, <3>2, <3>3, PrefixOrder
  <2> QED  BY <2>1, <2>2 DEF Tree, IsTree
<1>2. DataOK
  <2>1. from \in [Rels -> Sources \cup {<<>>}]  BY DEF DsInit
  <2>2. plain \in [Sources -> {"none", "file", "dir", "link"}] /\ IsTree(plain)  BY DEF DsInit
  <2>3. Tree(enc) /\ Tree(key)  BY <1>1 DEF DsInit
  <2>4. mishaps \in 0..MaxMishaps  BY ScanParams DEF DsInit
  <2>5. run \in Run /\ windows \in BOOLEAN /\ twice \in BOOLEAN  BY NoRunIs DEF DsInit
  <2> QED  BY <2>1, <2>2, <2>3, <2>4, <2>5 DEF DataOK
<1> QED  BY <1>2, NoRunIs DEF DsInit, Healthy

\* The run takes note of what the user changed.
LEMMA SeenIs ==
  ASSUME run \in Run, NEW s \in Sources
  PROVE  /\ Seen(s) \in Run /\ Seen(s).at = run.at /\ Seen(s).opt = run.opt
         /\ Seen(s).items = run.items /\ Seen(s).line = run.line /\ Seen(s).now = run.now
         /\ Seen(s).err = run.err /\ Seen(s).stack = run.stack /\ Seen(s).root = run.root
         /\ Seen(s).cut = run.cut /\ Seen(s).scanned = run.scanned /\ Seen(s).tried = run.tried
         /\ Seen(s).unread = run.unread /\ Seen(s).unlisted = run.unlisted
         /\ Seen(s).stuck = run.stuck /\ Seen(s).moved = run.moved \cup {s} \cup Below(s)
         /\ Seen(s).since = IF run.now = Nothing THEN run.since ELSE run.since \cup {s} \cup Below(s)
<1>1. PICK m \in SUBSET Sources : m = run.moved \cup {s} \cup Below(s)  BY DEF Run, Below
<1>2. PICK n \in SUBSET Sources :
        n = IF run.now = Nothing THEN run.since ELSE run.since \cup {s} \cup Below(s)
  BY DEF Run, Below
<1>3. Seen(s) = [run EXCEPT !.moved = m, !.since = n]  BY <1>1, <1>2 DEF Seen, Run
<1> QED  BY <1>1, <1>2, <1>3, ZenonT(30) DEF Run

\* The user's changes leave a tree.
LEMMA ChangeHealthy == Healthy /\ Change => Healthy'
<1> SUFFICES ASSUME Healthy, Change PROVE Healthy'  OBVIOUS
<1>1. PICK s \in Sources, k \in {"none", "file", "dir", "link"} :
        /\ \A q \in Above(s) : q # <<>> => plain[q] = "dir"
        /\ plain' = [q \in Sources |-> IF q = s THEN k
                                       ELSE IF q \in Below(s) THEN "none" ELSE plain[q]]
        /\ run' = IF run.at = "idle" THEN run ELSE Seen(s)
  BY DEF Change
<1>2. plain' \in [Sources -> {"none", "file", "dir", "link"}]
  BY <1>1 DEF Healthy, DataOK
<1>3. ASSUME NEW p \in Sources, plain'[p] # "none", NEW q \in Above(p), q # <<>>
      PROVE  plain'[q] = "dir"
  <2>1. q \in Sources /\ p \in Path /\ q \in Path /\ q \in Prefixes(p) /\ q # p
    BY <1>3, SourcesArePaths DEF Above
  <2>2. CASE p = s
    <3>1. plain[q] = "dir"  BY <1>1, <1>3, <2>2
    <3>2. q \notin Below(s)
      <4>1. ASSUME q \in Below(s)  PROVE FALSE
        <5>1. s \in Prefixes(q)  BY <4>1, <2>1, <2>2, BelowIs DEF Above
        <5> QED  BY <5>1, <2>1, <2>2, PrefixOrder
      <4> QED  BY <4>1
    <3> QED  BY <3>1, <3>2, <2>1, <2>2, <1>1
  <2>3. CASE p # s
    <3>1. p \notin Below(s) /\ plain[p] # "none"  BY <2>3, <1>1, <1>3
    <3>2. plain[q] = "dir"
      <4>1. p \in DOMAIN plain  BY DEF Healthy, DataOK
      <4> QED  BY <3>1, <4>1, <1>3 DEF Healthy, DataOK, IsTree
    <3>3. s \in Path  BY SourcesArePaths
    <3>4. s \notin Prefixes(p)  BY <2>3, <3>1, <3>3, BelowIs DEF Above
    <3>5. s \notin Prefixes(q)  BY <2>1, <3>4, PrefixOrder
    <3>6. q # s  BY <2>1, <3>4
    <3>7. q \notin Below(s)  BY <3>3, <3>5, BelowIs DEF Above
    <3> QED  BY <3>2, <3>6, <3>7, <2>1, <1>1
  <2> QED  BY <2>2, <2>3
<1>4. IsTree(plain')  BY <1>2, <1>3 DEF IsTree
<1>5. /\ run' \in Run /\ run'.at = run.at /\ run'.stack = run.stack /\ run'.root = run.root
      /\ run'.cut = run.cut /\ run'.scanned = run.scanned /\ run'.now = run.now
      /\ run'.line = run.line
  <2>1. run \in Run  BY DEF Healthy, DataOK
  <2> QED  BY <1>1, <2>1, SeenIs
<1>6. UNCHANGED <<windows, enc, key, from, twice>> /\ mishaps' \in 0..MaxMishaps
  BY ScanParams DEF Change, Mishap, Healthy, DataOK
<1>7. DataOK'  BY <1>2, <1>4, <1>5, <1>6 DEF Healthy, DataOK, Tree
<1>8. RunOK(run') /\ StackOK(enc', run')
  BY <1>5, <1>6 DEF Healthy, RunOK, StackOK, Depth
<1> QED  BY <1>7, <1>8 DEF Healthy

LEMMA PlainFrame ==
  ASSUME DataOK, NEW s \in Sources, NEW root \in Prefixes(s)
  PROVE  Frame(plain, s) \in Level /\ ScanLevel(Frame(plain, s), root)
<1>1. s \in Path /\ Sources \in SUBSET Path  BY SourcesArePaths
<1>2. \A c \in Children(plain, s) : c \in Sources /\ s \in Above(c)
  <2>1. DOMAIN plain = Sources  BY DEF DataOK
  <2> QED  BY <2>1, <1>1, ChildrenAre
<1>3. \A c \in Children(plain, s) : c \in Below(root)
  <2> TAKE c \in Children(plain, s)
  <2>1. c \in Sources /\ c \in Path /\ s \in Prefixes(c) /\ s # c  BY <1>1, <1>2 DEF Above
  <2>2. root \in Prefixes(c) /\ root \in Path  BY <2>1, <1>1, PrefixOrder
  <2>3. root # c  BY <2>1, <1>1, PrefixOrder
  <2> QED  BY <2>1, <2>2, <2>3, BelowIs DEF Above
<1> QED  BY <1>2, <1>3 DEF Frame, Level, ScanLevel

LEMMA EncFrame ==
  ASSUME DataOK, NEW p \in Rels, NEW i \in Nat \ {0}, NEW n \in Nat, Len(p) = n + i - 1,
         i > 1 => enc[p] = "dir"
  PROVE  Frame(enc, p) \in Level /\ DeleteLevel(enc, Frame(enc, p), i, n)
<1>1. Rels \in SUBSET Path  BY RelsArePaths
<1>2. \A c \in Children(enc, p) : c \in Rels /\ Len(c) = Len(p) + 1
  <2>1. DOMAIN enc = Rels  BY DEF DataOK, Tree
  <2> QED  BY <2>1, <1>1, ChildrenAre
<1>3. \A c \in Children(enc, p) : c \in Rels /\ Len(c) = n + i  BY <1>2
<1> QED  BY <1>3 DEF Frame, Level, DeleteLevel

\* A run with less on its stack, or less to do there.
LEMMA StackShrinks ==
  ASSUME Healthy, NEW r \in Run, NEW t, Same(r), r.now = Nothing,
         run.stack # <<>>, Len(r.stack) \in 1..Len(run.stack),
         \A i \in 1..Len(r.stack) : /\ r.stack[i].dir = run.stack[i].dir
                                    /\ r.stack[i].todo \subseteq run.stack[i].todo
                                    /\ i > 1 => t[r.stack[i].dir] = enc[r.stack[i].dir]
  PROVE  RunOK(r) /\ StackOK(t, r)
<1>1. Len(run.stack) \in Nat /\ r.stack \in Seq(Level)  BY DEF Healthy, DataOK, Run
<1>2. r.stack # <<>>  BY <1>1
<1>3. RunOK(r)  BY <1>2 DEF Healthy, RunOK, Same
<1>4. ASSUME r.at = "scan", NEW i \in 1..Len(r.stack)  PROVE ScanLevel(r.stack[i], r.root)
  <2>1. ScanLevel(run.stack[i], run.root)  BY <1>1, <1>4 DEF Healthy, StackOK, Same
  <2> QED  BY <2>1, <1>4 DEF ScanLevel, Same
<1>5. ASSUME r.at = "delete", NEW i \in 1..Len(r.stack)
      PROVE  DeleteLevel(t, r.stack[i], i, Depth(r))
  <2>1. DeleteLevel(enc, run.stack[i], i, Depth(run))
    BY <1>1, <1>5 DEF Healthy, StackOK, Same
  <2>2. Depth(r) = Depth(run)  BY DEF Depth, Same
  <2> QED  BY <2>1, <2>2, <1>5 DEF DeleteLevel
<1> QED  BY <1>3, <1>4, <1>5 DEF StackOK

\* An entry passed, whatever becomes of the trees meanwhile.
LEMMA PassesKeeps ==
  ASSUME Healthy, run.stack # <<>>, NEW p, NEW e, NEW t, NEW r, Passes(r, p, e),
         \A q \in Rels : enc[q] = "dir" => t[q] = "dir"
  PROVE  RunOK(r) /\ StackOK(t, r)
<1>1. run \in Run  BY DEF Healthy, DataOK
<1>2. /\ r \in Run /\ Same(r) /\ r.now = Nothing /\ Len(r.stack) = Len(run.stack)
      /\ Len(run.stack) \in Nat \ {0}
      /\ \A i \in 1..Len(run.stack) : /\ r.stack[i].dir = run.stack[i].dir
                                      /\ r.stack[i].todo \subseteq run.stack[i].todo
  BY <1>1, TopIs DEF Passes, Lower
<1>3. r.stack # <<>>  BY <1>2
<1>4. RunOK(r)  BY <1>2, <1>3 DEF Healthy, RunOK, Same
<1>5. ASSUME r.at = "scan", NEW i \in 1..Len(r.stack)  PROVE ScanLevel(r.stack[i], r.root)
  <2>1. ScanLevel(run.stack[i], run.root)  BY <1>2, <1>5 DEF Healthy, StackOK, Same
  <2> QED  BY <2>1, <1>2, <1>5 DEF ScanLevel, Same
<1>6. ASSUME r.at = "delete", NEW i \in 1..Len(r.stack)
      PROVE  DeleteLevel(t, r.stack[i], i, Depth(r))
  <2>1. DeleteLevel(enc, run.stack[i], i, Depth(run))
    BY <1>2, <1>6 DEF Healthy, StackOK, Same
  <2>2. Depth(r) = Depth(run)  BY <1>2 DEF Depth, Same
  <2> QED  BY <2>1, <2>2, <1>2, <1>6 DEF DeleteLevel
<1> QED  BY <1>2, <1>4, <1>5, <1>6 DEF StackOK

\* A run that has passed an entry and goes into it.
Entered(p, f) == [Passed(p, FALSE) EXCEPT !.stack = Append(@, f)]

\* r is the run when it has passed entry p and goes into it.
Enters(r, p, f) ==
  /\ r \in Run /\ Same(r) /\ r.now = Nothing
  /\ r.unread = run.unread /\ r.unlisted = run.unlisted
  /\ Len(r.stack) = Len(run.stack) + 1 /\ r.stack[Len(run.stack) + 1] = f
  /\ \A i \in 1..Len(run.stack) : Lower(run.stack[i], r.stack[i], p)

LEMMA StackGrows ==
  ASSUME Healthy, run.stack # <<>>, run.at \in {"scan", "delete"}, NEW p, NEW f \in Level,
         run.at = "scan" => ScanLevel(f, run.root),
         run.at = "delete" => DeleteLevel(enc, f, Len(run.stack) + 1, Depth(run)),
         run' = Entered(p, f)
  PROVE  Enters(run', p, f) /\ RunOK(run') /\ StackOK(enc, run')
<1>1. run \in Run /\ run.stack \in Seq(Level) /\ Len(run.stack) \in Nat
  BY DEF Healthy, DataOK, Run
<1>2. PICK r : r = Passed(p, FALSE)  OBVIOUS
<1>3. Passes(r, p, FALSE) /\ r.unread = run.unread /\ r.unlisted = run.unlisted
  BY <1>1, <1>2, PassedIs
<1>4. /\ r \in Run /\ Same(r) /\ r.now = Nothing /\ r.stack \in Seq(Level)
      /\ Len(r.stack) = Len(run.stack)
      /\ \A i \in 1..Len(run.stack) : Lower(run.stack[i], r.stack[i], p)
  BY <1>3 DEF Passes, Run
<1>5. PICK a : a = Append(r.stack, f)  OBVIOUS
<1>6. /\ a \in Seq(Level) /\ Len(a) = Len(run.stack) + 1 /\ a[Len(run.stack) + 1] = f
      /\ \A i \in 1..Len(run.stack) : a[i] = r.stack[i]
  BY <1>1, <1>4, <1>5
<1>7. run' = [r EXCEPT !.stack = a]  BY <1>2, <1>4, <1>5 DEF Run, Entered
<1>8. /\ run' \in Run /\ run'.stack = a /\ run'.now = r.now /\ run'.at = r.at
      /\ run'.opt = r.opt /\ run'.items = r.items /\ run'.line = r.line /\ run'.err = r.err
      /\ run'.root = r.root /\ run'.cut = r.cut /\ run'.scanned = r.scanned
      /\ run'.moved = r.moved /\ run'.tried = r.tried /\ run'.unread = r.unread
      /\ run'.unlisted = r.unlisted /\ run'.stuck = r.stuck
  BY <1>4, <1>6, <1>7, ZenonT(30) DEF Run
<1>9. Same(run') /\ run'.now = Nothing  BY <1>4, <1>8 DEF Same
<1>10. Enters(run', p, f)
  BY <1>3, <1>4, <1>6, <1>8, <1>9 DEF Enters
<1>11. a # <<>>  BY <1>1, <1>6
<1>12. RunOK(run')  BY <1>8, <1>9, <1>11 DEF Healthy, RunOK, Same
<1>13. ASSUME run.at = "scan", NEW i \in 1..Len(a)  PROVE ScanLevel(a[i], run.root)
  <2>1. CASE i = Len(run.stack) + 1  BY <2>1, <1>6, <1>13
  <2>2. CASE i # Len(run.stack) + 1
    <3>1. i \in 1..Len(run.stack)  BY <2>2, <1>1, <1>6
    <3>2. ScanLevel(run.stack[i], run.root)  BY <3>1, <1>13 DEF Healthy, StackOK
    <3> QED  BY <3>1, <3>2, <1>4, <1>6 DEF ScanLevel, Lower
  <2> QED  BY <2>1, <2>2
<1>14. ASSUME run.at = "delete", NEW i \in 1..Len(a)  PROVE DeleteLevel(enc, a[i], i, Depth(run))
  <2>1. CASE i = Len(run.stack) + 1  BY <2>1, <1>6, <1>14
  <2>2. CASE i # Len(run.stack) + 1
    <3>1. i \in 1..Len(run.stack)  BY <2>2, <1>1, <1>6
    <3>2. DeleteLevel(enc, run.stack[i], i, Depth(run))  BY <3>1, <1>14 DEF Healthy, StackOK
    <3> QED  BY <3>1, <3>2, <1>4, <1>6 DEF DeleteLevel, Lower
  <2> QED  BY <2>1, <2>2
<1>15. run'.at = run.at /\ run'.root = run.root /\ Depth(run') = Depth(run)
  BY <1>9 DEF Same, Depth
<1>16. StackOK(enc, run')  BY <1>8, <1>9, <1>13, <1>14, <1>15 DEF StackOK
<1> QED  BY <1>10, <1>12, <1>16

-----------------------------------------------------------------------------
(* Every step keeps the type invariant. *)

\* What a directory begun, or refused, does to the trees.
LEMMA DirTrees ==
  ASSUME DataOK, NEW r, NEW s \in Sources, NEW cut \in Nat,
         BeginDir(r, s, cut) \/ NoDir(r, s, cut)
  PROVE  /\ Tree(enc') /\ Tree(key') /\ mishaps' \in 0..MaxMishaps
         /\ UNCHANGED <<windows, plain, from>>
         /\ \A q \in Rels : /\ enc'[q] = "file" => enc[q] = "file"
                            /\ enc[q] # "none" => enc'[q] = enc[q]
                            /\ enc[q] = "none" /\ enc'[q] # "none" => q \in Prefixes(Drop(s, cut))
<1> DEFINE p == Drop(s, cut)
<1>1. p \in Rels  BY RelsArePaths
<1>2. mishaps' \in 0..MaxMishaps
  <2>1. CASE BeginDir(r, s, cut)  BY <2>1 DEF BeginDir, DataOK
  <2>2. CASE NoDir(r, s, cut)
    <3>1. PICK cause : Throws(cause)  BY <2>2 DEF NoDir
    <3> QED  BY <3>1, FailureCounted DEF DataOK
  <2> QED  BY <2>1, <2>2
<1>3. UNCHANGED <<windows, plain, from>>  BY DEF BeginDir, NoDir
<1>4. enc' = enc \/ (~MkPathFails(enc, p) /\ enc' = MkPath(enc, p))
  BY DEF BeginDir, NoDir
<1>5. key' = key \/ (~MkPathFails(key, p) /\ key' = MkPath(key, p))
  BY DEF BeginDir, NoDir
<1> HIDE DEF p
<1>6. Tree(enc') /\ Tree(key')  BY <1>1, <1>4, <1>5, MkPathMakes DEF DataOK
<1>7. ASSUME NEW q \in Rels
      PROVE  /\ enc'[q] = "file" => enc[q] = "file"
             /\ enc[q] # "none" => enc'[q] = enc[q]
             /\ enc[q] = "none" /\ enc'[q] # "none" => q \in Prefixes(p)
  <2>1. CASE enc' = enc  BY <2>1
  <2>2. CASE ~MkPathFails(enc, p) /\ enc' = MkPath(enc, p)
    <3>1. /\ enc[q] # "none" => enc'[q] = enc[q]
          /\ q \notin Prefixes(p) => enc'[q] = enc[q]
          /\ enc[q] = "none" => enc'[q] \in {"none", "dir"}
      BY <1>1, <2>2, MkPathMakes DEF DataOK
    <3> QED  BY <3>1
  <2> QED  BY <1>4, <2>1, <2>2
<1> QED  BY <1>2, <1>3, <1>6, <1>7 DEF p

\* The run when a directory is begun.
LEMMA BegunIs ==
  ASSUME NEW r \in Run, NEW s \in Sources, NEW cut \in Nat, Frame(plain, s) \in Level,
         BeginDir(r, s, cut)
  PROVE  /\ run' \in Run /\ run'.at = "scan" /\ run'.root = s /\ run'.cut = cut
         /\ run'.stack = <<Frame(plain, s)>>
         /\ run'.scanned = r.scanned \cup {[root |-> s, cut |-> cut]}
         /\ run'.now = r.now /\ run'.line = r.line /\ run'.items = r.items /\ run'.opt = r.opt
         /\ run'.err = r.err /\ run'.moved = r.moved /\ run'.tried = r.tried
         /\ run'.unread = r.unread /\ run'.unlisted = r.unlisted /\ run'.stuck = r.stuck
<1>1. PICK d \in [root : Sources, cut : Nat] : d = [root |-> s, cut |-> cut]  OBVIOUS
<1>2. PICK f \in Level : f = Frame(plain, s)  OBVIOUS
<1>3. PICK st \in Seq(Level) : st = <<f>>
  <2>1. <<f>> \in Seq(Level)  OBVIOUS
  <2> QED  BY <2>1
<1>4. run' = [r EXCEPT !.at = "scan", !.root = s, !.cut = cut, !.stack = st,
                       !.scanned = @ \cup {d}]
  BY <1>1, <1>2, <1>3 DEF BeginDir
<1>5. /\ run' \in Run /\ run'.at = "scan" /\ run'.root = s /\ run'.cut = cut
      /\ run'.stack = st /\ run'.scanned = r.scanned \cup {d}
      /\ run'.now = r.now /\ run'.line = r.line /\ run'.items = r.items /\ run'.opt = r.opt
      /\ run'.err = r.err /\ run'.moved = r.moved /\ run'.tried = r.tried
      /\ run'.unread = r.unread /\ run'.unlisted = r.unlisted /\ run'.stuck = r.stuck
  BY <1>4, ZenonT(30) DEF Run
<1> QED  BY <1>1, <1>2, <1>3, <1>5

\* The run when it is refused.
LEMMA RefusedIs ==
  ASSUME NEW r \in Run, NEW s, NEW cut, NoDir(r, s, cut)
  PROVE  /\ run' \in Run /\ run'.at = "next" /\ run'.err /\ run'.scanned = r.scanned
         /\ run'.now = r.now /\ run'.line = r.line /\ run'.items = r.items
         /\ run'.moved = r.moved /\ run'.tried = r.tried
         /\ run'.unread = r.unread /\ run'.unlisted = r.unlisted
<1>1. run' = [r EXCEPT !.at = "next", !.err = TRUE]  BY DEF NoDir
<1> QED  BY <1>1 DEF Run

LEMMA DirBegun ==
  ASSUME DataOK, NEW r \in Run, r.at = "next", RunOK(r), NEW s \in Sources, NEW cut \in Nat,
         cut <= Len(s), BeginDir(r, s, cut) \/ NoDir(r, s, cut), twice' \in BOOLEAN
  PROVE  Healthy'
<1>1. r.now = Nothing  BY DEF RunOK
<1>2. s \in Path /\ s \in Prefixes(s)  BY SourcesArePaths, PrefixIs, PrefixOrder DEF Path
<1>3. Frame(plain, s) \in Level /\ ScanLevel(Frame(plain, s), s)  BY <1>2, PlainFrame
<1>4. ASSUME run' \in Run  PROVE DataOK'
  <2>1. /\ Tree(enc') /\ Tree(key') /\ mishaps' \in 0..MaxMishaps
        /\ UNCHANGED <<windows, plain, from>>
    BY DirTrees
  <2> QED  BY <1>4, <2>1 DEF DataOK, Tree
<1>5. CASE BeginDir(r, s, cut)
  <2>1. /\ run' \in Run /\ run'.at = "scan" /\ run'.root = s /\ run'.cut = cut
        /\ run'.stack = <<Frame(plain, s)>>
        /\ run'.scanned = r.scanned \cup {[root |-> s, cut |-> cut]}
        /\ run'.now = r.now /\ run'.line = r.line
    BY <1>3, <1>5, BegunIs
  <2>2. PICK f \in Level : f = Frame(plain, s) /\ ScanLevel(f, s)  BY <1>3
  <2>3. <<f>> # <<>> /\ Len(<<f>>) = 1 /\ <<f>>[1] = f  OBVIOUS
  <2>4. RunOK(run')  BY <1>1, <2>1, <2>2, <2>3 DEF RunOK
  <2>5. \A i \in 1..Len(run'.stack) : run'.stack[i] = f  BY <2>1, <2>2, <2>3
  <2>6. StackOK(enc', run')  BY <2>1, <2>2, <2>5 DEF StackOK
  <2> QED  BY <1>4, <2>1, <2>4, <2>6 DEF Healthy
<1>6. CASE NoDir(r, s, cut)
  <2>1. /\ run' \in Run /\ run'.at = "next" /\ run'.scanned = r.scanned /\ run'.now = r.now
        /\ run'.line = r.line
    BY <1>6, RefusedIs
  <2> QED  BY <1>1, <1>4, <2>1 DEF Healthy, RunOK, StackOK
<1> QED  BY <1>5, <1>6

LEMMA CalcTrimIs ==
  ASSUME NEW p \in Path, CalcTrim(p) # NoTrim
  PROVE  CalcTrim(p) = Trim /\ Trim \in Nat /\ Trim <= Len(p)
BY ScanParams DEF CalcTrim, NoTrim

\* What -r cuts off, and what --filelist cuts off a directory, is there.
LEMMA SecondTrimIs ==
  ASSUME NEW s \in Sources, CalcTrim(s) # NoTrim, CalcTrim(Drop(s, Trim)) # NoTrim
  PROVE  Trim + CalcTrim(Drop(s, Trim)) \in Nat /\ Trim + CalcTrim(Drop(s, Trim)) <= Len(s)
<1>1. s \in Path /\ Len(s) \in Nat  BY SourcesArePaths DEF Path
<1>2. Trim \in Nat /\ Trim <= Len(s)  BY <1>1, CalcTrimIs
<1>3. Drop(s, Trim) \in Path /\ Len(Drop(s, Trim)) = Len(s) - Trim  BY <1>1, <1>2, DropIs
<1>4. CalcTrim(Drop(s, Trim)) = Trim /\ Trim <= Len(Drop(s, Trim))  BY <1>3, CalcTrimIs
<1> QED  BY <1>1, <1>2, <1>3, <1>4

\* Steps that change nothing but the run.
LEMMA OnlyRun ==
  ASSUME Healthy, run' \in Run, RunOK(run'), StackOK(enc, run'), mishaps' \in 0..MaxMishaps,
         UNCHANGED <<windows, plain, enc, key, from, twice>>
  PROVE  Healthy'
BY DEF Healthy, DataOK, Tree

\* The run between two lines, or over.
LEMMA BetweenLines ==
  ASSUME NEW r, r.at = "next", \A d \in r.scanned : d.cut <= Len(d.root), r.now = Nothing,
         \A l \in r.line : Legible(l)
  PROVE  RunOK(r) /\ \A t : StackOK(t, r)
BY DEF RunOK, StackOK

LEMMA StartRecurseHealthy == Healthy /\ StartRecurse => Healthy'
<1> SUFFICES ASSUME Healthy, StartRecurse PROVE Healthy'  OBVIOUS
<1>1. PICK s \in Roots, o \in Opts :
        IF CalcTrim(s) = NoTrim
          THEN /\ run' = [Fresh(o) EXCEPT !.err = TRUE]
               /\ UNCHANGED <<windows, plain, enc, key, from, mishaps>>
          ELSE BeginDir(Fresh(o), s, Trim) \/ NoDir(Fresh(o), s, Trim)
  BY DEF StartRecurse
<1>2. s \in Sources /\ o \in [del : BOOLEAN, delkey : BOOLEAN] /\ s \in Path
  BY ScanParams, SourcesArePaths
<1>3. PICK f \in Run : /\ f = Fresh(o) /\ f.at = "next" /\ f.scanned = {} /\ f.line = {}
                       /\ f.now = Nothing /\ RunOK(f)
  BY <1>2, FreshIs
<1>4. twice' = twice /\ DataOK  BY DEF StartRecurse, Healthy
<1>5. CASE CalcTrim(s) = NoTrim
  <2>1. /\ run' = [f EXCEPT !.err = TRUE]
        /\ UNCHANGED <<windows, plain, enc, key, from, mishaps>>
    BY <1>1, <1>3, <1>5
  <2>2. /\ run' \in Run /\ run'.at = "next" /\ run'.scanned = {} /\ run'.line = {}
        /\ run'.now = Nothing
    BY <1>3, <2>1 DEF Run
  <2>3. RunOK(run') /\ StackOK(enc, run')  BY <2>2, BetweenLines
  <2>4. mishaps' \in 0..MaxMishaps  BY <1>4, <2>1 DEF DataOK
  <2> QED  BY <1>4, <2>1, <2>2, <2>3, <2>4, OnlyRun
<1>6. CASE CalcTrim(s) # NoTrim
  <2>1. BeginDir(f, s, Trim) \/ NoDir(f, s, Trim)  BY <1>1, <1>3, <1>6
  <2>2. Trim \in Nat /\ Trim <= Len(s)  BY <1>2, <1>6, CalcTrimIs
  <2>3. twice' \in BOOLEAN  BY <1>4 DEF DataOK
  <2> QED  BY <1>2, <1>3, <1>4, <2>1, <2>2, <2>3, DirBegun
<1> QED  BY <1>5, <1>6

\* The line is read, and no other is in hand.
LEMMA RestIs ==
  ASSUME Healthy, run.at = "next"
  PROVE  /\ Rest \in Run /\ Rest.at = "next" /\ RunOK(Rest) /\ Rest.line = {}
         /\ Rest.scanned = run.scanned /\ Rest.items = run.items /\ Rest.now = Nothing
         /\ Rest.err = run.err /\ Rest.tried = run.tried /\ Rest.moved = run.moved
         /\ Rest.opt = run.opt /\ Rest.root = run.root /\ Rest.cut = run.cut
         /\ Rest.unread = run.unread /\ Rest.unlisted = run.unlisted /\ Rest.stuck = run.stuck
<1>1. run \in Run  BY DEF Healthy, DataOK
<1>2. run.now = Nothing  BY DEF Healthy, RunOK
<1>3. /\ Rest \in Run /\ Rest.at = "next" /\ Rest.line = {} /\ Rest.now = Nothing
      /\ Rest.scanned = run.scanned /\ Rest.items = run.items /\ Rest.err = run.err
      /\ Rest.tried = run.tried /\ Rest.moved = run.moved /\ Rest.opt = run.opt
      /\ Rest.root = run.root /\ Rest.cut = run.cut /\ Rest.unread = run.unread
      /\ Rest.unlisted = run.unlisted /\ Rest.stuck = run.stuck
  BY <1>1, <1>2 DEF Rest, Run
<1> QED  BY <1>3 DEF Healthy, RunOK

LEMMA LineIs ==
  ASSUME NEW l \in Lines
  PROVE  l.path \in Sources /\ l.path \in Path /\ l.slash \in BOOLEAN
BY ScanParams, SourcesArePaths DEF Line

\* What is known of the line in hand.
LEMMA ReadIs ==
  ASSUME Healthy, NEW l, Read(l)
  PROVE  run.at = "next" /\ run.line = {l} /\ Legible(l)
BY DEF Healthy, RunOK, Read

LEMMA ListDirIs ==
  ASSUME Healthy, NEW l \in Lines, ListDir(l)
  PROVE  LET cut == Trim + SecondTrim(l)
         IN  /\ run.at = "next" /\ run.line = {l}
             /\ CalcTrim(l.path) # NoTrim /\ SecondTrim(l) # NoTrim
             /\ BeginDir(Rest, l.path, cut) \/ NoDir(Rest, l.path, cut)
             /\ twice' = (twice \/ cut > Trim)
             /\ cut \in Nat /\ cut <= Len(l.path)
<1>1. PICK cut : cut = Trim + SecondTrim(l)  OBVIOUS
<1>2. /\ Read(l) /\ l.slash
      /\ BeginDir(Rest, l.path, cut) \/ NoDir(Rest, l.path, cut)
      /\ twice' = (twice \/ cut > Trim)
  BY <1>1 DEF ListDir
<1>3. /\ run.at = "next" /\ run.line = {l} /\ CalcTrim(l.path) # NoTrim /\ SecondTrim(l) # NoTrim
  BY <1>2, ReadIs DEF Legible
<1>4. cut \in Nat /\ cut <= Len(l.path)
  BY <1>1, <1>3, SecondTrimIs, LineIs DEF SecondTrim
<1> QED  BY <1>1, <1>2, <1>3, <1>4

LEMMA ListDirHealthy == \A l \in Lines : Healthy /\ ListDir(l) => Healthy'
<1> SUFFICES ASSUME NEW l \in Lines, Healthy, ListDir(l) PROVE Healthy'  OBVIOUS
<1>1. PICK cut : cut = Trim + SecondTrim(l)  OBVIOUS
<1>2. /\ run.at = "next"
      /\ BeginDir(Rest, l.path, cut) \/ NoDir(Rest, l.path, cut)
      /\ twice' = (twice \/ cut > Trim) /\ cut \in Nat /\ cut <= Len(l.path)
  BY <1>1, ListDirIs
<1>3. twice' \in BOOLEAN /\ DataOK /\ l.path \in Sources  BY <1>2, LineIs DEF Healthy
<1>4. Rest \in Run /\ Rest.at = "next" /\ RunOK(Rest)  BY <1>2, RestIs
<1> QED  BY <1>2, <1>3, <1>4, DirBegun

LEMMA QuietHealthy ==
  Healthy /\ (\/ StartList \/ Done \/ DeleteDone
              \/ (\E l \in Lines : ListRefused(l) \/ ListLine(l))
              \/ (\E p \in Rels : UnlinkRecurses(p))) => Healthy'
<1> SUFFICES ASSUME Healthy
             PROVE  (\/ StartList \/ Done \/ DeleteDone
                     \/ (\E l \in Lines : ListRefused(l) \/ ListLine(l))
                     \/ (\E p \in Rels : UnlinkRecurses(p))) => Healthy'
  OBVIOUS
<1>1. /\ run \in Run /\ \A d \in run.scanned : d.cut <= Len(d.root)
      /\ \A l \in run.line : Legible(l)
      /\ mishaps \in 0..MaxMishaps
  BY DEF Healthy, DataOK, RunOK
<1>2. ASSUME StartList  PROVE Healthy'
  <2>1. PICK ls \in SUBSET Lines, o \in Opts : run' = [Fresh(o) EXCEPT !.items = ls]
    BY <1>2 DEF StartList
  <2>2. o \in [del : BOOLEAN, delkey : BOOLEAN]  BY ScanParams
  <2>3. PICK f \in Run : /\ f = Fresh(o) /\ f.at = "next" /\ f.scanned = {} /\ f.line = {}
                         /\ f.now = Nothing
    BY <2>2, FreshIs
  <2>4. /\ run' \in Run /\ run'.at = "next" /\ run'.scanned = {} /\ run'.line = {}
        /\ run'.now = Nothing
    BY <2>1, <2>3 DEF Run
  <2>5. RunOK(run') /\ StackOK(enc, run')  BY <2>4, BetweenLines
  <2> QED  BY <1>1, <1>2, <2>4, <2>5, OnlyRun DEF StartList
<1>3. ASSUME Done  PROVE Healthy'
  BY <1>1, <1>3, NoRunIs, OnlyRun DEF Done
<1>4. ASSUME NEW l \in Lines, ListRefused(l)  PROVE Healthy'
  <2>1. /\ run.at = "next" /\ run' = [run EXCEPT !.items = @ \ {l}, !.err = TRUE]
        /\ UNCHANGED <<windows, plain, enc, key, from, twice>>
    BY <1>4 DEF ListRefused, Reading
  <2>2. run.now = Nothing  BY <2>1 DEF Healthy, RunOK
  <2>3. /\ run' \in Run /\ run'.at = "next" /\ run'.scanned = run.scanned
        /\ run'.line = run.line /\ run'.now = Nothing
    BY <1>1, <2>1, <2>2 DEF Run
  <2>4. RunOK(run') /\ StackOK(enc, run')  BY <1>1, <2>3, BetweenLines
  <2>5. mishaps' \in 0..MaxMishaps
    <3>1. PICK cause : Throws(cause)  BY <1>4 DEF ListRefused
    <3> QED  BY <1>1, <3>1, FailureCounted
  <2> QED  BY <2>1, <2>3, <2>4, <2>5, OnlyRun
<1>5. ASSUME NEW l \in Lines, ListLine(l)  PROVE Healthy'
  <2>1. /\ run.at = "next" /\ run' = [run EXCEPT !.items = @ \ {l}, !.line = {l}] /\ Legible(l)
        /\ UNCHANGED <<windows, plain, enc, key, from, mishaps, twice>>
    BY <1>5 DEF ListLine, Reading, Legible
  <2>2. run.now = Nothing  BY <2>1 DEF Healthy, RunOK
  <2>3. /\ run' \in Run /\ run'.at = "next" /\ run'.scanned = run.scanned
        /\ run'.line = {l} /\ run'.now = Nothing
    BY <1>1, <2>1, <2>2 DEF Run
  <2>4. RunOK(run') /\ StackOK(enc, run')  BY <1>1, <2>1, <2>3, BetweenLines
  <2> QED  BY <1>1, <2>1, <2>3, <2>4, OnlyRun
<1>6. ASSUME DeleteDone  PROVE Healthy'
  <2>1. run.stack # <<>> /\ run.at = "delete"  BY <1>6 DEF Healthy, RunOK, DeleteDone
  <2>2. Top.err \in BOOLEAN /\ Top = run.stack[Len(run.stack)]  BY <1>1, <2>1, TopIs DEF Level
  <2>3. run.now = Nothing  BY <1>6, <2>2 DEF Healthy, RunOK, DeleteDone
  <2>4. <<>> \in Seq(Level)  OBVIOUS
  <2>5. /\ run' = [run EXCEPT !.at = "next", !.stack = <<>>, !.err = @ \/ Top.err]
        /\ UNCHANGED <<windows, plain, enc, key, from, mishaps, twice>>
    BY <1>6 DEF DeleteDone
  <2>6. /\ run' \in Run /\ run'.at = "next" /\ run'.scanned = run.scanned
        /\ run'.now = Nothing /\ run'.line = run.line
    BY <1>1, <2>2, <2>3, <2>4, <2>5 DEF Run
  <2>7. RunOK(run') /\ StackOK(enc, run')  BY <1>1, <2>6, BetweenLines
  <2> QED  BY <1>1, <2>5, <2>6, <2>7, OnlyRun
<1>7. ASSUME NEW p \in Rels, UnlinkRecurses(p)  PROVE Healthy'
  BY <1>1, <1>7, NoRunIs, OnlyRun DEF UnlinkRecurses
<1> QED  BY <1>2, <1>3, <1>4, <1>5, <1>6, <1>7

\* Where a run is that has an entry before it, or in hand.
LEMMA EntryIs ==
  ASSUME Healthy, NEW where \in {"scan", "delete"}, NEW p,
         Scanning(where, p) \/ \E k : InHand(where, p, k)
  PROVE  /\ run.stack # <<>> /\ run \in Run /\ run.at = where
         /\ Len(run.stack) \in Nat \ {0} /\ Top = run.stack[Len(run.stack)] /\ p \in Top.todo
         /\ run.root \in Sources /\ run.cut \in Nat /\ run.cut <= Len(run.root)
         /\ [root |-> run.root, cut |-> run.cut] \in run.scanned
         /\ where = "scan" => ScanLevel(Top, run.root)
         /\ where = "delete" => DeleteLevel(enc, Top, Len(run.stack), Depth(run))
<1>1. run.stack # <<>> /\ run \in Run /\ run.at = where /\ p \in Top.todo
  BY DEF Healthy, DataOK, Scanning, InHand
<1>2. Len(run.stack) \in Nat \ {0} /\ Top = run.stack[Len(run.stack)]  BY <1>1, TopIs
<1>3. /\ run.root \in Sources /\ [root |-> run.root, cut |-> run.cut] \in run.scanned
  BY <1>1 DEF Healthy, RunOK
<1>4. run.cut \in Nat  BY <1>1 DEF Run
<1>5. run.cut <= Len(run.root)
  <2>1. \A d \in run.scanned : d.cut <= Len(d.root)  BY DEF Healthy, RunOK
  <2> QED  BY <1>3, <2>1
<1>6. Len(run.stack) \in 1..Len(run.stack)  BY <1>2
<1> QED  BY <1>1, <1>2, <1>3, <1>4, <1>5, <1>6 DEF Healthy, StackOK

\* An entry of a plain directory.
LEMMA SourceIs ==
  ASSUME Healthy, NEW s, Scanning("scan", s) \/ \E k : InHand("scan", s, k)
  PROVE  /\ s \in Sources /\ s \in Path /\ run.root \in Above(s) /\ run.root \in Path
         /\ run.root \in Prefixes(s) /\ run.cut \in 0..Len(s) /\ Drop(s, run.cut) \in Rels
<1>1. /\ s \in Top.todo /\ run.root \in Sources /\ ScanLevel(Top, run.root)
      /\ run.cut \in Nat /\ run.cut <= Len(run.root)
  BY EntryIs
<1>2. s \in Sources /\ run.root \in Above(s)
  BY <1>1, BelowIs, SourcesArePaths DEF ScanLevel
<1>3. s \in Path /\ run.root \in Path /\ run.root \in Prefixes(s)
  BY <1>1, <1>2, SourcesArePaths DEF Above
<1>4. run.cut \in 0..Len(s)
  <2>1. Len(run.root) \in 0..Len(s) /\ Len(s) \in Nat  BY <1>3, PrefixOrder
  <2> QED  BY <2>1, <1>1
<1> QED  BY <1>1, <1>2, <1>3, <1>4, RelsArePaths

\* An entry whose lstat was made: only that is new.
LEMMA LookHealthy ==
  Healthy /\ (\/ \E s \in Sources : LookAt(s)
              \/ \E p \in Rels : LookupGone(p)) => Healthy'
<1> SUFFICES ASSUME Healthy, NEW p, (p \in Sources /\ LookAt(p)) \/ (p \in Rels /\ LookupGone(p))
             PROVE  Healthy'
  OBVIOUS
<1>1. /\ run \in Run /\ run.stack # <<>> /\ run.at \in {"scan", "delete"} /\ p \in Top.todo
      /\ run.at = "delete" => enc[p] = "file"
      /\ UNCHANGED <<windows, plain, enc, key, from, mishaps, twice>>
  BY DEF Healthy, DataOK, LookAt, LookupGone, Scanning
<1>2. PICK e \in Entry : e.path = p /\ run' = [run EXCEPT !.now = e]
  <2>1. CASE p \in Sources /\ LookAt(p)
    <3>1. [path |-> p, as |-> plain[p]] \in Entry  BY <2>1 DEF LookAt, Entry
    <3> QED  BY <2>1, <3>1 DEF LookAt
  <2>2. CASE p \in Rels /\ LookupGone(p)
    <3>1. [path |-> p, as |-> "file"] \in Entry  BY <2>2 DEF Entry
    <3> QED  BY <2>2, <3>1 DEF LookupGone
  <2> QED  BY <2>1, <2>2
<1>3. /\ run' \in Run /\ run'.now = e /\ run'.at = run.at /\ run'.stack = run.stack
      /\ run'.root = run.root /\ run'.cut = run.cut /\ run'.scanned = run.scanned
      /\ run'.line = run.line
  BY <1>1, <1>2 DEF Run
<1>4. Top = run.stack[Len(run.stack)]  BY <1>1, TopIs
<1>5. RunOK(run')  BY <1>1, <1>2, <1>3, <1>4 DEF Healthy, RunOK
<1>6. StackOK(enc, run')  BY <1>1, <1>2, <1>3 DEF Healthy, StackOK, Depth
<1>7. mishaps' \in 0..MaxMishaps  BY <1>1 DEF Healthy, DataOK
<1> QED  BY <1>1, <1>3, <1>5, <1>6, <1>7, OnlyRun


\* The steps of the scan of a plain directory that take an entry off its list.
LEMMA ScanTaken ==
  ASSUME Healthy, NEW s \in Sources,
         Unlisted(s) \/ Vanished(s) \/ Skip(s) \/ VisitFile(s) \/ DirUnread(s)
  PROVE  /\ run.at = "scan" /\ run.stack # <<>> /\ s \in Top.todo
         /\ UNCHANGED <<windows, plain, twice>>
         /\ \E e \in BOOLEAN :
              /\ Passes(run', s, e) /\ run'.unlisted = run.unlisted
              /\ run'.unread = IF e THEN run.unread \cup {s} ELSE run.unread
              /\ \/ e \/ plain[s] \in {"none", "link"}
                 \/ s \in run'.tried /\ run.now = [path |-> s, as |-> "file"]
<1>1. run.at = "scan" /\ run.stack # <<>> /\ s \in Top.todo
  BY DEF Unlisted, Vanished, Skip, VisitFile, DirUnread, Scanning, InHand
<1>2. UNCHANGED <<windows, plain, twice>>
  BY DEF Unlisted, Vanished, Skip, VisitFile, DirUnread
<1>3. run \in Run  BY DEF Healthy, DataOK
<1>4. {} \in SUBSET Sources /\ {s} \in SUBSET Sources /\ {} \in SUBSET Rels
  OBVIOUS
<1>5. CASE Unlisted(s) \/ Skip(s)
  <2>1. run' = Passed(s, FALSE) /\ plain[s] \in {"none", "link"}  BY <1>5 DEF Unlisted, Skip
  <2>2. /\ Passes(run', s, FALSE) /\ run'.unlisted = run.unlisted /\ run'.unread = run.unread
    BY <1>1, <1>3, <2>1, PassedIs
  <2> QED  BY <1>1, <1>2, <2>1, <2>2
<1>6. CASE Vanished(s) \/ DirUnread(s)
  <2>1. run' = [Passed(s, TRUE) EXCEPT !.unread = @ \cup {s}]  BY <1>6 DEF Vanished, DirUnread
  <2>2. /\ Passes(run', s, TRUE) /\ run'.unlisted = run.unlisted
        /\ run'.unread = run.unread \cup {s}
    BY <1>1, <1>3, <1>4, <2>1, TakenIs
  <2> QED  BY <1>1, <1>2, <2>2
<1>7. CASE VisitFile(s)
  <2>1. /\ run' = [Passed(s, FALSE) EXCEPT !.tried = @ \cup {s}]
        /\ run.now = [path |-> s, as |-> "file"]
    BY <1>7 DEF VisitFile, InHand
  <2>2. /\ Passes(run', s, FALSE) /\ run'.unlisted = run.unlisted
        /\ run'.unread = run.unread \cup {} /\ {s} \subseteq run'.tried
    BY <1>1, <1>3, <1>4, <2>1, TakenIs
  <2> QED  BY <1>1, <1>2, <2>1, <2>2
<1> QED  BY <1>5, <1>6, <1>7

\* Those of the scan of the encrypted tree.
LEMMA DeleteTaken ==
  ASSUME Healthy, NEW p \in Rels,
         \/ EntryFails(p) \/ StaysFile(p) \/ LookupFails(p)
         \/ DeleteFile(p) \/ DeleteFails(p)
  PROVE  /\ run.at = "delete" /\ run.stack # <<>> /\ p \in Top.todo
         /\ UNCHANGED <<windows, plain, twice>>
         /\ \/ UNCHANGED <<enc, key, from>>
            \/ DeleteFile(p) /\ enc[p] = "file" /\ enc'[p] = "none"
         /\ \E e \in BOOLEAN :
              /\ Passes(run', p, e) /\ run'.unread = run.unread
              /\ \/ e \/ p \in run'.stuck \/ enc'[p] = "none"
                 \/ enc[p] = "file" /\ PlainAt(SourceOf(p)) # "none"
<1>1. run.at = "delete" /\ run.stack # <<>> /\ p \in Top.todo
  BY DEF EntryFails, StaysFile, LookupFails, DeleteFile, DeleteFails, Scanning, InHand
<1>2. UNCHANGED <<windows, plain, twice>>
  BY DEF EntryFails, StaysFile, LookupFails, DeleteFile, DeleteFails
<1>3. run \in Run  BY DEF Healthy, DataOK
<1>4. {} \in SUBSET Sources /\ {p} \in SUBSET Rels
  OBVIOUS
<1>5. CASE EntryFails(p)
  <2>1. run' = Passed(p, TRUE) /\ UNCHANGED <<enc, key, from>>  BY <1>5 DEF EntryFails
  <2>2. Passes(run', p, TRUE) /\ run'.unread = run.unread  BY <1>1, <1>3, <2>1, PassedIs
  <2> QED  BY <1>1, <1>2, <2>1, <2>2
<1>6. CASE StaysFile(p)
  <2>1. /\ run' = Passed(p, FALSE) /\ UNCHANGED <<enc, key, from>>
        /\ enc[p] = "file" /\ PlainAt(SourceOf(p)) # "none"
    BY <1>6 DEF StaysFile
  <2>2. Passes(run', p, FALSE) /\ run'.unread = run.unread  BY <1>1, <1>3, <2>1, PassedIs
  <2> QED  BY <1>1, <1>2, <2>1, <2>2
<1>7. CASE LookupFails(p) \/ DeleteFails(p)
  <2>1. /\ run' = [Passed(p, FALSE) EXCEPT !.stuck = @ \cup {p}]
        /\ UNCHANGED <<enc, key, from>>
    BY <1>7 DEF LookupFails, DeleteFails
  <2>2. /\ Passes(run', p, FALSE) /\ run'.unread = run.unread \cup {}
        /\ {p} \subseteq run'.stuck
    BY <1>1, <1>3, <1>4, <2>1, TakenIs
  <2> QED  BY <1>1, <1>2, <2>1, <2>2
<1>8. CASE DeleteFile(p)
  <2>1. /\ run' = Passed(p, FALSE) /\ enc' = [enc EXCEPT ![p] = "none"]
        /\ run.now = [path |-> p, as |-> "file"]
    BY <1>8 DEF DeleteFile, InHand
  <2>2. Passes(run', p, FALSE) /\ run'.unread = run.unread  BY <1>1, <1>3, <2>1, PassedIs
  <2>3. enc[p] = "file"
    <3>1. run.now # Nothing /\ run.now.path = p  BY <2>1 DEF Nothing
    <3> QED  BY <1>1, <3>1 DEF Healthy, StackOK
  <2>4. enc'[p] = "none"
    <3>1. enc \in [Rels -> Kinds]  BY DEF Healthy, DataOK, Tree
    <3> QED  BY <2>1, <3>1
  <2> QED  BY <1>1, <1>2, <1>8, <2>2, <2>3, <2>4
<1> QED  BY <1>5, <1>6, <1>7, <1>8

LEMMA ScanTakenHealthy ==
  \A s \in Sources :
    Healthy /\ (Unlisted(s) \/ Vanished(s) \/ Skip(s) \/ VisitFile(s) \/ DirUnread(s)) => Healthy'
<1> SUFFICES ASSUME NEW s \in Sources, Healthy,
                    Unlisted(s) \/ Vanished(s) \/ Skip(s) \/ VisitFile(s) \/ DirUnread(s)
             PROVE  Healthy'
  OBVIOUS
<1>1. /\ run.stack # <<>> /\ UNCHANGED <<windows, plain, twice>>
      /\ \E e \in BOOLEAN : Passes(run', s, e)
  BY ScanTaken
<1>2. PICK e \in BOOLEAN : Passes(run', s, e)  BY <1>1
<1>3. DataOK /\ run' \in Run  BY <1>2 DEF Healthy, Passes
<1>4. CASE VisitFile(s)
  <2> DEFINE p == Drop(s, run.cut)
  <2>1. InHand("scan", s, "file") /\ (EncryptFile(s, p) \/ EncryptFails(s, p))
    BY <1>4 DEF VisitFile
  <2>2. p \in Rels  BY <2>1, SourceIs
  <2> HIDE DEF p
  <2>3. /\ Tree(enc') /\ Tree(key') /\ from' \in [Rels -> Sources \cup {<<>>}]
        /\ mishaps' \in 0..MaxMishaps
    BY <1>3, <2>1, <2>2, Encrypted DEF DataOK
  <2>4. RunOK(run') /\ StackOK(enc, run')  BY <1>1, <1>2, PassesKeeps
  <2>5. run'.at = "scan"  BY <1>2, <2>1 DEF Passes, Same, InHand
  <2>6. StackOK(enc', run')  BY <2>4, <2>5 DEF StackOK
  <2>7. DataOK'  BY <1>1, <1>3, <2>3 DEF DataOK
  <2> QED  BY <2>4, <2>6, <2>7 DEF Healthy
<1>5. CASE ~VisitFile(s)
  <2>1. UNCHANGED <<windows, plain, enc, key, from, twice>>
    BY <1>5 DEF Unlisted, Vanished, Skip, DirUnread
  <2>2. mishaps' \in 0..MaxMishaps
    <3>1. CASE Vanished(s) \/ DirUnread(s)
      <4>1. PICK cause : Throws(cause)  BY <3>1 DEF Vanished, DirUnread
      <4> QED  BY <1>3, <4>1, FailureCounted DEF DataOK
    <3>2. CASE Unlisted(s) \/ Skip(s)
      BY <1>3, <3>2 DEF Unlisted, Skip, DataOK
    <3> QED  BY <1>5, <3>1, <3>2
  <2>3. RunOK(run') /\ StackOK(enc, run')  BY <1>1, <1>2, PassesKeeps
  <2> QED  BY <1>3, <2>1, <2>2, <2>3, OnlyRun
<1> QED  BY <1>4, <1>5

LEMMA DeleteTakenHealthy ==
  \A p \in Rels :
    Healthy /\ (\/ EntryFails(p) \/ StaysFile(p) \/ LookupFails(p)
                \/ DeleteFile(p) \/ DeleteFails(p)) => Healthy'
<1> SUFFICES ASSUME NEW p \in Rels, Healthy,
                    \/ EntryFails(p) \/ StaysFile(p) \/ LookupFails(p)
                    \/ DeleteFile(p) \/ DeleteFails(p)
             PROVE  Healthy'
  OBVIOUS
<1>1. /\ run.stack # <<>> /\ UNCHANGED <<windows, plain, twice>>
      /\ UNCHANGED <<enc, key, from>> \/ (DeleteFile(p) /\ enc[p] = "file" /\ enc'[p] = "none")
      /\ \E e \in BOOLEAN : Passes(run', p, e)
  BY DeleteTaken
<1>2. PICK e \in BOOLEAN : Passes(run', p, e)  BY <1>1
<1>3. DataOK /\ run' \in Run  BY <1>2 DEF Healthy, Passes
<1>4. mishaps' \in 0..MaxMishaps
  <2>1. CASE UNCHANGED mishaps  BY <1>3, <2>1 DEF DataOK
  <2>2. CASE \E cause : Throws(cause)  BY <1>3, <2>2, FailureCounted DEF DataOK
  <2> QED  BY <2>1, <2>2 DEF EntryFails, StaysFile, LookupFails, DeleteFile, DeleteFails
<1>5. CASE UNCHANGED <<enc, key, from>>
  <2>1. RunOK(run') /\ StackOK(enc, run')  BY <1>1, <1>2, PassesKeeps
  <2> QED  BY <1>1, <1>3, <1>4, <1>5, <2>1, OnlyRun
<1>6. CASE DeleteFile(p) /\ enc[p] = "file"
  <2>1. from' = [from EXCEPT ![p] = <<>>]  BY <1>6 DEF DeleteFile
  <2>3. Tree(enc) /\ Tree(key) /\ enc \in [Rels -> Kinds] /\ key \in [Rels -> Kinds]
    BY <1>3 DEF DataOK, Tree
  <2>4. p # <<>>  BY <1>6, <2>3 DEF Tree
  <2>5. Tree(enc')
    <3>1. enc' = [enc EXCEPT ![p] = "none"]  BY <1>6 DEF DeleteFile
    <3> QED  BY <1>6, <2>3, <2>4, <3>1, LeafTaken
  <2>6. Tree(key')
    <3>1. CASE key' = key  BY <3>1, <2>3
    <3>2. CASE key' # key
      <4>1. key' = Unkeyed(p, "file")  BY <1>6, <3>2 DEF DeleteFile
      <4>2. key[p] = "file" /\ key' = [key EXCEPT ![p] = "none"]  BY <3>2, <4>1 DEF Unkeyed
      <4> QED  BY <4>2, <2>3, <2>4, LeafTaken
    <3> QED  BY <3>1, <3>2
  <2>7. from' \in [Rels -> Sources \cup {<<>>}]  BY <2>1, <1>3 DEF DataOK
  <2>8. \A q \in Rels : enc[q] = "dir" => enc'[q] = "dir"
    <3>1. enc' = [enc EXCEPT ![p] = "none"]  BY <1>6 DEF DeleteFile
    <3> QED  BY <1>6, <2>3, <3>1
  <2>9. RunOK(run') /\ StackOK(enc', run')  BY <1>1, <1>2, <2>8, PassesKeeps
  <2>10. DataOK'  BY <1>1, <1>3, <1>4, <2>5, <2>6, <2>7 DEF DataOK
  <2> QED  BY <2>9, <2>10 DEF Healthy
<1> QED  BY <1>1, <1>5, <1>6

LEMMA EnterIs ==
  ASSUME Healthy, NEW p, (p \in Sources /\ VisitDir(p)) \/ (p \in Rels /\ EnterDir(p))
  PROVE  /\ UNCHANGED <<windows, plain, enc, key, from, mishaps, twice>>
         /\ RunOK(run') /\ StackOK(enc, run') /\ run' \in Run /\ run.stack # <<>>
         /\ p \in Sources /\ VisitDir(p) => run.at = "scan" /\ Enters(run', p, Frame(plain, p))
         /\ p \in Rels /\ EnterDir(p) => run.at = "delete" /\ Enters(run', p, Frame(enc, p))
<1>1. DataOK  BY DEF Healthy
<1>2. CASE p \in Sources /\ VisitDir(p)
  <2>1. /\ InHand("scan", p, "dir")
        /\ UNCHANGED <<windows, plain, enc, key, from, mishaps, twice>>
    BY <1>2 DEF VisitDir
  <2>2. run.stack # <<>> /\ run.at = "scan"  BY <2>1 DEF InHand
  <2>3. PICK f \in Level : f = Frame(plain, p) /\ ScanLevel(f, run.root)
    BY <1>1, <2>1, SourceIs, PlainFrame
  <2>4. run' = Entered(p, f)  BY <1>2, <2>3 DEF VisitDir, Entered
  <2>5. Enters(run', p, f) /\ RunOK(run') /\ StackOK(enc, run')
    BY <2>2, <2>3, <2>4, StackGrows
  <2>6. run' \in Run /\ ~EnterDir(p)  BY <2>2, <2>5 DEF Enters, EnterDir, Scanning
  <2> QED  BY <2>1, <2>2, <2>3, <2>5, <2>6
<1>3. CASE p \in Rels /\ EnterDir(p)
  <2>1. /\ Scanning("delete", p)
        /\ UNCHANGED <<windows, plain, enc, key, from, mishaps, twice>>
    BY <1>3 DEF EnterDir
  <2>2. run.stack # <<>> /\ run.at = "delete"  BY <2>1 DEF Scanning
  <2>3. /\ p \in Top.todo /\ DeleteLevel(enc, Top, Len(run.stack), Depth(run))
        /\ Len(run.stack) \in Nat \ {0} /\ Depth(run) \in Nat
    <3>1. /\ run.root \in Sources /\ run.cut \in Nat /\ run.cut <= Len(run.root)
      BY <2>1, EntryIs
    <3>2. Len(run.root) \in Nat  BY <3>1, SourcesArePaths DEF Path
    <3>3. Depth(run) \in Nat  BY <3>1, <3>2 DEF Depth
    <3> QED  BY <3>3, <2>1, EntryIs
  <2>4. Len(p) = Depth(run) + (Len(run.stack) + 1) - 1 /\ Len(run.stack) + 1 \in Nat \ {0}
    <3>1. Len(p) = Depth(run) + Len(run.stack)  BY <2>3 DEF DeleteLevel
    <3> QED  BY <3>1, <2>3
  <2>5. enc[p] = "dir"  BY <1>3 DEF EnterDir
  <2>6. PICK f \in Level : f = Frame(enc, p) /\ DeleteLevel(enc, f, Len(run.stack) + 1, Depth(run))
    BY <1>1, <1>3, <2>3, <2>4, <2>5, EncFrame
  <2>7. run' = Entered(p, f)  BY <1>3, <2>6 DEF EnterDir, Entered
  <2>8. Enters(run', p, f) /\ RunOK(run') /\ StackOK(enc, run')
    BY <2>2, <2>6, <2>7, StackGrows
  <2>9. run' \in Run /\ ~VisitDir(p)  BY <2>2, <2>8 DEF Enters, VisitDir, InHand
  <2> QED  BY <2>1, <2>2, <2>6, <2>8, <2>9
<1> QED  BY <1>2, <1>3

LEMMA EnterHealthy ==
  Healthy /\ (\/ \E s \in Sources : VisitDir(s)
              \/ \E p \in Rels : EnterDir(p)) => Healthy'
<1> SUFFICES ASSUME Healthy, NEW p,
                    (p \in Sources /\ VisitDir(p)) \/ (p \in Rels /\ EnterDir(p))
             PROVE  Healthy'
  OBVIOUS
<1>1. /\ UNCHANGED <<windows, plain, enc, key, from, mishaps, twice>>
      /\ RunOK(run') /\ StackOK(enc, run') /\ run' \in Run
  BY EnterIs
<1>2. mishaps' \in 0..MaxMishaps  BY <1>1 DEF Healthy, DataOK
<1> QED  BY <1>1, <1>2, OnlyRun

\* A level then and after readdir failed: its directory, and what was thrown there.
EndedLevel(f, g) == g.dir = f.dir /\ g.todo \subseteq f.todo /\ (f.err => g.err)

\* The run when readdir fails.
LEMMA EndedIs ==
  ASSUME Healthy, ReadFails
  PROVE  LET n == Len(run.stack)
         IN  /\ run.at \in {"scan", "delete"} /\ run.stack # <<>> /\ n \in Nat \ {0}
             /\ Top = run.stack[n] /\ Same(run') /\ run' \in Run /\ run'.now = Nothing
             /\ Len(run'.stack) = n
             /\ \A i \in 1..n : EndedLevel(run.stack[i], run'.stack[i])
             /\ \A i \in 1..n : i # n => run'.stack[i].todo = run.stack[i].todo
             /\ IF run.at = "scan"
                THEN IF windows
                     THEN /\ run'.unread = run.unread \cup Top.todo
                          /\ run'.stack[n].err
                     ELSE /\ run'.unread = run.unread
                          /\ run'.unlisted = run.unlisted \cup Top.todo
                ELSE /\ run'.unread = run.unread
                     /\ IF windows THEN run'.stack[n].err ELSE Top.todo \subseteq run'.stuck
<1>1. /\ run.at \in {"scan", "delete"} /\ run.now = Nothing /\ run.stack # <<>>
      /\ run' = IF windows THEN [Ended(TRUE) EXCEPT !.unread = @ \cup Missed("scan")]
                ELSE [Ended(FALSE) EXCEPT !.unlisted = @ \cup Missed("scan"),
                                          !.stuck = @ \cup Missed("delete")]
  BY DEF ReadFails
<1>2. run \in Run  BY DEF Healthy, DataOK
<1>3. PICK n \in Nat \ {0} : n = Len(run.stack)  BY <1>1, <1>2, TopIs
<1>4. n \in 1..n /\ run.stack \in Seq(Level) /\ \A i \in 1..n : run.stack[i] \in Level
  BY <1>1, <1>2, <1>3, TopIs
<1>5. PICK f \in Level : f = Top /\ f = run.stack[n]  BY <1>1, <1>2, <1>3, TopIs
<1>6. /\ run.at = "scan" => f.todo \in SUBSET Sources
      /\ run.at = "delete" => f.todo \in SUBSET Rels
  <2>1. run.at = "scan" => ScanLevel(f, run.root)
    BY <1>3, <1>4, <1>5 DEF Healthy, StackOK
  <2>2. run.at = "delete" => DeleteLevel(enc, f, n, Depth(run))
    BY <1>3, <1>4, <1>5 DEF Healthy, StackOK
  <2> QED  BY <2>1, <2>2 DEF ScanLevel, DeleteLevel, Below
<1>7. PICK u \in SUBSET Sources : u = Missed("scan")  BY <1>5, <1>6 DEF Missed
<1>8. PICK k \in SUBSET Rels : k = Missed("delete")  BY <1>5, <1>6 DEF Missed
<1>9. ASSUME NEW e \in BOOLEAN
      PROVE  \E st \in Seq(Level) :
               /\ Ended(e) = [run EXCEPT !.stack = st] /\ Len(st) = n
               /\ \A i \in 1..n : EndedLevel(run.stack[i], st[i])
               /\ \A i \in 1..n : i # n => st[i].todo = run.stack[i].todo
               /\ e => st[n].err
  <2>1. PICK g : g = [f EXCEPT !.todo = {}, !.err = @ \/ e]  OBVIOUS
  <2>2. g \in Level /\ EndedLevel(f, g) /\ (e => g.err)  BY <2>1 DEF Level, EndedLevel
  <2>3. PICK st : st = [run.stack EXCEPT ![n] = g]  OBVIOUS
  <2>4. st \in Seq(Level) /\ Len(st) = n /\ st[n] = g /\ \A i \in 1..n : i # n => st[i] = run.stack[i]
    BY <1>3, <1>4, <2>2, <2>3
  <2>5. Ended(e) = [run EXCEPT !.stack = st]
    BY <1>2, <1>3, <1>5, <2>1, <2>3 DEF Ended, Run
  <2>6. ASSUME NEW i \in 1..n
        PROVE  EndedLevel(run.stack[i], st[i]) /\ (i # n => st[i].todo = run.stack[i].todo)
    <3>1. CASE i = n  BY <3>1, <1>5, <2>2, <2>4
    <3>2. CASE i # n  BY <3>2, <2>4 DEF EndedLevel
    <3> QED  BY <3>1, <3>2
  <2> QED  BY <2>2, <2>4, <2>5, <2>6
<1>10. CASE windows
  <2>1. PICK st \in Seq(Level) :
          /\ Ended(TRUE) = [run EXCEPT !.stack = st] /\ Len(st) = n
          /\ \A i \in 1..n : EndedLevel(run.stack[i], st[i])
          /\ \A i \in 1..n : i # n => st[i].todo = run.stack[i].todo
          /\ st[n].err
    BY <1>9
  <2>2. run' = [run EXCEPT !.stack = st, !.unread = @ \cup u]
    BY <1>1, <1>2, <1>7, <1>10, <2>1 DEF Run
  <2>3. /\ run' \in Run /\ run'.stack = st /\ run'.now = run.now
        /\ run'.at = run.at /\ run'.opt = run.opt /\ run'.items = run.items
        /\ run'.line = run.line /\ run'.err = run.err /\ run'.root = run.root
        /\ run'.cut = run.cut /\ run'.scanned = run.scanned /\ run'.moved = run.moved
        /\ run'.tried = run.tried /\ run'.unread = run.unread \cup u
        /\ run'.unlisted = run.unlisted /\ run'.stuck = run.stuck
    BY <1>2, <2>2 DEF Run
  <2>4. Same(run')  BY <2>3 DEF Same
  <2>5. u = IF run.at = "scan" THEN Top.todo ELSE {}  BY <1>7 DEF Missed
  <2>6. run'.unread = IF run.at = "scan" THEN run.unread \cup Top.todo ELSE run.unread
    BY <2>3, <2>5
  <2> QED  BY <1>1, <1>3, <1>5, <1>10, <2>1, <2>3, <2>4, <2>6
<1>11. CASE ~windows
  <2>1. PICK st \in Seq(Level) :
          /\ Ended(FALSE) = [run EXCEPT !.stack = st] /\ Len(st) = n
          /\ \A i \in 1..n : EndedLevel(run.stack[i], st[i])
          /\ \A i \in 1..n : i # n => st[i].todo = run.stack[i].todo
    BY <1>9
  <2>2. run' = [run EXCEPT !.stack = st, !.unlisted = @ \cup u, !.stuck = @ \cup k]
    BY <1>1, <1>2, <1>7, <1>8, <1>11, <2>1 DEF Run
  <2>3. /\ run' \in Run /\ run'.stack = st /\ run'.now = run.now
        /\ run'.at = run.at /\ run'.opt = run.opt /\ run'.items = run.items
        /\ run'.line = run.line /\ run'.err = run.err /\ run'.root = run.root
        /\ run'.cut = run.cut /\ run'.scanned = run.scanned /\ run'.moved = run.moved
        /\ run'.tried = run.tried /\ run'.unread = run.unread
        /\ run'.unlisted = run.unlisted \cup u /\ run'.stuck = run.stuck \cup k
    BY <1>2, <2>2 DEF Run
  <2>4. Same(run')  BY <2>3 DEF Same
  <2>5. /\ u = IF run.at = "scan" THEN Top.todo ELSE {}
        /\ k = IF run.at = "delete" THEN Top.todo ELSE {}
    BY <1>7, <1>8 DEF Missed
  <2> QED  BY <1>1, <1>3, <1>5, <1>11, <2>1, <2>3, <2>4, <2>5
<1> QED  BY <1>10, <1>11

LEMMA ReadFailsHealthy == Healthy /\ ReadFails => Healthy'
<1> SUFFICES ASSUME Healthy, ReadFails PROVE Healthy'  OBVIOUS
<1>1. PICK n \in Nat \ {0} :
        /\ n = Len(run.stack) /\ run.stack # <<>> /\ Same(run') /\ run' \in Run
        /\ run'.now = Nothing /\ Len(run'.stack) = n
        /\ \A i \in 1..n : EndedLevel(run.stack[i], run'.stack[i])
  BY EndedIs
<1>2. /\ Len(run'.stack) \in 1..Len(run.stack)
      /\ \A i \in 1..Len(run'.stack) : /\ run'.stack[i].dir = run.stack[i].dir
                                       /\ run'.stack[i].todo \subseteq run.stack[i].todo
                                       /\ i > 1 => enc[run'.stack[i].dir] = enc[run'.stack[i].dir]
  BY <1>1 DEF EndedLevel
<1>3. RunOK(run') /\ StackOK(enc, run')  BY <1>1, <1>2, StackShrinks
<1>4. UNCHANGED <<windows, plain, enc, key, from, twice>> /\ Throws(FALSE)
  BY DEF ReadFails
<1>5. mishaps' \in 0..MaxMishaps  BY <1>4, FailureCounted DEF Healthy, DataOK
<1> QED  BY <1>1, <1>3, <1>4, <1>5, OnlyRun

\* The run when it leaves a directory of the plain tree.
LEMMA LeftIs ==
  ASSUME Healthy, LeaveDir
  PROVE  /\ run.at = "scan" /\ run.stack # <<>> /\ Top.todo = {} /\ Top = run.stack[Len(run.stack)]
         /\ run' \in Run /\ Same(run') /\ run'.now = Nothing
         /\ run'.unread = run.unread /\ run'.unlisted = run.unlisted
         /\ Len(run.stack) \in Nat \ {0}
         /\ Len(run'.stack) = Len(run.stack) - 1 /\ Len(run'.stack) \in Nat \ {0}
         /\ \A i \in 1..Len(run'.stack) : EndedLevel(run.stack[i], run'.stack[i])
         /\ \A i \in 1..Len(run'.stack) : run'.stack[i].todo = run.stack[i].todo
         /\ Top.err => run'.stack[Len(run'.stack)].err
         /\ UNCHANGED <<windows, plain, enc, key, from, mishaps, twice>>
<1>1. /\ run.at = "scan" /\ Len(run.stack) > 1 /\ run' = [run EXCEPT !.stack = Popped]
      /\ Top.todo = {} /\ UNCHANGED <<windows, plain, enc, key, from, mishaps, twice>>
  BY DEF LeaveDir
<1>2. run \in Run /\ Len(run.stack) \in Nat  BY DEF Healthy, DataOK, Run
<1>3. PICK st \in Seq(Level) : st = Popped  BY <1>1, <1>2, PoppedIs
<1>4. /\ run.stack # <<>> /\ Len(st) = Len(run.stack) - 1 /\ Len(st) \in Nat \ {0}
      /\ \A i \in 1..Len(st) : /\ st[i].dir = run.stack[i].dir
                               /\ st[i].todo = run.stack[i].todo
                               /\ run.stack[i].err => st[i].err
      /\ Top.err => st[Len(st)].err
  BY <1>1, <1>2, <1>3, PoppedIs
<1>5. Top = run.stack[Len(run.stack)] /\ Len(run.stack) \in Nat \ {0}  BY <1>2, <1>4, TopIs
<1>6. run.now = Nothing
  <2>1. run.now # Nothing => run.now.path \in run.stack[Len(run.stack)].todo
    BY DEF Healthy, RunOK
  <2> QED  BY <2>1, <1>1, <1>5
<1>7. /\ run' \in Run /\ run'.stack = st /\ run'.now = run.now
      /\ run'.at = run.at /\ run'.opt = run.opt /\ run'.items = run.items
      /\ run'.line = run.line /\ run'.err = run.err /\ run'.root = run.root
      /\ run'.cut = run.cut /\ run'.scanned = run.scanned /\ run'.moved = run.moved
      /\ run'.tried = run.tried /\ run'.unread = run.unread
      /\ run'.unlisted = run.unlisted /\ run'.stuck = run.stuck
  BY <1>1, <1>2, <1>3 DEF Run
<1>8. Same(run')  BY <1>7 DEF Same
<1>9. \A i \in 1..Len(st) : EndedLevel(run.stack[i], st[i])  BY <1>4 DEF EndedLevel
<1> QED  BY <1>1, <1>4, <1>5, <1>6, <1>7, <1>8, <1>9

LEMMA LeaveHealthy == Healthy /\ LeaveDir => Healthy'
<1> SUFFICES ASSUME Healthy, LeaveDir PROVE Healthy'  OBVIOUS
<1>1. /\ run.stack # <<>> /\ run' \in Run /\ Same(run') /\ run'.now = Nothing
      /\ Len(run.stack) \in Nat /\ Len(run'.stack) = Len(run.stack) - 1
      /\ Len(run'.stack) \in Nat \ {0}
      /\ \A i \in 1..Len(run'.stack) : EndedLevel(run.stack[i], run'.stack[i])
      /\ UNCHANGED <<windows, plain, enc, key, from, mishaps, twice>>
  BY LeftIs
<1>2. Len(run'.stack) \in 1..Len(run.stack)
  <2>1. PICK n \in Nat : n = Len(run.stack)  BY <1>1
  <2>2. PICK m \in Nat \ {0} : m = Len(run'.stack) /\ m = n - 1  BY <1>1, <2>1
  <2>3. m \in 1..n  BY <2>2
  <2> QED  BY <2>1, <2>2, <2>3
<1>3. \A i \in 1..Len(run'.stack) : /\ run'.stack[i].dir = run.stack[i].dir
                                    /\ run'.stack[i].todo \subseteq run.stack[i].todo
                                    /\ i > 1 => enc[run'.stack[i].dir] = enc[run'.stack[i].dir]
  BY <1>1 DEF EndedLevel
<1>4. \A i \in 1..Len(run'.stack) : enc[run'.stack[i].dir] = enc[run.stack[i].dir]
  BY <1>3
<1>5. RunOK(run') /\ StackOK(enc, run')  BY <1>1, <1>2, <1>3, <1>4, StackShrinks
<1>6. mishaps' \in 0..MaxMishaps  BY <1>1 DEF Healthy, DataOK
<1> QED  BY <1>1, <1>5, <1>6, OnlyRun

\* The run when the scan of the plain directory is over.
LEMMA ScannedIs ==
  ASSUME Healthy, ScanDone
  PROVE  LET p == Drop(run.root, run.cut)
         IN  /\ run.at = "scan" /\ run.stack # <<>> /\ Len(run.stack) = 1 /\ Top.todo = {}
             /\ Top = run.stack[1] /\ run.now = Nothing
             /\ p \in Rels /\ Len(p) = Depth(run) /\ Depth(run) \in Nat
             /\ run.root \in Sources /\ run.root \in Path /\ run.cut \in 0..Len(run.root)
             /\ run' \in Run /\ run'.now = Nothing /\ run'.line = run.line
             /\ run'.items = run.items /\ run'.scanned = run.scanned /\ run'.opt = run.opt
             /\ run'.moved = run.moved /\ run'.tried = run.tried
             /\ run'.unread = run.unread /\ run'.unlisted = run.unlisted
             /\ run'.stuck = run.stuck
             /\ \/ /\ run'.at = "next" /\ run'.err = (run.err \/ Top.err) /\ ~Deletes(Top.err)
                \/ /\ run'.at = "delete" /\ Deletes(Top.err) /\ run'.err = run.err
                   /\ run'.root = run.root /\ run'.cut = run.cut
                   /\ Frame(enc, p) \in Level /\ DeleteLevel(enc, Frame(enc, p), 1, Depth(run))
                   /\ run'.stack = <<Frame(enc, p)>>
                \/ run'.at = "next" /\ run'.err
             /\ mishaps' \in 0..MaxMishaps
             /\ UNCHANGED <<windows, plain, enc, key, from, twice>>
<1>1. PICK p : p = Drop(run.root, run.cut)  OBVIOUS
<1>2. /\ run.at = "scan" /\ Len(run.stack) = 1 /\ Top.todo = {}
      /\ UNCHANGED <<windows, plain, enc, key, from, twice>>
  BY DEF ScanDone
<1>3. /\ run \in Run /\ DataOK /\ run.stack # <<>> /\ run.root \in Sources
      /\ [root |-> run.root, cut |-> run.cut] \in run.scanned
      /\ \A d \in run.scanned : d.cut <= Len(d.root)
  BY <1>2 DEF Healthy, DataOK, RunOK
<1>4. run.root \in Path /\ run.cut \in 0..Len(run.root)
  <2>1. run.cut \in Nat /\ run.cut <= Len(run.root)  BY <1>3 DEF Run
  <2>2. run.root \in Path  BY <1>3, SourcesArePaths
  <2> QED  BY <2>1, <2>2 DEF Path
<1>5. p \in Rels /\ Len(p) = Depth(run) /\ Depth(run) \in Nat
  <2>1. Len(p) = Depth(run)  BY <1>1, <1>4, DropIs DEF Depth
  <2>2. p \in Rels  BY <1>1, <1>3, RelsArePaths DEF Run
  <2>3. Depth(run) \in Nat  BY <1>4 DEF Depth, Path
  <2> QED  BY <2>1, <2>2, <2>3
<1>6. Top = run.stack[1] /\ run.stack[1] \in Level /\ run.now = Nothing
  <2>1. Top = run.stack[1] /\ run.stack[1] \in Level  BY <1>2, <1>3, TopIs
  <2>2. run.now # Nothing => run.now.path \in run.stack[Len(run.stack)].todo
    BY DEF Healthy, RunOK
  <2> QED  BY <2>1, <2>2, <1>2
<1>7. mishaps' \in 0..MaxMishaps
  <2>1. CASE UNCHANGED mishaps  BY <2>1, <1>3 DEF DataOK
  <2>2. CASE \E cause : Throws(cause)  BY <2>2, <1>3, FailureCounted DEF DataOK
  <2> QED  BY <2>1, <2>2 DEF ScanDone
<1>8. Top.err \in BOOLEAN /\ <<>> \in Seq(Level)  BY <1>6 DEF Level
<1>9. CASE /\ ~Deletes(Top.err)
           /\ run' = [run EXCEPT !.at = "next", !.stack = <<>>, !.err = @ \/ Top.err]
  <2>1. PICK e \in BOOLEAN : e = (run.err \/ Top.err)  OBVIOUS
  <2>2. run' = [run EXCEPT !.at = "next", !.stack = <<>>, !.err = e]
    BY <1>3, <1>9, <2>1 DEF Run
  <2>3. /\ run' \in Run /\ run'.now = run.now /\ run'.line = run.line
        /\ run'.items = run.items /\ run'.scanned = run.scanned /\ run'.opt = run.opt
        /\ run'.moved = run.moved /\ run'.tried = run.tried
        /\ run'.unread = run.unread /\ run'.unlisted = run.unlisted
        /\ run'.stuck = run.stuck /\ run'.at = "next" /\ run'.err = e
    BY <1>3, <1>8, <2>2 DEF Run
  <2> QED  BY <1>1, <1>2, <1>3, <1>4, <1>5, <1>6, <1>7, <1>9, <2>1, <2>3
<1>10. CASE /\ Deletes(Top.err) /\ enc[p] = "dir"
            /\ run' = [run EXCEPT !.at = "delete", !.stack = <<Frame(enc, p)>>]
  <2>1. PICK f \in Level : f = Frame(enc, p) /\ DeleteLevel(enc, f, 1, Depth(run))
    <3>1. Len(p) = Depth(run) + 1 - 1 /\ 1 \in Nat \ {0}  BY <1>5
    <3> QED  BY <3>1, <1>3, <1>5, EncFrame
  <2>2. PICK st \in Seq(Level) : st = <<f>>
    <3>1. <<f>> \in Seq(Level)  OBVIOUS
    <3> QED  BY <3>1
  <2>3. run' = [run EXCEPT !.at = "delete", !.stack = st]  BY <1>10, <2>1, <2>2
  <2>4. /\ run' \in Run /\ run'.now = run.now /\ run'.line = run.line
        /\ run'.items = run.items /\ run'.scanned = run.scanned /\ run'.opt = run.opt
        /\ run'.moved = run.moved /\ run'.tried = run.tried
        /\ run'.unread = run.unread /\ run'.unlisted = run.unlisted
        /\ run'.stuck = run.stuck /\ run'.at = "delete" /\ run'.err = run.err
        /\ run'.root = run.root /\ run'.cut = run.cut /\ run'.stack = st
    BY <1>3, <2>3 DEF Run
  <2> QED  BY <1>1, <1>2, <1>3, <1>4, <1>5, <1>6, <1>7, <1>10, <2>1, <2>2, <2>4
<1>11. CASE run' = [run EXCEPT !.at = "next", !.stack = <<>>, !.err = TRUE]
  <2>1. /\ run' \in Run /\ run'.now = run.now /\ run'.line = run.line
        /\ run'.items = run.items /\ run'.scanned = run.scanned /\ run'.opt = run.opt
        /\ run'.moved = run.moved /\ run'.tried = run.tried
        /\ run'.unread = run.unread /\ run'.unlisted = run.unlisted
        /\ run'.stuck = run.stuck /\ run'.at = "next" /\ run'.err
    BY <1>3, <1>8, <1>11 DEF Run
  <2> QED  BY <1>1, <1>2, <1>3, <1>4, <1>5, <1>6, <1>7, <2>1
<1> QED  BY <1>1, <1>9, <1>10, <1>11 DEF ScanDone

LEMMA ScanDoneHealthy == Healthy /\ ScanDone => Healthy'
<1> SUFFICES ASSUME Healthy, ScanDone PROVE Healthy'  OBVIOUS
<1>1. PICK p : p = Drop(run.root, run.cut)  OBVIOUS
<1>2. /\ run.at = "scan" /\ run.stack # <<>> /\ run.root \in Sources
      /\ run' \in Run /\ run'.now = Nothing /\ run'.line = run.line
      /\ run'.scanned = run.scanned
      /\ \/ run'.at = "next"
         \/ /\ run'.at = "delete" /\ run'.root = run.root /\ run'.cut = run.cut
            /\ Frame(enc, p) \in Level /\ DeleteLevel(enc, Frame(enc, p), 1, Depth(run))
            /\ run'.stack = <<Frame(enc, p)>>
      /\ mishaps' \in 0..MaxMishaps
      /\ UNCHANGED <<windows, plain, enc, key, from, twice>>
  BY <1>1, ScannedIs
<1>3. /\ \A d \in run.scanned : d.cut <= Len(d.root)
      /\ [root |-> run.root, cut |-> run.cut] \in run.scanned
      /\ \A l \in run.line : Legible(l)
  BY <1>2 DEF Healthy, RunOK
<1>4. CASE run'.at = "next"
  <2>1. RunOK(run') /\ StackOK(enc, run')  BY <1>2, <1>3, <1>4, BetweenLines
  <2> QED  BY <1>2, <2>1, OnlyRun
<1>5. CASE /\ run'.at = "delete" /\ run'.root = run.root /\ run'.cut = run.cut
           /\ Frame(enc, p) \in Level /\ DeleteLevel(enc, Frame(enc, p), 1, Depth(run))
           /\ run'.stack = <<Frame(enc, p)>>
  <2>1. PICK f \in Level : f = Frame(enc, p)  BY <1>5
  <2>2. <<f>> # <<>> /\ Len(<<f>>) = 1 /\ <<f>>[1] = f  OBVIOUS
  <2>3. RunOK(run')  BY <1>2, <1>3, <1>5, <2>1, <2>2 DEF RunOK
  <2>4. StackOK(enc, run')
    <3>1. Depth(run') = Depth(run)  BY <1>5 DEF Depth
    <3>2. \A i \in 1..Len(run'.stack) : i = 1 /\ run'.stack[i] = f  BY <1>5, <2>1, <2>2
    <3> QED  BY <3>1, <3>2, <1>2, <1>5, <2>1 DEF StackOK
  <2> QED  BY <1>2, <2>3, <2>4, OnlyRun
<1> QED  BY <1>2, <1>4, <1>5

\* The run when it is done with a directory of the encrypted tree.
LEMMA FinishedIs ==
  ASSUME Healthy, FinishDir, NEW e \in BOOLEAN, run' = Left(e)
  PROVE  /\ run.at = "delete" /\ run.stack # <<>> /\ Len(run.stack) \in Nat /\ Len(run.stack) > 1
         /\ Top = run.stack[Len(run.stack)] /\ Top.todo = {} /\ run' \in Run /\ Same(run')
         /\ run'.now = Nothing /\ run'.unread = run.unread
         /\ Len(run'.stack) = Len(run.stack) - 1 /\ Len(run'.stack) \in Nat \ {0}
         /\ \A i \in 1..Len(run'.stack) : EndedLevel(run.stack[i], run'.stack[i])
         /\ \A i \in 1..Len(run'.stack) : run'.stack[i].todo = run.stack[i].todo
         /\ Top.err \/ e => run'.stack[Len(run'.stack)].err
<1>1. run \in Run /\ run.at = "delete" /\ Len(run.stack) > 1 /\ Top.todo = {}
  BY DEF Healthy, DataOK, FinishDir
<1>2. run.stack \in Seq(Level) /\ Len(run.stack) \in Nat  BY <1>1 DEF Run
<1>3. PICK below \in Seq(Level) : below = Popped  BY <1>1, PoppedIs
<1>4. PICK m \in Nat \ {0} : m = Len(below)  BY <1>1, <1>3, PoppedIs
<1>5. /\ m = Len(run.stack) - 1 /\ run.stack # <<>>
      /\ \A i \in 1..m : /\ below[i].dir = run.stack[i].dir
                         /\ below[i].todo = run.stack[i].todo
                         /\ run.stack[i].err => below[i].err
      /\ Top.err => below[m].err
  BY <1>1, <1>3, <1>4, PoppedIs
<1>6. below[m] \in Level  BY <1>3, <1>4
<1>7. PICK g : g = [below[m] EXCEPT !.err = @ \/ e]  OBVIOUS
<1>8. /\ g \in Level /\ g.dir = below[m].dir /\ g.todo = below[m].todo
      /\ below[m].err \/ e => g.err
  BY <1>6, <1>7 DEF Level
<1>9. PICK st : st = [below EXCEPT ![m] = g]  OBVIOUS
<1>10. /\ st \in Seq(Level) /\ Len(st) = m /\ st[m] = g
       /\ \A i \in 1..m : i # m => st[i] = below[i]
  BY <1>3, <1>4, <1>8, <1>9
<1>11. run' = [run EXCEPT !.stack = st]
  <2>1. run' = [run EXCEPT !.stack = [Popped EXCEPT ![Len(Popped)].err = @ \/ e]]
    BY DEF Left
  <2>2. [below EXCEPT ![m].err = @ \/ e] = st  BY <1>6, <1>7, <1>9
  <2> QED  BY <2>1, <2>2, <1>3, <1>4
<1>12. /\ run' \in Run /\ run'.stack = st /\ run'.now = run.now
       /\ run'.at = run.at /\ run'.opt = run.opt /\ run'.items = run.items
       /\ run'.line = run.line /\ run'.err = run.err /\ run'.root = run.root
       /\ run'.cut = run.cut /\ run'.scanned = run.scanned /\ run'.moved = run.moved
       /\ run'.tried = run.tried /\ run'.unread = run.unread
       /\ run'.unlisted = run.unlisted /\ run'.stuck = run.stuck
  BY <1>1, <1>10, <1>11 DEF Run
<1>13. Same(run')  BY <1>12 DEF Same
<1>14. ASSUME NEW i \in 1..m
       PROVE  EndedLevel(run.stack[i], st[i]) /\ st[i].todo = run.stack[i].todo
  <2>1. CASE i = m  BY <2>1, <1>5, <1>8, <1>10 DEF EndedLevel
  <2>2. CASE i # m  BY <2>2, <1>5, <1>10 DEF EndedLevel
  <2> QED  BY <2>1, <2>2
<1>15. Top = run.stack[Len(run.stack)]  BY <1>1, <1>5, TopIs
<1>16. run.now = Nothing
  <2>1. run.now # Nothing => run.now.path \in run.stack[Len(run.stack)].todo
    BY DEF Healthy, RunOK
  <2> QED  BY <2>1, <1>1, <1>15
<1>17. Top.err \/ e => st[m].err  BY <1>5, <1>8, <1>10
<1>18. Len(run'.stack) = m  BY <1>10, <1>12
<1> QED  BY <1>1, <1>2, <1>5, <1>12, <1>13, <1>14, <1>15, <1>16, <1>17, <1>18

\* What FinishDir does to the trees, and what of it the run remembers.
LEMMA FinishTrees ==
  ASSUME Healthy, FinishDir
  PROVE  /\ Top.dir \in Rels /\ Top.dir # <<>> /\ enc[Top.dir] = "dir"
         /\ Tree(enc') /\ Tree(key') /\ mishaps' \in 0..MaxMishaps
         /\ UNCHANGED <<windows, plain, from, twice>>
         /\ \A q \in Rels : q # Top.dir => enc'[q] = enc[q]
         /\ enc' = enc \/ enc'[Top.dir] = "none"
         /\ \E e \in BOOLEAN : run' = Left(e) /\ (~DirKept => e \/ enc'[Top.dir] = "none")
<1>1. /\ run \in Run /\ DataOK /\ run.at = "delete" /\ Len(run.stack) > 1
      /\ UNCHANGED <<windows, plain, from, twice>>
  BY DEF Healthy, DataOK, FinishDir
<1>2. /\ run.stack # <<>> /\ Len(run.stack) \in Nat /\ Top = run.stack[Len(run.stack)]
  <2>1. run.stack # <<>>  BY <1>1, PoppedIs
  <2> QED  BY <1>1, <2>1, TopIs
<1>3. DeleteLevel(enc, Top, Len(run.stack), Depth(run))
  BY <1>1, <1>2 DEF Healthy, StackOK
<1>4. Depth(run) \in Nat
  <2>1. /\ run.root \in Sources /\ [root |-> run.root, cut |-> run.cut] \in run.scanned
        /\ \A d \in run.scanned : d.cut <= Len(d.root)
    BY <1>1 DEF Healthy, RunOK
  <2>2. run.cut <= Len(run.root)  BY <2>1
  <2>3. run.cut \in Nat /\ Len(run.root) \in Nat
    BY <1>1, <2>1, SourcesArePaths DEF Run, Path
  <2> QED  BY <2>2, <2>3 DEF Depth
<1>5. Top.dir \in Rels /\ Len(Top.dir) = Depth(run) + Len(run.stack) - 1 /\ enc[Top.dir] = "dir"
  BY <1>1, <1>2, <1>3 DEF DeleteLevel
<1>6. Top.dir # <<>>
  <2>1. Len(Top.dir) > 0  BY <1>1, <1>2, <1>4, <1>5
  <2>2. Len(<<>>) = 0  OBVIOUS
  <2> QED  BY <2>1, <2>2
<1>7. enc \in [Rels -> Kinds] /\ Tree(enc) /\ Tree(key)  BY <1>1 DEF DataOK, Tree
<1>8. mishaps' \in 0..MaxMishaps
  <2>1. CASE UNCHANGED mishaps  BY <2>1, <1>1 DEF DataOK
  <2>2. CASE \E cause : Throws(cause)  BY <2>2, <1>1, FailureCounted DEF DataOK
  <2> QED  BY <2>1, <2>2 DEF FinishDir
<1>9. ASSUME NEW e \in BOOLEAN, UNCHANGED <<enc, key>>, run' = Left(e), DirKept \/ e
      PROVE  /\ Tree(enc') /\ Tree(key')
             /\ \A q \in Rels : q # Top.dir => enc'[q] = enc[q]
             /\ enc' = enc
             /\ \E b \in BOOLEAN : run' = Left(b) /\ (~DirKept => b \/ enc'[Top.dir] = "none")
  BY <1>7, <1>9
<1>10. ASSUME NEW e \in BOOLEAN, ~DirFails, enc' = [enc EXCEPT ![Top.dir] = "none"],
              run' = Left(e), UNCHANGED key \/ (key' = Unkeyed(Top.dir, "dir")
                                                /\ (run.opt.delkey => ~KeyDirFails))
       PROVE  /\ Tree(enc') /\ Tree(key') /\ enc'[Top.dir] = "none"
              /\ \A q \in Rels : q # Top.dir => enc'[q] = enc[q]
              /\ \E b \in BOOLEAN : run' = Left(b) /\ (~DirKept => b \/ enc'[Top.dir] = "none")
  <2>1. Children(enc, Top.dir) = {}  BY <1>10 DEF DirFails
  <2>2. Tree(enc')  BY <1>5, <1>6, <1>7, <1>10, <2>1, LeafTaken
  <2>3. enc'[Top.dir] = "none" /\ \A q \in Rels : q # Top.dir => enc'[q] = enc[q]
    BY <1>5, <1>7, <1>10
  <2>4. Tree(key')
    <3>1. CASE key' = key  BY <3>1, <1>7
    <3>2. CASE key' # key
      <4>1. /\ run.opt.delkey /\ ~KeyDirFails /\ key' = [key EXCEPT ![Top.dir] = "none"]
        BY <3>2, <1>10 DEF Unkeyed
      <4>2. Children(key, Top.dir) = {}  BY <4>1 DEF KeyDirFails
      <4> QED  BY <4>1, <4>2, <1>5, <1>6, <1>7, LeafTaken
    <3> QED  BY <3>1, <3>2
  <2> QED  BY <1>10, <2>2, <2>3, <2>4
<1>11. CASE DirKept /\ UNCHANGED <<enc, key>> /\ run' = Left(FALSE)
  BY <1>1, <1>5, <1>6, <1>8, <1>9, <1>11
<1>12. CASE UNCHANGED <<enc, key>> /\ run' = Left(TRUE)
  BY <1>1, <1>5, <1>6, <1>8, <1>9, <1>12
<1>13. CASE /\ ~DirFails /\ enc' = [enc EXCEPT ![Top.dir] = "none"]
            /\ UNCHANGED key /\ run' = Left(TRUE)
  BY <1>1, <1>5, <1>6, <1>8, <1>10, <1>13
<1>14. CASE /\ ~DirFails /\ enc' = [enc EXCEPT ![Top.dir] = "none"] /\ run' = Left(FALSE)
            /\ key' = Unkeyed(Top.dir, "dir") /\ (run.opt.delkey => ~KeyDirFails)
  BY <1>1, <1>5, <1>6, <1>8, <1>10, <1>14
<1> QED  BY <1>11, <1>12, <1>13, <1>14 DEF FinishDir

\* The other directories on the stack are not the one that is gone.
LEMMA OthersStay ==
  ASSUME Healthy, FinishDir, NEW i \in 1..(Len(run.stack) - 1)
  PROVE  run.stack[i].dir # Top.dir /\ run.stack[i].dir \in Rels
<1>1. run \in Run /\ run.at = "delete" /\ Len(run.stack) > 1
  BY DEF Healthy, DataOK, FinishDir
<1>2. PICK n \in Nat : n = Len(run.stack)  BY <1>1 DEF Run
<1>3. i \in 1..n /\ n \in 1..n /\ i # n  BY <1>1, <1>2
<1>4. Top = run.stack[n]  BY <1>2 DEF Top
<1>5. DeleteLevel(enc, run.stack[i], i, Depth(run)) /\ DeleteLevel(enc, Top, n, Depth(run))
  BY <1>1, <1>2, <1>3, <1>4 DEF Healthy, StackOK
<1>6. Depth(run) \in Int
  <2>1. run.root \in Sources  BY <1>1 DEF Healthy, RunOK
  <2>2. run.cut \in Nat /\ Len(run.root) \in Nat  BY <1>1, <2>1, SourcesArePaths DEF Run, Path
  <2> QED  BY <2>2 DEF Depth
<1>7. /\ run.stack[i].dir \in Rels /\ Len(run.stack[i].dir) = Depth(run) + i - 1
      /\ Len(Top.dir) = Depth(run) + n - 1
  BY <1>5 DEF DeleteLevel
<1>8. run.stack[i].dir # Top.dir  BY <1>3, <1>6, <1>7
<1> QED  BY <1>7, <1>8

LEMMA FinishHealthy == Healthy /\ FinishDir => Healthy'
<1> SUFFICES ASSUME Healthy, FinishDir PROVE Healthy'  OBVIOUS
<1>1. /\ Tree(enc') /\ Tree(key') /\ mishaps' \in 0..MaxMishaps
      /\ UNCHANGED <<windows, plain, from, twice>>
      /\ \A q \in Rels : q # Top.dir => enc'[q] = enc[q]
  BY FinishTrees
<1>2. PICK e \in BOOLEAN : run' = Left(e)  BY FinishTrees
<1>3. /\ run.stack # <<>> /\ Len(run.stack) \in Nat /\ run' \in Run /\ Same(run')
      /\ run'.now = Nothing
      /\ Len(run'.stack) = Len(run.stack) - 1 /\ Len(run'.stack) \in Nat \ {0}
      /\ \A i \in 1..Len(run'.stack) : EndedLevel(run.stack[i], run'.stack[i])
  BY <1>2, FinishedIs
<1>4. Len(run'.stack) \in 1..Len(run.stack)
  <2>1. PICK n \in Nat : n = Len(run.stack)  BY <1>3
  <2>2. PICK m \in Nat \ {0} : m = Len(run'.stack) /\ m = n - 1  BY <1>3, <2>1
  <2>3. m \in 1..n  BY <2>2
  <2> QED  BY <2>1, <2>2, <2>3
<1>5. ASSUME NEW i \in 1..Len(run'.stack)
      PROVE  /\ run'.stack[i].dir = run.stack[i].dir
             /\ run'.stack[i].todo \subseteq run.stack[i].todo
             /\ enc'[run'.stack[i].dir] = enc[run.stack[i].dir]
             /\ enc'[run'.stack[i].dir] = enc[run'.stack[i].dir]
  <2>1. /\ run'.stack[i].dir = run.stack[i].dir
        /\ run'.stack[i].todo \subseteq run.stack[i].todo
    BY <1>3 DEF EndedLevel
  <2>2. run.stack[i].dir # Top.dir /\ run.stack[i].dir \in Rels
    <3>1. i \in 1..(Len(run.stack) - 1)  BY <1>3
    <3> QED  BY <3>1, OthersStay
  <2> QED  BY <1>1, <2>1, <2>2
<1>6. RunOK(run') /\ StackOK(enc', run')  BY <1>3, <1>4, <1>5, StackShrinks
<1>7. DataOK'  BY <1>1, <1>3 DEF Healthy, DataOK
<1> QED  BY <1>6, <1>7 DEF Healthy

\* The run after a file of the list.
LEMMA ListFileIs ==
  ASSUME Healthy, NEW l \in Lines, ListFile(l)
  PROVE  /\ run.at = "next" /\ run.line = {l} /\ ~l.slash /\ Trim \in 0..Len(l.path)
         /\ \/ EncryptFile(l.path, Drop(l.path, Trim)) /\ run'.err = run.err
            \/ EncryptFails(l.path, Drop(l.path, Trim)) /\ run'.err
         /\ run' \in Run /\ run'.at = "next" /\ run'.scanned = run.scanned
         /\ run'.items = run.items /\ run'.line = {} /\ run'.now = Nothing
         /\ run'.tried = run.tried \cup {l.path}
         /\ run'.unread = run.unread /\ run'.unlisted = run.unlisted /\ run'.stuck = run.stuck
         /\ run'.moved = run.moved /\ run'.opt = run.opt
         /\ UNCHANGED <<windows, plain, twice>>
<1>1. /\ Read(l) /\ ~l.slash /\ UNCHANGED <<windows, plain, twice>>
  BY DEF ListFile
<1>2. run.at = "next" /\ run.line = {l} /\ CalcTrim(l.path) # NoTrim
  BY <1>1, ReadIs DEF Legible
<1>3. Trim \in 0..Len(l.path)
  <2>1. Trim \in Nat /\ Trim <= Len(l.path)  BY <1>2, CalcTrimIs, LineIs
  <2> QED  BY <2>1, LineIs DEF Path
<1>4. PICK r \in Run : r = Rest  BY <1>2, RestIs
<1>5. /\ r.at = "next" /\ r.scanned = run.scanned /\ r.items = run.items /\ r.line = {}
      /\ r.now = Nothing /\ r.err = run.err /\ r.tried = run.tried
      /\ r.moved = run.moved /\ r.opt = run.opt
      /\ r.unread = run.unread /\ r.unlisted = run.unlisted /\ r.stuck = run.stuck
  BY <1>2, <1>4, RestIs
<1>6. CASE /\ EncryptFile(l.path, Drop(l.path, Trim))
           /\ run' = [Rest EXCEPT !.tried = @ \cup {l.path}]
  <2>1. run' = [r EXCEPT !.tried = @ \cup {l.path}]  BY <1>4, <1>6
  <2>2. /\ run' \in Run /\ run'.at = r.at /\ run'.scanned = r.scanned /\ run'.items = r.items
        /\ run'.line = r.line /\ run'.now = r.now
        /\ run'.err = r.err /\ run'.tried = r.tried \cup {l.path} /\ run'.moved = r.moved
        /\ run'.opt = r.opt
        /\ run'.unread = r.unread /\ run'.unlisted = r.unlisted /\ run'.stuck = r.stuck
    BY <2>1, LineIs, SMTT(20) DEF Run
  <2> QED  BY <2>2, <1>1, <1>2, <1>3, <1>5, <1>6
<1>7. CASE /\ EncryptFails(l.path, Drop(l.path, Trim))
           /\ run' = [Rest EXCEPT !.err = TRUE, !.tried = @ \cup {l.path}]
  <2>1. run' = [r EXCEPT !.err = TRUE, !.tried = @ \cup {l.path}]  BY <1>4, <1>7
  <2>2. /\ run' \in Run /\ run'.at = r.at /\ run'.scanned = r.scanned /\ run'.items = r.items
        /\ run'.line = r.line /\ run'.now = r.now
        /\ run'.err /\ run'.tried = r.tried \cup {l.path} /\ run'.moved = r.moved
        /\ run'.opt = r.opt
        /\ run'.unread = r.unread /\ run'.unlisted = r.unlisted /\ run'.stuck = r.stuck
    BY <2>1, LineIs, ZenonT(30) DEF Run
  <2> QED  BY <2>2, <1>1, <1>2, <1>3, <1>5, <1>7
<1> QED  BY <1>6, <1>7 DEF ListFile

LEMMA ListFileHealthy == \A l \in Lines : Healthy /\ ListFile(l) => Healthy'
<1> SUFFICES ASSUME NEW l \in Lines, Healthy, ListFile(l) PROVE Healthy'  OBVIOUS
<1> DEFINE p == Drop(l.path, Trim)
<1>1. DataOK /\ p \in Rels /\ l.path \in Sources
  BY LineIs, ScanParams, RelsArePaths DEF Healthy
<1>2. /\ EncryptFile(l.path, p) \/ EncryptFails(l.path, p)
      /\ run' \in Run /\ run'.at = "next" /\ run'.scanned = run.scanned
      /\ run'.line = {} /\ run'.now = Nothing
      /\ UNCHANGED <<windows, plain, twice>>
  BY ListFileIs
<1> HIDE DEF p
<1>3. /\ Tree(enc') /\ Tree(key') /\ from' \in [Rels -> Sources \cup {<<>>}]
      /\ mishaps' \in 0..MaxMishaps
  BY <1>1, <1>2, Encrypted DEF DataOK
<1>4. RunOK(run') /\ StackOK(enc', run')
  BY <1>2, BetweenLines DEF Healthy, RunOK
<1>5. DataOK'  BY <1>1, <1>2, <1>3 DEF DataOK
<1> QED  BY <1>4, <1>5 DEF Healthy

LEMMA StepHealthy == Healthy /\ [DsNext]_dsVars => Healthy'
<1> SUFFICES ASSUME Healthy, [DsNext]_dsVars PROVE Healthy'  OBVIOUS
<1>1. CASE UNCHANGED dsVars
  BY <1>1 DEF dsVars, Healthy, DataOK, Tree
<1>2. CASE DsNext
  <2>1. CASE Change  BY <2>1, ChangeHealthy
  <2>2. CASE StartRecurse  BY <2>2, StartRecurseHealthy
  <2>3. CASE StartList \/ Done \/ DeleteDone  BY <2>3, QuietHealthy
  <2>4. CASE ReadFails  BY <2>4, ReadFailsHealthy
  <2>5. CASE LeaveDir  BY <2>5, LeaveHealthy
  <2>6. CASE ScanDone  BY <2>6, ScanDoneHealthy
  <2>7. CASE FinishDir  BY <2>7, FinishHealthy
  <2>8. ASSUME NEW l \in Lines, ListRefused(l) \/ ListLine(l) \/ ListFile(l) \/ ListDir(l)
        PROVE  Healthy'
    BY <2>8, QuietHealthy, ListFileHealthy, ListDirHealthy
  <2>9. ASSUME NEW s \in Sources,
               \/ Unlisted(s) \/ Vanished(s) \/ Skip(s) \/ LookAt(s)
               \/ VisitFile(s) \/ VisitDir(s) \/ DirUnread(s)
        PROVE  Healthy'
    <3>1. CASE Unlisted(s) \/ Vanished(s) \/ Skip(s) \/ VisitFile(s) \/ DirUnread(s)
      BY <3>1, ScanTakenHealthy
    <3>2. CASE LookAt(s)  BY <3>2, LookHealthy
    <3>3. CASE VisitDir(s)  BY <3>3, EnterHealthy
    <3> QED  BY <2>9, <3>1, <3>2, <3>3
  <2>10. ASSUME NEW p \in Rels,
                \/ EntryFails(p) \/ StaysFile(p) \/ LookupFails(p) \/ LookupGone(p)
                \/ DeleteFile(p) \/ DeleteFails(p) \/ UnlinkRecurses(p) \/ EnterDir(p)
         PROVE  Healthy'
    <3>1. CASE EntryFails(p) \/ StaysFile(p) \/ LookupFails(p) \/ DeleteFile(p) \/ DeleteFails(p)
      BY <3>1, DeleteTakenHealthy
    <3>2. CASE LookupGone(p)  BY <3>2, LookHealthy
    <3>3. CASE UnlinkRecurses(p)  BY <3>3, QuietHealthy
    <3>4. CASE EnterDir(p)  BY <3>4, EnterHealthy
    <3> QED  BY <2>10, <3>1, <3>2, <3>3, <3>4
  <2> QED  BY <1>2, <2>1, <2>2, <2>3, <2>4, <2>5, <2>6, <2>7, <2>8, <2>9, <2>10 DEF DsNext
<1> QED  BY <1>1, <1>2

LEMMA AlwaysHealthy == DsSpec => []Healthy
BY InitHealthy, StepHealthy, PTL DEF DsSpec

\* Whatever the runs and the user do, every variable is in its domain and the
\* three trees are trees: nothing is ever left below a file or below nothing
\* (mkpath, the temporary files and their renames, unlink and rmdir).
THEOREM TypesHold == DsSpec => []DsTypeOK
BY AlwaysHealthy, HealthyTypes, PTL

-----------------------------------------------------------------------------
(* Every file that is left alone is tried, but for what could not be read. *)

\* The scan has an entry before it that is the file or leads to it.
Before(r, s) ==
  r.at = "scan" /\ \E i \in 1..Len(r.stack) : \E t \in r.stack[i].todo : t \in Prefixes(s)

\* The run was there, or could not come there.
Settled(r, s) == s \in r.tried \/ Reaches(r.unlisted, s) \/ Reaches(r.unread, s)

AllTried ==
  \A d \in run.scanned : \A s \in Below(d.root) :
    plain[s] = "file" /\ s \notin run.moved => Settled(run, s) \/ Before(run, s)

\* What lstat said of the entry in hand is so, or the user changed it since.
HandSame ==
  run.at = "scan" /\ run.now # Nothing =>
    \/ plain[run.now.path] = run.now.as
    \/ {run.now.path} \cup Below(run.now.path) \subseteq run.moved

\* What could not be read is an error: of the run, or of a directory it is in.
Warned(r) == r.err \/ (r.at = "scan" /\ \E i \in 1..Len(r.stack) : r.stack[i].err)

Reported == run.unread # {} => Warned(run)

TriedOK == AllTried /\ HandSame /\ Reported

LEMMA DirBegunTried ==
  ASSUME DataOK, NEW r \in Run, r.at = "next", r.now = Nothing,
         NEW root \in Sources, NEW cut \in Nat,
         BeginDir(r, root, cut) \/ NoDir(r, root, cut),
         r.unread # {} => r.err,
         \A d \in r.scanned : \A s \in Below(d.root) :
           plain[s] = "file" /\ s \notin r.moved => Settled(r, s)
  PROVE  TriedOK'
<1>1. CASE BeginDir(r, root, cut)
  <2>1. Frame(plain, root) \in Level
    <3>1. root \in Prefixes(root)  BY SourcesArePaths, PrefixIs, PrefixOrder DEF Path
    <3> QED  BY <3>1, PlainFrame
  <2>2. PICK f \in Level : f = Frame(plain, root)  BY <2>1
  <2>3. PICK d : d = [root |-> root, cut |-> cut]  OBVIOUS
  <2>4. /\ run'.at = "scan" /\ run'.stack = <<f>> /\ run'.scanned = r.scanned \cup {d}
        /\ run'.tried = r.tried /\ run'.moved = r.moved /\ run'.now = Nothing
        /\ run'.unread = r.unread /\ run'.unlisted = r.unlisted /\ run'.err = r.err
    BY <1>1, <2>1, <2>2, <2>3, BegunIs
  <2>5. plain' = plain  BY <1>1 DEF BeginDir
  <2>6. ASSUME NEW s \in Below(root), plain[s] = "file"  PROVE Before(run', s)
    <3>1. s \in Sources /\ s \in Path /\ root \in Above(s)
      BY BelowIs, SourcesArePaths DEF Below
    <3>2. PICK c \in Children(plain, root) : c \in Prefixes(s)
      <4>1. \A p \in Sources : Prefixes(p) \subseteq Sources \cup {<<>>}
        BY SourcesArePaths DEF Above
      <4>2. PICK K : plain \in [Sources -> K] /\ IsTree(plain)  BY DEF DataOK
      <4> QED  BY <4>1, <4>2, <3>1, <2>6, SourcesArePaths, EntryAbove
    <3>3. 1 \in 1..Len(run'.stack) /\ run'.stack[1] = f  BY <2>4
    <3>4. c \in f.todo  BY <2>2, <3>2 DEF Frame
    <3> QED  BY <2>4, <3>2, <3>3, <3>4 DEF Before
  <2>7. ASSUME NEW e \in run'.scanned, NEW s \in Below(e.root), plain'[s] = "file",
               s \notin run'.moved
        PROVE  Settled(run', s) \/ Before(run', s)
    <3>1. CASE e = d
      <4>1. e.root = root  BY <3>1, <2>3
      <4> QED  BY <4>1, <2>5, <2>6, <2>7
    <3>2. CASE e # d
      <4>1. e \in r.scanned  BY <3>2, <2>4
      <4>2. Settled(r, s)  BY <4>1, <2>4, <2>5, <2>7
      <4> QED  BY <4>2, <2>4 DEF Settled
    <3> QED  BY <3>1, <3>2
  <2>8. AllTried'  BY <2>7 DEF AllTried, Below, Settled, Reaches
  <2> QED  BY <2>4, <2>8 DEF TriedOK, HandSame, Reported, Warned
<1>2. CASE NoDir(r, root, cut)
  <2>1. /\ run'.at = "next" /\ run'.err /\ run'.scanned = r.scanned /\ run'.tried = r.tried
        /\ run'.moved = r.moved /\ run'.unread = r.unread /\ run'.unlisted = r.unlisted
    BY <1>2, RefusedIs
  <2>2. plain' = plain  BY <1>2 DEF NoDir
  <2>3. AllTried'  BY <2>1, <2>2 DEF AllTried, Below, Settled, Reaches
  <2> QED  BY <2>1, <2>3 DEF TriedOK, HandSame, Reported, Warned
<1> QED  BY <1>1, <1>2

\* Outside the scan of a plain directory nothing is left to wait for.
LEMMA NextTried ==
  ASSUME TriedOK, run.at # "scan"
  PROVE  /\ \A d \in run.scanned : \A s \in Below(d.root) :
              plain[s] = "file" /\ s \notin run.moved => Settled(run, s)
         /\ run.unread # {} => run.err
BY DEF TriedOK, AllTried, Before, Reported, Warned

\* A step that scans nothing new, forgets nothing that was tried, and leaves
\* every entry that leads to a file there.
LEMMA KeepsTried ==
  ASSUME AllTried, plain' = plain, run'.scanned = run.scanned, run'.moved = run.moved,
         run.tried \subseteq run'.tried, run.unread \subseteq run'.unread,
         run.unlisted \subseteq run'.unlisted,
         \A s \in Sources : plain[s] = "file" /\ s \notin run.moved /\ Before(run, s) =>
           Settled(run', s) \/ Before(run', s)
  PROVE  AllTried'
<1>1. \A s : Settled(run, s) => Settled(run', s)  BY DEF Settled, Reaches
<1>2. ASSUME NEW d \in run'.scanned, NEW s \in Below(d.root), plain'[s] = "file", s \notin run'.moved
      PROVE  Settled(run', s) \/ Before(run', s)
  <2>1. s \in Sources  BY DEF Below
  <2>2. Settled(run, s) \/ Before(run, s)  BY <1>2 DEF AllTried
  <2> QED  BY <1>1, <1>2, <2>1, <2>2
<1> QED  BY <1>2 DEF AllTried, Below, Settled, Reaches, Before

\* A step outside the scan of a plain directory.
LEMMA ElsewhereTried ==
  ASSUME TriedOK, run.at # "scan", run'.at # "scan", plain' = plain,
         run'.scanned = run.scanned, run'.moved = run.moved, run.tried \subseteq run'.tried,
         run'.unread = run.unread, run.unlisted \subseteq run'.unlisted, run.err => run'.err
  PROVE  TriedOK'
<1>1. AllTried'  BY KeepsTried DEF TriedOK, Before
<1> QED  BY <1>1 DEF TriedOK, HandSame, Reported, Warned

\* What the scan meets on the way to a file is that file or a directory.
LEMMA OnTheWay ==
  ASSUME DataOK, NEW s \in Sources, plain[s] = "file", NEW t \in Sources, t \in Prefixes(s)
  PROVE  t = s \/ plain[t] = "dir"
<1>1. t # <<>> /\ s \in DOMAIN plain  BY SourcesArePaths DEF DataOK
<1> QED  BY <1>1 DEF DataOK, IsTree, Above

\* Entries passed that do not lead to the file.
LEMMA LowerKeeps ==
  ASSUME run \in Run, NEW r, NEW p, r.at = run.at, Len(run.stack) \in Nat,
         Len(r.stack) \in Nat, Len(r.stack) >= Len(run.stack),
         \A i \in 1..Len(run.stack) : Lower(run.stack[i], r.stack[i], p),
         NEW s, Before(run, s), p \notin Prefixes(s)
  PROVE  Before(r, s)
<1>1. PICK i \in 1..Len(run.stack) : \E t \in run.stack[i].todo : t \in Prefixes(s)
  BY DEF Before
<1>2. PICK t \in run.stack[i].todo : t \in Prefixes(s)  BY <1>1
<1>3. t \in r.stack[i].todo  BY <1>2 DEF Lower
<1>4. i \in 1..Len(r.stack)
  <2>1. PICK n \in Nat : n = Len(run.stack)  OBVIOUS
  <2>2. PICK m \in Nat : m = Len(r.stack) /\ m >= n  BY <2>1
  <2>3. i \in 1..m  BY <2>1, <2>2
  <2> QED  BY <2>2, <2>3
<1> QED  BY <1>2, <1>3, <1>4 DEF Before

LEMMA TakenTried ==
  ASSUME Healthy, TriedOK, NEW t \in Sources,
         Unlisted(t) \/ Vanished(t) \/ Skip(t) \/ VisitFile(t) \/ DirUnread(t)
  PROVE  TriedOK'
<1>1. /\ run.at = "scan" /\ run.stack # <<>> /\ plain' = plain
      /\ run \in Run /\ DataOK
  BY ScanTaken DEF Healthy, DataOK
<1>2. PICK e \in BOOLEAN :
        /\ Passes(run', t, e) /\ run'.unlisted = run.unlisted
        /\ run'.unread = IF e THEN run.unread \cup {t} ELSE run.unread
        /\ \/ e \/ plain[t] \in {"none", "link"}
           \/ t \in run'.tried /\ run.now = [path |-> t, as |-> "file"]
  BY ScanTaken
<1>3. /\ run'.at = run.at /\ run'.scanned = run.scanned /\ run'.moved = run.moved
      /\ run'.err = run.err /\ run.tried \subseteq run'.tried /\ run.unread \subseteq run'.unread
      /\ run'.now = Nothing /\ Len(run'.stack) = Len(run.stack)
      /\ \A i \in 1..Len(run.stack) : Lower(run.stack[i], run'.stack[i], t)
      /\ e => run'.stack[Len(run.stack)].err
  BY <1>2 DEF Passes, Same
<1>4. Len(run.stack) \in Nat \ {0}  BY <1>1, TopIs
<1>5. ASSUME NEW s \in Sources, plain[s] = "file", s \notin run.moved, Before(run, s)
      PROVE  Settled(run', s) \/ Before(run', s)
  <2>1. CASE t \notin Prefixes(s)
    <3>1. Len(run'.stack) >= Len(run.stack) /\ Len(run.stack) \in Nat  BY <1>3, <1>4
    <3> QED  BY <2>1, <3>1, <1>1, <1>3, <1>5, LowerKeeps
  <2>2. CASE t \in Prefixes(s) /\ e
    <3>1. t \in run'.unread  BY <2>2, <1>2
    <3> QED  BY <2>2, <3>1 DEF Settled, Reaches
  <2>3. CASE t \in Prefixes(s) /\ plain[t] \in {"none", "link"}
    <3>1. t = s \/ plain[t] = "dir"  BY <2>3, <1>1, <1>5, OnTheWay
    <3> QED  BY <2>3, <3>1, <1>5
  <2>4. CASE t \in Prefixes(s) /\ t \in run'.tried /\ run.now = [path |-> t, as |-> "file"]
    <3>1. CASE t = s  BY <3>1, <2>4 DEF Settled
    <3>2. CASE t # s
      <4>1. plain[t] = "dir"  BY <3>2, <2>4, <1>1, <1>5, OnTheWay
      <4>2. run.now # Nothing /\ run.now.path = t /\ run.now.as = "file"
        BY <2>4 DEF Nothing
      <4>3. Below(t) \subseteq run.moved  BY <4>1, <4>2, <1>1 DEF TriedOK, HandSame
      <4>4. t \in Path /\ t \in Above(s)  BY <3>2, <2>4, SourcesArePaths DEF Above
      <4>5. s \in Below(t)  BY <4>4, BelowIs
      <4> QED  BY <4>3, <4>5, <1>5
    <3> QED  BY <3>1, <3>2
  <2> QED  BY <1>2, <2>1, <2>2, <2>3, <2>4
<1>6. AllTried'  BY <1>1, <1>2, <1>3, <1>5, KeepsTried DEF TriedOK
<1>7. HandSame'  BY <1>3 DEF HandSame
<1>8. Reported'
  <2>1. CASE e
    <3>1. Len(run.stack) \in 1..Len(run'.stack)  BY <1>3, <1>4
    <3> QED  BY <2>1, <3>1, <1>1, <1>3 DEF Reported, Warned
  <2>2. CASE ~e
    <3>1. SUFFICES ASSUME run'.unread # {} PROVE Warned(run')  BY DEF Reported, Warned
    <3>2. Warned(run)  BY <2>2, <3>1, <1>2 DEF TriedOK, Reported
    <3>3. \A i \in 1..Len(run.stack) : run.stack[i].err => run'.stack[i].err
      BY <1>3 DEF Lower
    <3> QED  BY <3>2, <3>3, <1>3 DEF Warned
  <2> QED  BY <2>1, <2>2
<1> QED  BY <1>6, <1>7, <1>8 DEF TriedOK

LEMMA EnterTried ==
  ASSUME Healthy, TriedOK, NEW t \in Sources, VisitDir(t)
  PROVE  TriedOK'
<1>1. /\ run.stack # <<>> /\ run.at = "scan" /\ run \in Run /\ DataOK /\ plain' = plain
      /\ Enters(run', t, Frame(plain, t))
  BY EnterIs DEF Healthy, DataOK
<1>2. PICK f : f = Frame(plain, t)  OBVIOUS
<1>3. /\ run'.at = run.at /\ run'.scanned = run.scanned /\ run'.moved = run.moved
      /\ run'.err = run.err /\ run.tried \subseteq run'.tried
      /\ run'.unread = run.unread /\ run'.unlisted = run.unlisted /\ run'.now = Nothing
      /\ Len(run'.stack) = Len(run.stack) + 1 /\ run'.stack[Len(run.stack) + 1] = f
      /\ \A i \in 1..Len(run.stack) : Lower(run.stack[i], run'.stack[i], t)
  BY <1>1, <1>2 DEF Enters, Same
<1>4. PICK n \in Nat \ {0} : n = Len(run.stack)  BY <1>1, TopIs
<1>5. Len(run'.stack) = n + 1 /\ n + 1 \in 1..(n + 1) /\ 1..n \subseteq 1..(n + 1)
  BY <1>3, <1>4
<1>6. ASSUME NEW s \in Sources, plain[s] = "file", Before(run, s)
      PROVE  Before(run', s)
  <2>1. CASE t \in Prefixes(s)
    <3>1. t = s \/ plain[t] = "dir"  BY <2>1, <1>1, <1>6, OnTheWay
    <3>2. plain[t] = "dir"  BY DEF VisitDir
    <3>3. s \in Path /\ t \in Above(s)  BY <2>1, <3>2, <1>6, SourcesArePaths DEF Above
    <3>4. PICK c \in Children(plain, t) : c \in Prefixes(s)
      <4>1. \A p \in Sources : Prefixes(p) \subseteq Sources \cup {<<>>}
        BY SourcesArePaths DEF Above
      <4>2. PICK K : plain \in [Sources -> K] /\ IsTree(plain)  BY <1>1 DEF DataOK
      <4> QED  BY <4>1, <4>2, <3>3, <1>6, SourcesArePaths, EntryAbove
    <3>5. c \in f.todo  BY <1>2, <3>4 DEF Frame
    <3> QED  BY <3>4, <3>5, <1>1, <1>3, <1>4, <1>5 DEF Before
  <2>2. CASE t \notin Prefixes(s)
    <3>1. Len(run'.stack) \in Nat /\ Len(run'.stack) >= Len(run.stack)  BY <1>4, <1>5
    <3> QED  BY <2>2, <3>1, <1>1, <1>3, <1>4, <1>6, LowerKeeps
  <2> QED  BY <2>1, <2>2
<1>7. AllTried'  BY <1>1, <1>3, <1>6, KeepsTried DEF TriedOK
<1>8. HandSame'  BY <1>3 DEF HandSame
<1>9. Reported'
  <2>1. SUFFICES ASSUME run'.unread # {} PROVE Warned(run')  BY DEF Reported, Warned
  <2>2. Warned(run)  BY <2>1, <1>3 DEF TriedOK, Reported
  <2>3. \A i \in 1..Len(run.stack) : run.stack[i].err => run'.stack[i].err
    BY <1>3 DEF Lower
  <2> QED  BY <2>2, <2>3, <1>3, <1>4, <1>5 DEF Warned
<1> QED  BY <1>7, <1>8, <1>9 DEF TriedOK

\* The scan of a plain directory: an entry looked at, readdir failing, a directory left.
LEMMA ReadTried ==
  ASSUME Healthy, TriedOK, run.at = "scan", ReadFails
  PROVE  TriedOK'
<1>1. PICK n \in Nat \ {0} :
        /\ n = Len(run.stack) /\ Top = run.stack[n] /\ Same(run') /\ run'.now = Nothing
        /\ Len(run'.stack) = n
        /\ \A i \in 1..n : EndedLevel(run.stack[i], run'.stack[i])
        /\ \A i \in 1..n : i # n => run'.stack[i].todo = run.stack[i].todo
        /\ IF windows THEN run'.unread = run.unread \cup Top.todo /\ run'.stack[n].err
           ELSE /\ run'.unread = run.unread
                /\ run'.unlisted = run.unlisted \cup Top.todo
  BY EndedIs
<1>2. /\ run'.at = run.at /\ run'.scanned = run.scanned /\ run'.moved = run.moved
      /\ run'.err = run.err /\ run.tried \subseteq run'.tried
      /\ run.unread \subseteq run'.unread /\ run.unlisted \subseteq run'.unlisted
  BY <1>1 DEF Same
<1>3. plain' = plain  BY DEF ReadFails
<1>4. ASSUME NEW s \in Sources, Before(run, s)
      PROVE  Settled(run', s) \/ Before(run', s)
  <2>0. PICK i \in 1..n : \E t \in run.stack[i].todo : t \in Prefixes(s)
    BY <1>1, <1>4 DEF Before
  <2>1. PICK t \in run.stack[i].todo : t \in Prefixes(s)  BY <2>0
  <2>2. CASE i = n
    <3>1. t \in Top.todo  BY <2>1, <2>2, <1>1
    <3>2. t \in run'.unread \/ t \in run'.unlisted  BY <3>1, <1>1
    <3> QED  BY <2>1, <3>2 DEF Settled, Reaches
  <2>3. CASE i # n
    <3>1. t \in run'.stack[i].todo  BY <2>1, <2>3, <1>1
    <3> QED  BY <2>1, <3>1, <1>1, <1>2 DEF Before
  <2> QED  BY <2>2, <2>3
<1>5. AllTried'  BY <1>2, <1>3, <1>4, KeepsTried DEF TriedOK
<1>6. HandSame'  BY <1>1 DEF HandSame
<1>7. Reported'
  <2>1. SUFFICES ASSUME run'.unread # {} PROVE Warned(run')  BY DEF Reported, Warned
  <2>2. CASE windows
    <3>1. n \in 1..Len(run'.stack)  BY <1>1
    <3> QED  BY <2>2, <3>1, <1>1, <1>2 DEF Warned
  <2>3. CASE ~windows
    <3>1. Warned(run)  BY <2>1, <2>3, <1>1 DEF TriedOK, Reported
    <3>2. \A i \in 1..n : run.stack[i].err => run'.stack[i].err  BY <1>1 DEF EndedLevel
    <3> QED  BY <3>1, <3>2, <1>1, <1>2 DEF Warned
  <2> QED  BY <2>2, <2>3
<1> QED  BY <1>5, <1>6, <1>7 DEF TriedOK

LEMMA LeaveTried ==
  ASSUME Healthy, TriedOK, LeaveDir
  PROVE  TriedOK'
<1>1. PICK n \in Nat \ {0} :
        /\ n = Len(run.stack) /\ Top = run.stack[n] /\ Top.todo = {} /\ Same(run')
        /\ run'.now = Nothing /\ Len(run'.stack) = n - 1
        /\ Len(run'.stack) \in Nat \ {0}
        /\ \A i \in 1..Len(run'.stack) : EndedLevel(run.stack[i], run'.stack[i])
        /\ \A i \in 1..Len(run'.stack) : run'.stack[i].todo = run.stack[i].todo
        /\ Top.err => run'.stack[Len(run'.stack)].err
        /\ run'.unread = run.unread /\ run'.unlisted = run.unlisted /\ plain' = plain
  BY LeftIs
<1>2. PICK m \in Nat \ {0} : m = Len(run'.stack) /\ n = m + 1
  <2>1. PICK m \in Nat \ {0} : m = Len(run'.stack) /\ m = n - 1  BY <1>1
  <2>2. n = m + 1  BY <2>1
  <2> QED  BY <2>1, <2>2
<1>3. /\ run'.at = run.at /\ run'.scanned = run.scanned /\ run'.moved = run.moved
      /\ run'.err = run.err /\ run.tried \subseteq run'.tried
  BY <1>1 DEF Same
<1>4. \A i \in 1..n : i # n => i \in 1..m  BY <1>2
<1>5. ASSUME NEW s \in Sources, Before(run, s)  PROVE Before(run', s)
  <2>0. PICK i \in 1..n : \E t \in run.stack[i].todo : t \in Prefixes(s)
    BY <1>1, <1>5 DEF Before
  <2>1. PICK t \in run.stack[i].todo : t \in Prefixes(s)  BY <2>0
  <2>2. i # n  BY <1>1, <2>1
  <2>3. i \in 1..m /\ run'.stack[i].todo = run.stack[i].todo  BY <1>1, <1>2, <1>4, <2>2
  <2> QED  BY <2>1, <2>3, <1>2, <1>3, <1>5 DEF Before
<1>6. AllTried'  BY <1>1, <1>3, <1>5, KeepsTried DEF TriedOK
<1>7. HandSame'  BY <1>1 DEF HandSame
<1>8. Reported'
  <2>1. SUFFICES ASSUME run'.unread # {} PROVE Warned(run')  BY DEF Reported, Warned
  <2>2. Warned(run)  BY <2>1, <1>1 DEF TriedOK, Reported
  <2>3. ASSUME NEW i \in 1..n, run.stack[i].err  PROVE \E j \in 1..m : run'.stack[j].err
    <3>1. CASE i = n
      <4>1. m \in 1..m  BY <1>2
      <4>2. Top.err  BY <2>3, <3>1, <1>1
      <4>3. run'.stack[m].err  BY <4>2, <1>1, <1>2, Zenon
      <4> QED  BY <4>1, <4>3
    <3>2. CASE i # n
      <4>1. i \in 1..m  BY <3>2, <1>4
      <4> QED  BY <2>3, <4>1, <1>1, <1>2 DEF EndedLevel
    <3> QED  BY <3>1, <3>2
  <2> QED  BY <2>2, <2>3, <1>1, <1>2, <1>3 DEF Warned
<1> QED  BY <1>6, <1>7, <1>8 DEF TriedOK

LEMMA LookTried ==
  ASSUME Healthy, TriedOK, NEW t \in Sources, LookAt(t)
  PROVE  TriedOK'
<1>1. /\ run \in Run /\ plain' = plain
      /\ run' = [run EXCEPT !.now = [path |-> t, as |-> plain[t]]]
  BY DEF LookAt, Healthy, DataOK
<1>2. PICK e : e = [path |-> t, as |-> plain[t]]  OBVIOUS
<1>3. /\ run'.now = e /\ run'.at = run.at /\ run'.stack = run.stack
      /\ run'.scanned = run.scanned /\ run'.moved = run.moved /\ run'.err = run.err
      /\ run'.tried = run.tried /\ run'.unread = run.unread /\ run'.unlisted = run.unlisted
  BY <1>1, <1>2 DEF Run
<1>4. \A s \in Sources : Before(run, s) => Before(run', s)  BY <1>3 DEF Before
<1>5. AllTried'  BY <1>1, <1>3, <1>4, KeepsTried DEF TriedOK
<1>6. HandSame'  BY <1>1, <1>2, <1>3 DEF HandSame
<1>7. Reported'  BY <1>3 DEF TriedOK, Reported, Warned
<1> QED  BY <1>5, <1>6, <1>7 DEF TriedOK

LEMMA ScanDoneTried ==
  ASSUME Healthy, TriedOK, ScanDone
  PROVE  TriedOK'
<1>1. /\ run.at = "scan" /\ Len(run.stack) = 1 /\ Top.todo = {} /\ Top = run.stack[1]
      /\ run'.scanned = run.scanned /\ run'.moved = run.moved /\ run'.tried = run.tried
      /\ run'.unread = run.unread /\ run'.unlisted = run.unlisted /\ plain' = plain
      /\ \/ run'.at = "next" /\ run'.err = (run.err \/ Top.err)
         \/ run'.at = "delete" /\ Deletes(Top.err) /\ run'.err = run.err
         \/ run'.at = "next" /\ run'.err
  BY ScannedIs
<1>2. \A s \in Sources : ~Before(run, s)  BY <1>1 DEF Before
<1>3. AllTried'  BY <1>1, <1>2, KeepsTried DEF TriedOK
<1>4. HandSame'  BY <1>1 DEF HandSame
<1>5. Reported'
  <2>1. SUFFICES ASSUME run'.unread # {} PROVE Warned(run')  BY DEF Reported, Warned
  <2>2. run.err \/ Top.err  BY <2>1, <1>1 DEF TriedOK, Reported, Warned
  <2> QED  BY <2>2, <1>1 DEF Warned, Deletes
<1> QED  BY <1>3, <1>4, <1>5 DEF TriedOK

\* The scan of the encrypted tree, and of a list.
LEMMA OtherTried ==
  ASSUME Healthy, TriedOK,
         \/ DeleteDone \/ FinishDir \/ StartList \/ Done
         \/ \E l \in Lines : ListRefused(l) \/ ListLine(l) \/ ListFile(l)
         \/ \E p \in Rels : \/ EntryFails(p) \/ StaysFile(p) \/ LookupFails(p) \/ LookupGone(p)
                            \/ DeleteFile(p) \/ DeleteFails(p) \/ UnlinkRecurses(p)
                            \/ EnterDir(p)
  PROVE  TriedOK'
<1>1. run \in Run  BY DEF Healthy, DataOK
<1>2. ASSUME run'.scanned = {}, run'.at # "scan", run'.unread = {}  PROVE TriedOK'
  BY <1>2 DEF TriedOK, AllTried, HandSame, Reported
<1>3. ASSUME run.at = "delete", Same(run'), run'.unread = run.unread, plain' = plain
      PROVE  TriedOK'
  <2>1. /\ run'.at # "scan" /\ run'.scanned = run.scanned /\ run'.moved = run.moved
        /\ run.tried \subseteq run'.tried /\ run.unlisted \subseteq run'.unlisted
        /\ run.err => run'.err
    BY <1>3 DEF Same
  <2> QED  BY <1>3, <2>1, ElsewhereTried
<1>4. ASSUME DeleteDone  PROVE TriedOK'
  <2>1. run.stack # <<>> /\ run.at = "delete" /\ plain' = plain
    BY <1>4 DEF Healthy, RunOK, DeleteDone
  <2>2. Top.err \in BOOLEAN  BY <1>1, <2>1, TopIs DEF Level
  <2>3. PICK e \in BOOLEAN : e = (run.err \/ Top.err)  OBVIOUS
  <2>4. run' = [run EXCEPT !.at = "next", !.stack = <<>>, !.err = e]
    BY <1>1, <1>4, <2>3 DEF DeleteDone, Run
  <2>5. /\ run'.at = "next" /\ run'.scanned = run.scanned /\ run'.moved = run.moved
        /\ run'.tried = run.tried /\ run'.unread = run.unread
        /\ run'.unlisted = run.unlisted /\ run'.err = e
    BY <1>1, <2>4 DEF Run
  <2> QED  BY <2>1, <2>3, <2>5, ElsewhereTried
<1>5. ASSUME FinishDir  PROVE TriedOK'
  <2>1. PICK e \in BOOLEAN : run' = Left(e) /\ plain' = plain  BY <1>5, FinishTrees
  <2>2. run.at = "delete" /\ Same(run') /\ run'.unread = run.unread
    BY <1>5, <2>1, FinishedIs
  <2> QED  BY <1>3, <2>1, <2>2
<1>6. ASSUME StartList  PROVE TriedOK'
  <2>1. PICK ls \in SUBSET Lines, o \in Opts : run' = [Fresh(o) EXCEPT !.items = ls]
    BY <1>6 DEF StartList
  <2>2. run'.scanned = {} /\ run'.unread = {} /\ run'.at = "next"  BY <2>1 DEF Fresh
  <2> QED  BY <1>2, <2>2
<1>7. ASSUME Done  PROVE TriedOK'
  BY <1>2, <1>7, NoRunIs DEF Done
<1>8. ASSUME NEW l \in Lines, ListRefused(l) \/ ListLine(l)  PROVE TriedOK'
  <2>1. run.at = "next" /\ plain' = plain  BY <1>8 DEF ListRefused, ListLine, Reading
  <2>2. \/ run' = [run EXCEPT !.items = @ \ {l}, !.err = TRUE]
        \/ run' = [run EXCEPT !.items = @ \ {l}, !.line = {l}]
    BY <1>8 DEF ListRefused, ListLine
  <2>3. /\ run'.at = run.at /\ run'.scanned = run.scanned /\ run'.moved = run.moved
        /\ run'.tried = run.tried /\ run'.unread = run.unread
        /\ run'.unlisted = run.unlisted /\ (run.err => run'.err)
    BY <1>1, <2>2, ZenonT(30) DEF Run
  <2> QED  BY <2>1, <2>3, ElsewhereTried
<1>9. ASSUME NEW l \in Lines, ListFile(l)  PROVE TriedOK'
  <2>1. /\ run.at = "next" /\ run'.scanned = run.scanned /\ run'.moved = run.moved
        /\ run'.tried = run.tried \cup {l.path} /\ run'.unread = run.unread
        /\ run'.unlisted = run.unlisted /\ run'.at = "next" /\ (run.err => run'.err)
        /\ plain' = plain
    BY <1>9, ListFileIs
  <2> QED  BY <2>1, ElsewhereTried
<1>10. ASSUME NEW p \in Rels,
              \/ EntryFails(p) \/ StaysFile(p) \/ LookupFails(p)
              \/ DeleteFile(p) \/ DeleteFails(p)
       PROVE  TriedOK'
  <2>1. run.at = "delete" /\ plain' = plain  BY <1>10, DeleteTaken
  <2>2. PICK e \in BOOLEAN : Passes(run', p, e) /\ run'.unread = run.unread
    BY <1>10, DeleteTaken
  <2> QED  BY <1>3, <2>1, <2>2 DEF Passes
<1>11. ASSUME NEW p \in Rels, LookupGone(p)  PROVE TriedOK'
  <2>1. /\ run.at = "delete" /\ plain' = plain
        /\ run' = [run EXCEPT !.now = [path |-> p, as |-> "file"]]
    BY <1>11 DEF LookupGone, Scanning
  <2>2. Same(run') /\ run'.unread = run.unread  BY <1>1, <2>1 DEF Run, Same
  <2> QED  BY <1>3, <2>1, <2>2
<1>12. ASSUME NEW p \in Rels, UnlinkRecurses(p)  PROVE TriedOK'
  BY <1>2, <1>12, NoRunIs DEF UnlinkRecurses
<1>13. ASSUME NEW p \in Rels, EnterDir(p)  PROVE TriedOK'
  <2>1. run.at = "delete" /\ plain' = plain /\ Same(run') /\ run'.unread = run.unread
    BY <1>13, EnterIs DEF Enters
  <2> QED  BY <1>3, <2>1
<1> QED  BY <1>4, <1>5, <1>6, <1>7, <1>8, <1>9, <1>10, <1>11, <1>12, <1>13

LEMMA ChangeTried ==
  ASSUME Healthy, TriedOK, Change
  PROVE  TriedOK'
<1>1. PICK s \in Sources, k \in {"none", "file", "dir", "link"} :
        /\ plain' = [q \in Sources |-> IF q = s THEN k
                                       ELSE IF q \in Below(s) THEN "none" ELSE plain[q]]
        /\ run' = IF run.at = "idle" THEN run ELSE Seen(s)
  BY DEF Change
<1>2. run \in Run  BY DEF Healthy, DataOK
<1>3. CASE run.at = "idle"
  <2>1. run' = run /\ run.scanned = {}  BY <1>1, <1>3 DEF Healthy, RunOK
  <2> QED  BY <1>3, <2>1 DEF TriedOK, AllTried, HandSame, Reported, Warned
<1>4. CASE run.at # "idle"
  <2>1. PICK m : m = run.moved \cup {s} \cup Below(s)  OBVIOUS
  <2>2. /\ run'.at = run.at /\ run'.stack = run.stack /\ run'.scanned = run.scanned
        /\ run'.tried = run.tried /\ run'.unread = run.unread /\ run'.unlisted = run.unlisted
        /\ run'.err = run.err /\ run'.now = run.now /\ run'.moved = m
    BY <1>1, <1>2, <1>4, <2>1, SeenIs
  <2>3. ASSUME NEW d \in run.scanned, NEW q \in Below(d.root), plain'[q] = "file", q \notin m
        PROVE  Settled(run, q) \/ Before(run, q)
    <3>1. q \in Sources  BY DEF Below
    <3>2. plain[q] = "file" /\ q \notin run.moved  BY <3>1, <1>1, <2>1, <2>3
    <3> QED  BY <3>2 DEF TriedOK, AllTried
  <2>4. \A q : Before(run', q) = Before(run, q) /\ Settled(run', q) = Settled(run, q)
    BY <2>2 DEF Before, Settled
  <2>5. AllTried'
    <3>1. ASSUME NEW d \in run'.scanned, NEW q \in Below(d.root), plain'[q] = "file",
                 q \notin run'.moved
          PROVE  Settled(run', q) \/ Before(run', q)
      BY <3>1, <2>2, <2>3, <2>4
    <3> QED  BY <3>1 DEF AllTried, Below, Settled, Reaches, Before
  <2>6. HandSame'
    <3>1. SUFFICES ASSUME run.at = "scan", run.now # Nothing
                   PROVE  \/ plain'[run.now.path] = run.now.as
                          \/ {run.now.path} \cup Below(run.now.path) \subseteq m
      BY <2>2 DEF HandSame, Below
    <3>2. PICK p : p = run.now.path  OBVIOUS
    <3>3. p \in Sources
      <4>1. p \in run.stack[Len(run.stack)].todo /\ run.stack # <<>>
        BY <3>1, <3>2 DEF Healthy, RunOK
      <4>2. ScanLevel(run.stack[Len(run.stack)], run.root)
        <5>1. Len(run.stack) \in 1..Len(run.stack)  BY <1>2, <4>1, TopIs
        <5> QED  BY <5>1, <3>1 DEF Healthy, StackOK
      <4> QED  BY <4>1, <4>2 DEF ScanLevel, Below
    <3>4. CASE {p} \cup Below(p) \subseteq run.moved
      BY <3>2, <3>4, <2>1
    <3>5. CASE plain[p] = run.now.as
      <4>1. CASE p # s /\ p \notin Below(s)
        <5>1. plain'[p] = plain[p]  BY <4>1, <1>1, <3>3
        <5> QED  BY <5>1, <3>2, <3>5
      <4>2. CASE p = s  BY <4>2, <3>2, <2>1
      <4>3. CASE p \in Below(s)
        <5>1. s \in Path /\ p \in Path /\ s \in Prefixes(p) /\ s # p
          BY <4>3, <3>3, SourcesArePaths, BelowIs DEF Above
        <5>2. ASSUME NEW q \in Below(p)  PROVE q \in Below(s)
          <6>1. q \in Path /\ p \in Prefixes(q) /\ p # q /\ q \in Sources
            BY <5>1, <5>2, SourcesArePaths, BelowIs DEF Above
          <6>2. s \in Prefixes(q)  BY <5>1, <6>1, PrefixOrder
          <6>3. s # q  BY <5>1, <6>1, PrefixOrder
          <6> QED  BY <5>1, <6>1, <6>2, <6>3, BelowIs DEF Above
        <5> QED  BY <4>3, <5>2, <3>2, <2>1
      <4> QED  BY <4>1, <4>2, <4>3
    <3> QED  BY <3>1, <3>2, <3>4, <3>5 DEF TriedOK, HandSame
  <2>7. Reported'  BY <2>2 DEF TriedOK, Reported, Warned
  <2> QED  BY <2>5, <2>6, <2>7 DEF TriedOK
<1> QED  BY <1>3, <1>4

LEMMA StepTried == Healthy /\ TriedOK /\ [DsNext]_dsVars => TriedOK'
<1> SUFFICES ASSUME Healthy, TriedOK, [DsNext]_dsVars PROVE TriedOK'  OBVIOUS
<1>0. DataOK  BY DEF Healthy
<1>1. CASE UNCHANGED dsVars
  BY <1>1 DEF dsVars, TriedOK, AllTried, Settled, Reaches, Before, Below, HandSame,
              Reported, Warned
<1>2. CASE Change  BY <1>2, ChangeTried
<1>3. CASE StartRecurse
  <2>1. PICK s \in Roots, o \in Opts :
          IF CalcTrim(s) = NoTrim THEN run' = [Fresh(o) EXCEPT !.err = TRUE]
          ELSE BeginDir(Fresh(o), s, Trim) \/ NoDir(Fresh(o), s, Trim)
    BY <1>3 DEF StartRecurse
  <2>2. s \in Sources /\ Trim \in Nat /\ o \in [del : BOOLEAN, delkey : BOOLEAN]  BY ScanParams
  <2>3. PICK f \in Run : /\ f = Fresh(o) /\ f.at = "next" /\ f.scanned = {} /\ f.now = Nothing
                         /\ f.unread = {}
    BY <2>2, FreshIs
  <2>4. CASE run' = [Fresh(o) EXCEPT !.err = TRUE]
    <3>1. run'.scanned = {} /\ run'.at = "next" /\ run'.unread = {}  BY <2>3, <2>4 DEF Run
    <3> QED  BY <3>1 DEF TriedOK, AllTried, HandSame, Reported
  <2>5. CASE BeginDir(f, s, Trim) \/ NoDir(f, s, Trim)
    BY <1>0, <2>2, <2>3, <2>5, DirBegunTried
  <2> QED  BY <2>1, <2>3, <2>4, <2>5
<1>4. CASE ReadFails
  <2>1. CASE run.at = "scan"  BY <1>4, <2>1, ReadTried
  <2>2. CASE run.at # "scan"
    <3>1. Same(run') /\ run'.unread = run.unread /\ plain' = plain
      BY <1>4, <2>2, EndedIs DEF ReadFails
    <3> QED  BY <2>2, <3>1, ElsewhereTried DEF Same
  <2> QED  BY <2>1, <2>2
<1>5. CASE LeaveDir  BY <1>5, LeaveTried
<1>6. CASE ScanDone  BY <1>6, ScanDoneTried
<1>7. CASE StartList \/ Done \/ DeleteDone \/ FinishDir  BY <1>7, OtherTried
<1>8. ASSUME NEW l \in Lines, ListRefused(l) \/ ListLine(l) \/ ListFile(l)  PROVE TriedOK'
  BY <1>8, OtherTried
<1>9. ASSUME NEW l \in Lines, ListDir(l)  PROVE TriedOK'
  <2>1. PICK cut : cut = Trim + SecondTrim(l)  OBVIOUS
  <2>2. BeginDir(Rest, l.path, cut) \/ NoDir(Rest, l.path, cut)
    BY <1>9, <2>1, ListDirIs
  <2>3. run.at = "next" /\ cut \in Nat /\ l.path \in Sources  BY <1>9, <2>1, ListDirIs, LineIs
  <2>4. PICK r \in Run :
          /\ r = Rest /\ r.at = "next" /\ r.now = Nothing /\ r.scanned = run.scanned
          /\ r.tried = run.tried /\ r.moved = run.moved /\ r.unread = run.unread
          /\ r.unlisted = run.unlisted /\ r.err = run.err
    BY <2>3, RestIs
  <2>5. /\ \A d \in r.scanned : \A s \in Below(d.root) :
             plain[s] = "file" /\ s \notin r.moved => Settled(r, s)
        /\ r.unread # {} => r.err
    BY <2>3, <2>4, NextTried DEF Settled
  <2>6. BeginDir(r, l.path, cut) \/ NoDir(r, l.path, cut)  BY <2>2, <2>4
  <2> QED  BY <1>0, <2>3, <2>4, <2>5, <2>6, DirBegunTried
<1>10. ASSUME NEW s \in Sources,
              \/ Unlisted(s) \/ Vanished(s) \/ Skip(s) \/ LookAt(s)
              \/ VisitFile(s) \/ VisitDir(s) \/ DirUnread(s)
       PROVE  TriedOK'
  BY <1>10, TakenTried, LookTried, EnterTried
<1>11. ASSUME NEW p \in Rels,
              \/ EntryFails(p) \/ StaysFile(p) \/ LookupFails(p) \/ LookupGone(p)
              \/ DeleteFile(p) \/ DeleteFails(p) \/ UnlinkRecurses(p) \/ EnterDir(p)
       PROVE  TriedOK'
  BY <1>11, OtherTried
<1> QED  BY <1>1, <1>2, <1>3, <1>4, <1>5, <1>6, <1>7, <1>8, <1>9, <1>10, <1>11 DEF DsNext

\* A run comes to every regular file below what it scanned that was left alone,
\* whatever lstat, opendir, readdir, the encryption of other files or the user's
\* changes do to it, but for what is below an entry it could not read, and then
\* it reports an error, or below one that readdir failed to list, which on POSIX
\* it does not (recurse_dir_enc goes on after an error and reads each directory
\* once; filelist_encrypt takes the next line).
THEOREM EveryFileTried == DsSpec => []EachTried
<1>1. DsInit => TriedOK
  <2>1. DsInit => run.scanned = {} /\ run.at = "idle" /\ run.unread = {}  BY NoRunIs DEF DsInit
  <2> QED  BY <2>1 DEF TriedOK, AllTried, HandSame, Reported
<1>2. TriedOK => EachTried
  <2>1. SUFFICES ASSUME TriedOK, Ending PROVE EachTried  BY DEF EachTried
  <2>2. /\ \A d \in run.scanned : \A s \in Below(d.root) :
             plain[s] = "file" /\ s \notin run.moved => Settled(run, s)
        /\ run.unread # {} => run.err
    BY <2>1, NextTried DEF Ending
  <2>3. \A s : Reaches(run.unread, s) => run.err  BY <2>2 DEF Reaches
  <2> QED  BY <2>2, <2>3 DEF EachTried, Settled
<1>3. Healthy /\ TriedOK /\ [DsNext]_dsVars => TriedOK'  BY StepTried
<1> QED  BY <1>1, <1>2, <1>3, AlwaysHealthy, PTL DEF DsSpec

-----------------------------------------------------------------------------
(* --delete takes no backup of what is there. *)

CutsAreTrim == ~twice => \A d \in run.scanned : d.cut = Trim

\* As long as nothing was trimmed twice, an encrypted file is in the place that
\* --trim gives the plain file it was made from.
InPlace ==
  ~twice => \A p \in Rels : enc[p] = "file" =>
              from[p] \in Sources /\ Trim <= Len(from[p]) /\ Drop(from[p], Trim) = p

\* The plain file that file_delete found gone is gone, or the user put it back since.
HandGone ==
  run.at = "delete" /\ run.now # Nothing =>
    \/ PlainAt(SourceOf(run.now.path)) = "none"
    \/ SourceOf(run.now.path) \in run.since

\* How an encrypted file comes about.
FilesComeFrom(s, n) ==
  \A q \in Rels : enc'[q] = "file" =>
    (enc[q] = "file" /\ from'[q] = from[q]) \/ (q = Drop(s, n) /\ from'[q] = s)

NoneLost == \A q \in Rels : enc[q] = "file" => enc'[q] # "none"

\* The run after a directory is begun, or refused.
LEMMA DirScanned ==
  ASSUME DataOK, NEW r \in Run, NEW s \in Sources, NEW cut \in Nat,
         BeginDir(r, s, cut) \/ NoDir(r, s, cut)
  PROVE  /\ run'.scanned \subseteq r.scanned \cup {[root |-> s, cut |-> cut]}
         /\ run'.at \in {"scan", "next"}
<1>1. Frame(plain, s) \in Level
  <2>1. s \in Prefixes(s)  BY SourcesArePaths, PrefixIs, PrefixOrder DEF Path
  <2> QED  BY <2>1, PlainFrame
<1>2. CASE BeginDir(r, s, cut)
  BY <1>1, <1>2, BegunIs
<1>3. CASE NoDir(r, s, cut)
  BY <1>3, RefusedIs
<1> QED  BY <1>2, <1>3

\* The scan's files.
LEMMA VisitFiles ==
  ASSUME Healthy, NEW s \in Sources, VisitFile(s)
  PROVE  /\ s \in Path /\ run.cut \in 0..Len(s) /\ FilesComeFrom(s, run.cut) /\ NoneLost
         /\ \A q \in Rels : enc[q] = "none" /\ enc'[q] # "none" => q \in Prefixes(Drop(s, run.cut))
         /\ enc' = enc \/ plain[s] # "none"
         /\ plain' = plain /\ twice' = twice
         /\ [root |-> run.root, cut |-> run.cut] \in run.scanned /\ run.at = "scan"
<1> DEFINE p == Drop(s, run.cut)
<1>1. /\ InHand("scan", s, "file") /\ plain' = plain /\ twice' = twice
      /\ EncryptFile(s, p) \/ EncryptFails(s, p)
  BY DEF VisitFile
<1>2. /\ s \in Path /\ run.cut \in 0..Len(s) /\ run.at = "scan"
      /\ [root |-> run.root, cut |-> run.cut] \in run.scanned
  BY <1>1, SourceIs, EntryIs
<1>3. p \in Rels  BY <1>1, SourceIs
<1>4. DataOK  BY DEF Healthy
<1> HIDE DEF p
<1>5. /\ enc' = enc \/ plain[s] # "none"
      /\ \A q \in Rels : /\ enc'[q] = "file" => \/ q = p /\ from'[q] = s
                                                \/ enc[q] = "file" /\ from'[q] = from[q]
                         /\ enc[q] # "none" => enc'[q] # "none"
                         /\ q \notin Prefixes(p) => enc'[q] = enc[q]
  BY <1>1, <1>3, <1>4, Encrypted DEF DataOK
<1>6. FilesComeFrom(s, run.cut)  BY <1>5 DEF FilesComeFrom, p
<1>7. NoneLost  BY <1>5 DEF NoneLost
<1>8. \A q \in Rels : enc[q] = "none" /\ enc'[q] # "none" => q \in Prefixes(Drop(s, run.cut))
  BY <1>5 DEF p
<1> QED  BY <1>1, <1>2, <1>5, <1>6, <1>7, <1>8

LEMMA ListFiles ==
  ASSUME Healthy, NEW l \in Lines, ListFile(l)
  PROVE  /\ FilesComeFrom(l.path, Trim) /\ NoneLost
         /\ enc' = enc \/ plain[l.path] # "none"
         /\ \A q \in Rels : enc[q] = "none" /\ enc'[q] # "none" => q \in Prefixes(Drop(l.path, Trim))
<1> DEFINE p == Drop(l.path, Trim)
<1>1. DataOK /\ p \in Rels /\ l.path \in Sources
  BY LineIs, ScanParams, RelsArePaths DEF Healthy
<1>2. EncryptFile(l.path, p) \/ EncryptFails(l.path, p)  BY ListFileIs
<1> HIDE DEF p
<1>3. /\ enc' = enc \/ plain[l.path] # "none"
      /\ \A q \in Rels : /\ enc'[q] = "file" => \/ q = p /\ from'[q] = l.path
                                                \/ enc[q] = "file" /\ from'[q] = from[q]
                         /\ enc[q] # "none" => enc'[q] # "none"
                         /\ q \notin Prefixes(p) => enc'[q] = enc[q]
  BY <1>1, <1>2, Encrypted DEF DataOK
<1> QED  BY <1>3 DEF FilesComeFrom, NoneLost, p

\* No other step puts an encrypted file anywhere.
LEMMA OtherFiles ==
  ASSUME Healthy, [DsNext]_dsVars,
         \A s \in Sources : ~VisitFile(s), \A l \in Lines : ~ListFile(l)
  PROVE  \A q \in Rels : /\ enc'[q] = "file" => enc[q] = "file" /\ from'[q] = from[q]
                         /\ enc[q] = "file" /\ enc'[q] = "none" => DeleteFile(q)
<1> SUFFICES ASSUME NEW q \in Rels
             PROVE  /\ enc'[q] = "file" => enc[q] = "file" /\ from'[q] = from[q]
                    /\ enc[q] = "file" /\ enc'[q] = "none" => DeleteFile(q)
  OBVIOUS
<1>0. DataOK /\ enc \in [Rels -> Kinds] /\ from \in [Rels -> Sources \cup {<<>>}]
  BY DEF Healthy, DataOK, Tree
<1>1. CASE enc' = enc /\ from' = from  BY <1>1
<1>2. CASE StartRecurse
  <2>1. PICK s \in Roots, o \in Opts : \/ enc' = enc /\ from' = from
                                       \/ BeginDir(Fresh(o), s, Trim) \/ NoDir(Fresh(o), s, Trim)
    BY <1>2 DEF StartRecurse
  <2>2. s \in Sources /\ Trim \in Nat  BY ScanParams
  <2>3. CASE BeginDir(Fresh(o), s, Trim) \/ NoDir(Fresh(o), s, Trim)
    <3>1. from' = from  BY <1>0, <2>2, <2>3, DirTrees
    <3>2. /\ enc'[q] = "file" => enc[q] = "file"
          /\ enc[q] # "none" => enc'[q] = enc[q]
      BY <1>0, <2>2, <2>3, DirTrees
    <3> QED  BY <3>1, <3>2
  <2> QED  BY <1>1, <2>1, <2>3
<1>3. ASSUME NEW l \in Lines, ListDir(l)
      PROVE  /\ enc'[q] = "file" => enc[q] = "file" /\ from'[q] = from[q]
             /\ enc[q] = "file" /\ enc'[q] = "none" => DeleteFile(q)
  <2>1. PICK cut : cut = Trim + SecondTrim(l)  OBVIOUS
  <2>2. BeginDir(Rest, l.path, cut) \/ NoDir(Rest, l.path, cut)
    BY <1>3, <2>1, ListDirIs
  <2>3. cut \in Nat /\ l.path \in Sources  BY <1>3, <2>1, ListDirIs, LineIs
  <2>4. from' = from  BY <1>0, <2>2, <2>3, DirTrees
  <2>5. /\ enc'[q] = "file" => enc[q] = "file"
        /\ enc[q] # "none" => enc'[q] = enc[q]
    BY <1>0, <2>2, <2>3, DirTrees
  <2> QED  BY <2>4, <2>5
<1>4. ASSUME NEW p \in Rels, DeleteFile(p)
      PROVE  /\ enc'[q] = "file" => enc[q] = "file" /\ from'[q] = from[q]
             /\ enc[q] = "file" /\ enc'[q] = "none" => DeleteFile(q)
  <2>1. enc' = [enc EXCEPT ![p] = "none"] /\ from' = [from EXCEPT ![p] = <<>>]
    BY <1>4 DEF DeleteFile
  <2> QED  BY <1>0, <1>4, <2>1
<1>5. CASE FinishDir
  BY <1>5, FinishTrees
<1>6. CASE UNCHANGED dsVars \/ Change \/ StartList \/ Done \/ ReadFails \/ LeaveDir
           \/ ScanDone \/ DeleteDone
  BY <1>1, <1>6 DEF dsVars, Change, StartList, Done, ReadFails, LeaveDir, ScanDone, DeleteDone
<1>7. ASSUME NEW p,
             \/ ListRefused(p) \/ ListLine(p) \/ Unlisted(p) \/ Vanished(p) \/ Skip(p)
             \/ LookAt(p) \/ VisitDir(p) \/ DirUnread(p)
             \/ EntryFails(p) \/ StaysFile(p) \/ LookupFails(p) \/ LookupGone(p)
             \/ DeleteFails(p) \/ UnlinkRecurses(p) \/ EnterDir(p)
      PROVE  enc' = enc /\ from' = from
  BY <1>7 DEF ListRefused, ListLine, Unlisted, Vanished, Skip, LookAt, VisitDir, DirUnread,
              EntryFails, StaysFile, LookupFails, LookupGone, DeleteFails, UnlinkRecurses, EnterDir
<1> QED  BY <1>1, <1>2, <1>3, <1>4, <1>5, <1>6, <1>7 DEF DsNext

\* Between two directories a run only goes on, or is forgotten.
GoesOn ==
  \/ run'.scanned = {}
  \/ /\ run'.scanned = run.scanned /\ run'.opt = run.opt
     /\ run'.items \subseteq run.items /\ run'.line \subseteq run.line \cup run.items

\* The step leaves the deletion nothing in hand.
HandEmpty == run'.at = "delete" => run'.now = Nothing

LEMMA RunGoesOn ==
  ASSUME Healthy, DsNext, ~Change, ~StartRecurse, \A l \in Lines : ~ListDir(l),
         \A p \in Rels : ~LookupGone(p)
  PROVE  GoesOn /\ twice' = twice /\ HandEmpty
<1>0. run \in Run  BY DEF Healthy, DataOK
<1>1. ASSUME Same(run'), run'.now = Nothing, twice' = twice
      PROVE  GoesOn /\ twice' = twice /\ HandEmpty
  BY <1>1 DEF Same, GoesOn, HandEmpty
<1>2. CASE StartList
  <2>1. PICK ls \in SUBSET Lines, o \in Opts : run' = [Fresh(o) EXCEPT !.items = ls]
    BY <1>2 DEF StartList
  <2>2. run'.scanned = {} /\ run'.at = "next"  BY <2>1 DEF Fresh
  <2> QED  BY <1>2, <2>2 DEF StartList, GoesOn, HandEmpty
<1>3. CASE Done \/ \E p \in Rels : UnlinkRecurses(p)
  BY <1>3, NoRunIs DEF Done, UnlinkRecurses, GoesOn, HandEmpty
<1>4. CASE ReadFails
  <2>1. Same(run') /\ run'.now = Nothing  BY <1>4, EndedIs
  <2> QED  BY <1>1, <1>4, <2>1 DEF ReadFails
<1>5. CASE LeaveDir
  BY <1>1, <1>5, LeftIs
<1>6. CASE ScanDone
  <2>1. /\ run'.scanned = run.scanned /\ run'.opt = run.opt /\ run'.items = run.items
        /\ run'.line = run.line /\ run'.now = Nothing /\ twice' = twice
    BY <1>6, ScannedIs
  <2> QED  BY <2>1 DEF GoesOn, HandEmpty
<1>7. CASE FinishDir
  <2>1. PICK e \in BOOLEAN : run' = Left(e) /\ twice' = twice  BY <1>7, FinishTrees
  <2>2. Same(run') /\ run'.now = Nothing  BY <1>7, <2>1, FinishedIs
  <2> QED  BY <1>1, <2>1, <2>2
<1>8. CASE DeleteDone
  <2>1. PICK e : run' = [run EXCEPT !.at = "next", !.stack = <<>>, !.err = e]
    BY <1>8 DEF DeleteDone
  <2>2. /\ run'.at = "next" /\ run'.scanned = run.scanned /\ run'.opt = run.opt
        /\ run'.items = run.items /\ run'.line = run.line
    BY <1>0, <2>1 DEF Run
  <2> QED  BY <1>8, <2>2 DEF DeleteDone, GoesOn, HandEmpty
<1>9. ASSUME NEW l \in Lines, ListRefused(l) \/ ListLine(l)
      PROVE  GoesOn /\ twice' = twice /\ HandEmpty
  <2>1. run.at = "next" /\ twice' = twice /\ l \in run.items
    BY <1>9 DEF ListRefused, ListLine, Reading
  <2>2. \/ run' = [run EXCEPT !.items = @ \ {l}, !.err = TRUE]
        \/ run' = [run EXCEPT !.items = @ \ {l}, !.line = {l}]
    BY <1>9 DEF ListRefused, ListLine
  <2>3. /\ run'.at = run.at /\ run'.scanned = run.scanned /\ run'.opt = run.opt
        /\ run'.items = run.items \ {l} /\ (run'.line = run.line \/ run'.line = {l})
    BY <1>0, <2>2 DEF Run
  <2> QED  BY <2>1, <2>3 DEF GoesOn, HandEmpty
<1>10. ASSUME NEW l \in Lines, ListFile(l)  PROVE GoesOn /\ twice' = twice /\ HandEmpty
  BY <1>10, ListFileIs DEF GoesOn, HandEmpty
<1>11. ASSUME NEW s \in Sources,
              Unlisted(s) \/ Vanished(s) \/ Skip(s) \/ VisitFile(s) \/ DirUnread(s)
       PROVE  GoesOn /\ twice' = twice /\ HandEmpty
  <2>1. twice' = twice /\ \E e \in BOOLEAN : Passes(run', s, e)  BY <1>11, ScanTaken
  <2> QED  BY <1>1, <2>1 DEF Passes
<1>12. ASSUME NEW p \in Rels,
              \/ EntryFails(p) \/ StaysFile(p) \/ LookupFails(p)
              \/ DeleteFile(p) \/ DeleteFails(p)
       PROVE  GoesOn /\ twice' = twice /\ HandEmpty
  <2>1. twice' = twice /\ \E e \in BOOLEAN : Passes(run', p, e)  BY <1>12, DeleteTaken
  <2> QED  BY <1>1, <2>1 DEF Passes
<1>13. ASSUME NEW p, (p \in Sources /\ VisitDir(p)) \/ (p \in Rels /\ EnterDir(p))
       PROVE  GoesOn /\ twice' = twice /\ HandEmpty
  <2>1. twice' = twice /\ Same(run') /\ run'.now = Nothing  BY <1>13, EnterIs DEF Enters
  <2> QED  BY <1>1, <2>1
<1>14. ASSUME NEW s \in Sources, LookAt(s)  PROVE GoesOn /\ twice' = twice /\ HandEmpty
  <2>1. /\ run.at = "scan" /\ twice' = twice
        /\ run' = [run EXCEPT !.now = [path |-> s, as |-> plain[s]]]
    BY <1>14 DEF LookAt, Scanning
  <2>2. /\ run'.at = run.at /\ run'.scanned = run.scanned /\ run'.opt = run.opt
        /\ run'.items = run.items /\ run'.line = run.line
    BY <1>0, <2>1 DEF Run
  <2> QED  BY <2>1, <2>2 DEF GoesOn, HandEmpty
<1> QED
  BY <1>2, <1>3, <1>4, <1>5, <1>6, <1>7, <1>8, <1>9, <1>10, <1>11, <1>12, <1>13, <1>14 DEF DsNext

LEMMA ScannedGrows ==
  ASSUME Healthy, [DsNext]_dsVars, ~StartRecurse, \A l \in Lines : ~ListDir(l)
  PROVE  GoesOn /\ twice' = twice
<1>0. run \in Run  BY DEF Healthy, DataOK
<1>1. CASE UNCHANGED dsVars  BY <1>1 DEF dsVars, GoesOn
<1>2. CASE Change
  <2>1. PICK s \in Sources : run' = run \/ run' = Seen(s)  BY <1>2 DEF Change
  <2>2. run'.scanned = run.scanned /\ run'.opt = run.opt /\ run'.items = run.items
        /\ run'.line = run.line
    BY <1>0, <2>1, SeenIs
  <2> QED  BY <1>2, <2>2 DEF Change, GoesOn
<1>3. ASSUME NEW p \in Rels, LookupGone(p)  PROVE GoesOn /\ twice' = twice
  <2>1. twice' = twice /\ run' = [run EXCEPT !.now = [path |-> p, as |-> "file"]]
    BY <1>3 DEF LookupGone
  <2>2. /\ run'.scanned = run.scanned /\ run'.opt = run.opt
        /\ run'.items = run.items /\ run'.line = run.line
    BY <1>0, <2>1 DEF Run
  <2> QED  BY <2>1, <2>2 DEF GoesOn
<1>4. CASE DsNext /\ ~Change /\ \A p \in Rels : ~LookupGone(p)
  BY <1>4, RunGoesOn
<1> QED  BY <1>1, <1>2, <1>3, <1>4

LEMMA StepCuts == Healthy /\ CutsAreTrim /\ [DsNext]_dsVars => CutsAreTrim'
<1> SUFFICES ASSUME Healthy, CutsAreTrim, [DsNext]_dsVars, ~twice'
             PROVE  \A d \in run'.scanned : d.cut = Trim
  BY DEF CutsAreTrim
<1>0. DataOK /\ run \in Run  BY DEF Healthy, DataOK
<1>1. CASE run'.scanned \subseteq run.scanned /\ twice' = twice
  BY <1>1 DEF CutsAreTrim
<1>2. CASE StartRecurse
  <2>1. PICK s \in Roots, o \in Opts : \/ run' = [Fresh(o) EXCEPT !.err = TRUE]
                                       \/ BeginDir(Fresh(o), s, Trim) \/ NoDir(Fresh(o), s, Trim)
    BY <1>2 DEF StartRecurse
  <2>2. s \in Sources /\ Trim \in Nat /\ Fresh(o) \in Run /\ Fresh(o).scanned = {}
    BY ScanParams, FreshIs
  <2>3. CASE run' = [Fresh(o) EXCEPT !.err = TRUE]
    <3>1. run'.scanned = {}  BY <2>2, <2>3 DEF Run
    <3> QED  BY <3>1
  <2>4. CASE BeginDir(Fresh(o), s, Trim) \/ NoDir(Fresh(o), s, Trim)
    <3>1. run'.scanned \subseteq {} \cup {[root |-> s, cut |-> Trim]}
      BY <1>0, <2>2, <2>4, DirScanned
    <3> QED  BY <3>1
  <2> QED  BY <2>1, <2>3, <2>4
<1>3. ASSUME NEW l \in Lines, ListDir(l)  PROVE \A d \in run'.scanned : d.cut = Trim
  <2>1. PICK cut : cut = Trim + SecondTrim(l)  OBVIOUS
  <2>2. /\ run.at = "next" /\ CalcTrim(l.path) # NoTrim /\ SecondTrim(l) # NoTrim
        /\ BeginDir(Rest, l.path, cut) \/ NoDir(Rest, l.path, cut)
        /\ twice' = (twice \/ cut > Trim) /\ cut \in Nat
    BY <1>3, <2>1, ListDirIs
  <2>3. /\ l.path \in Sources /\ Trim \in Nat  BY LineIs, ScanParams
  <2>4. cut = Trim
    <3>1. SecondTrim(l) \in Nat
      <4>1. Trim <= Len(l.path) /\ l.path \in Path /\ Trim \in 0..Len(l.path)
        <5>1. Trim <= Len(l.path) /\ l.path \in Path  BY <2>2, LineIs, CalcTrimIs
        <5> QED  BY <5>1, <2>3 DEF Path
      <4>2. Drop(l.path, Trim) \in Path  BY <4>1, DropIs
      <4> QED  BY <2>2, <2>3, <4>2, CalcTrimIs DEF SecondTrim
    <3>2. ~(cut > Trim)  BY <2>2
    <3> QED  BY <3>1, <3>2, <2>1, <2>3
  <2>5. Rest \in Run /\ Rest.scanned = run.scanned  BY <2>2, RestIs
  <2>6. run'.scanned \subseteq run.scanned \cup {[root |-> l.path, cut |-> cut]}
    BY <1>0, <2>2, <2>3, <2>5, DirScanned
  <2>7. \A d \in run.scanned : d.cut = Trim  BY <2>2 DEF CutsAreTrim
  <2> QED  BY <2>4, <2>6, <2>7
<1>4. CASE ~StartRecurse /\ \A l \in Lines : ~ListDir(l)
  BY <1>1, <1>4, ScannedGrows DEF GoesOn
<1> QED  BY <1>2, <1>3, <1>4

LEMMA TwiceStays == Healthy /\ [DsNext]_dsVars /\ ~twice' => ~twice
<1> SUFFICES ASSUME Healthy, [DsNext]_dsVars, ~twice'  PROVE ~twice
  OBVIOUS
<1>1. CASE StartRecurse  BY <1>1 DEF StartRecurse
<1>2. ASSUME NEW l \in Lines, ListDir(l)  PROVE ~twice
  BY <1>2, ListDirIs
<1>3. CASE ~StartRecurse /\ \A l \in Lines : ~ListDir(l)
  BY <1>3, ScannedGrows
<1> QED  BY <1>1, <1>2, <1>3

LEMMA StepInPlace == Healthy /\ CutsAreTrim /\ InPlace /\ [DsNext]_dsVars => InPlace'
<1> SUFFICES ASSUME Healthy, CutsAreTrim, InPlace, [DsNext]_dsVars, ~twice',
                    NEW q \in Rels, enc'[q] = "file"
             PROVE  from'[q] \in Sources /\ Trim <= Len(from'[q]) /\ Drop(from'[q], Trim) = q
  BY DEF InPlace
<1>1. ~twice  BY TwiceStays
<1>2. ASSUME enc[q] = "file", from'[q] = from[q]
      PROVE  from'[q] \in Sources /\ Trim <= Len(from'[q]) /\ Drop(from'[q], Trim) = q
  BY <1>1, <1>2 DEF InPlace
<1>3. ASSUME NEW s \in Sources, VisitFile(s)
      PROVE  from'[q] \in Sources /\ Trim <= Len(from'[q]) /\ Drop(from'[q], Trim) = q
  <2>1. /\ run.cut \in 0..Len(s) /\ FilesComeFrom(s, run.cut)
        /\ [root |-> run.root, cut |-> run.cut] \in run.scanned
    BY <1>3, VisitFiles
  <2>2. run.cut = Trim  BY <1>1, <2>1 DEF CutsAreTrim
  <2>3. Trim <= Len(s)  BY <2>1, <2>2, SourcesArePaths DEF Path
  <2> QED  BY <1>2, <2>1, <2>2, <2>3 DEF FilesComeFrom
<1>4. ASSUME NEW l \in Lines, ListFile(l)
      PROVE  from'[q] \in Sources /\ Trim <= Len(from'[q]) /\ Drop(from'[q], Trim) = q
  <2>1. FilesComeFrom(l.path, Trim) /\ l.path \in Sources /\ l.path \in Path
    BY <1>4, ListFiles, LineIs
  <2>2. Trim \in 0..Len(l.path)  BY <1>4, ListFileIs
  <2>3. Trim <= Len(l.path)  BY <2>1, <2>2 DEF Path
  <2> QED  BY <1>2, <2>1, <2>3 DEF FilesComeFrom
<1>5. CASE (\A s \in Sources : ~VisitFile(s)) /\ (\A l \in Lines : ~ListFile(l))
  BY <1>2, <1>5, OtherFiles
<1> QED  BY <1>3, <1>4, <1>5

\* What the user puts in the place of a file that the deletion found gone is noted.
LEMMA ChangeHand == Healthy /\ HandGone /\ Change => HandGone'
<1> SUFFICES ASSUME Healthy, HandGone, Change, (run.at = "delete" /\ run.now # Nothing)'
             PROVE  HandGone'
  BY DEF HandGone
<1>1. PICK s \in Sources, k \in {"none", "file", "dir", "link"} :
        /\ plain' = [q \in Sources |-> IF q = s THEN k
                                       ELSE IF q \in Below(s) THEN "none" ELSE plain[q]]
        /\ run' = IF run.at = "idle" THEN run ELSE Seen(s)
  BY DEF Change
<1>2. run \in Run  BY DEF Healthy, DataOK
<1>3. run' = Seen(s)
  <2>1. run.at = "idle" => run'.at = "idle"  BY <1>1
  <2> QED  BY <1>1, <2>1
<1>4. /\ run.at = "delete" /\ run.now # Nothing /\ run'.now = run.now
      /\ run'.root = run.root /\ run'.cut = run.cut
      /\ run'.since = run.since \cup {s} \cup Below(s)
  BY <1>2, <1>3, SeenIs
<1>5. PICK x : x = SourceOf(run.now.path)  OBVIOUS
<1>6. SourceOf(run.now.path)' = x  BY <1>4, <1>5 DEF SourceOf
<1>7. PlainAt(x) = "none" \/ x \in run.since  BY <1>4, <1>5 DEF HandGone
<1>8. CASE x \in run.since \/ x = s
  BY <1>4, <1>6, <1>8 DEF HandGone
<1>9. CASE PlainAt(x) = "none" /\ x # s
  <2>1. PlainAt(x)' = "none"  BY <1>1, <1>9 DEF PlainAt
  <2>2. PlainAt(SourceOf(run.now.path))' = PlainAt(x)'  BY <1>6 DEF PlainAt
  <2> QED  BY <2>1, <2>2 DEF HandGone
<1> QED  BY <1>7, <1>8, <1>9

LEMMA StepHand == Healthy /\ HandGone /\ [DsNext]_dsVars => HandGone'
<1> SUFFICES ASSUME Healthy, HandGone, [DsNext]_dsVars  PROVE HandGone'
  OBVIOUS
<1>0. DataOK /\ run \in Run  BY DEF Healthy, DataOK
<1>1. CASE UNCHANGED dsVars
  BY <1>1 DEF dsVars, HandGone, PlainAt, SourceOf
<1>2. CASE Change  BY <1>2, ChangeHand
<1>3. CASE StartRecurse
  <2>1. PICK s \in Roots, o \in Opts : \/ run' = [Fresh(o) EXCEPT !.err = TRUE]
                                       \/ BeginDir(Fresh(o), s, Trim) \/ NoDir(Fresh(o), s, Trim)
    BY <1>3 DEF StartRecurse
  <2>2. s \in Sources /\ Trim \in Nat /\ Fresh(o) \in Run /\ Fresh(o).at = "next"
    BY ScanParams, FreshIs
  <2>3. run' = [Fresh(o) EXCEPT !.err = TRUE] => run'.at = "next"  BY <2>2 DEF Run
  <2>4. run'.at \in {"scan", "next"}  BY <1>0, <2>1, <2>2, <2>3, DirScanned
  <2> QED  BY <2>4 DEF HandGone
<1>4. ASSUME NEW l \in Lines, ListDir(l)  PROVE HandGone'
  <2>1. PICK cut : cut = Trim + SecondTrim(l)  OBVIOUS
  <2>2. /\ run.at = "next" /\ cut \in Nat
        /\ BeginDir(Rest, l.path, cut) \/ NoDir(Rest, l.path, cut)
    BY <1>4, <2>1, ListDirIs
  <2>3. Rest \in Run /\ l.path \in Sources  BY <2>2, RestIs, LineIs
  <2>4. run'.at \in {"scan", "next"}  BY <1>0, <2>2, <2>3, DirScanned
  <2> QED  BY <2>4 DEF HandGone
<1>5. ASSUME NEW p \in Rels, LookupGone(p)  PROVE HandGone'
  <2>1. /\ run' = [run EXCEPT !.now = [path |-> p, as |-> "file"]] /\ plain' = plain
        /\ PlainAt(SourceOf(p)) = "none"
    BY <1>5 DEF LookupGone, Gone
  <2>2. run'.now.path = p /\ run'.root = run.root /\ run'.cut = run.cut  BY <1>0, <2>1 DEF Run
  <2>3. SourceOf(run.now.path)' = SourceOf(p)  BY <2>2 DEF SourceOf
  <2>4. PlainAt(SourceOf(run.now.path))' = "none"  BY <2>1, <2>3 DEF PlainAt
  <2> QED  BY <2>4 DEF HandGone
<1>6. CASE /\ DsNext /\ ~Change /\ ~StartRecurse /\ \A l \in Lines : ~ListDir(l)
           /\ \A p \in Rels : ~LookupGone(p)
  BY <1>6, RunGoesOn DEF HandEmpty, HandGone
<1> QED  BY <1>1, <1>2, <1>3, <1>4, <1>5, <1>6

LEMMA OnlyGoneTaken ==
  ASSUME OneTop, Healthy, CutsAreTrim, InPlace, HandGone, [DsNext]_dsVars, ~twice,
         NEW p \in Rels, enc[p] = "file", enc'[p] = "none"
  PROVE  plain[from[p]] = "none" \/ from[p] \in run.since
<1>1. ASSUME NEW s \in Sources  PROVE ~VisitFile(s)
  BY VisitFiles DEF NoneLost
<1>2. ASSUME NEW l \in Lines  PROVE ~ListFile(l)
  BY ListFiles DEF NoneLost
<1>3. InHand("delete", p, "file")
  <2>1. DeleteFile(p)  BY <1>1, <1>2, OtherFiles
  <2> QED  BY <2>1 DEF DeleteFile
<1>4. PlainAt(SourceOf(p)) = "none" \/ SourceOf(p) \in run.since
  BY <1>3 DEF HandGone, InHand, Nothing
<1>5. /\ run.root \in Sources /\ run.cut <= Len(run.root)
      /\ [root |-> run.root, cut |-> run.cut] \in run.scanned
  BY <1>3, EntryIs
<1>6. run.cut = Trim  BY <1>5 DEF CutsAreTrim
<1>7. from[p] \in Sources /\ Trim <= Len(from[p]) /\ Drop(from[p], Trim) = p
  BY DEF InPlace
<1>8. PICK s \in Path : s = from[p]  BY <1>7, SourcesArePaths
<1>9. PICK r \in Path : r = run.root  BY <1>5, SourcesArePaths
<1>10. Trim \in 0..Len(s) /\ Trim \in 0..Len(r)
  BY <1>5, <1>6, <1>7, <1>8, <1>9, ScanParams DEF Path
<1>11. SubSeq(r, 1, Trim) = SubSeq(s, 1, Trim)
  BY <1>5, <1>6, <1>7, <1>8, <1>9 DEF OneTop
<1>12. ASSUME NEW i \in 1..Trim  PROVE r[i] = s[i]
  <2>1. SubSeq(r, 1, Trim)[i] = r[i] /\ SubSeq(s, 1, Trim)[i] = s[i]  BY <1>10 DEF Path
  <2> QED  BY <2>1, <1>11
<1>13. SubSeq(r, 1, Trim) \o Drop(s, Trim) = s
  BY <1>10, <1>12, PutBack DEF Path
<1>14. SourceOf(p) = s  BY <1>6, <1>7, <1>8, <1>9, <1>13 DEF SourceOf
<1> QED  BY <1>4, <1>7, <1>8, <1>14 DEF PlainAt

\* Where no two plain files share a place under dstdir, --delete removes no
\* encrypted file while the plain file it was made from is there, whatever the
\* user changes at any time, unless that was put back between file_delete's
\* lookup of it and the unlink (real_dir_encrypt rebuilds the plain name from
\* what was cut off, file_delete).
THEOREM BackedIsKept ==
  ASSUME OneTop
  PROVE  DsSpec => DeleteKeepsBacked
<1>1. DsInit => CutsAreTrim /\ InPlace /\ HandGone
  <2>1. DsInit => /\ run.scanned = {} /\ run.now = Nothing
                  /\ \A q \in Rels : enc[q] # "file"
    BY NoRunIs DEF DsInit, Empty
  <2> QED  BY <2>1 DEF CutsAreTrim, InPlace, HandGone
<1>2. Healthy /\ CutsAreTrim /\ InPlace /\ HandGone /\ [DsNext]_dsVars
        => CutsAreTrim' /\ InPlace' /\ HandGone'
  BY StepCuts, StepInPlace, StepHand
<1>3. Healthy /\ CutsAreTrim /\ InPlace /\ HandGone /\ [DsNext]_dsVars
        => [\A p \in Rels : enc[p] = "file" /\ enc'[p] = "none" /\ ~twice
                              => plain[from[p]] = "none" \/ from[p] \in run.since]_dsVars
  BY OnlyGoneTaken
<1> QED  BY <1>1, <1>2, <1>3, AlwaysHealthy, PTL DEF DsSpec, DeleteKeepsBacked

-----------------------------------------------------------------------------
(* --delete leaves nothing that is gone, but for what failures leave that the *)
(* scan of the encrypted tree says nothing of.                                *)

\* The scan of the encrypted tree will come to q, or has failed.
Pending(r, q) ==
  \E i \in 1..Len(r.stack) :
    \/ r.stack[i].err
    \/ i > 1 /\ r.stack[i].dir = q
    \/ \E t \in r.stack[i].todo : t \in Prefixes(q)

Awaits(r, d, q) ==
  /\ d = [root |-> r.root, cut |-> r.cut]
  /\ r.at = "scan" \/ (r.at = "delete" /\ Pending(r, q))

\* Nothing is in the place, or it is stuck there, or its turn is to come.
Clear(t, r, d, q) == t[q] = "none" \/ Reaches(r.stuck, q) \/ Awaits(r, d, q)

Cleared ==
  run.opt.del /\ ~run.err /\ ~twice =>
    \A d \in run.scanned : \A s \in Below(d.root) :
      plain[s] = "none" /\ s \notin run.moved => Clear(enc, run, d, Drop(s, d.cut))

\* With --trim there is only the argument of -r to scan: a directory of a list
\* would be trimmed twice.
Single ==
  ~twice /\ Trim > 0 =>
    \A d, e \in run.scanned : d = e /\ run.items = {} /\ run.line = {}

LEMMA StepSingle == Healthy /\ Single /\ [DsNext]_dsVars => Single'
<1> SUFFICES ASSUME Healthy, Single, [DsNext]_dsVars, ~twice', Trim > 0,
                    NEW d \in run'.scanned, NEW e \in run'.scanned
             PROVE  d = e /\ run'.items = {} /\ run'.line = {}
  BY DEF Single
<1>0. DataOK /\ run \in Run /\ ~twice  BY TwiceStays DEF Healthy, DataOK
<1>1. CASE StartRecurse
  <2>1. PICK s \in Roots, o \in Opts : \/ run' = [Fresh(o) EXCEPT !.err = TRUE]
                                       \/ BeginDir(Fresh(o), s, Trim) \/ NoDir(Fresh(o), s, Trim)
    BY <1>1 DEF StartRecurse
  <2>2. s \in Sources /\ Trim \in Nat  BY ScanParams
  <2>3. PICK r \in Run : r = Fresh(o) /\ r.scanned = {} /\ r.items = {} /\ r.line = {}
    BY ScanParams, FreshIs
  <2>4. Frame(plain, s) \in Level
    <3>1. s \in Prefixes(s)  BY <2>2, SourcesArePaths, PrefixOrder, PrefixIs DEF Path
    <3> QED  BY <1>0, <2>2, <3>1, PlainFrame
  <2>5. CASE run' = [r EXCEPT !.err = TRUE] \/ NoDir(r, s, Trim)
    <3>1. run'.scanned = {}  BY <2>2, <2>3, <2>5, RefusedIs DEF Run
    <3> QED  BY <3>1
  <2>6. CASE BeginDir(r, s, Trim)
    BY <2>2, <2>3, <2>4, <2>6, BegunIs
  <2> QED  BY <2>1, <2>3, <2>5, <2>6
<1>2. ASSUME NEW l \in Lines, ListDir(l)  PROVE FALSE
  <2>1. PICK cut : cut = Trim + SecondTrim(l)  OBVIOUS
  <2>2. SecondTrim(l) # NoTrim /\ twice' = (twice \/ cut > Trim)
    BY <1>2, <2>1, ListDirIs
  <2>3. ~(cut > Trim)  BY <2>2
  <2>4. Trim \in Nat /\ SecondTrim(l) = Trim
    <3>1. Trim \in Nat /\ SecondTrim(l) \in {Trim, NoTrim}  BY ScanParams DEF SecondTrim, CalcTrim
    <3> QED  BY <3>1, <2>2
  <2> QED  BY <2>1, <2>3, <2>4
<1>3. CASE ~StartRecurse /\ \A l \in Lines : ~ListDir(l)
  <2>1. run'.scanned = run.scanned /\ run'.items \subseteq run.items
        /\ run'.line \subseteq run.line \cup run.items
    BY <1>3, ScannedGrows DEF GoesOn
  <2>2. \A x, y \in run.scanned : x = y /\ run.items = {} /\ run.line = {}
    BY <1>0 DEF Single
  <2> QED  BY <2>1, <2>2
<1> QED  BY <1>1, <1>2, <1>3

\* Steps that leave what the directories scanned wait for.
LEMMA KeepsCleared ==
  ASSUME Cleared, plain' = plain, run'.scanned = run.scanned, run'.moved = run.moved,
         run'.opt = run.opt, run.err => run'.err, ~twice' => ~twice,
         \A d \in run.scanned : \A s \in Below(d.root) :
           /\ run.opt.del /\ ~run'.err /\ ~twice /\ plain[s] = "none" /\ s \notin run.moved
           /\ Clear(enc, run, d, Drop(s, d.cut))
           => Clear(enc', run', d, Drop(s, d.cut))
  PROVE  Cleared'
BY DEF Cleared

\* The places of what is below the directory that is scanned.
LEMMA BackIs ==
  ASSUME Healthy, run.at \in {"scan", "delete"}, NEW s \in Below(run.root)
  PROVE  /\ s \in Sources /\ Drop(s, run.cut) \in Rels /\ SourceOf(Drop(s, run.cut)) = s
         /\ Drop(run.root, run.cut) \in Above(Drop(s, run.cut))
<1>1. /\ run \in Run /\ run.root \in Sources /\ [root |-> run.root, cut |-> run.cut] \in run.scanned
      /\ \A d \in run.scanned : d.cut <= Len(d.root)
  BY DEF Healthy, DataOK, RunOK
<1>2. run.cut \in Nat /\ run.cut <= Len(run.root)  BY <1>1 DEF Run
<1>3. PICK root \in Path : root = run.root  BY <1>1, SourcesArePaths
<1>4. PICK n \in Nat : n = run.cut  BY <1>2
<1>5. s \in Sources /\ s \in Path /\ root \in Prefixes(s) /\ root # s
  BY <1>1, <1>3, BelowIs, SourcesArePaths DEF Above
<1>6. n \in 0..Len(root) /\ n <= Len(root)  BY <1>2, <1>3, <1>4 DEF Path
<1>7. Len(root) <= Len(s) /\ \A i \in 1..Len(root) : root[i] = s[i]  BY <1>5, PrefixIs
<1>8. n \in 0..Len(s)  BY <1>5, <1>6, <1>7 DEF Path
<1>9. \A i \in 1..n : root[i] = s[i]  BY <1>6, <1>7 DEF Path
<1>10. SubSeq(root, 1, n) \o Drop(s, n) = s  BY <1>5, <1>6, <1>8, <1>9, PutBack
<1>11. Drop(root, n) \in Prefixes(Drop(s, n)) /\ Drop(root, n) # Drop(s, n)
  BY <1>5, <1>6, DropKeepsOrder
<1>12. Drop(s, n) \in Rels  BY <1>5, RelsArePaths
<1> QED  BY <1>3, <1>4, <1>5, <1>10, <1>11, <1>12 DEF SourceOf, Above

\* file_delete does not find what is gone.
LEMMA AbsentIsGone ==
  ASSUME Healthy, run.at = "delete", NEW s \in Below(run.root), plain[s] = "none"
  PROVE  /\ PlainAt(SourceOf(Drop(s, run.cut))) = "none"
         /\ Gone(Drop(s, run.cut)) \/ Unknown(Drop(s, run.cut))
<1>1. s \in Sources /\ SourceOf(Drop(s, run.cut)) = s  BY BackIs
<1> QED  BY <1>1 DEF Gone, Unknown, PlainAt

\* What is in the plain tree has nothing above it that is not there.
LEMMA NotUnder ==
  ASSUME Healthy, NEW x \in Sources, plain[x] # "none", NEW s \in Sources, plain[s] = "none"
  PROVE  Drop(s, 0) \notin Prefixes(Drop(x, 0))
<1>1. ASSUME NEW p \in Path  PROVE Drop(p, 0) = p
  <2>1. 0 \in 0..Len(p) /\ Len(p) \in Nat  BY DEF Path
  <2>2. /\ Drop(p, 0) \in Path /\ Len(Drop(p, 0)) = Len(p)
        /\ \A i \in 1..Len(p) : Drop(p, 0)[i] = p[i]
    <3>1. Len(p) - 0 = Len(p) /\ \A i \in 1..Len(p) : 0 + i = i  BY <2>1
    <3> QED  BY <3>1, <2>1, DropIs
  <2> QED  BY <2>2, PathsEqual
<1>2. s \in Path /\ x \in Path /\ s # <<>>  BY SourcesArePaths
<1>3. s \in Prefixes(x) => s = x \/ plain[s] = "dir"
  <2>1. IsTree(plain) /\ DOMAIN plain = Sources  BY DEF Healthy, DataOK
  <2> QED  BY <2>1, <1>2 DEF IsTree, Above
<1> QED  BY <1>1, <1>2, <1>3

\* A directory begun, or refused: nothing is put in the place of what is gone.
LEMMA DirBegunCleared ==
  ASSUME Healthy, NEW r \in Run, NEW root \in Sources, NEW cut \in Nat,
         BeginDir(r, root, cut) \/ NoDir(r, root, cut),
         r.opt.del /\ ~r.err /\ ~twice' =>
           \A d \in r.scanned :
             /\ cut = 0 /\ d.cut = 0
             /\ \A s \in Below(d.root) : plain[s] = "none" /\ s \notin r.moved =>
                  enc[Drop(s, d.cut)] = "none" \/ Reaches(r.stuck, Drop(s, d.cut))
  PROVE  Cleared'
<1>1. DataOK  BY DEF Healthy
<1>2. /\ \A q \in Rels : enc[q] = "none" /\ enc'[q] # "none" => q \in Prefixes(Drop(root, cut))
      /\ plain' = plain
  BY <1>1, DirTrees
<1>3. CASE BeginDir(r, root, cut)
  <2>1. Frame(plain, root) \in Level
    <3>1. root \in Prefixes(root)  BY SourcesArePaths, PrefixOrder, PrefixIs DEF Path
    <3> QED  BY <1>1, <3>1, PlainFrame
  <2>2. /\ run'.at = "scan" /\ run'.root = root /\ run'.cut = cut /\ run'.opt = r.opt
        /\ run'.err = r.err /\ run'.moved = r.moved /\ run'.stuck = r.stuck
        /\ run'.scanned = r.scanned \cup {[root |-> root, cut |-> cut]}
    BY <1>3, <2>1, BegunIs
  <2>3. plain[root] = "dir"  BY <1>3 DEF BeginDir
  <2>4. SUFFICES ASSUME r.opt.del, ~r.err, ~twice', NEW d \in run'.scanned, NEW s \in Below(d.root),
                        plain[s] = "none", s \notin r.moved
                 PROVE  Clear(enc', run', d, Drop(s, d.cut))
    BY <1>2, <2>2 DEF Cleared
  <2>5. CASE d = [root |-> root, cut |-> cut]
    BY <2>2, <2>5 DEF Awaits, Clear
  <2>6. CASE d \in r.scanned
    <3>1. /\ cut = 0 /\ d.cut = 0
          /\ enc[Drop(s, d.cut)] = "none" \/ Reaches(r.stuck, Drop(s, d.cut))
      BY <2>4, <2>6
    <3>2. s \in Sources  BY DEF Below
    <3>3. Drop(s, 0) \in Rels  BY <3>2, RelsArePaths
    <3>4. Drop(s, 0) \notin Prefixes(Drop(root, 0))  BY <2>3, <2>4, <3>2, NotUnder
    <3>5. enc[Drop(s, 0)] = "none" => enc'[Drop(s, 0)] = "none"  BY <1>2, <3>1, <3>3, <3>4
    <3> QED  BY <2>2, <3>1, <3>5 DEF Clear
  <2> QED  BY <2>2, <2>5, <2>6
<1>4. CASE NoDir(r, root, cut)
  <2>1. run'.err  BY <1>4, RefusedIs
  <2> QED  BY <2>1 DEF Cleared
<1> QED  BY <1>3, <1>4

\* Between two directories nothing is waited for.
LEMMA NextCleared ==
  ASSUME Cleared, run.at \notin {"scan", "delete"}, run.opt.del, ~run.err, ~twice,
         NEW d \in run.scanned, NEW s \in Below(d.root), plain[s] = "none", s \notin run.moved
  PROVE  enc[Drop(s, d.cut)] = "none" \/ Reaches(run.stuck, Drop(s, d.cut))
BY DEF Cleared, Awaits, Clear

LEMMA StartCleared == Healthy /\ StartRecurse => Cleared'
<1> SUFFICES ASSUME Healthy, StartRecurse PROVE Cleared'  OBVIOUS
<1>1. PICK s \in Roots, o \in Opts : \/ run' = [Fresh(o) EXCEPT !.err = TRUE]
                                     \/ BeginDir(Fresh(o), s, Trim) \/ NoDir(Fresh(o), s, Trim)
  BY DEF StartRecurse
<1>2. s \in Sources /\ Trim \in Nat /\ Fresh(o) \in Run /\ Fresh(o).scanned = {}
  BY ScanParams, FreshIs
<1>3. CASE run' = [Fresh(o) EXCEPT !.err = TRUE]
  <2>1. run'.scanned = {}  BY <1>2, <1>3 DEF Run
  <2> QED  BY <2>1 DEF Cleared
<1>4. CASE BeginDir(Fresh(o), s, Trim) \/ NoDir(Fresh(o), s, Trim)
  BY <1>2, <1>4, DirBegunCleared
<1> QED  BY <1>1, <1>3, <1>4

LEMMA ListDirCleared ==
  ASSUME Healthy, CutsAreTrim, Cleared, NEW l \in Lines, ListDir(l)
  PROVE  Cleared'
<1>1. PICK cut : cut = Trim + SecondTrim(l)  OBVIOUS
<1>2. /\ run.at = "next" /\ SecondTrim(l) # NoTrim /\ cut \in Nat
      /\ BeginDir(Rest, l.path, cut) \/ NoDir(Rest, l.path, cut)
      /\ twice' = (twice \/ cut > Trim)
  BY <1>1, ListDirIs
<1>3. l.path \in Sources  BY LineIs
<1>4. /\ Rest \in Run /\ Rest.scanned = run.scanned /\ Rest.err = run.err
      /\ Rest.moved = run.moved /\ Rest.opt = run.opt /\ Rest.stuck = run.stuck
  BY <1>2, RestIs
<1>5. ASSUME ~twice'  PROVE ~twice /\ Trim = 0 /\ cut = 0
  <2>1. ~twice /\ ~(cut > Trim)  BY <1>2, <1>5
  <2>2. Trim \in Nat /\ SecondTrim(l) \in {Trim, NoTrim}  BY ScanParams DEF SecondTrim, CalcTrim
  <2> QED  BY <2>1, <2>2, <1>1, <1>2
<1>6. ASSUME run.opt.del, ~run.err, ~twice', NEW d \in run.scanned
      PROVE  /\ cut = 0 /\ d.cut = 0
             /\ \A s \in Below(d.root) : plain[s] = "none" /\ s \notin run.moved =>
                  enc[Drop(s, d.cut)] = "none" \/ Reaches(run.stuck, Drop(s, d.cut))
  BY <1>2, <1>5, <1>6, NextCleared DEF CutsAreTrim
<1> QED  BY <1>2, <1>3, <1>4, <1>6, DirBegunCleared

\* A file encrypted to its own place, the directories of which are there.
LEMMA FileCleared ==
  ASSUME Healthy, NEW x \in Sources, NEW s \in Sources, plain[s] = "none",
         enc' = enc \/ plain[x] # "none",
         \A q \in Rels : enc[q] = "none" /\ enc'[q] # "none" => q \in Prefixes(Drop(x, 0)),
         enc[Drop(s, 0)] = "none"
  PROVE  enc'[Drop(s, 0)] = "none"
<1>1. Drop(s, 0) \in Rels  BY RelsArePaths
<1>2. plain[x] # "none" => Drop(s, 0) \notin Prefixes(Drop(x, 0))  BY NotUnder
<1> QED  BY <1>1, <1>2

LEMMA ListFileCleared ==
  ASSUME Healthy, CutsAreTrim, Single, Cleared, NEW l \in Lines, ListFile(l)
  PROVE  Cleared'
<1>1. /\ run.at = "next" /\ run.line = {l} /\ UNCHANGED <<plain, twice>>
      /\ run'.err = run.err \/ run'.err
      /\ run'.scanned = run.scanned /\ run'.moved = run.moved /\ run'.opt = run.opt
      /\ run'.stuck = run.stuck
  BY ListFileIs
<1>2. /\ \A q \in Rels : enc[q] = "none" /\ enc'[q] # "none" => q \in Prefixes(Drop(l.path, Trim))
      /\ enc' = enc \/ plain[l.path] # "none"
  BY ListFiles
<1>3. ASSUME NEW d \in run.scanned, NEW s \in Below(d.root), ~twice, plain[s] = "none",
             Clear(enc, run, d, Drop(s, d.cut))
      PROVE  Clear(enc', run', d, Drop(s, d.cut))
  <2>1. CASE Reaches(run.stuck, Drop(s, d.cut))
    BY <1>1, <2>1 DEF Clear
  <2>2. CASE enc[Drop(s, d.cut)] = "none"
    <3>1. d.cut = Trim /\ Trim = 0
      <4>1. ~(Trim > 0) /\ d.cut = Trim  BY <1>1, <1>3 DEF Single, CutsAreTrim
      <4> QED  BY <4>1, ScanParams
    <3>2. s \in Sources /\ l.path \in Sources  BY LineIs DEF Below
    <3>3. enc'[Drop(s, 0)] = "none"  BY <1>2, <1>3, <2>2, <3>1, <3>2, FileCleared
    <3> QED  BY <3>1, <3>3 DEF Clear
  <2> QED  BY <1>1, <1>3, <2>1, <2>2 DEF Clear, Awaits
<1> QED  BY <1>1, <1>3, KeepsCleared

LEMMA VisitCleared ==
  ASSUME Healthy, CutsAreTrim, Single, Cleared, NEW x \in Sources, VisitFile(x)
  PROVE  Cleared'
<1>1. /\ \A q \in Rels : enc[q] = "none" /\ enc'[q] # "none" => q \in Prefixes(Drop(x, run.cut))
      /\ enc' = enc \/ plain[x] # "none"
      /\ plain' = plain /\ twice' = twice /\ run.at = "scan"
      /\ [root |-> run.root, cut |-> run.cut] \in run.scanned
  BY VisitFiles
<1>2. Same(run')  BY ScanTaken DEF Passes
<1>3. ASSUME NEW d \in run.scanned, NEW s \in Below(d.root), ~twice, plain[s] = "none",
             Clear(enc, run, d, Drop(s, d.cut))
      PROVE  Clear(enc', run', d, Drop(s, d.cut))
  <2>1. CASE d = [root |-> run.root, cut |-> run.cut]
    BY <1>1, <1>2, <2>1 DEF Awaits, Clear, Same
  <2>2. CASE Reaches(run.stuck, Drop(s, d.cut))
    BY <1>2, <2>2 DEF Clear, Reaches, Same
  <2>3. CASE d # [root |-> run.root, cut |-> run.cut] /\ enc[Drop(s, d.cut)] = "none"
    <3>1. d.cut = Trim /\ Trim = 0 /\ run.cut = Trim
      <4>1. ~(Trim > 0)  BY <1>1, <1>3, <2>3 DEF Single
      <4>2. d.cut = Trim /\ run.cut = Trim  BY <1>1, <1>3 DEF CutsAreTrim
      <4> QED  BY <4>1, <4>2, ScanParams
    <3>2. s \in Sources  BY DEF Below
    <3>3. enc'[Drop(s, 0)] = "none"  BY <1>1, <1>3, <2>3, <3>1, <3>2, FileCleared
    <3> QED  BY <3>1, <3>3 DEF Clear
  <2> QED  BY <1>3, <2>1, <2>2, <2>3 DEF Clear, Awaits
<1> QED  BY <1>1, <1>2, <1>3, KeepsCleared DEF Same

\* As long as the plain directory is being scanned, all of it is waited for.
LEMMA ScanCleared ==
  ASSUME Cleared, run.at = "scan", Same(run'), UNCHANGED <<plain, enc, twice>>
  PROVE  Cleared'
<1>1. \A d, q : Clear(enc, run, d, q) => Clear(enc', run', d, q)
  BY DEF Clear, Awaits, Reaches, Same
<1> QED  BY <1>1, KeepsCleared DEF Same

\* The scan of the encrypted directory begins: what is there is in one of its
\* entries, or below.
LEMMA ScanDoneCleared ==
  ASSUME Healthy, Cleared, ScanDone
  PROVE  Cleared'
<1> DEFINE p == Drop(run.root, run.cut)
<1>1. /\ run.at = "scan" /\ p \in Rels /\ UNCHANGED <<plain, enc, twice>>
      /\ run'.scanned = run.scanned /\ run'.opt = run.opt /\ run'.moved = run.moved
      /\ run'.stuck = run.stuck
      /\ \/ run'.at = "next" /\ run'.err = (run.err \/ Top.err) /\ ~Deletes(Top.err)
         \/ /\ run'.at = "delete" /\ run'.err = run.err
            /\ run'.root = run.root /\ run'.cut = run.cut
            /\ run'.stack = <<Frame(enc, p)>>
         \/ run'.at = "next" /\ run'.err
  BY ScannedIs
<1>2. CASE run'.at = "next"
  <2>1. run.opt.del => run'.err  BY <1>1, <1>2 DEF Deletes
  <2> QED  BY <1>1, <2>1 DEF Cleared
<1>3. CASE /\ run'.at = "delete" /\ run'.err = run.err
           /\ run'.root = run.root /\ run'.cut = run.cut
           /\ run'.stack = <<Frame(enc, p)>>
  <2>1. ASSUME NEW d \in run.scanned, NEW s \in Below(d.root),
               Clear(enc, run, d, Drop(s, d.cut))
        PROVE  Clear(enc', run', d, Drop(s, d.cut))
    <3>1. CASE enc[Drop(s, d.cut)] = "none" \/ Reaches(run.stuck, Drop(s, d.cut))
      BY <1>1, <3>1 DEF Clear
    <3>2. CASE d = [root |-> run.root, cut |-> run.cut] /\ enc[Drop(s, d.cut)] # "none"
      <4>1. PICK q \in Rels : q = Drop(s, run.cut) /\ p \in Above(q)
        BY <1>1, <3>2, BackIs
      <4>2. PICK c \in Children(enc, p) : c \in Prefixes(q)
        <5>1. enc \in [Rels -> Kinds] /\ IsTree(enc)  BY DEF Healthy, DataOK, Tree
        <5>2. Rels \in SUBSET Path /\ \A x \in Rels : Prefixes(x) \subseteq Rels \cup {<<>>}
          BY RelsArePaths
        <5>3. enc[q] # "none"  BY <3>2, <4>1
        <5> HIDE DEF p
        <5> QED  BY <4>1, <5>1, <5>2, <5>3, EntryAbove
      <4>3. PICK f : f = Frame(enc, p)  OBVIOUS
      <4>4. c \in f.todo  BY <4>2, <4>3 DEF Frame
      <4>5. Len(run'.stack) = 1 /\ run'.stack[1] = f  BY <1>3, <4>3
      <4>6. Pending(run', q)  BY <4>2, <4>4, <4>5 DEF Pending
      <4> QED  BY <1>3, <3>2, <4>1, <4>6 DEF Clear, Awaits
    <3> QED  BY <2>1, <3>1, <3>2 DEF Clear, Awaits
  <2> QED  BY <1>1, <1>3, <2>1, KeepsCleared
<1> QED  BY <1>1, <1>2, <1>3

\* A step of the scan of the encrypted tree has to do with what that waits for.
LEMMA DeleteCleared ==
  ASSUME Healthy, Cleared, run.at = "delete", plain' = plain, twice' = twice, Same(run'),
         \A q \in Rels : enc[q] = "none" => enc'[q] = "none",
         \A s \in Below(run.root), q \in Rels :
           /\ plain[s] = "none" /\ q = Drop(s, run.cut) /\ Pending(run, q) /\ enc[q] # "none"
           => enc'[q] = "none" \/ Reaches(run'.stuck, q) \/ Pending(run', q)
  PROVE  Cleared'
<1>1. ASSUME NEW d \in run.scanned, NEW s \in Below(d.root), plain[s] = "none",
             Clear(enc, run, d, Drop(s, d.cut))
      PROVE  Clear(enc', run', d, Drop(s, d.cut))
  <2>1. CASE enc[Drop(s, d.cut)] = "none"
    <3>1. run \in Run  BY DEF Healthy, DataOK
    <3>2. d.cut \in Nat /\ s \in Sources  BY <3>1 DEF Run, Below
    <3>3. Drop(s, d.cut) \in Rels  BY <3>2, RelsArePaths
    <3> QED  BY <2>1, <3>3 DEF Clear
  <2>2. CASE Reaches(run.stuck, Drop(s, d.cut))
    BY <2>2 DEF Clear, Reaches, Same
  <2>3. CASE Awaits(run, d, Drop(s, d.cut)) /\ enc[Drop(s, d.cut)] # "none"
    <3>1. d = [root |-> run.root, cut |-> run.cut] /\ Pending(run, Drop(s, d.cut))
      BY <2>3 DEF Awaits
    <3>2. s \in Below(run.root) /\ d.cut = run.cut  BY <3>1
    <3>3. PICK q \in Rels : q = Drop(s, run.cut)  BY <3>2, BackIs
    <3>4. enc'[q] = "none" \/ Reaches(run'.stuck, q) \/ Pending(run', q)
      BY <1>1, <2>3, <3>1, <3>2, <3>3
    <3> QED  BY <3>1, <3>2, <3>3, <3>4 DEF Clear, Awaits, Same
  <2> QED  BY <1>1, <2>1, <2>2, <2>3 DEF Clear
<1> QED  BY <1>1, KeepsCleared DEF Same

\* An entry passed that is not on the way.
LEMMA LowerPending ==
  ASSUME NEW r, Len(run.stack) \in Nat, Len(r.stack) \in Nat, Len(r.stack) >= Len(run.stack),
         NEW p, \A i \in 1..Len(run.stack) : Lower(run.stack[i], r.stack[i], p),
         NEW q, Pending(run, q), p \notin Prefixes(q)
  PROVE  Pending(r, q)
<1>1. PICK i \in 1..Len(run.stack) : \/ run.stack[i].err
                                     \/ i > 1 /\ run.stack[i].dir = q
                                     \/ \E t \in run.stack[i].todo : t \in Prefixes(q)
  BY DEF Pending
<1>2. i \in 1..Len(r.stack)  OBVIOUS
<1>3. \/ r.stack[i].err \/ (i > 1 /\ r.stack[i].dir = q)
      \/ \E t \in r.stack[i].todo : t \in Prefixes(q)
  BY <1>1 DEF Lower
<1> QED  BY <1>2, <1>3 DEF Pending

\* What stays in the encrypted tree when its entry is passed is not gone, or stuck.
LEMMA PassCleared ==
  ASSUME Healthy, Cleared, NEW p \in Rels,
         EntryFails(p) \/ StaysFile(p) \/ LookupFails(p) \/ DeleteFile(p) \/ DeleteFails(p)
  PROVE  Cleared'
<1>1. /\ run.at = "delete" /\ run.stack # <<>> /\ plain' = plain /\ twice' = twice
      /\ UNCHANGED <<enc, key, from>> \/ DeleteFile(p)
  BY DeleteTaken
<1>2. PICK e \in BOOLEAN : /\ Passes(run', p, e)
                           /\ \/ e \/ p \in run'.stuck \/ enc'[p] = "none"
                              \/ enc[p] = "file" /\ PlainAt(SourceOf(p)) # "none"
  BY DeleteTaken
<1>3. run \in Run /\ Tree(enc) /\ Tree(enc')
  BY DeleteTakenHealthy DEF Healthy, DataOK
<1>4. enc \in [Rels -> Kinds]  BY <1>3 DEF Tree
<1>5. \A q \in Rels : enc[q] = "none" => enc'[q] = "none"
  <2>1. DeleteFile(p) => enc' = [enc EXCEPT ![p] = "none"]  BY DEF DeleteFile
  <2> QED  BY <1>1, <1>4, <2>1
<1>6. Len(run.stack) \in Nat \ {0}  BY <1>1, <1>3, TopIs
<1>7. ASSUME NEW s \in Below(run.root), NEW q \in Rels, plain[s] = "none", q = Drop(s, run.cut),
             Pending(run, q), enc[q] # "none"
      PROVE  enc'[q] = "none" \/ Reaches(run'.stuck, q) \/ Pending(run', q)
  <2>1. CASE p \notin Prefixes(q)
    BY <1>2, <1>6, <1>7, <2>1, LowerPending DEF Passes
  <2>2. CASE e
    <3>1. run'.stack[Len(run.stack)].err /\ Len(run.stack) \in 1..Len(run'.stack)
      BY <1>2, <1>6, <2>2 DEF Passes
    <3> QED  BY <3>1 DEF Pending
  <2>3. CASE p \in Prefixes(q) /\ p \in run'.stuck
    BY <2>3 DEF Reaches
  <2>4. ASSUME NEW t, Tree(t), p \in Prefixes(q), t[p] # "dir", p # q  PROVE t[q] = "none"
    <3>1. p \in Above(q) /\ p # <<>>  BY <2>4 DEF Above, Tree
    <3> QED  BY <2>4, <3>1 DEF Tree, IsTree
  <2>5. CASE p \in Prefixes(q) /\ enc'[p] = "none"
    BY <1>3, <2>4, <2>5
  <2>6. CASE p \in Prefixes(q) /\ enc[p] = "file" /\ PlainAt(SourceOf(p)) # "none"
    <3>1. p # q  BY <1>1, <1>7, <2>6, AbsentIsGone
    <3> QED  BY <1>3, <1>7, <2>4, <2>6, <3>1
  <2> QED  BY <1>2, <2>1, <2>2, <2>3, <2>5, <2>6
<1> QED  BY <1>1, <1>2, <1>5, <1>7, DeleteCleared DEF Passes

LEMMA EnterCleared ==
  ASSUME Healthy, Cleared, NEW p \in Rels, EnterDir(p)
  PROVE  Cleared'
<1>1. /\ UNCHANGED <<plain, enc, twice>> /\ run.stack # <<>> /\ run.at = "delete"
      /\ Enters(run', p, Frame(enc, p))
  BY EnterIs
<1>2. run \in Run /\ DataOK  BY DEF Healthy, DataOK
<1>3. Len(run.stack) \in Nat \ {0}  BY <1>1, <1>2, TopIs
<1>4. PICK n \in Nat : n = Len(run.stack) /\ n > 0  BY <1>3
<1>5. PICK f : f = Frame(enc, p)  OBVIOUS
<1>6. /\ Same(run') /\ Len(run'.stack) = n + 1 /\ run'.stack[n + 1] = f
      /\ \A i \in 1..n : Lower(run.stack[i], run'.stack[i], p)
  BY <1>1, <1>4, <1>5 DEF Enters
<1>7. n + 1 \in 1..Len(run'.stack) /\ n + 1 > 1 /\ Len(run'.stack) \in Nat /\ Len(run'.stack) >= n
  BY <1>4, <1>6
<1>8. ASSUME NEW s \in Below(run.root), NEW q \in Rels, plain[s] = "none", q = Drop(s, run.cut),
             Pending(run, q), enc[q] # "none"
      PROVE  enc'[q] = "none" \/ Reaches(run'.stuck, q) \/ Pending(run', q)
  <2>1. CASE p \notin Prefixes(q)
    BY <1>4, <1>6, <1>7, <1>8, <2>1, LowerPending
  <2>2. CASE p = q
    <3>1. f.dir = q  BY <1>5, <2>2 DEF Frame
    <3> QED  BY <1>6, <1>7, <3>1 DEF Pending
  <2>3. CASE p \in Prefixes(q) /\ p # q
    <3>1. p \in Above(q)  BY <2>3 DEF Above
    <3>2. PICK c \in Children(enc, p) : c \in Prefixes(q)
      <4>1. enc \in [Rels -> Kinds] /\ IsTree(enc)  BY <1>2 DEF DataOK, Tree
      <4>2. Rels \in SUBSET Path /\ \A x \in Rels : Prefixes(x) \subseteq Rels \cup {<<>>}
        BY RelsArePaths
      <4> QED  BY <4>1, <4>2, <1>8, <3>1, EntryAbove
    <3>3. c \in f.todo  BY <1>5, <3>2 DEF Frame
    <3> QED  BY <1>6, <1>7, <3>2, <3>3 DEF Pending
  <2> QED  BY <2>1, <2>2, <2>3
<1> QED  BY <1>1, <1>6, <1>8, DeleteCleared

\* A file found gone is still to be seen to.
LEMMA LookupCleared ==
  ASSUME Healthy, Cleared, NEW p \in Rels, LookupGone(p)
  PROVE  Cleared'
<1>1. /\ run.at = "delete" /\ UNCHANGED <<plain, enc, twice>>
      /\ run' = [run EXCEPT !.now = [path |-> p, as |-> "file"]]
  BY DEF LookupGone, Scanning
<1>2. run \in Run  BY DEF Healthy, DataOK
<1>3. Same(run') /\ run'.stack = run.stack  BY <1>1, <1>2 DEF Same, Run
<1>4. \A q : Pending(run, q) => Pending(run', q)  BY <1>3 DEF Pending
<1> QED  BY <1>1, <1>3, <1>4, DeleteCleared

\* readdir failing: an error on Windows, and on POSIX what it did not list is stuck.
LEMMA ReadCleared ==
  ASSUME Healthy, Cleared, run.at = "delete", ReadFails
  PROVE  Cleared'
<1>1. UNCHANGED <<plain, enc, twice>>  BY DEF ReadFails
<1>2. PICK n \in Nat \ {0} : n = Len(run.stack)  BY EndedIs
<1>3. /\ Top = run.stack[n] /\ Same(run') /\ Len(run'.stack) = n
      /\ \A i \in 1..n : EndedLevel(run.stack[i], run'.stack[i])
      /\ \A i \in 1..n : i # n => run'.stack[i].todo = run.stack[i].todo
      /\ IF windows THEN run'.stack[n].err ELSE Top.todo \subseteq run'.stuck
  BY <1>2, EndedIs
<1>4. ASSUME NEW q, Pending(run, q)  PROVE Reaches(run'.stuck, q) \/ Pending(run', q)
  <2>1. PICK i \in 1..n : \/ run.stack[i].err \/ (i > 1 /\ run.stack[i].dir = q)
                          \/ \E t \in run.stack[i].todo : t \in Prefixes(q)
    BY <1>2, <1>4 DEF Pending
  <2>2. CASE run.stack[i].err \/ (i > 1 /\ run.stack[i].dir = q)
    BY <1>3, <2>1, <2>2 DEF Pending, EndedLevel
  <2>3. CASE i # n /\ \E t \in run.stack[i].todo : t \in Prefixes(q)
    BY <1>3, <2>1, <2>3 DEF Pending
  <2>4. CASE i = n /\ \E t \in run.stack[i].todo : t \in Prefixes(q)
    <3>1. CASE windows
      <4>1. n \in 1..Len(run'.stack) /\ run'.stack[n].err  BY <1>3, <3>1
      <4> QED  BY <4>1 DEF Pending
    <3>2. CASE ~windows
      BY <1>3, <2>4, <3>2 DEF Reaches
    <3> QED  BY <3>1, <3>2
  <2> QED  BY <2>1, <2>2, <2>3, <2>4
<1> QED  BY <1>1, <1>3, <1>4, DeleteCleared

\* A directory that is gone is removed, or the one it is in has an error.
LEMMA FinishCleared ==
  ASSUME Healthy, Cleared, FinishDir
  PROVE  Cleared'
<1>1. /\ plain' = plain /\ twice' = twice /\ Top.dir \in Rels
      /\ \A q \in Rels : q # Top.dir => enc'[q] = enc[q]
      /\ enc' = enc \/ enc'[Top.dir] = "none"
  BY FinishTrees
<1>2. PICK e \in BOOLEAN : run' = Left(e) /\ (~DirKept => e \/ enc'[Top.dir] = "none")
  BY FinishTrees
<1>3. PICK n \in Nat : n = Len(run.stack) /\ n > 1  BY <1>2, FinishedIs
<1>4. /\ run.at = "delete" /\ Top = run.stack[n] /\ Top.todo = {} /\ Same(run')
      /\ Len(run'.stack) = n - 1
      /\ \A i \in 1..Len(run'.stack) : EndedLevel(run.stack[i], run'.stack[i])
      /\ \A i \in 1..Len(run'.stack) : run'.stack[i].todo = run.stack[i].todo
      /\ Top.err \/ e => run'.stack[Len(run'.stack)].err
  BY <1>2, <1>3, FinishedIs
<1>5. PICK m \in Nat : m = Len(run'.stack) /\ m = n - 1 /\ m \in 1..m  BY <1>3, <1>4
<1>6. ASSUME NEW s \in Below(run.root), NEW q \in Rels, plain[s] = "none", q = Drop(s, run.cut),
             Pending(run, q), enc[q] # "none"
      PROVE  enc'[q] = "none" \/ Reaches(run'.stuck, q) \/ Pending(run', q)
  <2>1. PICK i \in 1..n : \/ run.stack[i].err \/ (i > 1 /\ run.stack[i].dir = q)
                          \/ \E t \in run.stack[i].todo : t \in Prefixes(q)
    BY <1>3, <1>6 DEF Pending
  <2>2. CASE i # n
    <3>1. i \in 1..m  BY <1>3, <1>5, <2>2
    <3> QED  BY <1>4, <1>5, <2>1, <3>1 DEF Pending, EndedLevel
  <2>3. CASE Top.err \/ e
    BY <1>4, <1>5, <2>3 DEF Pending
  <2>4. CASE i = n /\ ~Top.err /\ ~e
    <3>1. Top.dir = q  BY <1>4, <2>1, <2>4
    <3>2. Gone(Top.dir) \/ Unknown(Top.dir)  BY <1>4, <1>6, <3>1, AbsentIsGone
    <3>3. ~DirKept  BY <2>4, <3>2 DEF DirKept
    <3> QED  BY <1>2, <2>4, <3>1, <3>3
  <2> QED  BY <2>2, <2>3, <2>4
<1>7. \A q \in Rels : enc[q] = "none" => enc'[q] = "none"  BY <1>1
<1> QED  BY <1>1, <1>4, <1>6, <1>7, DeleteCleared

LEMMA DeleteDoneCleared ==
  ASSUME Healthy, Cleared, DeleteDone
  PROVE  Cleared'
<1>1. /\ run \in Run /\ run.at = "delete" /\ Len(run.stack) = 1 /\ Top.todo = {}
      /\ UNCHANGED <<enc, plain, twice>>
  BY DEF DeleteDone, Healthy, DataOK
<1>2. PICK e : e = (run.err \/ Top.err)  OBVIOUS
<1>3. run' = [run EXCEPT !.at = "next", !.stack = <<>>, !.err = e]
  BY <1>1, <1>2 DEF DeleteDone, Run
<1>4. /\ run'.scanned = run.scanned /\ run'.moved = run.moved /\ run'.opt = run.opt
      /\ run'.err = e /\ run'.stuck = run.stuck
  BY <1>1, <1>3 DEF Run
<1>5. Top = run.stack[1]  BY <1>1 DEF Top
<1>6. \A q : Pending(run, q) => Top.err  BY <1>1, <1>5 DEF Pending
<1>7. ASSUME ~run'.err  PROVE \A d, q : Clear(enc, run, d, q) => Clear(enc', run', d, q)
  BY <1>1, <1>2, <1>4, <1>6, <1>7 DEF Clear, Awaits
<1> QED  BY <1>1, <1>2, <1>4, <1>7, KeepsCleared

\* What the user changes is excused.
LEMMA ChangeCleared == Healthy /\ Cleared /\ Change => Cleared'
<1> SUFFICES ASSUME Healthy, Cleared, Change PROVE Cleared'  OBVIOUS
<1>1. PICK x \in Sources, k \in {"none", "file", "dir", "link"} :
        /\ plain' = [q \in Sources |-> IF q = x THEN k
                                       ELSE IF q \in Below(x) THEN "none" ELSE plain[q]]
        /\ run' = IF run.at = "idle" THEN run ELSE Seen(x)
  BY DEF Change
<1>2. run \in Run /\ UNCHANGED <<enc, twice>>  BY DEF Healthy, DataOK, Change
<1>3. CASE run.at = "idle"
  <2>1. run'.scanned = {}  BY <1>1, <1>3 DEF Healthy, RunOK
  <2> QED  BY <2>1 DEF Cleared
<1>4. CASE run.at # "idle"
  <2>1. /\ run'.at = run.at /\ run'.stack = run.stack /\ run'.scanned = run.scanned
        /\ run'.root = run.root /\ run'.cut = run.cut /\ run'.opt = run.opt
        /\ run'.err = run.err /\ run'.stuck = run.stuck
        /\ run'.moved = run.moved \cup {x} \cup Below(x)
    BY <1>1, <1>2, <1>4, SeenIs
  <2>2. \A d, q : Clear(enc, run, d, q) => Clear(enc', run', d, q)
    BY <1>2, <2>1 DEF Clear, Awaits, Pending
  <2> SUFFICES ASSUME run.opt.del, ~run.err, ~twice, NEW d \in run.scanned, NEW s \in Below(d.root),
                      plain'[s] = "none", s \notin run'.moved
               PROVE  Clear(enc', run', d, Drop(s, d.cut))
    BY <1>2, <2>1 DEF Cleared
  <2>3. s \in Sources /\ s # x /\ s \notin Below(x) /\ s \notin run.moved  BY <2>1 DEF Below
  <2>4. plain[s] = "none"  BY <1>1, <2>3
  <2> QED  BY <2>2, <2>3, <2>4 DEF Cleared
<1> QED  BY <1>3, <1>4

LEMMA StepCleared ==
  Healthy /\ CutsAreTrim /\ Single /\ Cleared /\ [DsNext]_dsVars => Cleared'
<1> SUFFICES ASSUME Healthy, CutsAreTrim, Single, Cleared, [DsNext]_dsVars  PROVE Cleared'
  OBVIOUS
<1>0. run \in Run  BY DEF Healthy, DataOK
<1>1. CASE UNCHANGED dsVars
  BY <1>1 DEF dsVars, Cleared, Clear, Awaits, Pending
<1>2. CASE Change  BY <1>2, ChangeCleared
<1>3. CASE StartRecurse  BY <1>3, StartCleared
<1>4. CASE StartList
  <2>1. PICK ls \in SUBSET Lines, o \in Opts : run' = [Fresh(o) EXCEPT !.items = ls]
    BY <1>4 DEF StartList
  <2>2. run'.scanned = {}  BY <2>1 DEF Fresh
  <2> QED  BY <2>2 DEF Cleared
<1>5. CASE Done \/ \E p \in Rels : UnlinkRecurses(p)
  BY <1>5, NoRunIs DEF Done, UnlinkRecurses, Cleared
<1>6. CASE LeaveDir
  BY <1>6, LeftIs, ScanCleared
<1>7. CASE ReadFails
  <2>1. Same(run') /\ run.at \in {"scan", "delete"}  BY <1>7, EndedIs
  <2>2. UNCHANGED <<plain, enc, twice>>  BY <1>7 DEF ReadFails
  <2> QED  BY <1>7, <2>1, <2>2, ScanCleared, ReadCleared
<1>8. CASE ScanDone  BY <1>8, ScanDoneCleared
<1>9. CASE FinishDir  BY <1>9, FinishCleared
<1>10. CASE DeleteDone  BY <1>10, DeleteDoneCleared
<1>11. ASSUME NEW l \in Lines, ListRefused(l)  PROVE Cleared'
  <2>1. run' = [run EXCEPT !.items = @ \ {l}, !.err = TRUE]  BY <1>11 DEF ListRefused
  <2>2. run'.err  BY <1>0, <2>1 DEF Run
  <2> QED  BY <2>2 DEF Cleared
<1>12. ASSUME NEW l \in Lines, ListLine(l)  PROVE Cleared'
  <2>1. /\ run.at = "next" /\ UNCHANGED <<plain, enc, twice>>
        /\ run' = [run EXCEPT !.items = @ \ {l}, !.line = {l}]
    BY <1>12 DEF ListLine, Reading
  <2>2. /\ run'.at = "next" /\ run'.scanned = run.scanned /\ run'.moved = run.moved
        /\ run'.opt = run.opt /\ run'.err = run.err /\ run'.stuck = run.stuck
    BY <1>0, <2>1 DEF Run
  <2>3. \A d, q : Clear(enc, run, d, q) => Clear(enc', run', d, q)
    BY <2>1, <2>2 DEF Clear, Awaits
  <2> QED  BY <2>1, <2>2, <2>3, KeepsCleared
<1>13. ASSUME NEW l \in Lines, ListFile(l) \/ ListDir(l)  PROVE Cleared'
  BY <1>13, ListFileCleared, ListDirCleared
<1>14. ASSUME NEW s \in Sources, VisitFile(s)  PROVE Cleared'
  BY <1>14, VisitCleared
<1>15. ASSUME NEW s \in Sources, Unlisted(s) \/ Vanished(s) \/ Skip(s) \/ DirUnread(s)
       PROVE  Cleared'
  <2>1. run.at = "scan" /\ Same(run')  BY <1>15, ScanTaken DEF Passes
  <2>2. UNCHANGED <<plain, enc, twice>>  BY <1>15 DEF Unlisted, Vanished, Skip, DirUnread
  <2> QED  BY <2>1, <2>2, ScanCleared
<1>16. ASSUME NEW s \in Sources, VisitDir(s)  PROVE Cleared'
  BY <1>16, EnterIs, ScanCleared DEF Enters
<1>17. ASSUME NEW s \in Sources, LookAt(s)  PROVE Cleared'
  <2>1. /\ run.at = "scan" /\ UNCHANGED <<plain, enc, twice>>
        /\ run' = [run EXCEPT !.now = [path |-> s, as |-> plain[s]]]
    BY <1>17 DEF LookAt, Scanning
  <2>2. Same(run')  BY <1>0, <2>1 DEF Same, Run
  <2> QED  BY <2>1, <2>2, ScanCleared
<1>18. ASSUME NEW p \in Rels,
              \/ EntryFails(p) \/ StaysFile(p) \/ LookupFails(p)
              \/ DeleteFile(p) \/ DeleteFails(p)
       PROVE  Cleared'
  BY <1>18, PassCleared
<1>19. ASSUME NEW p \in Rels, LookupGone(p) \/ EnterDir(p)  PROVE Cleared'
  BY <1>19, LookupCleared, EnterCleared
<1> QED  BY <1>1, <1>2, <1>3, <1>4, <1>5, <1>6, <1>7, <1>8, <1>9, <1>10, <1>11, <1>12, <1>13,
            <1>14, <1>15, <1>16, <1>17, <1>18, <1>19 DEF DsNext

\* A run with --delete that reports no error has left nothing in the place of
\* what the plain tree does not have, but for what the user removed during the
\* run, what a failing lookup or unlink of a file left, and what readdir on POSIX
\* failed to list (real_dir_encrypt; file_delete, whose exceptions the scan
\* swallows at a file and counts at a directory; recurse_dir_enc's delayed error).
THEOREM GoneIsRemoved == DsSpec => []DeleteExact
<1>1. DsInit => CutsAreTrim /\ Single /\ Cleared
  <2>1. DsInit => run.scanned = {}  BY NoRunIs DEF DsInit
  <2> QED  BY <2>1 DEF CutsAreTrim, Single, Cleared
<1>2. Healthy /\ CutsAreTrim /\ Single /\ Cleared /\ [DsNext]_dsVars
        => CutsAreTrim' /\ Single' /\ Cleared'
  BY StepCuts, StepSingle, StepCleared
<1>3. Cleared => DeleteExact
  <2> SUFFICES ASSUME Cleared, run.at = "next", run.opt.del, ~run.err, ~twice,
                      NEW d \in run.scanned, NEW s \in Below(d.root),
                      plain[s] = "none" /\ s \notin run.moved
               PROVE  \/ enc[Drop(s, d.cut)] = "none"
                      \/ Reaches(run.stuck, Drop(s, d.cut))
    BY DEF DeleteExact, Ending
  <2> QED  BY NextCleared
<1> QED  BY <1>1, <1>2, <1>3, AlwaysHealthy, PTL DEF DsSpec
=============================================================================
