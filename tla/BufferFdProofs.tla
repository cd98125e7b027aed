---------------------------- MODULE BufferFdProofs ----------------------------
(***************************************************************************)
(* Every open descriptor has exactly one owner, for any objects, numbers   *)
(* and files; the buffered classes keep autofd's discipline: every step of *)
(* theirs is, to the descriptors, one of autofd's or none; and bytes       *)
(* written arrive.                                                         *)
(***************************************************************************)
EXTENDS BufferFd, SequenceTheorems, TLAPS

(* autofd.  The invariant adds to OneOwner that a place without an object  *)
(* owns nothing: otherwise a constructor could overwrite an owner.         *)

Vacant == \A h \in Objects : ~obj[h].live => ~obj[h].owner

FdIInv == FdTypeOK /\ Vacant /\ OneOwner

LEMMA FdInitially == FdInit => FdIInv
BY FdParams DEF FdInit, FdIInv, FdTypeOK, Vacant, OneOwner, OwnersOpen, Unshared, NoLeak, NoObject, NoFd

LEMMA DefaultKeeps ==
  ASSUME FdIInv, NEW h \in Objects, Default(h)
  PROVE  FdIInv'
<1> USE FdParams, ClosedIsNoFile DEF FdIInv, FdTypeOK, Vacant, NoFd
<1>1. FdTypeOK'
  BY DEF Default
<1>2. Vacant'
  BY DEF Default
<1>3. OwnersOpen'
  BY DEF OneOwner, OwnersOpen, Unshared, Default
<1>4. Unshared'
  BY DEF OneOwner, OwnersOpen, Unshared, Default
<1>5. NoLeak'
  BY DEF OneOwner, OwnersOpen, Unshared, NoLeak, Default
<1> QED
  BY <1>1, <1>2, <1>3, <1>4, <1>5 DEF OneOwner

LEMMA OpenKeeps ==
  ASSUME FdIInv, NEW h \in Objects, NEW f \in Files, Open(h, f)
  PROVE  FdIInv'
<1> USE FdParams, ClosedIsNoFile DEF FdIInv, FdTypeOK, Vacant, NoFd
<1>1. FdTypeOK'
  BY DEF Open
<1>2. Vacant'
  BY DEF Open
<1>3. OwnersOpen'
  BY DEF OneOwner, OwnersOpen, Unshared, Open
<1>4. Unshared'
  BY DEF OneOwner, OwnersOpen, Unshared, Open
<1>5. NoLeak'
  <2> SUFFICES ASSUME NEW m \in Numbers, table'[m] # Closed
               PROVE  \E g \in Objects : obj'[g].owner /\ obj'[g].num = m
    BY DEF NoLeak
  <2>1. PICK n \in Numbers : /\ table[n] = Closed /\ table' = [table EXCEPT ![n] = f]
                             /\ obj' = [obj EXCEPT ![h] = [live |-> TRUE, num |-> n, owner |-> TRUE]]
    BY DEF Open
  <2>2. CASE m = n
    BY <2>1, <2>2
  <2>3. CASE m # n
    <3>1. PICK g \in Objects : obj[g].owner /\ obj[g].num = m
      BY <2>1, <2>3 DEF OneOwner, NoLeak
    <3>2. g # h
      BY <3>1 DEF Open
    <3> QED
      BY <2>1, <3>1, <3>2
  <2> QED
    BY <2>2, <2>3
<1> QED
  BY <1>1, <1>2, <1>3, <1>4, <1>5 DEF OneOwner

LEMMA CopyKeeps ==
  ASSUME FdIInv, NEW h \in Objects, NEW k \in Objects, Copy(h, k)
  PROVE  FdIInv'
<1> USE FdParams, ClosedIsNoFile DEF FdIInv, FdTypeOK, Vacant, NoFd
<1>1. FdTypeOK'
  BY DEF Copy, Release
<1>2. Vacant'
  BY DEF Copy, Release
<1>3. OwnersOpen'
  BY DEF OneOwner, OwnersOpen, Unshared, Copy, Release
<1>4. Unshared'
  BY DEF OneOwner, OwnersOpen, Unshared, Copy, Release
<1>5. NoLeak'
  BY DEF OneOwner, OwnersOpen, Unshared, NoLeak, Copy, Release
<1> QED
  BY <1>1, <1>2, <1>3, <1>4, <1>5 DEF OneOwner

LEMMA ClearKeeps ==
  ASSUME FdIInv, NEW h \in Objects, Clear(h)
  PROVE  FdIInv'
<1> USE FdParams, ClosedIsNoFile DEF FdIInv, FdTypeOK, Vacant, NoFd
<1>1. FdTypeOK'
  BY DEF Clear, Close, Cleared
<1>2. Vacant'
  BY DEF Clear, Close, Cleared
<1>3. OwnersOpen'
  BY DEF OneOwner, OwnersOpen, Unshared, Clear, Close, Cleared
<1>4. Unshared'
  BY DEF OneOwner, OwnersOpen, Unshared, Clear, Close, Cleared
<1>5. NoLeak'
  BY DEF OneOwner, OwnersOpen, Unshared, NoLeak, Clear, Close, Cleared
<1> QED
  BY <1>1, <1>2, <1>3, <1>4, <1>5 DEF OneOwner

LEMMA AssignKeeps ==
  ASSUME FdIInv, NEW h \in Objects, NEW k \in Objects, Assign(h, k)
  PROVE  FdIInv'
<1> USE FdParams, ClosedIsNoFile DEF FdIInv, FdTypeOK, Vacant, NoFd
<1>0. Cleared(h) \in [Objects -> [live : BOOLEAN, num : Numbers \cup {NoFd}, owner : BOOLEAN]]
  BY DEF Cleared
<1>1. FdTypeOK'
  <2> DEFINE Obj == [live : BOOLEAN, num : Numbers \cup {NoFd}, owner : BOOLEAN]
             mid == [Cleared(h) EXCEPT ![k].owner = FALSE]
  <2>1. obj' \in [Objects -> Obj]
    <3>1. CASE ~obj[k].owner
      BY <1>0, <3>1 DEF Assign
    <3>2. CASE obj[k].owner
      <4>1. mid \in [Objects -> Obj] /\ obj[k].num \in Numbers \cup {NoFd}
        BY <1>0
      <4>2. obj' = [mid EXCEPT ![h] = [live |-> TRUE, num |-> obj[k].num, owner |-> TRUE]]
        BY <3>2, Zenon DEF Assign, Release
      <4> QED
        BY <4>1, <4>2
    <3> QED
      BY <3>1, <3>2
  <2>2. table' \in [Numbers -> Files \cup {Closed}] /\ opened' \subseteq Files
    BY DEF Assign, Close
  <2> QED
    BY <2>1, <2>2
<1>2. Vacant'
  BY DEF Assign, Release, Close, Cleared
<1>3. h # k /\ \A g \in Objects : g # h => obj'[g].num = obj[g].num
  BY DEF Assign, Release, Cleared
<1>4. table' = Close(h) /\ table' \in [Numbers -> Files \cup {Closed}]
  BY <1>1 DEF Assign
<1>5. \A n \in Numbers : table'[n] = IF obj[h].owner /\ n = obj[h].num THEN Closed ELSE table[n]
  BY <1>4 DEF Close, OneOwner, OwnersOpen
<1>6. CASE obj[k].owner
  <2>1. /\ obj'[h].owner /\ obj'[h].num = obj[k].num /\ ~obj'[k].owner
        /\ \A g \in Objects : g # h /\ g # k => obj'[g].owner = obj[g].owner
    BY <1>3, <1>6 DEF Assign, Release, Cleared
  <2>2. OwnersOpen'
    <3> SUFFICES ASSUME NEW g \in Objects, obj'[g].owner
                 PROVE  obj'[g].num \in Numbers /\ table'[obj'[g].num] # Closed
      BY DEF OwnersOpen
    <3>1. PICK o \in Objects : o # h /\ obj[o].owner /\ obj[o].num = obj'[g].num
      BY <1>3, <1>6, <2>1
    <3>2. obj[o].num \in Numbers /\ table[obj[o].num] # Closed
      BY <3>1 DEF OneOwner, OwnersOpen
    <3>3. ~(obj[h].owner /\ obj[o].num = obj[h].num)
      BY <3>1 DEF OneOwner, Unshared
    <3> QED
      BY <1>5, <3>1, <3>2, <3>3
  <2>3. Unshared'
    BY <1>3, <1>6, <2>1 DEF OneOwner, Unshared
  <2>4. NoLeak'
    <3> SUFFICES ASSUME NEW n \in Numbers, table'[n] # Closed
                 PROVE  \E g \in Objects : obj'[g].owner /\ obj'[g].num = n
      BY DEF NoLeak
    <3>1. PICK g \in Objects : obj[g].owner /\ obj[g].num = n
      BY <1>5 DEF OneOwner, NoLeak
    <3>2. g # h
      BY <1>5, <3>1
    <3>3. CASE g = k
      BY <2>1, <3>1, <3>3
    <3>4. CASE g # k
      BY <1>3, <2>1, <3>1, <3>2, <3>4
    <3> QED
      BY <3>3, <3>4
  <2> QED
    BY <1>1, <1>2, <2>2, <2>3, <2>4 DEF OneOwner
<1>7. CASE ~obj[k].owner
  <2>1. Clear(h)
    BY <1>7 DEF Assign, Clear
  <2> QED
    BY <2>1, ClearKeeps
<1> QED
  BY <1>6, <1>7

LEMMA DestroyKeeps ==
  ASSUME FdIInv, NEW h \in Objects, Destroy(h)
  PROVE  FdIInv'
<1> USE FdParams, ClosedIsNoFile DEF FdIInv, FdTypeOK, Vacant, NoFd
<1>1. FdTypeOK'
  BY DEF Destroy, Close, NoObject
<1>2. Vacant'
  BY DEF Destroy, Close, NoObject
<1>3. OwnersOpen'
  BY DEF OneOwner, OwnersOpen, Unshared, Destroy, Close, NoObject
<1>4. Unshared'
  BY DEF OneOwner, OwnersOpen, Unshared, Destroy, Close, NoObject
<1>5. NoLeak'
  BY DEF OneOwner, OwnersOpen, Unshared, NoLeak, Destroy, Close, NoObject
<1> QED
  BY <1>1, <1>2, <1>3, <1>4, <1>5 DEF OneOwner

LEMMA FdStepKeeps == FdIInv /\ [FdNext]_fdVars => FdIInv'
<1> SUFFICES ASSUME FdIInv, [FdNext]_fdVars
             PROVE  FdIInv'
  OBVIOUS
<1>1. CASE FdNext
  BY <1>1, DefaultKeeps, ClearKeeps, DestroyKeeps, OpenKeeps, CopyKeeps, AssignKeeps DEF FdNext
<1>2. CASE UNCHANGED fdVars
  BY <1>2 DEF FdIInv, FdTypeOK, Vacant, OneOwner, OwnersOpen, Unshared, NoLeak, fdVars
<1> QED
  BY <1>1, <1>2

\* However autofd objects are constructed, copied, assigned, cleared and
\* destroyed, an open descriptor has exactly one owner and no owner's number is
\* closed: no descriptor leaks and none is closed twice (autofd.h).
THEOREM FdOneOwner == FdSpec => [](FdTypeOK /\ OneOwner)
<1>1. FdInit => FdIInv
  BY FdInitially
<1>2. FdIInv /\ [FdNext]_fdVars => FdIInv'
  BY FdStepKeeps
<1>3. FdIInv => FdTypeOK /\ OneOwner
  BY DEF FdIInv
<1> QED
  BY <1>1, <1>2, <1>3, PTL DEF FdSpec

-----------------------------------------------------------------------------
(* The buffered classes on top of it. *)

LEMMA WriterStep ==
  ASSUME NEW h \in Objects,
         \/ Flush(h) \/ ClearWriter(h) \/ DestroyQuietly(h) \/ DestroyFlushing(h) \/ Fail(h) \/ Read(h)
         \/ \E c \in Counts : Write(h, c) \/ WriteThrough(h, c)
  PROVE  [FdNext]_fdVars
<1>1. CASE Flush(h) \/ Fail(h) \/ Read(h)
  BY <1>1 DEF Flush, Fail, Read, fdVars
<1>2. CASE \E c \in Counts : Write(h, c) \/ WriteThrough(h, c)
  BY <1>2 DEF Write, WriteThrough, Give, fdVars
<1>3. CASE ClearWriter(h)
  <2>1. Clear(h) \/ UNCHANGED <<obj, table, opened>>
    BY <1>3 DEF ClearWriter
  <2> QED
    BY <2>1 DEF FdNext, fdVars
<1>4. CASE DestroyQuietly(h) \/ DestroyFlushing(h)
  <2>1. Destroy(h)
    BY <1>4 DEF DestroyQuietly, DestroyFlushing
  <2> QED
    BY <2>1 DEF FdNext
<1> QED
  BY <1>1, <1>2, <1>3, <1>4

LEMMA BfdStepIsFdStep == [BfdNext]_bfdVars => [FdNext]_fdVars
<1> SUFFICES ASSUME [BfdNext]_bfdVars
             PROVE  [FdNext]_fdVars
  OBVIOUS
<1>1. CASE UNCHANGED bfdVars
  BY <1>1 DEF bfdVars, fdVars
<1>2. CASE BfdNext
  <2>1. PICK h \in Objects :
          \/ Default(h) \/ Clear(h)
          \/ \E f \in Files : Open(h, f)
          \/ \E k \in Objects : Assign(h, k) \/ Lend(h, k) \/ Make(h, k, "writer") \/ Make(h, k, "reader")
          \/ Flush(h) \/ ClearWriter(h) \/ DestroyQuietly(h) \/ DestroyFlushing(h) \/ Fail(h) \/ Read(h)
          \/ \E c \in Counts : Write(h, c) \/ WriteThrough(h, c)
    BY <1>2 DEF BfdNext
  <2>2. CASE \/ Default(h) \/ Clear(h)
             \/ \E f \in Files : Open(h, f)
             \/ \E k \in Objects : Assign(h, k)
    BY <2>2 DEF FdNext
  <2>3. CASE \E k \in Objects : Lend(h, k) \/ Make(h, k, "writer") \/ Make(h, k, "reader")
    <3>1. \E k \in Objects : Copy(h, k)
      BY <2>3 DEF Lend, Make
    <3> QED
      BY <3>1 DEF FdNext
  <2> QED
    BY <2>1, <2>2, <2>3, WriterStep
<1> QED
  BY <1>1, <1>2

\* The buffered readers and writers of bufferfd.h implement autofd: they never
\* touch a descriptor but by its operations.
THEOREM BufferedIsFd == BfdSpec => FdSpec
<1>1. BfdInit => FdInit
  BY DEF BfdInit
<1>2. [BfdNext]_bfdVars => [FdNext]_fdVars
  BY BfdStepIsFdStep
<1> QED
  BY <1>1, <1>2, PTL DEF BfdSpec, FdSpec

\* So no descriptor of a reader or writer leaks or is closed twice, whatever
\* fails (bufferfd.h, bufferfd.cpp).
THEOREM BufferedOneOwner == BfdSpec => []OneOwner
BY BufferedIsFd, FdOneOwner, PTL

-----------------------------------------------------------------------------
(* Runs of bytes. *)

AnyByte == (Files \X Nat) \cup {Junk}

\* The bytes of f after its first a, up to the first b.
Span(f, a, b) == Bytes(f, a + 1, b)

\* For the provers, which would expand these wherever they stand.
Cat(s, t) == s \o t
Part(s, i, j) == SubSeq(s, i, j)

LEMMA FunctionsAreSeqs ==
  \A S, s : \A n \in Nat : s \in [1..n -> S] => s \in Seq(S) /\ Len(s) = n
<1> SUFFICES ASSUME NEW S, NEW s, NEW n \in Nat, s \in [1..n -> S]
             PROVE  s \in Seq(S) /\ Len(s) = n
  OBVIOUS
<1>1. s \in Seq(S)
  BY SeqDef
<1>2. DOMAIN s = 1..Len(s) /\ Len(s) \in Nat
  BY <1>1, LenProperties
<1>3. 1..n = 1..Len(s)
  BY <1>2
<1>4. n = Len(s)
  BY <1>2, <1>3
<1> QED
  BY <1>1, <1>4

LEMMA BytesProperties ==
  ASSUME NEW f \in Files, NEW a \in Nat, NEW n \in Nat
  PROVE  /\ Bytes(f, a + 1, a + n) \in Seq(AnyByte) /\ Len(Bytes(f, a + 1, a + n)) = n
         /\ \A i \in 1..n : Bytes(f, a + 1, a + n)[i] = Byte(f, a + i)
<1>1. (a + n) - (a + 1) + 1 = n
  OBVIOUS
<1>2. Bytes(f, a + 1, a + n) = [i \in 1..n |-> Byte(f, (a + 1) + i - 1)]
  BY <1>1 DEF Bytes
<1>3. \A i \in 1..n : (a + 1) + i - 1 = a + i /\ a + i \in Nat
  OBVIOUS
<1>4. \A i \in 1..n : Byte(f, a + i) \in AnyByte
  BY <1>3 DEF Byte, AnyByte
<1>5. Bytes(f, a + 1, a + n) \in [1..n -> AnyByte]
  BY <1>2, <1>3, <1>4
<1> QED
  BY <1>2, <1>3, <1>5, FunctionsAreSeqs

LEMMA SpanProperties ==
  ASSUME NEW f \in Files, NEW a \in Nat, NEW b \in Nat, a <= b
  PROVE  /\ Span(f, a, b) \in Seq(AnyByte) /\ Len(Span(f, a, b)) = b - a
         /\ \A i \in 1..(b - a) : Span(f, a, b)[i] = Byte(f, a + i)
<1>1. b - a \in Nat /\ a + (b - a) = b
  OBVIOUS
<1>2. /\ Bytes(f, a + 1, a + (b - a)) \in Seq(AnyByte) /\ Len(Bytes(f, a + 1, a + (b - a))) = b - a
      /\ \A i \in 1..(b - a) : Bytes(f, a + 1, a + (b - a))[i] = Byte(f, a + i)
  BY <1>1, BytesProperties
<1>3. Bytes(f, a + 1, a + (b - a)) = Span(f, a, b)
  BY <1>1 DEF Span
<1> QED
  BY <1>2, <1>3

LEMMA SpanJoins ==
  ASSUME NEW f \in Files, NEW a \in Nat, NEW b \in Nat, NEW c \in Nat, a <= b, b <= c
  PROVE  Cat(Span(f, a, b), Span(f, b, c)) = Span(f, a, c)
<1> DEFINE s == Span(f, a, b)
           t == Span(f, b, c)
           u == Span(f, a, c)
<1>1. PICK n \in Nat, m \in Nat : n = b - a /\ m = c - b
  <2>1. b - a \in Nat /\ c - b \in Nat
    OBVIOUS
  <2> QED
    BY <2>1
<1>2. n + m = c - a /\ a + n = b /\ a <= c
  BY <1>1
<1>3. s \in Seq(AnyByte) /\ Len(s) = n /\ \A i \in 1..n : s[i] = Byte(f, a + i)
  BY <1>1, SpanProperties
<1>4. t \in Seq(AnyByte) /\ Len(t) = m /\ \A i \in 1..m : t[i] = Byte(f, b + i)
  BY <1>1, SpanProperties
<1>5. u \in Seq(AnyByte) /\ Len(u) = n + m /\ \A i \in 1..(n + m) : u[i] = Byte(f, a + i)
  <2>1. u \in Seq(AnyByte) /\ Len(u) = c - a /\ \A i \in 1..(c - a) : u[i] = Byte(f, a + i)
    BY <1>2, SpanProperties
  <2> QED
    BY <1>2, <2>1
<1> HIDE DEF s, t, u
<1>6. /\ s \o t \in Seq(AnyByte) /\ Len(s \o t) = n + m
      /\ \A i \in 1..(n + m) : (s \o t)[i] = IF i <= n THEN s[i] ELSE t[i - n]
  BY <1>3, <1>4, ConcatProperties
<1>7. \A i \in 1..(n + m) : (s \o t)[i] = u[i]
  <2> SUFFICES ASSUME NEW i \in 1..(n + m) PROVE (s \o t)[i] = u[i]
    OBVIOUS
  <2>1. CASE i <= n
    BY <1>3, <1>5, <1>6, <2>1
  <2>2. CASE ~(i <= n)
    <3>1. i - n \in 1..m /\ b + (i - n) = a + i
      BY <1>2, <2>2
    <3> QED
      BY <1>4, <1>5, <1>6, <2>2, <3>1
  <2> QED
    BY <2>1, <2>2
<1>8. s \o t = u
  BY <1>5, <1>6, <1>7, SeqEqual
<1> QED
  BY <1>8 DEF s, t, u, Cat

LEMMA SpanPart ==
  ASSUME NEW f \in Files, NEW a \in Nat, NEW b \in Nat, NEW x \in Nat, NEW y \in Nat, a <= x, x <= y, y <= b,
         NEW i \in Nat, i = x - a + 1, NEW j \in Nat, j = y - a
  PROVE  Part(Span(f, a, b), i, j) = Span(f, x, y)
<1> DEFINE s == Span(f, a, b)
           t == SubSeq(s, i, j)
           u == Span(f, x, y)
<1>1. s \in Seq(AnyByte) /\ Len(s) = b - a /\ \A k \in 1..(b - a) : s[k] = Byte(f, a + k) /\ s[k] \in AnyByte
  <2>1. s \in Seq(AnyByte) /\ Len(s) = b - a /\ \A k \in 1..(b - a) : s[k] = Byte(f, a + k)
    BY SpanProperties
  <2>2. \A k \in 1..(b - a) : Byte(f, a + k) \in AnyByte
    BY DEF Byte, AnyByte
  <2> QED
    BY <2>1, <2>2
<1>2. u \in Seq(AnyByte) /\ Len(u) = y - x /\ \A k \in 1..(y - x) : u[k] = Byte(f, x + k)
  BY SpanProperties
<1> HIDE DEF s, u
<1>3. t \in Seq(AnyByte) /\ Len(t) = y - x /\ \A k \in 1..(y - x) : t[k] = s[(x - a) + k]
  <2>1. \A k \in i..j : s[k] \in AnyByte
    BY <1>1
  <2>2. /\ i \in Int /\ j \in Int /\ j - i + 1 = y - x
        /\ \A k \in 1..(y - x) : i + k - 1 = (x - a) + k
    OBVIOUS
  <2>3. /\ t \in Seq(AnyByte) /\ Len(t) = IF i <= j THEN j - i + 1 ELSE 0
        /\ \A k \in 1..(j - i + 1) : t[k] = s[i + k - 1]
    BY <2>1, <2>2, SubSeqProperties
  <2> QED
    BY <2>2, <2>3
<1> HIDE DEF t
<1>4. \A k \in 1..(y - x) : t[k] = u[k]
  <2> SUFFICES ASSUME NEW k \in 1..(y - x) PROVE t[k] = u[k]
    OBVIOUS
  <2>1. (x - a) + k \in 1..(b - a) /\ a + ((x - a) + k) = x + k
    OBVIOUS
  <2> QED
    BY <1>1, <1>2, <1>3, <2>1
<1>5. t = u
  BY <1>2, <1>3, <1>4, SeqEqual
<1> QED
  BY <1>5 DEF s, t, u, Part

LEMMA SpanEmpty == \A f \in Files : \A a \in Nat : Span(f, a, a) = <<>>
<1> SUFFICES ASSUME NEW f \in Files, NEW a \in Nat PROVE Span(f, a, a) = <<>>
  OBVIOUS
<1>1. Span(f, a, a) \in Seq(AnyByte) /\ Len(Span(f, a, a)) = 0
  BY SpanProperties
<1>2. Span(f, a, a) # <<>> => Len(Span(f, a, a)) \in Nat \ {0}
  BY <1>1, EmptySeq
<1> QED
  BY <1>1, <1>2

-----------------------------------------------------------------------------
(* Types, whether or not writes may be partial. *)

\* A file is open under one number at most: files are opened once.
EachOnce ==
  /\ \A n \in Numbers : table[n] # Closed => table[n] \in opened
  /\ \A m, n \in Numbers : table[m] = table[n] /\ table[m] # Closed => m = n

Domains ==
  /\ kind \in [Objects -> {"fd", "writer", "reader"}] /\ made \in [Objects -> Files \cup {Closed}]
  /\ buf \in [Objects -> Seq(AnyByte)] /\ \A h \in Objects : Len(buf[h]) <= BufSize
  /\ err \in [Objects -> BOOLEAN] /\ told \subseteq Files
  /\ disk \in [Files -> Seq(AnyByte)] /\ given \in [Files -> 0..MaxGiven]
  /\ pos \in [Files -> 0..FileLen] /\ got \in [Files -> Seq(AnyByte)] /\ aborted \in BOOLEAN

\* What an object is goes with the file it was made for, which is the one it has
\* open as long as it is the owner.
Kinds ==
  \A h \in Objects :
    /\ ~obj[h].live => kind[h] = "fd"
    /\ kind[h] = "fd" => made[h] = Closed /\ buf[h] = <<>> /\ ~err[h]
    /\ kind[h] = "writer" => made[h] \in Written
    /\ kind[h] = "reader" => made[h] \in Files \ Written
    /\ kind[h] # "fd" /\ obj[h].owner => table[obj[h].num] = made[h]
    /\ buf[h] # <<>> => obj[h].owner \/ obj[h].num = NoFd
    /\ err[h] => made[h] \in told

BTyped == FdIInv /\ EachOnce /\ Domains /\ Kinds

LEMMA ParamFacts ==
  /\ Written \subseteq Files /\ Piped \subseteq Files
  /\ BufSize \in Nat /\ Block \in Nat /\ MaxGiven \in Nat /\ FileLen \in Nat
  /\ BufSize > 0 /\ Block > 0 /\ FileLen > 0 /\ Counts \subseteq Nat
BY BufferParams

LEMMA OnceStep == FdIInv /\ EachOnce /\ [FdNext]_fdVars => EachOnce'
<1> SUFFICES ASSUME FdIInv, EachOnce, [FdNext]_fdVars PROVE EachOnce'
  OBVIOUS
<1> USE ClosedIsNoFile DEF FdIInv, FdTypeOK
<1>1. ASSUME NEW h \in Objects, table' = Close(h) \/ table' = table, opened' = opened
      PROVE  EachOnce'
  <2>1. \A n \in Numbers : table'[n] = table[n] \/ table'[n] = Closed
    BY <1>1 DEF Close
  <2> QED
    BY <1>1, <2>1 DEF EachOnce
<1>2. ASSUME NEW h \in Objects, NEW f \in Files, Open(h, f) PROVE EachOnce'
  BY <1>2 DEF Open, EachOnce
<1>3. CASE UNCHANGED fdVars
  BY <1>3 DEF fdVars, EachOnce
<1> QED
  BY <1>1, <1>2, <1>3 DEF FdNext, Default, Clear, Destroy, Copy, Assign

\* Of the files, a step on one object closes the one it owns.
LEMMA CloseKeepsOthers ==
  ASSUME FdIInv, NEW h \in Objects, NEW g \in Objects, g # h, obj[g].owner, table' = Close(h)
  PROVE  table'[obj[g].num] = table[obj[g].num]
BY DEF FdIInv, FdTypeOK, OneOwner, OwnersOpen, Unshared, Close

LEMMA SubSeqTyped ==
  ASSUME NEW S, NEW s \in Seq(S), NEW i \in Nat \ {0}, NEW j \in 0..Len(s)
  PROVE  SubSeq(s, i, j) \in Seq(S) /\ Len(SubSeq(s, i, j)) = IF i <= j THEN j - i + 1 ELSE 0
<1>1. \A k \in i..j : s[k] \in S
  BY LenProperties
<1> QED
  BY <1>1, SubSeqProperties

LEMMA LeftTyped ==
  ASSUME NEW b \in Seq(AnyByte), NEW n \in 0..Len(b)
  PROVE  Left(b, n) \in Seq(AnyByte) /\ Len(Left(b, n)) = Len(b) - n
<1>1. Len(b) \in Nat /\ b \in [1..Len(b) -> AnyByte] /\ Junk \in AnyByte
  BY LenProperties DEF AnyByte
<1> DEFINE diff == Len(b) - n
<1>2. diff \in Nat
  BY <1>1
<1>3. Left(b, n) = [i \in 1..diff |-> IF i + diff <= Len(b) THEN b[i + diff] ELSE Junk]
  BY DEF Left
<1>4. \A i \in 1..diff : i + diff <= Len(b) => i + diff \in 1..Len(b)
  BY <1>1, <1>2
<1>5. Left(b, n) \in [1..diff -> AnyByte]
  BY <1>1, <1>3, <1>4
<1> QED
  BY <1>2, <1>5, FunctionsAreSeqs

LEMMA ResultsRange ==
  ASSUME NEW h, NEW s \in Seq(AnyByte)
  PROVE  Results(h, s) \subseteq 0..Len(s) /\ Len(s) \in Nat
<1>1. Len(s) \in Nat
  BY LenProperties
<1> QED
  BY <1>1 DEF Results

LEMMA BTypedInitially == BfdInit => BTyped
<1> SUFFICES ASSUME BfdInit PROVE BTyped
  OBVIOUS
<1> USE DEF BfdInit
<1>1. FdIInv
  BY FdInitially
<1>2. EachOnce
  BY DEF FdInit, EachOnce
<1>3. <<>> \in Seq(AnyByte) /\ Len(<<>>) = 0
  BY EmptySeq
<1>4. Domains
  <2>1. 0 \in 0..MaxGiven /\ 0 \in 0..FileLen /\ 0 <= BufSize
    BY ParamFacts
  <2> QED
    BY <1>3, <2>1 DEF Domains
<1>5. Kinds
  BY DEF Kinds, FdInit, NoObject
<1> QED
  BY <1>1, <1>2, <1>4, <1>5 DEF BTyped

\* A step that leaves objects alone, or changes plain ones only.
LEMMA PlainStep ==
  ASSUME BTyped, FdIInv', EachOnce', UNCHANGED ours, NEW h \in Objects,
         \/ Plain(h) /\ (Default(h) \/ Clear(h))
         \/ \E f \in Files : Open(h, f)
         \/ \E k \in Objects : Plain(h) /\ Plain(k) /\ Assign(h, k)
  PROVE  /\ BTyped'
         /\ \A g \in Objects : kind[g] # "fd" => obj'[g] = obj[g]
         /\ \A n \in Numbers : table'[n] \in {table[n], Closed} \/ table'[n] \notin opened
<1> USE DEF BTyped, FdIInv, FdTypeOK
<1>0. UNCHANGED <<kind, made, buf, err, disk, given, told, pos, got, aborted>>
  BY DEF ours
<1>1. \A g \in Objects : obj[g].live => obj'[g].live
  BY SMTT(30) DEF Default, Clear, Open, Assign, Cleared, Release
<1>2. \A g \in Objects : kind[g] # "fd" => obj'[g] = obj[g]
  <2> SUFFICES ASSUME NEW g \in Objects, kind[g] # "fd" PROVE obj'[g] = obj[g]
    OBVIOUS
  <2>1. obj[g].live
    BY DEF Kinds
  <2>2. CASE Plain(h) /\ (Default(h) \/ Clear(h))
    BY <2>2 DEF Plain, Default, Clear, Cleared
  <2>3. CASE \E f \in Files : Open(h, f)
    BY <2>1, <2>3 DEF Open
  <2>4. CASE \E k \in Objects : Plain(h) /\ Plain(k) /\ Assign(h, k)
    BY <2>4 DEF Plain, Assign, Cleared, Release
  <2> QED
    BY <2>2, <2>3, <2>4
<1>3. ASSUME NEW n \in Numbers, \A g \in Objects : obj[g].owner /\ obj[g].num = n => kind[g] # "fd",
             table[n] # Closed
      PROVE  table'[n] = table[n]
  <2>1. CASE \E f \in Files : Open(h, f)
    BY <1>3, <2>1 DEF Open
  <2>2. CASE Plain(h) /\ (table' = Close(h) \/ table' = table)
    BY <1>3, <2>2 DEF Plain, Close
  <2> QED
    BY <2>1, <2>2 DEF Default, Clear, Assign
<1>4. Domains'
  BY <1>0 DEF Domains
<1>5. Kinds'
  <2> SUFFICES ASSUME NEW g \in Objects, kind[g] # "fd", obj[g].owner
               PROVE  table'[obj[g].num] = table[obj[g].num]
    BY <1>0, <1>1, <1>2 DEF Kinds
  <2>1. obj[g].num \in Numbers /\ table[obj[g].num] # Closed
    BY DEF OneOwner, OwnersOpen
  <2>2. \A k \in Objects : obj[k].owner /\ obj[k].num = obj[g].num => k = g
    BY DEF OneOwner, Unshared
  <2> QED
    BY <1>3, <2>1, <2>2
<1>6. \A n \in Numbers : table'[n] \in {table[n], Closed} \/ table'[n] \notin opened
  BY DEF Default, Clear, Open, Assign, Close
<1> QED
  BY <1>2, <1>4, <1>5, <1>6

\* An object takes a descriptor over from one that has nothing in its buffer.
LEMMA HandOver ==
  ASSUME BTyped, FdIInv', EachOnce', NEW h \in Objects, NEW k \in Objects,
         Lend(h, k) \/ \E c \in {"writer", "reader"} : Make(h, k, c)
  PROVE  /\ BTyped'
         /\ h # k /\ ~obj[h].live /\ kind[h] = "fd" /\ buf[k] = <<>> /\ obj[k].owner
         /\ UNCHANGED <<buf, err, disk, given, told, pos, got, aborted, table, opened>>
         /\ \A g \in Objects \ {h, k} : obj'[g] = obj[g]
         /\ \A g \in Objects \ {h} : kind'[g] = kind[g] /\ made'[g] = made[g]
         /\ obj'[h].owner /\ ~obj'[k].owner
<1> USE DEF BTyped, FdIInv, FdTypeOK
<1>1. Copy(h, k) /\ UNCHANGED <<buf, err, disk, given, told, pos, got, aborted, table, opened>>
  BY DEF Lend, Make, Copy, ours
<1>2. h # k /\ ~obj[h].live /\ obj[k].owner /\ obj[k].live
  BY <1>1 DEF Copy
<1>3. /\ obj'[h] = [live |-> TRUE, num |-> obj[k].num, owner |-> TRUE]
      /\ obj'[k] = [obj[k] EXCEPT !.owner = FALSE]
      /\ \A g \in Objects \ {h, k} : obj'[g] = obj[g]
  BY <1>1, <1>2 DEF Copy, Release
<1>4. kind[h] = "fd" /\ buf[h] = <<>> /\ ~err[h] /\ buf[k] = <<>>
  BY <1>2 DEF Kinds, Lend, Make
<1>5. obj[k].num \in Numbers /\ table[obj[k].num] \in Files
  BY <1>2 DEF OneOwner, OwnersOpen
<1>6. \A g \in Objects \ {h} : kind'[g] = kind[g] /\ made'[g] = made[g]
  BY DEF Lend, Make, ours, Domains
<1>7. \/ kind'[h] = "fd" /\ made'[h] = Closed
      \/ kind'[h] = "writer" /\ made'[h] = table[obj[k].num] /\ made'[h] \in Written
      \/ kind'[h] = "reader" /\ made'[h] = table[obj[k].num] /\ made'[h] \in Files \ Written
  <2>1. CASE Lend(h, k)
    BY <1>2, <2>1 DEF Lend, ours, Kinds
  <2>2. ASSUME NEW c \in {"writer", "reader"}, Make(h, k, c)
        PROVE  /\ kind'[h] = c /\ made'[h] = table[obj[k].num]
               /\ (c = "writer") = (made'[h] \in Written)
    BY <2>2 DEF Make, Domains
  <2> QED
    BY <1>5, <2>1, <2>2
<1>8. kind' \in [Objects -> {"fd", "writer", "reader"}] /\ made' \in [Objects -> Files \cup {Closed}]
  BY <1>5, ZenonT(60) DEF Lend, Make, ours, Domains
<1>9. Domains'
  BY <1>1, <1>8 DEF Domains
<1>10. Kinds'
  <2> SUFFICES ASSUME NEW g \in Objects
               PROVE  /\ ~obj'[g].live => kind'[g] = "fd"
                      /\ kind'[g] = "fd" => made'[g] = Closed /\ buf[g] = <<>> /\ ~err[g]
                      /\ kind'[g] = "writer" => made'[g] \in Written
                      /\ kind'[g] = "reader" => made'[g] \in Files \ Written
                      /\ kind'[g] # "fd" /\ obj'[g].owner => table[obj'[g].num] = made'[g]
                      /\ buf[g] # <<>> => obj'[g].owner \/ obj'[g].num = NoFd
                      /\ err[g] => made'[g] \in told
    BY <1>1 DEF Kinds
  <2>1. CASE g = h
    BY <1>3, <1>4, <1>7, <2>1
  <2>2. CASE g = k
    <3>1. obj'[g].live = obj[g].live /\ ~obj'[g].owner
      BY <1>3, <2>2
    <3> QED
      BY <1>2, <1>4, <1>6, <2>2, <3>1 DEF Kinds
  <2>3. CASE g \notin {h, k}
    BY <1>3, <1>6, <2>3 DEF Kinds
  <2> QED
    BY <2>1, <2>2, <2>3
<1> QED
  BY <1>1, <1>2, <1>3, <1>4, <1>6, <1>9, <1>10

\* What is open is used, and what is left in the buffer is one of the things
\* that fit into it.
LEMMA UseStep ==
  ASSUME BTyped, NEW h \in Objects, NEW c \in {"writer", "reader"}, Usable(h, c), UNCHANGED <<obj, table, opened, kind, made>>,
         NEW b \in Seq(AnyByte), Len(b) <= BufSize, buf' = [buf EXCEPT ![h] = b],
         NEW e \in BOOLEAN, err' = [err EXCEPT ![h] = e], e => made[h] \in told',
         told' \in {told, told \cup {made[h]}}, disk' \in [Files -> Seq(AnyByte)],
         given' \in [Files -> 0..MaxGiven], pos' \in [Files -> 0..FileLen],
         got' \in [Files -> Seq(AnyByte)], aborted' \in BOOLEAN
  PROVE  BTyped'
<1> USE DEF BTyped
<1>1. FdIInv' /\ EachOnce'
  BY DEF FdIInv, FdTypeOK, Vacant, OneOwner, OwnersOpen, Unshared, NoLeak, EachOnce
<1>2. made[h] \in Files /\ obj[h].owner /\ kind[h] # "fd"
  BY ParamFacts DEF Usable, Kinds, Domains
<1>3. Domains'
  BY <1>2 DEF Domains
<1>4. Kinds'
  BY <1>2 DEF Kinds, Domains
<1> QED
  BY <1>1, <1>3, <1>4

LEMMA UsableFacts ==
  ASSUME BTyped, NEW h \in Objects, NEW c \in {"writer", "reader"}, Usable(h, c)
  PROVE  /\ obj[h].num \in Numbers /\ To(h) = made[h] /\ made[h] \in Files /\ made[h] \notin told
         /\ buf[h] \in Seq(AnyByte) /\ Len(buf[h]) \in 0..BufSize /\ ~err[h] /\ obj[h].owner
         /\ kind[h] = c /\ disk[made[h]] \in Seq(AnyByte) /\ got[made[h]] \in Seq(AnyByte)
         /\ given[made[h]] \in 0..MaxGiven /\ pos[made[h]] \in 0..FileLen
         /\ (made[h] \in Written <=> c = "writer")
<1> USE DEF BTyped
<1>1. obj[h].owner /\ kind[h] = c /\ made[h] \notin told
  BY DEF Usable
<1>2. obj[h].num \in Numbers
  BY <1>1 DEF FdIInv, OneOwner, OwnersOpen
<1>3. To(h) = made[h] /\ ~err[h] /\ (made[h] \in Written <=> c = "writer") /\ made[h] \in Files
  BY <1>1, ParamFacts DEF To, Kinds
<1>4. Len(buf[h]) \in Nat /\ BufSize \in Nat /\ Len(buf[h]) <= BufSize /\ buf[h] \in Seq(AnyByte)
  BY LenProperties, ParamFacts DEF Domains
<1> QED
  BY <1>1, <1>2, <1>3, <1>4 DEF Domains

\* What lands in a file.
LEMMA LandTyped ==
  ASSUME BTyped, NEW h \in Objects, NEW s \in Seq(AnyByte), NEW n \in 0..Len(s),
         n # 0 => To(h) \in Files
  PROVE  Land(h, s, n) \in [Files -> Seq(AnyByte)]
<1>1. CASE n = 0
  BY <1>1 DEF Land, BTyped, Domains
<1>2. CASE n # 0
  <2>1. SubSeq(s, 1, n) \in Seq(AnyByte) /\ disk[To(h)] \in Seq(AnyByte)
    BY <1>2, SubSeqTyped DEF BTyped, Domains
  <2>2. disk[To(h)] \o SubSeq(s, 1, n) \in Seq(AnyByte)
    BY <2>1, ConcatProperties
  <2> QED
    BY <1>2, <2>2 DEF Land, BTyped, Domains
<1> QED
  BY <1>1, <1>2

LEMMA DataTyped ==
  ASSUME BTyped, NEW h \in Objects, NEW c \in Counts, Usable(h, "writer")
  PROVE  Data(h, c) \in Seq(AnyByte) /\ Len(Data(h, c)) = c /\ c \in Nat
<1>1. made[h] \in Files /\ given[made[h]] \in Nat /\ c \in Nat
  BY UsableFacts, ParamFacts
<1> QED
  BY <1>1, BytesProperties DEF Data

\* A flush, of a full buffer or on demand.
LEMMA FlushStep ==
  ASSUME BTyped, NEW h \in Objects, Usable(h, "writer"), UNCHANGED <<obj, table, opened, kind, made>>,
         NEW full \in Seq(AnyByte), Len(full) <= BufSize, NEW next \in Seq(AnyByte), Len(next) <= BufSize,
         NEW n \in Results(h, full), FlushOf(h, full, n, next),
         given' \in [Files -> 0..MaxGiven], UNCHANGED <<pos, got, aborted>>
  PROVE  BTyped'
<1>1. n \in 0..Len(full)
  BY ResultsRange
<1>2. disk' \in [Files -> Seq(AnyByte)]
  BY <1>1, LandTyped, UsableFacts DEF FlushOf
<1>3. PICK b \in {full, next} : buf' = [buf EXCEPT ![h] = b]
  BY DEF FlushOf
<1>4. err[h] = FALSE
  BY UsableFacts DEF BTyped, Domains
<1>5. PICK e \in BOOLEAN : err' = [err EXCEPT ![h] = e] /\ (e => n = 0)
  <2>1. CASE n = 0
    BY <2>1 DEF FlushOf
  <2>2. CASE n # 0
    <3>1. err' = [err EXCEPT ![h] = FALSE]
      BY <1>4, <2>2 DEF FlushOf, BTyped, Domains
    <3> QED
      BY <3>1
  <2> QED
    BY <2>1, <2>2
<1>6. told' \in {told, told \cup {made[h]}} /\ (n = 0 => made[h] \in told')
  BY DEF FlushOf
<1>7. pos' \in [Files -> 0..FileLen] /\ got' \in [Files -> Seq(AnyByte)] /\ aborted' \in BOOLEAN
  BY DEF BTyped, Domains
<1>8. b \in Seq(AnyByte) /\ Len(b) <= BufSize /\ (e => made[h] \in told')
  BY <1>3, <1>5, <1>6
<1> QED
  BY <1>2, <1>3, <1>5, <1>6, <1>7, <1>8, UseStep

\* What is in the buffer and comes into it before a flush.
LEMMA FullTyped ==
  ASSUME BTyped, NEW h \in Objects, NEW c \in Counts, Usable(h, "writer")
  PROVE  LET free == BufSize - Len(buf[h])
             most == LeastOf(free, c)
             full == buf[h] \o SubSeq(Data(h, c), 1, most)
         IN  /\ full \in Seq(AnyByte) /\ Len(full) = Len(buf[h]) + most /\ Len(full) <= BufSize
             /\ free \in Nat /\ most \in 0..c
<1> DEFINE free == BufSize - Len(buf[h])
           most == LeastOf(free, c)
<1>1. /\ buf[h] \in Seq(AnyByte) /\ Len(buf[h]) \in Nat /\ free \in Nat /\ BufSize \in Nat
  BY UsableFacts, ParamFacts
<1>2. most \in 0..c /\ most <= free /\ most \in 0..Len(Data(h, c))
  BY <1>1, DataTyped DEF LeastOf
<1>3. /\ SubSeq(Data(h, c), 1, most) \in Seq(AnyByte)
      /\ Len(SubSeq(Data(h, c), 1, most)) = IF 1 <= most THEN most - 1 + 1 ELSE 0
  <2> HIDE DEF most
  <2> QED
    BY <1>2, DataTyped, SubSeqTyped
<1>4. Len(SubSeq(Data(h, c), 1, most)) = most
  <2> HIDE DEF most
  <2> QED
    BY <1>2, <1>3, DataTyped
<1> HIDE DEF most
<1>5. /\ buf[h] \o SubSeq(Data(h, c), 1, most) \in Seq(AnyByte)
      /\ Len(buf[h] \o SubSeq(Data(h, c), 1, most)) = Len(buf[h]) + Len(SubSeq(Data(h, c), 1, most))
  BY <1>1, <1>3, ConcatProperties
<1> QED
  BY <1>1, <1>2, <1>4, <1>5 DEF most

LEMMA WriteTyped ==
  ASSUME BTyped, NEW h \in Objects, NEW c \in Counts, Write(h, c)
  PROVE  BTyped'
<1> DEFINE free == BufSize - Len(buf[h])
           most == LeastOf(free, c)
           full == buf[h] \o SubSeq(Data(h, c), 1, most)
<1>1. /\ Usable(h, "writer") /\ UNCHANGED <<obj, table, opened, kind, made, pos, got, aborted>>
      /\ given[made[h]] + c <= MaxGiven /\ given' = [given EXCEPT ![made[h]] = @ + c] /\ Fits(h, c)
      /\ \/ c <= free /\ buf' = [buf EXCEPT ![h] = full] /\ UNCHANGED <<disk, told, err>>
         \/ /\ c > free
            /\ \E n \in Results(h, full) : FlushOf(h, full, n, Remaining(Data(h, c), free))
  BY DEF Write, Give
<1>2. /\ full \in Seq(AnyByte) /\ Len(full) <= BufSize /\ free \in Nat /\ most \in 0..c
  BY <1>1, FullTyped
<1>3. given' \in [Files -> 0..MaxGiven]
  <2>1. given[made[h]] + c \in 0..MaxGiven
    BY <1>1, UsableFacts, DataTyped, ParamFacts
  <2> QED
    BY <1>1, <2>1 DEF BTyped, Domains
<1>4. CASE c <= free /\ buf' = [buf EXCEPT ![h] = full] /\ UNCHANGED <<disk, told, err>>
  <2>1. /\ disk' \in [Files -> Seq(AnyByte)] /\ pos' \in [Files -> 0..FileLen]
        /\ got' \in [Files -> Seq(AnyByte)] /\ aborted' \in BOOLEAN
        /\ err' = [err EXCEPT ![h] = FALSE]
    BY <1>1, <1>4, UsableFacts DEF BTyped, Domains
  <2> HIDE DEF full
  <2> QED
    BY <1>1, <1>2, <1>3, <1>4, <2>1, UseStep
<1>5. CASE c > free /\ \E n \in Results(h, full) : FlushOf(h, full, n, Remaining(Data(h, c), free))
  <2>1. Remaining(Data(h, c), free) \in Seq(AnyByte) /\ Len(Remaining(Data(h, c), free)) <= BufSize
    <3>1. free + 1 \in Nat \ {0} /\ Len(Data(h, c)) = c /\ c \in 0..c /\ c - free <= BufSize
      <4>1. c \in Nat /\ BufSize \in Nat /\ Len(buf[h]) \in Nat
        BY <1>1, UsableFacts, ParamFacts
      <4>2. Len(Data(h, c)) = c
        BY <1>1, DataTyped
      <4>3. c - free <= BufSize
        BY <1>1, <4>1 DEF Fits
      <4> QED
        BY <1>2, <4>1, <4>2, <4>3
    <3>2. /\ Data(h, c) \in Seq(AnyByte) /\ Remaining(Data(h, c), free) = SubSeq(Data(h, c), free + 1, c)
      BY <1>1, <3>1, DataTyped DEF Remaining
    <3>3. Len(SubSeq(Data(h, c), free + 1, c)) = IF free + 1 <= c THEN c - (free + 1) + 1 ELSE 0
      BY <3>1, <3>2, SubSeqTyped
    <3>4. SubSeq(Data(h, c), free + 1, c) \in Seq(AnyByte)
      BY <3>1, <3>2, SubSeqTyped
    <3> HIDE DEF free
    <3>5. Len(Remaining(Data(h, c), free)) <= BufSize
      BY <1>2, <1>5, <3>1, <3>2, <3>3, ParamFacts
    <3> QED
      BY <3>2, <3>4, <3>5
  <2> HIDE DEF full, free
  <2> QED
    BY <1>1, <1>2, <1>3, <1>5, <2>1, FlushStep
<1> QED
  BY <1>1, <1>4, <1>5

LEMMA WriteThroughTyped ==
  ASSUME BTyped, NEW h \in Objects, NEW c \in Counts, WriteThrough(h, c)
  PROVE  BTyped'
<1>1. /\ Usable(h, "writer") /\ UNCHANGED <<obj, table, opened, kind, made, pos, got, aborted>>
      /\ given[made[h]] + c <= MaxGiven /\ given' = [given EXCEPT ![made[h]] = @ + c]
  BY DEF WriteThrough, Give
<1>2. /\ buf[h] \in Seq(AnyByte) /\ Len(buf[h]) \in Nat /\ Len(buf[h]) <= BufSize /\ made[h] \in Files
      /\ To(h) = made[h] /\ disk[made[h]] \in Seq(AnyByte) /\ ~err[h]
  BY <1>1, UsableFacts
<1>3. given' \in [Files -> 0..MaxGiven]
  <2>1. given[made[h]] + c \in 0..MaxGiven
    BY <1>1, UsableFacts, DataTyped, ParamFacts
  <2> QED
    BY <1>1, <2>1 DEF BTyped, Domains
<1>4. Data(h, c) \in Seq(AnyByte)
  BY <1>1, DataTyped
<1>5. PICK n \in Results(h, buf[h]), m \in Results(h, Data(h, c)) :
        IF n = 0 /\ buf[h] # <<>> THEN FlushOf(h, buf[h], 0, <<>>)
        ELSE /\ disk' = [disk EXCEPT ![To(h)] = @ \o SubSeq(buf[h], 1, n) \o SubSeq(Data(h, c), 1, m)]
             /\ buf' = [buf EXCEPT ![h] = Left(@, n)]
             /\ told' = IF m = 0 THEN told \cup {made[h]} ELSE told
             /\ err' = [err EXCEPT ![h] = n < Len(buf[h]) /\ @]
  BY DEF WriteThrough
<1>6. CASE n = 0 /\ buf[h] # <<>>
  <2>1. <<>> \in Seq(AnyByte) /\ Len(<<>>) <= BufSize
    BY EmptySeq, ParamFacts
  <2>2. 0 \in Results(h, buf[h]) /\ FlushOf(h, buf[h], 0, <<>>)
    BY <1>5, <1>6
  <2> QED
    BY <1>1, <1>2, <1>3, <2>1, <2>2, FlushStep
<1>7. CASE ~(n = 0 /\ buf[h] # <<>>)
  <2>1. n \in 0..Len(buf[h]) /\ m \in 0..Len(Data(h, c))
    BY <1>2, <1>4, ResultsRange
  <2>2. SubSeq(buf[h], 1, n) \in Seq(AnyByte) /\ SubSeq(Data(h, c), 1, m) \in Seq(AnyByte)
    BY <1>2, <1>4, <2>1, SubSeqTyped
  <2>3. disk[To(h)] \o SubSeq(buf[h], 1, n) \in Seq(AnyByte)
    BY <1>2, <2>2, ConcatProperties
  <2>4. disk[To(h)] \o SubSeq(buf[h], 1, n) \o SubSeq(Data(h, c), 1, m) \in Seq(AnyByte)
    BY <2>2, <2>3, ConcatProperties
  <2>5. disk' \in [Files -> Seq(AnyByte)]
    BY <1>5, <1>7, <2>4 DEF BTyped, Domains
  <2>6. Left(buf[h], n) \in Seq(AnyByte) /\ Len(Left(buf[h], n)) <= BufSize
    BY <1>2, <2>1, LeftTyped, ParamFacts, SMTT(30)
  <2>7. /\ buf' = [buf EXCEPT ![h] = Left(buf[h], n)] /\ err' = [err EXCEPT ![h] = FALSE]
        /\ told' \in {told, told \cup {made[h]}}
        /\ pos' \in [Files -> 0..FileLen] /\ got' \in [Files -> Seq(AnyByte)] /\ aborted' \in BOOLEAN
    BY <1>1, <1>2, <1>5, <1>7 DEF BTyped, Domains
  <2> QED
    BY <1>1, <1>3, <2>5, <2>6, <2>7, UseStep
<1> QED
  BY <1>6, <1>7

LEMMA FlushFailTyped ==
  ASSUME BTyped, NEW h \in Objects, Flush(h) \/ Fail(h)
  PROVE  BTyped'
<1>1. /\ Usable(h, "writer") /\ UNCHANGED <<obj, table, opened, kind, made, given, pos, got, aborted>>
      /\ UNCHANGED <<obj, table, opened, kind, made>> /\ UNCHANGED <<pos, got, aborted>>
  BY DEF Flush, Fail
<1>2. buf[h] \in Seq(AnyByte) /\ Len(buf[h]) \in Nat /\ Len(buf[h]) <= BufSize /\ ~err[h]
  BY <1>1, UsableFacts
<1>3. /\ given' \in [Files -> 0..MaxGiven] /\ pos' \in [Files -> 0..FileLen]
      /\ got' \in [Files -> Seq(AnyByte)] /\ aborted' \in BOOLEAN
  BY <1>1 DEF BTyped, Domains
<1>4. CASE Flush(h)
  <2>1. PICK n \in Results(h, buf[h]) : FlushOf(h, buf[h], n, Left(buf[h], n))
    BY <1>4 DEF Flush
  <2>2. Left(buf[h], n) \in Seq(AnyByte) /\ Len(Left(buf[h], n)) <= BufSize
    BY <1>2, LeftTyped, ResultsRange, ParamFacts
  <2> QED
    BY <1>1, <1>2, <1>3, <2>1, <2>2, FlushStep
<1>5. CASE Fail(h)
  <2>1. /\ buf' = [buf EXCEPT ![h] = buf[h]] /\ err' = [err EXCEPT ![h] = FALSE]
        /\ told' \in {told, told \cup {made[h]}} /\ disk' \in [Files -> Seq(AnyByte)]
    BY <1>2, <1>5 DEF Fail, BTyped, Domains
  <2> QED
    BY <1>1, <1>2, <1>3, <2>1, UseStep
<1> QED
  BY <1>4, <1>5

\* What a read takes from its file, and what of it stays.
LEMMA ReadFacts ==
  ASSUME BTyped, NEW h \in Objects, Read(h)
  PROVE  /\ Usable(h, "reader") /\ UNCHANGED <<obj, table, opened, kind, made, err, disk, given, told, aborted>>
         /\ Count(h) \in Nat \ {0}
         /\ \E n \in 0..BufSize :
              LET f == made[h]
                  full == buf[h] \o Bytes(f, pos[f] + 1, pos[f] + n)
                  take == LeastOf(Len(full), Count(h))
              IN  /\ IF buf[h] # <<>> THEN n = 0 ELSE n \in Supply(f)
                  /\ pos[f] + n \in 0..FileLen
                  /\ full \in Seq(AnyByte) /\ Len(full) = Len(buf[h]) + n /\ Len(full) <= BufSize
                  /\ take \in 0..Len(full)
                  /\ pos' = [pos EXCEPT ![f] = pos[f] + n]
                  /\ buf' = [buf EXCEPT ![h] = SubSeq(full, take + 1, Len(full))]
                  /\ got' = [got EXCEPT ![f] = got[f] \o SubSeq(full, 1, take)]
<1> DEFINE f == made[h]
<1>1. /\ Usable(h, "reader") /\ UNCHANGED <<obj, table, opened, kind, made, err, disk, given, told, aborted>>
  BY DEF Read
<1>2. /\ buf[h] \in Seq(AnyByte) /\ Len(buf[h]) \in 0..BufSize /\ f \in Files
      /\ pos[f] \in 0..FileLen /\ BufSize \in Nat /\ FileLen \in Nat
  BY <1>1, UsableFacts, ParamFacts
<1>3. Count(h) \in Nat \ {0}
  BY ParamFacts DEF Count
<1>4. PICK n \in IF buf[h] # <<>> THEN {0} ELSE Supply(f) :
        LET full == buf[h] \o Bytes(f, pos[f] + 1, pos[f] + n)
        IN  /\ pos' = [pos EXCEPT ![f] = @ + n]
            /\ buf' = [buf EXCEPT ![h] = Rest(full, Count(h))]
            /\ got' = [got EXCEPT ![f] = @ \o SubSeq(full, 1, LeastOf(Len(full), Count(h)))]
  BY DEF Read
<1>5. n \in 0..BufSize /\ pos[f] + n \in 0..FileLen /\ (buf[h] # <<>> => n = 0)
  BY <1>2, <1>4 DEF Supply, LeastOf
<1> DEFINE full == buf[h] \o Bytes(f, pos[f] + 1, pos[f] + n)
<1>6. full \in Seq(AnyByte) /\ Len(full) = Len(buf[h]) + n
  <2>1. Bytes(f, pos[f] + 1, pos[f] + n) \in Seq(AnyByte) /\ Len(Bytes(f, pos[f] + 1, pos[f] + n)) = n
    <3>1. pos[f] \in Nat /\ n \in Nat /\ f \in Files
      BY <1>2, <1>5
    <3> HIDE DEF f
    <3> QED
      BY <3>1, BytesProperties, ZenonT(60)
  <2> DEFINE t == Bytes(f, pos[f] + 1, pos[f] + n)
  <2> HIDE DEF t
  <2>2. buf[h] \o t \in Seq(AnyByte) /\ Len(buf[h] \o t) = Len(buf[h]) + Len(t)
    BY <1>2, <2>1, ConcatProperties DEF t
  <2> QED
    BY <2>1, <2>2 DEF t
<1> HIDE DEF full
<1>7. Len(full) <= BufSize /\ Len(full) \in Nat
  <2>1. buf[h] = <<>> => Len(buf[h]) = 0
    BY EmptySeq
  <2> QED
    BY <1>2, <1>5, <1>6, <2>1
<1>8. /\ pos' = [pos EXCEPT ![f] = pos[f] + n]
      /\ buf' = [buf EXCEPT ![h] = SubSeq(full, LeastOf(Len(full), Count(h)) + 1, Len(full))]
      /\ got' = [got EXCEPT ![f] = got[f] \o SubSeq(full, 1, LeastOf(Len(full), Count(h)))]
  BY <1>4 DEF Rest, full
<1>9. LeastOf(Len(full), Count(h)) \in 0..Len(full)
  BY <1>3, <1>7 DEF LeastOf
<1>10. IF buf[h] # <<>> THEN n = 0 ELSE n \in Supply(f)
  BY <1>4
<1> QED
  BY <1>1, <1>3, <1>5, <1>6, <1>7, <1>8, <1>9, <1>10 DEF full

LEMMA ReadTyped ==
  ASSUME BTyped, NEW h \in Objects, Read(h)
  PROVE  BTyped'
<1> DEFINE f == made[h]
<1>1. /\ Usable(h, "reader") /\ UNCHANGED <<obj, table, opened, kind, made, err, disk, given, told, aborted>>
  BY ReadFacts
<1>2. PICK n \in 0..BufSize :
        LET full == buf[h] \o Bytes(f, pos[f] + 1, pos[f] + n)
            take == LeastOf(Len(full), Count(h))
        IN  /\ pos[f] + n \in 0..FileLen
            /\ full \in Seq(AnyByte) /\ Len(full) <= BufSize /\ take \in 0..Len(full)
            /\ pos' = [pos EXCEPT ![f] = pos[f] + n]
            /\ buf' = [buf EXCEPT ![h] = SubSeq(full, take + 1, Len(full))]
            /\ got' = [got EXCEPT ![f] = got[f] \o SubSeq(full, 1, take)]
  BY ReadFacts
<1> DEFINE full == buf[h] \o Bytes(f, pos[f] + 1, pos[f] + n)
           take == LeastOf(Len(full), Count(h))
           b == SubSeq(full, take + 1, Len(full))
<1>3. f \in Files /\ got[f] \in Seq(AnyByte) /\ ~err[h]
  BY <1>1, UsableFacts
<1>4. b \in Seq(AnyByte) /\ Len(b) <= BufSize /\ got[f] \o SubSeq(full, 1, take) \in Seq(AnyByte)
  <2>1. full \in Seq(AnyByte) /\ Len(full) <= BufSize /\ take \in 0..Len(full) /\ Len(full) \in Nat
    BY <1>2, LenProperties
  <2> HIDE DEF full, take
  <2>2. take + 1 \in Nat \ {0} /\ Len(full) \in 0..Len(full)
    BY <2>1
  <2>3. b \in Seq(AnyByte) /\ Len(b) = IF take + 1 <= Len(full) THEN Len(full) - (take + 1) + 1 ELSE 0
    BY <2>1, <2>2, SubSeqTyped
  <2>4. SubSeq(full, 1, take) \in Seq(AnyByte)
    BY <2>1, SubSeqTyped
  <2>5. got[f] \o SubSeq(full, 1, take) \in Seq(AnyByte)
    BY <1>3, <2>4, ConcatProperties
  <2>6. Len(b) <= BufSize
    BY <2>1, <2>3, ParamFacts
  <2> QED
    BY <2>3, <2>5, <2>6
<1>5. pos' \in [Files -> 0..FileLen] /\ got' \in [Files -> Seq(AnyByte)]
  BY <1>2, <1>3, <1>4 DEF BTyped, Domains
<1>6. /\ disk' \in [Files -> Seq(AnyByte)] /\ given' \in [Files -> 0..MaxGiven] /\ aborted' \in BOOLEAN
      /\ err' = [err EXCEPT ![h] = FALSE] /\ told' \in {told, told \cup {made[h]}}
  BY <1>1, <1>3 DEF BTyped, Domains
<1>7. buf' = [buf EXCEPT ![h] = b]
  BY <1>2
<1> HIDE DEF b
<1> QED
  BY <1>1, <1>4, <1>5, <1>6, <1>7, UseStep

LEMMA CloseTyped ==
  ASSUME BTyped, FdIInv', EachOnce', NEW h \in Objects, ClearWriter(h)
  PROVE  BTyped'
<1> USE DEF BTyped
<1>1. /\ Usable(h, "writer") /\ UNCHANGED <<kind, made, given, pos, got, aborted>>
      /\ obj \in [Objects -> [live : BOOLEAN, num : Numbers \cup {NoFd}, owner : BOOLEAN]]
      /\ \/ buf[h] = <<>> /\ Clear(h) /\ UNCHANGED <<disk, buf, told, err>>
         \/ /\ buf[h] # <<>>
            /\ \E n \in Results(h, buf[h]) :
                 /\ FlushOf(h, buf[h], n, Left(buf[h], n))
                 /\ IF n = 0 THEN UNCHANGED <<obj, table, opened>> ELSE Clear(h)
  BY DEF ClearWriter, FdIInv, FdTypeOK
<1>2. /\ buf[h] \in Seq(AnyByte) /\ Len(buf[h]) \in Nat /\ Len(buf[h]) <= BufSize /\ ~err[h]
      /\ obj[h].owner /\ kind[h] = "writer"
  BY <1>1, UsableFacts
<1>3. ASSUME Clear(h), NEW b \in Seq(AnyByte), Len(b) <= BufSize, buf' = [buf EXCEPT ![h] = b],
             err' = [err EXCEPT ![h] = FALSE], told' = told, disk' \in [Files -> Seq(AnyByte)]
      PROVE  BTyped'
  <2>1. /\ obj'[h].live = obj[h].live /\ ~obj'[h].owner /\ obj'[h].num = NoFd
        /\ \A g \in Objects \ {h} : obj'[g] = obj[g]
    BY <1>1, <1>2, <1>3 DEF Clear, Cleared
  <2>2. Domains'
    BY <1>1, <1>3 DEF Domains
  <2>3. \A g \in Objects \ {h} : obj[g].owner => table'[obj[g].num] = table[obj[g].num]
    BY <1>3, CloseKeepsOthers DEF Clear
  <2>4. Kinds'
    <3>1. err'[h] = FALSE /\ \A g \in Objects \ {h} : buf'[g] = buf[g] /\ err'[g] = err[g]
      BY <1>3 DEF Domains
    <3>2. \A g \in Objects : kind'[g] = kind[g] /\ made'[g] = made[g]
      BY <1>1
    <3> QED
      BY <1>2, <1>3, <2>1, <2>3, <3>1, <3>2 DEF Kinds
  <2> QED
    BY <2>2, <2>4
<1>4. CASE buf[h] = <<>> /\ Clear(h) /\ UNCHANGED <<disk, buf, told, err>>
  <2>1. /\ buf' = [buf EXCEPT ![h] = buf[h]] /\ err' = [err EXCEPT ![h] = FALSE]
        /\ disk' \in [Files -> Seq(AnyByte)]
    BY <1>2, <1>4 DEF Domains
  <2> QED
    BY <1>2, <1>3, <1>4, <2>1
<1>5. ASSUME NEW n \in Results(h, buf[h]), FlushOf(h, buf[h], n, Left(buf[h], n)),
             IF n = 0 THEN UNCHANGED <<obj, table, opened>> ELSE Clear(h)
      PROVE  BTyped'
  <2>1. n \in 0..Len(buf[h])
    BY <1>2, ResultsRange
  <2>2. Left(buf[h], n) \in Seq(AnyByte) /\ Len(Left(buf[h], n)) <= BufSize
    BY <1>2, <2>1, LeftTyped, ParamFacts
  <2>3. CASE n = 0
    <3>1. UNCHANGED <<obj, table, opened, kind, made>> /\ UNCHANGED <<pos, got, aborted>>
          /\ given' \in [Files -> 0..MaxGiven]
      BY <1>1, <1>5, <2>3 DEF Domains
    <3> QED
      BY <1>1, <1>2, <1>5, <2>2, <3>1, FlushStep
  <2>4. CASE n # 0
    <3>1. disk' \in [Files -> Seq(AnyByte)]
      BY <1>1, <1>2, <1>5, <2>1, LandTyped, UsableFacts DEF FlushOf
    <3>2. /\ buf' = [buf EXCEPT ![h] = Left(buf[h], n)] /\ err' = [err EXCEPT ![h] = FALSE]
          /\ told' = told /\ Clear(h)
      BY <1>2, <1>5, <2>4 DEF FlushOf, Domains
    <3> QED
      BY <1>3, <2>2, <3>1, <3>2
  <2> QED
    BY <2>3, <2>4
<1> QED
  BY <1>1, <1>4, <1>5

\* What the end of an object leaves.
LEMMA DestroyFacts ==
  ASSUME BTyped, FdIInv', EachOnce', NEW h \in Objects, DestroyQuietly(h) \/ DestroyFlushing(h)
  PROVE  /\ BTyped'
         /\ obj'[h] = NoObject /\ \A g \in Objects \ {h} : obj'[g] = obj[g]
         /\ kind'[h] = "fd" /\ made'[h] = Closed /\ buf'[h] = <<>>
         /\ \A g \in Objects \ {h} : kind'[g] = kind[g] /\ made'[g] = made[g] /\ buf'[g] = buf[g]
         /\ UNCHANGED <<told, given, pos, got>>
         /\ \/ ~FlushesLast(h) /\ UNCHANGED <<disk, aborted>>
            \/ /\ kind[h] = "writer" /\ buf[h] # <<>>
               /\ \E n \in Results(h, buf[h]) : disk' = Land(h, buf[h], n) /\ aborted' = (n = 0)
<1> USE DEF BTyped
<1>1. Destroy(h) /\ Forget(h) /\ UNCHANGED <<told, given, pos, got>>
  BY DEF DestroyQuietly, DestroyFlushing, Forget
<1>2. /\ obj'[h] = NoObject /\ \A g \in Objects \ {h} : obj'[g] = obj[g]
      /\ \A g \in Objects \ {h} : obj[g].owner => table'[obj[g].num] = table[obj[g].num]
  BY <1>1, CloseKeepsOthers DEF Destroy, FdIInv, FdTypeOK
<1>3. /\ kind'[h] = "fd" /\ made'[h] = Closed /\ buf'[h] = <<>> /\ err'[h] = FALSE
      /\ \A g \in Objects \ {h} : /\ kind'[g] = kind[g] /\ made'[g] = made[g]
                                  /\ buf'[g] = buf[g] /\ err'[g] = err[g]
  BY <1>1 DEF Forget, Domains
<1>4. \/ ~FlushesLast(h) /\ UNCHANGED <<disk, aborted>>
      \/ /\ kind[h] = "writer" /\ buf[h] # <<>>
         /\ \E n \in Results(h, buf[h]) : disk' = Land(h, buf[h], n) /\ aborted' = (n = 0)
  BY DEF DestroyQuietly, DestroyFlushing, FlushesLast
<1>5. disk' \in [Files -> Seq(AnyByte)] /\ aborted' \in BOOLEAN
  <2>1. ASSUME kind[h] = "writer", buf[h] # <<>>, NEW n \in Results(h, buf[h]),
               disk' = Land(h, buf[h], n), aborted' = (n = 0)
        PROVE  disk' \in [Files -> Seq(AnyByte)] /\ aborted' \in BOOLEAN
    <3>1. buf[h] \in Seq(AnyByte) /\ n \in 0..Len(buf[h])
      BY ResultsRange DEF Domains
    <3>2. n # 0 => To(h) \in Files
      <4> SUFFICES ASSUME n # 0 PROVE To(h) \in Files
        OBVIOUS
      <4>1. obj[h].owner
        BY <2>1 DEF Kinds, Results
      <4> QED
        BY <2>1, <4>1, ParamFacts DEF Kinds, To
    <3> QED
      BY <2>1, <3>1, <3>2, LandTyped
  <2> QED
    BY <1>4, <2>1 DEF Domains
<1>6. Domains'
  <2>1. Len(<<>>) = 0 /\ <<>> \in Seq(AnyByte) /\ BufSize \in Nat
    BY EmptySeq, ParamFacts
  <2>2. /\ kind' \in [Objects -> {"fd", "writer", "reader"}] /\ made' \in [Objects -> Files \cup {Closed}]
        /\ buf' \in [Objects -> Seq(AnyByte)] /\ err' \in [Objects -> BOOLEAN]
    BY <1>1, <2>1 DEF Forget, Domains
  <2>3. \A g \in Objects : Len(buf'[g]) <= BufSize
    <3> SUFFICES ASSUME NEW g \in Objects PROVE Len(buf'[g]) <= BufSize
      OBVIOUS
    <3>1. CASE g = h
      BY <1>3, <2>1, <3>1
    <3>2. CASE g # h
      BY <1>3, <3>2 DEF Domains
    <3> QED
      BY <3>1, <3>2
  <2> QED
    BY <1>1, <1>5, <2>2, <2>3 DEF Domains
<1>7. Kinds'
  BY <1>1, <1>2, <1>3 DEF Kinds, NoObject
<1> QED
  BY <1>1, <1>2, <1>3, <1>4, <1>6, <1>7

LEMMA BTypedStep == BTyped /\ [BfdNext]_bfdVars => BTyped'
<1> SUFFICES ASSUME BTyped, [BfdNext]_bfdVars PROVE BTyped'
  OBVIOUS
<1>1. FdIInv' /\ EachOnce'
  BY BfdStepIsFdStep, FdStepKeeps, OnceStep DEF BTyped
<1>2. CASE UNCHANGED bfdVars
  BY <1>1, <1>2 DEF bfdVars, BTyped, Domains, Kinds
<1>3. CASE BfdNext
  <2>1. PICK h \in Objects :
          \/ Plain(h) /\ (Default(h) \/ Clear(h)) /\ UNCHANGED ours
          \/ \E f \in Files : Open(h, f) /\ UNCHANGED ours
          \/ \E k \in Objects : Plain(h) /\ Plain(k) /\ Assign(h, k) /\ UNCHANGED ours
          \/ \E k \in Objects : Lend(h, k) \/ Make(h, k, "writer") \/ Make(h, k, "reader")
          \/ Flush(h) \/ ClearWriter(h) \/ DestroyQuietly(h) \/ DestroyFlushing(h) \/ Fail(h) \/ Read(h)
          \/ \E c \in Counts : Write(h, c) \/ WriteThrough(h, c)
    BY <1>3 DEF BfdNext
  <2>2. CASE \/ Plain(h) /\ (Default(h) \/ Clear(h)) /\ UNCHANGED ours
             \/ \E f \in Files : Open(h, f) /\ UNCHANGED ours
             \/ \E k \in Objects : Plain(h) /\ Plain(k) /\ Assign(h, k) /\ UNCHANGED ours
    BY <1>1, <2>2, PlainStep
  <2>3. CASE \E k \in Objects : Lend(h, k) \/ Make(h, k, "writer") \/ Make(h, k, "reader")
    BY <1>1, <2>3, HandOver
  <2> QED
    BY <1>1, <2>1, <2>2, <2>3, FlushFailTyped, CloseTyped, DestroyFacts, ReadTyped, WriteTyped,
       WriteThroughTyped
<1> QED
  BY <1>2, <1>3

LEMMA AlwaysTyped == BfdSpec => []BTyped
<1>1. BfdInit => BTyped
  BY BTypedInitially
<1>2. BTyped /\ [BfdNext]_bfdVars => BTyped'
  BY BTypedStep
<1> QED
  BY <1>1, <1>2, PTL DEF BfdSpec

\* No buffer is ever filled beyond its size, and nothing else leaves its range,
\* also where writes may be partial (bufferfd.h, bufferfd.cpp).
THEOREM BufferTypesHold == BfdSpec => []BfdTypeOK
<1>1. BTyped => BfdTypeOK
  BY DEF BTyped, FdIInv, Domains, Kinds, BfdTypeOK
<1> QED
  BY <1>1, AlwaysTyped, PTL

-----------------------------------------------------------------------------
(* Where write(2) writes all or nothing: what was handed over arrives. *)

\* A file has the first bytes that were written to it; a buffer has those that
\* follow; and together, unless somebody was told otherwise, all of them.
Follows(h) ==
  LET d == Len(disk[made[h]])
  IN  /\ obj[h].owner /\ d + Len(buf[h]) <= given[made[h]]
      /\ buf[h] = Span(made[h], d, d + Len(buf[h]))

AllThere(f) ==
  \/ Len(disk[f]) = given[f]
  \/ \E h \in Objects : /\ kind[h] = "writer" /\ made[h] = f /\ obj[h].owner /\ buf[h] # <<>>
                        /\ Len(disk[f]) + Len(buf[h]) = given[f]

Flow ==
  /\ \A f \in Files : disk[f] = Span(f, 0, Len(disk[f])) /\ Len(disk[f]) <= given[f]
  /\ \A h \in Objects : kind[h] = "writer" /\ buf[h] # <<>> => Follows(h)
  /\ \A f \in Files : f \notin told /\ ~aborted => AllThere(f)

LEMMA OneUser ==
  ASSUME BTyped, NEW g \in Objects, NEW h \in Objects, obj[g].owner, obj[h].owner,
         kind[g] # "fd", kind[h] # "fd", made[g] = made[h]
  PROVE  g = h
<1>1. obj[g].num \in Numbers /\ obj[h].num \in Numbers /\ table[obj[g].num] # Closed
  BY DEF BTyped, FdIInv, OneOwner, OwnersOpen
<1>2. table[obj[g].num] = table[obj[h].num]
  BY DEF BTyped, Kinds
<1> QED
  BY <1>1, <1>2 DEF BTyped, EachOnce, FdIInv, OneOwner, Unshared

LEMMA LenFacts ==
  ASSUME BTyped
  PROVE  /\ \A f \in Files : /\ disk[f] \in Seq(AnyByte) /\ Len(disk[f]) \in Nat /\ given[f] \in Nat
                             /\ got[f] \in Seq(AnyByte) /\ Len(got[f]) \in Nat /\ pos[f] \in Nat
         /\ \A h \in Objects : /\ buf[h] \in Seq(AnyByte) /\ Len(buf[h]) \in Nat
                               /\ (buf[h] = <<>> <=> Len(buf[h]) = 0)
<1>1. \A s \in Seq(AnyByte) : Len(s) \in Nat /\ (s = <<>> <=> Len(s) = 0)
  <2> SUFFICES ASSUME NEW s \in Seq(AnyByte) PROVE Len(s) \in Nat /\ (s = <<>> <=> Len(s) = 0)
    OBVIOUS
  <2>1. s # <<>> => Len(s) \in Nat \ {0}
    BY EmptySeq
  <2>2. Len(<<>>) = 0
    BY EmptySeq
  <2> QED
    BY <2>1, <2>2, LenProperties
<1> QED
  BY <1>1, ParamFacts DEF BTyped, Domains

LEMMA FlowInitially == BfdInit => Flow
<1> SUFFICES ASSUME BfdInit PROVE Flow
  OBVIOUS
<1>1. /\ \A f \in Files : disk[f] = <<>> /\ given[f] = 0
      /\ \A h \in Objects : buf[h] = <<>>
  BY DEF BfdInit
<1>2. Len(<<>>) = 0 /\ \A f \in Files : Span(f, 0, 0) = <<>>
  BY SpanEmpty, EmptySeq
<1>3. \A f \in Files : Len(disk[f]) = 0 /\ disk[f] = Span(f, 0, 0) /\ given[f] = 0
  BY <1>1, <1>2
<1>4. \A f \in Files : disk[f] = Span(f, 0, Len(disk[f])) /\ Len(disk[f]) <= given[f]
  BY <1>3
<1> QED
  BY <1>1, <1>3, <1>4 DEF Flow, AllThere

\* The file f and the buffer of its writer h have d bytes and the next ones up
\* to z.
Serves(h, f) == kind[h] = "writer" /\ obj[h].owner /\ made[h] = f /\ To(h) = f
Line(h, f, d, z) == disk[f] = Span(f, 0, d) /\ buf[h] = Span(f, d, z) /\ z <= given[f]

LEMMA InLine ==
  ASSUME BTyped, Flow, ~aborted, NEW h \in Objects, NEW f \in Files, Serves(h, f)
  PROVE  \E d, z \in Nat : d <= z /\ Line(h, f, d, z) /\ (f \notin told => z = given[f])
<1>1. kind[h] = "writer" /\ obj[h].owner /\ made[h] = f /\ To(h) = f
  BY DEF Serves
<1>2. PICK d \in Nat : d = Len(disk[f])
  BY LenFacts
<1>3. PICK l \in Nat : l = Len(buf[h])
  BY LenFacts
<1>4. PICK z \in Nat : z = d + l
  OBVIOUS
<1>5. given[f] \in Nat /\ (buf[h] = <<>> <=> l = 0)
  BY <1>3, LenFacts
<1>6. disk[f] = Span(f, 0, d) /\ d <= given[f]
  BY <1>2 DEF Flow
<1>7. buf[h] = Span(f, d, z) /\ z <= given[f]
  <2>1. CASE buf[h] # <<>>
    <3>1. Follows(h)
      BY <1>1, <2>1 DEF Flow
    <3> QED
      BY <1>1, <1>2, <1>3, <1>4, <3>1 DEF Follows
  <2>2. CASE buf[h] = <<>>
    <3>1. z = d
      BY <1>4, <1>5, <2>2
    <3> QED
      BY <1>6, <2>2, <3>1, SpanEmpty
  <2> QED
    BY <2>1, <2>2
<1>8. f \notin told => z = given[f]
  <2> SUFFICES ASSUME f \notin told PROVE z = given[f]
    OBVIOUS
  <2>1. CASE Len(disk[f]) = given[f]
    BY <1>2, <1>4, <1>5, <1>7, <2>1
  <2>2. ASSUME NEW g \in Objects, kind[g] = "writer", made[g] = f, obj[g].owner,
               Len(disk[f]) + Len(buf[g]) = given[f]
        PROVE  z = given[f]
    <3>1. g = h
      BY <1>1, <2>2, OneUser
    <3> QED
      BY <1>2, <1>3, <1>4, <2>2, <3>1
  <2> QED
    BY <2>1, <2>2 DEF Flow, AllThere
<1>9. d <= z
  BY <1>4
<1> QED
  BY <1>6, <1>7, <1>8, <1>9 DEF Line

\* What a step with the writer h of the file f leaves of other writers and files.
Apart(h, f) ==
  /\ \A g \in Objects \ {h} : obj'[g] = obj[g] /\ kind'[g] = kind[g] /\ made'[g] = made[g] /\ buf'[g] = buf[g]
  /\ \A g \in Files \ {f} : disk'[g] = disk[g] /\ given'[g] = given[g]
  /\ told' = told \/ told' = told \cup {f}

\* Such a step keeps files and buffers in line, if it keeps those two.
LEMMA FlowKept ==
  ASSUME BTyped, BTyped', Flow, ~aborted, NEW h \in Objects, NEW f \in Files, Serves(h, f), Apart(h, f),
         NEW d \in Nat, NEW z \in Nat, d <= z, Line(h, f, d, z)',
         d # z => obj'[h].owner /\ kind'[h] = "writer" /\ made'[h] = f,
         f \notin told' /\ ~aborted' => z = given'[f]
  PROVE  Flow'
<1>1. kind[h] = "writer" /\ obj[h].owner /\ made[h] = f
  BY DEF Serves
<1>2. /\ \A g \in Objects \ {h} : obj'[g] = obj[g] /\ kind'[g] = kind[g] /\ made'[g] = made[g] /\ buf'[g] = buf[g]
      /\ \A g \in Files \ {f} : disk'[g] = disk[g] /\ given'[g] = given[g]
      /\ told' = told \/ told' = told \cup {f}
  BY DEF Apart
<1>0. disk'[f] = Span(f, 0, d) /\ buf'[h] = Span(f, d, z) /\ z <= given'[f] /\ given'[f] \in Nat
  <2>1. given'[f] \in Nat
    BY LenFacts DEF Line, BTyped, Domains
  <2> QED
    BY <2>1 DEF Line
<1>3. Len(disk'[f]) = d
  <2>1. Len(Span(f, 0, d)) = d
    <3>1. 0 \in Nat /\ 0 <= d /\ d - 0 = d
      OBVIOUS
    <3> QED
      BY <3>1, SpanProperties
  <2> QED
    BY <1>0, <2>1
<1>4. Len(buf'[h]) = z - d /\ (d = z <=> buf'[h] = <<>>)
  <2>1. Len(buf'[h]) = z - d
    <3>1. Len(Span(f, d, z)) = z - d
      BY SpanProperties
    <3> QED
      BY <1>0, <3>1
  <2>2. d = z => buf'[h] = <<>>
    BY <1>0, SpanEmpty
  <2>3. Len(<<>>) = 0
    BY EmptySeq
  <2>4. buf'[h] = <<>> => z - d = 0
    BY <2>1, <2>3
  <2> QED
    BY <2>1, <2>2, <2>4
<1>5. \A g \in Objects \ {h} : (kind[g] = "writer" /\ buf[g] # <<>>) => made[g] \in Files \ {f} /\ obj[g].owner
  <2> SUFFICES ASSUME NEW g \in Objects \ {h}, kind[g] = "writer", buf[g] # <<>>
               PROVE  made[g] \in Files \ {f} /\ obj[g].owner
    OBVIOUS
  <2>1. obj[g].owner /\ made[g] \in Files
    BY ParamFacts DEF Flow, Follows, BTyped, Kinds
  <2> QED
    BY <1>1, <2>1, OneUser
<1>6. \A g \in Files : disk'[g] = Span(g, 0, Len(disk'[g])) /\ Len(disk'[g]) <= given'[g]
  <2> SUFFICES ASSUME NEW g \in Files
               PROVE  disk'[g] = Span(g, 0, Len(disk'[g])) /\ Len(disk'[g]) <= given'[g]
    OBVIOUS
  <2>1. CASE g = f
    BY <1>0, <1>3, <2>1
  <2>2. CASE g # f
    BY <1>2, <2>2 DEF Flow
  <2> QED
    BY <2>1, <2>2
<1>7. ASSUME NEW g \in Objects, kind'[g] = "writer", buf'[g] # <<>>
      PROVE  Follows(g)'
  <2>1. CASE g = h
    <3>1. made'[h] = f /\ obj'[h].owner
      BY <1>4, <1>7, <2>1
    <3>2. Len(disk'[f]) + Len(buf'[h]) = z
      BY <1>3, <1>4
    <3> QED
      BY <1>0, <1>3, <2>1, <3>1, <3>2 DEF Follows
  <2>2. CASE g # h
    <3>1. PICK x \in Files \ {f} : x = made'[g] /\ obj[g].owner /\ kind[g] = "writer" /\ buf'[g] = buf[g] /\ obj'[g] = obj[g]
      BY <1>2, <1>5, <1>7, <2>2
    <3>2. disk'[x] = disk[x] /\ given'[x] = given[x] /\ made[g] = x
      BY <1>2, <2>2, <3>1
    <3>3. Follows(g)
      BY <1>7, <3>1, <3>2 DEF Flow
    <3> QED
      BY <3>1, <3>2, <3>3 DEF Follows
  <2> QED
    BY <2>1, <2>2
<1>8. ASSUME NEW g \in Files, g \notin told', ~aborted'
      PROVE  AllThere(g)'
  <2>1. CASE g = f
    <3>1. z = given'[f]
      BY <1>8, <2>1
    <3>2. CASE d = z
      BY <1>3, <2>1, <3>1, <3>2 DEF AllThere
    <3>3. CASE d # z
      <4>1. Len(disk'[f]) + Len(buf'[h]) = given'[f] /\ buf'[h] # <<>>
        BY <1>3, <1>4, <3>1, <3>3
      <4> QED
        BY <2>1, <3>3, <4>1 DEF AllThere
    <3> QED
      BY <3>2, <3>3
  <2>2. CASE g # f
    <3>1. g \notin told /\ disk'[g] = disk[g] /\ given'[g] = given[g]
      BY <1>2, <1>8, <2>2
    <3>2. CASE Len(disk[g]) = given[g]
      BY <3>1, <3>2 DEF AllThere
    <3>3. ASSUME NEW k \in Objects, kind[k] = "writer", made[k] = g, obj[k].owner, buf[k] # <<>>,
                 Len(disk[g]) + Len(buf[k]) = given[g]
          PROVE  /\ kind'[k] = "writer" /\ made'[k] = g /\ obj'[k].owner /\ buf'[k] # <<>>
                 /\ Len(disk'[g]) + Len(buf'[k]) = given'[g]
      <4>1. k # h
        BY <1>1, <2>2, <3>3
      <4> QED
        BY <1>2, <3>1, <3>3, <4>1
    <3> QED
      BY <1>8, <3>1, <3>2, <3>3 DEF Flow, AllThere
  <2> QED
    BY <2>1, <2>2
<1> QED
  BY <1>6, <1>7, <1>8 DEF Flow

\* A step that is none of the writers with something in their buffers.
LEMMA FlowElsewhere ==
  ASSUME Flow, UNCHANGED <<disk, given, told, aborted>>,
         \A g \in Objects : (kind[g] = "writer" /\ buf[g] # <<>>) \/ (kind'[g] = "writer" /\ buf'[g] # <<>>) =>
           /\ kind'[g] = kind[g] /\ made'[g] = made[g] /\ buf'[g] = buf[g]
           /\ obj'[g].owner = obj[g].owner
  PROVE  Flow'
<1>1. ASSUME NEW g \in Objects, kind'[g] = "writer", buf'[g] # <<>>
      PROVE  Follows(g)'
  <2>1. /\ kind[g] = "writer" /\ buf'[g] = buf[g] /\ made'[g] = made[g] /\ obj'[g].owner = obj[g].owner
    BY <1>1
  <2>2. Follows(g)
    BY <1>1, <2>1 DEF Flow
  <2> QED
    BY <2>1, <2>2 DEF Follows
<1>2. ASSUME NEW f \in Files, AllThere(f)
      PROVE  AllThere(f)'
  BY <1>2 DEF AllThere
<1> QED
  BY <1>1, <1>2 DEF Flow

LEMMA LandsAll ==
  ASSUME BTyped, NEW h \in Objects, NEW f \in Files, Serves(h, f),
         NEW s \in Seq(AnyByte), NEW n \in Nat, n = Len(s), n # 0
  PROVE  Land(h, s, n)[f] = Cat(disk[f], s) /\ \A g \in Files \ {f} : Land(h, s, n)[g] = disk[g]
<1>1. SubSeq(s, 1, n) = s
  BY SubSeqFull
<1>2. To(h) = f /\ disk \in [Files -> Seq(AnyByte)]
  BY DEF Serves, BTyped, Domains
<1> QED
  BY <1>1, <1>2 DEF Land, Cat

\* All of a run of bytes is written, or none of it.
LEMMA AllOrNothing ==
  ASSUME ~MayFall, NEW h, NEW s \in Seq(AnyByte), NEW n \in Results(h, s)
  PROVE  n = 0 \/ (n # 0 /\ n = Len(s) /\ n \in Nat)
<1>1. Len(s) \in Nat
  BY LenProperties
<1> QED
  BY <1>1 DEF Results

LEMMA LandsRun ==
  ASSUME ~MayFall, BTyped, NEW h \in Objects, NEW f \in Files, Serves(h, f),
         NEW d \in Nat, NEW e \in Nat, d <= e, disk[f] = Span(f, 0, d), NEW n \in Results(h, Span(f, d, e)), n # 0
  PROVE  /\ Land(h, Span(f, d, e), n)[f] = Span(f, 0, e)
         /\ \A g \in Files \ {f} : Land(h, Span(f, d, e), n)[g] = disk[g]
<1>1. Span(f, d, e) \in Seq(AnyByte)
  BY SpanProperties
<1>2. n = Len(Span(f, d, e)) /\ n \in Nat
  BY <1>1, AllOrNothing
<1>3. 0 \in Nat /\ 0 <= d
  OBVIOUS
<1>4. Cat(Span(f, 0, d), Span(f, d, e)) = Span(f, 0, e)
  BY <1>3, SpanJoins
<1>5. /\ Land(h, Span(f, d, e), n)[f] = Cat(disk[f], Span(f, d, e))
      /\ \A g \in Files \ {f} : Land(h, Span(f, d, e), n)[g] = disk[g]
  BY <1>1, <1>2, LandsAll
<1> QED
  BY <1>4, <1>5

\* flush, of a run of bytes that comes next in its file: the run is in the file
\* and what follows it in the buffer, or somebody is told.
LEMMA FlushRun ==
  ASSUME ~MayFall, BTyped, NEW h \in Objects, NEW f \in Files, Serves(h, f),
         NEW d \in Nat, NEW e \in Nat, d <= e, disk[f] = Span(f, 0, d),
         NEW next, NEW n \in Results(h, Span(f, d, e)), FlushOf(h, Span(f, d, e), n, next)
  PROVE  /\ \A g \in Objects \ {h} : buf'[g] = buf[g]
         /\ \A g \in Files \ {f} : disk'[g] = disk[g]
         /\ told' = told \/ told' = told \cup {f}
         /\ \/ n = 0 /\ f \in told' /\ disk'[f] = Span(f, 0, d) /\ buf'[h] = Span(f, d, e)
            \/ n # 0 /\ disk'[f] = Span(f, 0, e) /\ buf'[h] = next
<1>1. /\ disk' = Land(h, Span(f, d, e), n)
      /\ buf' = [buf EXCEPT ![h] = IF n = 0 THEN Span(f, d, e) ELSE next]
      /\ told' = IF n = 0 THEN told \cup {f} ELSE told
  BY DEF FlushOf, Serves
<1>2. buf'[h] = (IF n = 0 THEN Span(f, d, e) ELSE next) /\ \A g \in Objects \ {h} : buf'[g] = buf[g]
  BY <1>1 DEF BTyped, Domains
<1>3. CASE n = 0
  <2>1. disk' = disk
    BY <1>1, <1>3 DEF Land
  <2> QED
    BY <1>1, <1>2, <1>3, <2>1
<1>4. CASE n # 0
  <2>1. Land(h, Span(f, d, e), n)[f] = Span(f, 0, e) /\ \A g \in Files \ {f} : Land(h, Span(f, d, e), n)[g] = disk[g]
    BY <1>4, LandsRun
  <2> QED
    BY <1>1, <1>2, <1>4, <2>1
<1> QED
  BY <1>3, <1>4

\* Where all that is in a buffer has been written, nothing is left in it.
LEMMA LeftNothing ==
  ASSUME ~MayFall, NEW h, NEW f \in Files, NEW d \in Nat, NEW e \in Nat, d <= e,
         NEW n \in Results(h, Span(f, d, e)), n # 0 \/ d = e
  PROVE  Left(Span(f, d, e), n) = Span(f, e, e)
<1>1. Span(f, d, e) \in Seq(AnyByte) /\ Len(Span(f, d, e)) = e - d /\ Span(f, e, e) = <<>>
  BY SpanProperties, SpanEmpty
<1>2. n = Len(Span(f, d, e))
  <2>1. n = 0 \/ n = Len(Span(f, d, e))
    BY <1>1, AllOrNothing
  <2>2. d = e => Len(Span(f, d, e)) = 0
    BY <1>1
  <2> QED
    BY <2>1, <2>2
<1>3. Len(Left(Span(f, d, e), n)) = 0 /\ Left(Span(f, d, e), n) \in Seq(AnyByte)
  <2>1. n \in 0..Len(Span(f, d, e)) /\ Len(Span(f, d, e)) - n = 0
    BY <1>1, <1>2
  <2> QED
    BY <1>1, <2>1, LeftTyped
<1>4. Left(Span(f, d, e), n) # <<>> => Len(Left(Span(f, d, e), n)) \in Nat \ {0}
  BY <1>3, EmptySeq
<1> QED
  BY <1>1, <1>3, <1>4

\* A writer in use: its file and its buffer have all that it was given.
LEMMA InUse ==
  ASSUME BTyped, Flow, ~aborted, NEW h \in Objects, Usable(h, "writer")
  PROVE  \E f \in Files, d, z \in Nat : /\ d <= z /\ Serves(h, f) /\ Line(h, f, d, z)
                                        /\ f \notin told /\ z = given[f] /\ f = made[h]
<1>1. PICK f \in Files : f = made[h] /\ f \notin told /\ Serves(h, f)
  BY UsableFacts DEF Serves
<1>2. PICK d \in Nat, z \in Nat : d <= z /\ Line(h, f, d, z) /\ (f \notin told => z = given[f])
  BY <1>1, InLine
<1> QED
  BY <1>1, <1>2

LEMMA FlushKeeps ==
  ASSUME ~MayFall, BTyped, BTyped', Flow, ~aborted, NEW h \in Objects, NEW f \in Files,
         NEW d \in Nat, NEW z \in Nat, d <= z, Serves(h, f), Line(h, f, d, z), f \notin told => z = given[f],
         NEW n \in Results(h, Span(f, d, z)), FlushOf(h, Span(f, d, z), n, Left(Span(f, d, z), n)),
         UNCHANGED <<kind, made, given, aborted>>, \A g \in Objects \ {h} : obj'[g] = obj[g],
         n = 0 => obj' = obj
  PROVE  Flow'
<1>0. disk[f] = Span(f, 0, d)
  BY DEF Line
<1>1. disk[f] = Span(f, 0, d) /\ buf[h] = Span(f, d, z) /\ z <= given[f] /\ kind[h] = "writer" /\ made[h] = f /\ obj[h].owner
  BY DEF Line, Serves
<1>2. /\ \A g \in Objects \ {h} : buf'[g] = buf[g]
      /\ \A g \in Files \ {f} : disk'[g] = disk[g]
      /\ told' = told \/ told' = told \cup {f}
      /\ \/ n = 0 /\ f \in told' /\ disk'[f] = Span(f, 0, d) /\ buf'[h] = Span(f, d, z)
         \/ n # 0 /\ disk'[f] = Span(f, 0, z) /\ buf'[h] = Left(Span(f, d, z), n)
  BY <1>0, FlushRun
<1>3. Apart(h, f)
  BY <1>2 DEF Apart
<1>4. z <= given'[f] /\ (f \notin told' => z = given'[f])
  BY <1>1, <1>2
<1>5. CASE n = 0
  <2>1. Line(h, f, d, z)'
    BY <1>2, <1>4, <1>5 DEF Line
  <2>2. f \in told' /\ obj'[h].owner /\ kind'[h] = "writer" /\ made'[h] = f
    BY <1>1, <1>2, <1>5
  <2> QED
    BY <1>3, <2>1, <2>2, FlowKept
<1>6. CASE n # 0
  <2>1. Left(Span(f, d, z), n) = Span(f, z, z)
    BY <1>6, LeftNothing
  <2>2. Line(h, f, z, z)'
    BY <1>2, <1>4, <1>6, <2>1 DEF Line
  <2> QED
    BY <1>3, <1>4, <2>2, FlowKept
<1> QED
  BY <1>5, <1>6

LEMMA FlowFlush ==
  ASSUME ~MayFall, BTyped, BTyped', Flow, ~aborted, NEW h \in Objects, Flush(h)
  PROVE  Flow'
<1>1. /\ Usable(h, "writer") /\ UNCHANGED <<kind, made, given, aborted>> /\ obj' = obj
      /\ \E n \in Results(h, buf[h]) : FlushOf(h, buf[h], n, Left(buf[h], n))
  BY DEF Flush
<1>2. PICK f \in Files, d \in Nat, z \in Nat : /\ d <= z /\ Serves(h, f) /\ Line(h, f, d, z)
                                               /\ f \notin told /\ z = given[f]
  BY <1>1, InUse
<1>3. buf[h] = Span(f, d, z)
  BY <1>2 DEF Line
<1>4. PICK n \in Results(h, Span(f, d, z)) : FlushOf(h, Span(f, d, z), n, Left(Span(f, d, z), n))
  BY <1>1, <1>3
<1>5. \A g \in Objects \ {h} : obj'[g] = obj[g]
  BY <1>1
<1> QED
  BY <1>1, <1>2, <1>4, <1>5, FlushKeeps

LEMMA FlowClear ==
  ASSUME ~MayFall, BTyped, BTyped', Flow, ~aborted, NEW h \in Objects, ClearWriter(h)
  PROVE  Flow'
<1>1. /\ Usable(h, "writer") /\ UNCHANGED <<kind, made, given, aborted>>
      /\ \/ buf[h] = <<>> /\ Clear(h) /\ UNCHANGED <<disk, buf, told>>
         \/ \E n \in Results(h, buf[h]) :
              /\ FlushOf(h, buf[h], n, Left(buf[h], n))
              /\ IF n = 0 THEN obj' = obj ELSE Clear(h)
  BY DEF ClearWriter
<1>2. PICK f \in Files, d \in Nat, z \in Nat : /\ d <= z /\ Serves(h, f) /\ Line(h, f, d, z)
                                               /\ f \notin told /\ z = given[f]
  BY <1>1, InUse
<1>3. buf[h] = Span(f, d, z) /\ disk[f] = Span(f, 0, d)
  BY <1>2 DEF Line
<1>4. Clear(h) => \A g \in Objects \ {h} : obj'[g] = obj[g]
  BY DEF Clear, Cleared, BTyped, FdIInv, FdTypeOK
<1>5. CASE buf[h] = <<>> /\ Clear(h) /\ UNCHANGED <<disk, buf, told>>
  <2>1. d = z
    <3>1. Len(Span(f, d, z)) = z - d /\ Len(<<>>) = 0
      BY <1>2, SpanProperties, EmptySeq
    <3> QED
      BY <1>3, <1>5, <3>1
  <2>2. Line(h, f, d, z)'
    BY <1>1, <1>2, <1>5 DEF Line
  <2>3. Apart(h, f)
    BY <1>1, <1>4, <1>5 DEF Apart
  <2>4. z = given'[f]
    BY <1>1, <1>2
  <2> QED
    BY <1>2, <2>1, <2>2, <2>3, <2>4, FlowKept
<1>6. CASE \E n \in Results(h, buf[h]) : /\ FlushOf(h, buf[h], n, Left(buf[h], n))
                                         /\ IF n = 0 THEN obj' = obj ELSE Clear(h)
  <2>1. PICK n \in Results(h, Span(f, d, z)) : /\ FlushOf(h, Span(f, d, z), n, Left(Span(f, d, z), n))
                                               /\ IF n = 0 THEN obj' = obj ELSE Clear(h)
    BY <1>3, <1>6
  <2>2. (n = 0 => obj' = obj) /\ \A g \in Objects \ {h} : obj'[g] = obj[g]
    BY <1>4, <2>1
  <2> QED
    BY <1>1, <1>2, <2>1, <2>2, FlushKeeps
<1> QED
  BY <1>1, <1>5, <1>6

LEMMA FlowFail ==
  ASSUME BTyped, BTyped', Flow, ~aborted, NEW h \in Objects, Fail(h)
  PROVE  Flow'
<1>1. /\ Usable(h, "writer") /\ told' = told \cup {made[h]}
      /\ UNCHANGED <<obj, kind, made, buf, disk, given, aborted>>
  BY DEF Fail
<1>2. PICK f \in Files, d \in Nat, z \in Nat : /\ d <= z /\ Serves(h, f) /\ Line(h, f, d, z)
                                               /\ z = given[f] /\ f = made[h]
  BY <1>1, InUse
<1>3. Line(h, f, d, z)' /\ z = given'[f]
  BY <1>1, <1>2 DEF Line
<1>4. Apart(h, f)
  BY <1>1, <1>2 DEF Apart
<1>5. obj'[h].owner /\ kind'[h] = "writer" /\ made'[h] = f
  BY <1>1, <1>2 DEF Serves
<1> QED
  BY <1>2, <1>3, <1>4, <1>5, FlowKept

\* What write is called with comes after all that was given so far.
LEMMA Gives ==
  ASSUME BTyped, Flow, ~aborted, NEW h \in Objects, NEW c \in Counts, Give(h, c)
  PROVE  \E f \in Files, d, z, x \in Nat :
           /\ d <= z /\ x = z + c /\ Serves(h, f) /\ Line(h, f, d, z) /\ f \notin told /\ f = made[h]
           /\ Data(h, c) = Span(f, z, x) /\ given'[f] = x /\ \A g \in Files \ {f} : given'[g] = given[g]
           /\ UNCHANGED <<obj, kind, made, aborted>>
<1>1. /\ Usable(h, "writer") /\ given' = [given EXCEPT ![made[h]] = @ + c]
      /\ UNCHANGED <<obj, kind, made, aborted>>
  BY DEF Give
<1>2. PICK f \in Files, d \in Nat, z \in Nat :
        d <= z /\ Serves(h, f) /\ Line(h, f, d, z) /\ f \notin told /\ z = given[f] /\ f = made[h]
  BY <1>1, InUse
<1>3. PICK x \in Nat : x = z + c
  BY ParamFacts
<1>4. Data(h, c) = Span(f, z, x)
  BY <1>2, <1>3 DEF Data, Span
<1>5. given'[f] = x /\ \A g \in Files \ {f} : given'[g] = given[g]
  BY <1>1, <1>2, <1>3 DEF BTyped, Domains
<1> QED
  BY <1>1, <1>2, <1>3, <1>4, <1>5

LEMMA FlowWrite ==
  ASSUME ~MayFall, BTyped, BTyped', Flow, ~aborted, NEW h \in Objects, NEW c \in Counts, Write(h, c)
  PROVE  Flow'
<1>1. Give(h, c)
  BY DEF Write
<1>2. PICK f \in Files, d \in Nat, z \in Nat, x \in Nat :
        /\ d <= z /\ x = z + c /\ Serves(h, f) /\ Line(h, f, d, z)
        /\ Data(h, c) = Span(f, z, x) /\ given'[f] = x /\ \A g \in Files \ {f} : given'[g] = given[g]
        /\ UNCHANGED <<obj, kind, made, aborted>>
  BY <1>1, Gives
<1>3. c \in Nat /\ z <= x /\ 1 \in Nat
  BY <1>2, ParamFacts
<1>4. PICK free \in Nat : free = BufSize - Len(buf[h])
  <2>1. Len(buf[h]) \in Nat /\ Len(buf[h]) <= BufSize /\ BufSize \in Nat
    BY LenFacts, ParamFacts DEF BTyped, Domains
  <2>2. BufSize - Len(buf[h]) \in Nat
    BY <2>1
  <2> QED
    BY <2>2
<1>5. \/ c <= free /\ buf' = [buf EXCEPT ![h] = buf[h] \o SubSeq(Data(h, c), 1, c)] /\ UNCHANGED <<disk, told>>
      \/ /\ c > free
         /\ \E n \in Results(h, buf[h] \o SubSeq(Data(h, c), 1, free)) :
              FlushOf(h, buf[h] \o SubSeq(Data(h, c), 1, free), n, Remaining(Data(h, c), free))
  <2>1. (c <= free => LeastOf(free, c) = c) /\ (c > free => LeastOf(free, c) = free)
    BY <1>3 DEF LeastOf
  <2> DEFINE full == buf[h] \o SubSeq(Data(h, c), 1, LeastOf(free, c))
  <2>2. \/ c <= free /\ buf' = [buf EXCEPT ![h] = full] /\ UNCHANGED <<disk, told>>
        \/ c > free /\ \E n \in Results(h, full) : FlushOf(h, full, n, Remaining(Data(h, c), free))
    BY <1>4, Zenon DEF Write
  <2>3. CASE c <= free
    <3>1. full = buf[h] \o SubSeq(Data(h, c), 1, c)
      BY <2>1, <2>3, Zenon
    <3>2. ~(c > free)
      BY <1>3, <2>3
    <3> HIDE DEF full
    <3> QED
      BY <2>2, <2>3, <3>1, <3>2, Zenon
  <2>4. CASE c > free
    <3>1. full = buf[h] \o SubSeq(Data(h, c), 1, free)
      BY <2>1, <2>4, Zenon
    <3>2. ~(c <= free)
      BY <1>3, <2>4
    <3> HIDE DEF full
    <3> QED
      BY <2>2, <2>4, <3>1, <3>2, Zenon
  <2>5. c <= free \/ c > free
    BY <1>3
  <2> QED
    BY <2>3, <2>4, <2>5, Zenon
<1>6. buf[h] = Span(f, d, z) /\ disk[f] = Span(f, 0, d) /\ kind[h] = "writer" /\ obj[h].owner /\ made[h] = f
  BY <1>2 DEF Line, Serves
<1>7. d <= x /\ x <= x
  BY <1>2, <1>3
<1>8. kind'[h] = "writer" /\ obj'[h].owner /\ made'[h] = f
  BY <1>2, <1>6
<1>9. CASE c <= free /\ buf' = [buf EXCEPT ![h] = buf[h] \o SubSeq(Data(h, c), 1, c)] /\ UNCHANGED <<disk, told>>
  <2>1. Part(Span(f, z, x), 1, c) = Span(f, z, x)
    <3>1. z <= z /\ x <= x /\ 1 = z - z + 1 /\ c = x - z
      BY <1>2, <1>3
    <3> QED
      BY <1>3, <3>1, SpanPart
  <2>2. Cat(Span(f, d, z), Span(f, z, x)) = Span(f, d, x)
    BY <1>2, <1>3, SpanJoins
  <2>3. buf' = [buf EXCEPT ![h] = Cat(Span(f, d, z), Part(Span(f, z, x), 1, c))]
    BY <1>2, <1>6, <1>9 DEF Cat, Part
  <2>4. buf'[h] = Span(f, d, x) /\ \A g \in Objects \ {h} : buf'[g] = buf[g]
    BY <2>1, <2>2, <2>3 DEF BTyped, Domains
  <2>5. Apart(h, f)
    BY <1>2, <1>9, <2>4 DEF Apart
  <2>6. Line(h, f, d, x)'
    BY <1>2, <1>6, <1>7, <1>9, <2>4 DEF Line
  <2>7. x = given'[f]
    BY <1>2
  <2> QED
    BY <1>2, <1>7, <1>8, <2>5, <2>6, <2>7, FlowKept
<1>10. CASE /\ c > free
            /\ \E n \in Results(h, buf[h] \o SubSeq(Data(h, c), 1, free)) :
                 FlushOf(h, buf[h] \o SubSeq(Data(h, c), 1, free), n, Remaining(Data(h, c), free))
  <2>1. PICK y \in Nat : y = z + free
    OBVIOUS
  <2>2. z <= y /\ y <= x /\ d <= y
    BY <1>2, <1>3, <1>10, <2>1
  <2>3. Part(Span(f, z, x), 1, free) = Span(f, z, y)
    <3>1. z <= z /\ 1 = z - z + 1 /\ free = y - z
      BY <2>1
    <3> QED
      BY <1>3, <2>2, <3>1, SpanPart
  <2>4. Cat(Span(f, d, z), Span(f, z, y)) = Span(f, d, y)
    BY <1>2, <2>2, SpanJoins
  <2>5. buf[h] \o SubSeq(Data(h, c), 1, free) = Span(f, d, y)
    <3>1. Cat(Span(f, d, z), Part(Span(f, z, x), 1, free)) = Span(f, d, y)
      BY <2>3, <2>4
    <3> QED
      BY <1>2, <1>6, <3>1, Zenon DEF Cat, Part
  <2>6. Remaining(Data(h, c), free) = Span(f, y, x)
    <3>1. PICK i \in Nat : i = free + 1
      OBVIOUS
    <3>2. Len(Span(f, z, x)) = x - z
      BY <1>3, SpanProperties
    <3>3. Len(Data(h, c)) = c
      BY <1>2, <1>3, <3>2
    <3>4. x <= x /\ i = y - z + 1 /\ c = x - z
      BY <1>2, <1>3, <2>1, <3>1
    <3>5. Part(Span(f, z, x), i, c) = Span(f, y, x)
      BY <1>3, <2>2, <3>4, SpanPart
    <3>6. Remaining(Data(h, c), free) = Part(Data(h, c), i, c)
      BY <3>1, <3>3, Zenon DEF Remaining, Part
    <3> QED
      BY <1>2, <3>5, <3>6
  <2>7. PICK n \in Results(h, Span(f, d, y)) : FlushOf(h, Span(f, d, y), n, Span(f, y, x))
    BY <1>10, <2>5, <2>6, Zenon
  <2>8. disk[f] = Span(f, 0, d)
    BY <1>6
  <2>9. /\ \A g \in Objects \ {h} : buf'[g] = buf[g]
        /\ \A g \in Files \ {f} : disk'[g] = disk[g]
        /\ told' = told \/ told' = told \cup {f}
        /\ \/ n = 0 /\ f \in told' /\ disk'[f] = Span(f, 0, d) /\ buf'[h] = Span(f, d, y)
           \/ n # 0 /\ disk'[f] = Span(f, 0, y) /\ buf'[h] = Span(f, y, x)
    BY <1>2, <2>2, <2>7, <2>8, FlushRun
  <2>10. Apart(h, f)
    BY <1>2, <2>9 DEF Apart
  <2>11. x = given'[f]
    BY <1>2
  <2>12. CASE n = 0
    <3>1. Line(h, f, d, y)' /\ f \in told'
      BY <2>2, <2>9, <2>11, <2>12 DEF Line
    <3> QED
      BY <1>2, <1>8, <2>2, <2>10, <3>1, FlowKept
  <2>13. CASE n # 0
    <3>1. Line(h, f, y, x)'
      BY <1>7, <2>9, <2>11, <2>13 DEF Line
    <3> QED
      BY <1>2, <1>8, <2>2, <2>10, <2>11, <3>1, FlowKept
  <2> QED
    BY <2>12, <2>13
<1> QED
  BY <1>5, <1>9, <1>10

LEMMA FlowWriteThrough ==
  ASSUME ~MayFall, BTyped, BTyped', Flow, ~aborted, NEW h \in Objects, NEW c \in Counts, WriteThrough(h, c)
  PROVE  Flow'
<1>1. /\ Give(h, c)
      /\ \E n \in Results(h, buf[h]), m \in Results(h, Data(h, c)) :
           IF n = 0 /\ buf[h] # <<>> THEN FlushOf(h, buf[h], 0, <<>>)
           ELSE /\ disk' = [disk EXCEPT ![To(h)] = @ \o SubSeq(buf[h], 1, n) \o SubSeq(Data(h, c), 1, m)]
                /\ buf' = [buf EXCEPT ![h] = Left(@, n)]
                /\ told' = IF m = 0 THEN told \cup {made[h]} ELSE told
  BY DEF WriteThrough
<1>2. PICK f \in Files, d \in Nat, z \in Nat, x \in Nat :
        /\ d <= z /\ x = z + c /\ Serves(h, f) /\ Line(h, f, d, z)
        /\ Data(h, c) = Span(f, z, x) /\ given'[f] = x /\ \A g \in Files \ {f} : given'[g] = given[g]
        /\ UNCHANGED <<obj, kind, made, aborted>>
  BY <1>1, Gives
<1>3. c \in Nat /\ z <= x /\ 1 \in Nat /\ 0 \in Nat /\ 0 <= d /\ 0 <= z
  BY <1>2, ParamFacts
<1>4. buf[h] = Span(f, d, z) /\ disk[f] = Span(f, 0, d)
      /\ kind[h] = "writer" /\ obj[h].owner /\ made[h] = f /\ To(h) = f
  BY <1>2 DEF Line, Serves
<1>5. kind'[h] = "writer" /\ obj'[h].owner /\ made'[h] = f
  BY <1>2, <1>4
<1>6. PICK n \in Results(h, Span(f, d, z)), m \in Results(h, Span(f, z, x)) :
        IF n = 0 /\ Span(f, d, z) # <<>> THEN FlushOf(h, Span(f, d, z), 0, <<>>)
        ELSE /\ disk' = [disk EXCEPT ![f] = Cat(Cat(Span(f, 0, d), Part(Span(f, d, z), 1, n)), Part(Span(f, z, x), 1, m))]
             /\ buf' = [buf EXCEPT ![h] = Left(Span(f, d, z), n)]
             /\ told' = IF m = 0 THEN told \cup {f} ELSE told
  <2>1. PICK n \in Results(h, buf[h]), m \in Results(h, Data(h, c)) :
          IF n = 0 /\ buf[h] # <<>> THEN FlushOf(h, buf[h], 0, <<>>)
          ELSE /\ disk' = [disk EXCEPT ![To(h)] = Cat(Cat(disk[To(h)], Part(buf[h], 1, n)), Part(Data(h, c), 1, m))]
               /\ buf' = [buf EXCEPT ![h] = Left(buf[h], n)]
               /\ told' = IF m = 0 THEN told \cup {made[h]} ELSE told
    BY <1>1, Zenon DEF Cat, Part
  <2>2. /\ n \in Results(h, Span(f, d, z)) /\ m \in Results(h, Span(f, z, x))
        /\ IF n = 0 /\ Span(f, d, z) # <<>> THEN FlushOf(h, Span(f, d, z), 0, <<>>)
           ELSE /\ disk' = [disk EXCEPT ![f] = Cat(Cat(Span(f, 0, d), Part(Span(f, d, z), 1, n)), Part(Span(f, z, x), 1, m))]
                /\ buf' = [buf EXCEPT ![h] = Left(Span(f, d, z), n)]
                /\ told' = IF m = 0 THEN told \cup {f} ELSE told
    BY <1>2, <1>4, <2>1
  <2> QED
    BY <2>2, Zenon
<1>7. CASE n = 0 /\ Span(f, d, z) # <<>>
  <2>1. 0 \in Results(h, Span(f, d, z)) /\ FlushOf(h, Span(f, d, z), 0, <<>>) /\ disk[f] = Span(f, 0, d)
    BY <1>4, <1>6, <1>7
  <2>2. /\ \A g \in Objects \ {h} : buf'[g] = buf[g]
        /\ \A g \in Files \ {f} : disk'[g] = disk[g]
        /\ told' = told \/ told' = told \cup {f}
        /\ f \in told' /\ disk'[f] = Span(f, 0, d) /\ buf'[h] = Span(f, d, z)
    BY <1>2, <2>1, FlushRun
  <2>3. Apart(h, f)
    BY <1>2, <2>2 DEF Apart
  <2>4. Line(h, f, d, z)'
    BY <1>2, <1>3, <2>2 DEF Line
  <2> QED
    BY <1>2, <1>5, <2>2, <2>3, <2>4, FlowKept
<1>8. CASE ~(n = 0 /\ Span(f, d, z) # <<>>)
  <2>1. Span(f, d, z) \in Seq(AnyByte) /\ Len(Span(f, d, z)) = z - d /\ Len(<<>>) = 0
    BY <1>2, SpanProperties, EmptySeq
  <2>2. n # 0 \/ d = z
    BY <1>2, <1>8, <2>1
  <2>3. n \in Nat /\ n = z - d
    <3>1. n = 0 \/ (n = Len(Span(f, d, z)) /\ n \in Nat)
      BY <2>1, AllOrNothing
    <3> QED
      BY <1>2, <2>1, <2>2, <3>1
  <2>4. m = 0 \/ m = c
    <3>1. Span(f, z, x) \in Seq(AnyByte) /\ Len(Span(f, z, x)) = x - z
      BY <1>3, SpanProperties
    <3>2. m = 0 \/ m = Len(Span(f, z, x))
      BY <3>1, AllOrNothing
    <3> QED
      BY <1>2, <1>3, <3>1, <3>2
  <2>5. PICK w \in Nat : w = z + m
    BY <1>3, <2>4
  <2>6. z <= w /\ w <= x /\ m \in Nat /\ m = w - z /\ (m # 0 => w = x)
    BY <1>2, <1>3, <2>4, <2>5
  <2>7. Part(Span(f, d, z), 1, n) = Span(f, d, z)
    <3>1. d <= d /\ z <= z /\ 1 = d - d + 1
      OBVIOUS
    <3> QED
      BY <1>2, <1>3, <2>3, <3>1, SpanPart
  <2>8. Part(Span(f, z, x), 1, m) = Span(f, z, w)
    <3>1. z <= z /\ 1 = z - z + 1
      OBVIOUS
    <3> QED
      BY <1>3, <2>6, <3>1, SpanPart
  <2>9. Cat(Cat(Span(f, 0, d), Span(f, d, z)), Span(f, z, w)) = Span(f, 0, w)
    BY <1>2, <1>3, <2>6, SpanJoins
  <2>10. /\ disk' = [disk EXCEPT ![f] = Cat(Cat(Span(f, 0, d), Part(Span(f, d, z), 1, n)), Part(Span(f, z, x), 1, m))]
         /\ buf' = [buf EXCEPT ![h] = Left(Span(f, d, z), n)]
         /\ told' = IF m = 0 THEN told \cup {f} ELSE told
    BY <1>6, <1>8, Zenon
  <2>11. Left(Span(f, d, z), n) = Span(f, w, w)
    <3>1. Left(Span(f, d, z), n) = Span(f, z, z)
      BY <1>2, <2>2, LeftNothing
    <3> QED
      BY <3>1, SpanEmpty
  <2>12. /\ disk'[f] = Span(f, 0, w) /\ \A g \in Files \ {f} : disk'[g] = disk[g]
         /\ buf'[h] = Span(f, w, w) /\ \A g \in Objects \ {h} : buf'[g] = buf[g]
    BY <2>7, <2>8, <2>9, <2>10, <2>11 DEF BTyped, Domains
  <2>13. Apart(h, f)
    BY <1>2, <2>10, <2>12 DEF Apart
  <2>14. Line(h, f, w, w)'
    BY <1>2, <2>6, <2>12 DEF Line
  <2>15. f \notin told' => w = given'[f]
    BY <1>2, <2>6, <2>10
  <2>16. w <= w
    OBVIOUS
  <2> QED
    BY <1>2, <2>13, <2>14, <2>15, <2>16, FlowKept
<1> QED
  BY <1>7, <1>8

\* What is left in the buffer of an object that goes is written, or somebody was
\* told, or the process ends.
LEMMA FlowDestroy ==
  ASSUME ~MayFall, BTyped, BTyped', FdIInv', EachOnce', Flow, ~aborted, NEW h \in Objects,
         DestroyQuietly(h) \/ DestroyFlushing(h)
  PROVE  Flow'
<1>1. /\ \A g \in Objects \ {h} : obj'[g] = obj[g]
      /\ kind'[h] = "fd" /\ buf'[h] = <<>>
      /\ \A g \in Objects \ {h} : kind'[g] = kind[g] /\ made'[g] = made[g] /\ buf'[g] = buf[g]
      /\ UNCHANGED <<told, given>>
      /\ \/ ~FlushesLast(h) /\ UNCHANGED <<disk, aborted>>
         \/ /\ kind[h] = "writer" /\ buf[h] # <<>>
            /\ \E n \in Results(h, buf[h]) : disk' = Land(h, buf[h], n) /\ aborted' = (n = 0)
  BY DestroyFacts
<1>2. CASE ~(kind[h] = "writer" /\ buf[h] # <<>>)
  BY <1>1, <1>2, FlowElsewhere
<1>3. CASE kind[h] = "writer" /\ buf[h] # <<>>
  <2>1. PICK f \in Files : f = made[h] /\ Serves(h, f)
    <3>1. obj[h].owner /\ made[h] \in Files
      BY <1>3, ParamFacts DEF Flow, Follows, BTyped, Kinds
    <3>2. To(h) = made[h]
      BY <1>3, <3>1 DEF To, BTyped, Kinds
    <3> QED
      BY <1>3, <3>1, <3>2 DEF Serves
  <2>2. PICK d \in Nat, z \in Nat : d <= z /\ Line(h, f, d, z) /\ (f \notin told => z = given[f])
    BY <2>1, InLine
  <2>3. buf[h] = Span(f, d, z) /\ disk[f] = Span(f, 0, d) /\ z <= given[f]
    BY <2>2 DEF Line
  <2>4. buf'[h] = Span(f, d, d) /\ buf'[h] = Span(f, z, z) /\ d <= d /\ z <= z
    BY <1>1, SpanEmpty
  <2>5. given'[f] = given[f] /\ given[f] \in Nat
    BY <1>1, LenFacts
  <2>6. CASE disk' = disk /\ (f \in told \/ aborted')
    <3>1. Apart(h, f)
      BY <1>1, <2>6 DEF Apart
    <3>2. Line(h, f, d, d)'
      BY <2>2, <2>3, <2>4, <2>5, <2>6 DEF Line
    <3>3. f \in told' \/ aborted'
      BY <1>1, <2>6
    <3> QED
      BY <2>1, <2>4, <3>1, <3>2, <3>3, FlowKept
  <2>7. ASSUME NEW n \in Results(h, Span(f, d, z)), n # 0, disk' = Land(h, Span(f, d, z), n)
        PROVE  Flow'
    <3>0. disk[f] = Span(f, 0, d)
      BY <2>3
    <3>1. disk'[f] = Span(f, 0, z) /\ \A g \in Files \ {f} : disk'[g] = disk[g]
      <4>1. /\ Land(h, Span(f, d, z), n)[f] = Span(f, 0, z)
            /\ \A g \in Files \ {f} : Land(h, Span(f, d, z), n)[g] = disk[g]
        BY <2>1, <2>2, <2>7, <3>0, LandsRun
      <4> QED
        BY <2>7, <4>1
    <3>2. Apart(h, f)
      BY <1>1, <3>1 DEF Apart
    <3>3. Line(h, f, z, z)'
      BY <2>3, <2>4, <2>5, <3>1 DEF Line
    <3>4. f \notin told' => z = given'[f]
      BY <1>1, <2>2, <2>5
    <3> QED
      BY <2>1, <2>4, <3>2, <3>3, <3>4, FlowKept
  <2>8. CASE ~FlushesLast(h) /\ UNCHANGED <<disk, aborted>>
    <3>1. f \in told
      BY <1>3, <2>1, <2>8 DEF FlushesLast, BTyped, Kinds
    <3> QED
      BY <2>6, <2>8, <3>1
  <2>9. CASE \E n \in Results(h, buf[h]) : disk' = Land(h, buf[h], n) /\ aborted' = (n = 0)
    <3>1. PICK n \in Results(h, Span(f, d, z)) : disk' = Land(h, Span(f, d, z), n) /\ aborted' = (n = 0)
      BY <2>3, <2>9
    <3>2. CASE n = 0
      <4>1. disk' = disk /\ aborted'
        BY <3>1, <3>2 DEF Land
      <4> QED
        BY <2>6, <4>1
    <3>3. CASE n # 0
      BY <2>7, <3>1, <3>3
    <3> QED
      BY <3>2, <3>3
  <2> QED
    BY <1>1, <2>8, <2>9
<1> QED
  BY <1>2, <1>3

LEMMA FlowStep == ~MayFall /\ BTyped /\ Flow /\ [BfdNext]_bfdVars => Flow'
<1> SUFFICES ASSUME ~MayFall, BTyped, Flow, [BfdNext]_bfdVars PROVE Flow'
  OBVIOUS
<1>1. BTyped' /\ FdIInv' /\ EachOnce'
  BY BTypedStep DEF BTyped
<1>2. CASE UNCHANGED bfdVars
  BY <1>2 DEF bfdVars, Flow, Follows, AllThere
<1>3. CASE BfdNext
  <2>1. PICK h \in Objects :
          \/ Plain(h) /\ (Default(h) \/ Clear(h)) /\ UNCHANGED ours
          \/ \E f \in Files : Open(h, f) /\ UNCHANGED ours
          \/ \E k \in Objects : Plain(h) /\ Plain(k) /\ Assign(h, k) /\ UNCHANGED ours
          \/ \E k \in Objects : Lend(h, k) \/ Make(h, k, "writer") \/ Make(h, k, "reader")
          \/ Flush(h) \/ ClearWriter(h) \/ DestroyQuietly(h) \/ DestroyFlushing(h) \/ Fail(h) \/ Read(h)
          \/ \E c \in Counts : Write(h, c) \/ WriteThrough(h, c)
    BY <1>3 DEF BfdNext
  <2>2. ~aborted
    BY <1>3 DEF BfdNext
  <2>3. CASE /\ UNCHANGED ours
             /\ \/ Plain(h) /\ (Default(h) \/ Clear(h))
                \/ \E f \in Files : Open(h, f)
                \/ \E k \in Objects : Plain(h) /\ Plain(k) /\ Assign(h, k)
    <3>1. \A g \in Objects : kind[g] # "fd" => obj'[g] = obj[g]
      BY <1>1, <2>3, PlainStep
    <3>2. UNCHANGED <<kind, made, buf>> /\ UNCHANGED <<disk, given, told, aborted>>
      BY <2>3 DEF ours
    <3> QED
      BY <3>1, <3>2, FlowElsewhere
  <2>4. ASSUME NEW k \in Objects, Lend(h, k) \/ Make(h, k, "writer") \/ Make(h, k, "reader")
        PROVE  Flow'
    <3>1. /\ kind[h] = "fd" /\ buf[k] = <<>> /\ UNCHANGED buf
          /\ UNCHANGED <<disk, given, told, aborted>>
          /\ \A g \in Objects \ {h, k} : obj'[g] = obj[g]
          /\ \A g \in Objects \ {h} : kind'[g] = kind[g] /\ made'[g] = made[g]
      BY <1>1, <2>4, HandOver
    <3>2. buf[h] = <<>>
      BY <3>1 DEF BTyped, Kinds
    <3> QED
      BY <3>1, <3>2, FlowElsewhere
  <2>5. CASE Read(h)
    <3>1. /\ kind[h] = "reader" /\ UNCHANGED <<obj, kind, made>> /\ UNCHANGED <<disk, given, told, aborted>>
          /\ \A g \in Objects \ {h} : buf'[g] = buf[g]
      BY <2>5 DEF Read, Usable, BTyped, Domains
    <3> QED
      BY <3>1, FlowElsewhere
  <2> QED
    BY <1>1, <2>1, <2>2, <2>3, <2>4, <2>5, FlowFlush, FlowClear, FlowDestroy, FlowFail, FlowWrite,
       FlowWriteThrough
<1> QED
  BY <1>2, <1>3

LEMMA FlowDelivers == BTyped /\ Flow => Delivered
<1> SUFFICES ASSUME BTyped, Flow, NEW f \in Files
             PROVE  /\ IsPrefix(disk[f], Bytes(f, 1, given[f]))
                    /\ f \notin told /\ ~aborted =>
                         \/ disk[f] = Bytes(f, 1, given[f])
                         \/ \E h \in Objects : made[h] = f /\ obj[h].owner /\ disk[f] \o buf[h] = Bytes(f, 1, given[f])
  BY DEF Delivered
<1>1. PICK d \in Nat : d = Len(disk[f])
  BY LenFacts
<1>2. PICK z \in Nat : z = given[f]
  BY LenFacts
<1>3. disk[f] = Span(f, 0, d) /\ d <= z /\ 0 \in Nat /\ 0 <= d /\ 0 <= z /\ 0 <= 0 /\ 1 \in Nat
  BY <1>1, <1>2 DEF Flow
<1>4. Bytes(f, 1, given[f]) = Span(f, 0, z)
  BY <1>2 DEF Span
<1>5. IsPrefix(disk[f], Bytes(f, 1, given[f]))
  <2>1. Len(Span(f, 0, d)) = d /\ Len(Span(f, 0, z)) = z
    <3>1. Len(Span(f, 0, d)) = d - 0 /\ Len(Span(f, 0, z)) = z - 0
      BY <1>3, SpanProperties
    <3> QED
      BY <3>1
  <2>2. Part(Span(f, 0, d), 1, d) = Span(f, 0, d) /\ Part(Span(f, 0, z), 1, d) = Span(f, 0, d)
    <3>1. 1 = 0 - 0 + 1 /\ d = d - 0 /\ d <= d
      OBVIOUS
    <3> QED
      BY <1>3, <3>1, SpanPart
  <2>3. SubSeq(Span(f, 0, d), 1, d) = SubSeq(Span(f, 0, z), 1, d)
    BY <2>2, Zenon DEF Part
  <2>4. Len(Span(f, 0, d)) <= Len(Span(f, 0, z))
    BY <1>3, <2>1
  <2>5. SubSeq(Span(f, 0, d), 1, Len(Span(f, 0, d))) = SubSeq(Span(f, 0, z), 1, Len(Span(f, 0, d)))
    BY <2>1, <2>3, Zenon
  <2>6. IsPrefix(Span(f, 0, d), Span(f, 0, z))
    BY <2>4, <2>5, Zenon DEF IsPrefix
  <2> QED
    BY <1>3, <1>4, <2>6, Zenon
<1>6. ASSUME f \notin told, ~aborted
      PROVE  \/ disk[f] = Bytes(f, 1, given[f])
             \/ \E h \in Objects : made[h] = f /\ obj[h].owner /\ disk[f] \o buf[h] = Bytes(f, 1, given[f])
  <2>1. AllThere(f)
    BY <1>6 DEF Flow
  <2>2. CASE d = z
    BY <1>3, <1>4, <2>2
  <2>3. ASSUME NEW h \in Objects, kind[h] = "writer", made[h] = f, obj[h].owner, buf[h] # <<>>,
               Len(disk[f]) + Len(buf[h]) = given[f]
        PROVE  disk[f] \o buf[h] = Bytes(f, 1, given[f])
    <3>1. Follows(h)
      BY <2>3 DEF Flow
    <3>2. buf[h] = Span(f, d, z)
      BY <1>1, <1>2, <2>3, <3>1 DEF Follows
    <3>3. Cat(Span(f, 0, d), Span(f, d, z)) = Span(f, 0, z)
      BY <1>3, SpanJoins
    <3> QED
      BY <1>3, <1>4, <3>2, <3>3, Zenon DEF Cat
  <2> QED
    BY <1>1, <1>2, <2>1, <2>2, <2>3, Zenon DEF AllThere
<1> QED
  BY <1>5, <1>6

\* Where a write(2) is never partial, whatever is handed to a writer is in its
\* file or in its buffer, or somebody was told that it is not: for every size of
\* buffer, every sequence of counts and every order of flush, write, close,
\* redirection and destruction, with any of them failing (bufferfd.cpp).
THEOREM WritesArrive == ASSUME ~MayFall PROVE BfdSpec => []Delivered
<1>1. BfdInit => Flow
  BY FlowInitially
<1>2. BTyped /\ Flow /\ [BfdNext]_bfdVars => Flow'
  BY FlowStep
<1>3. BTyped /\ Flow => Delivered
  BY FlowDelivers
<1> QED
  BY <1>1, <1>2, <1>3, AlwaysTyped, PTL DEF BfdSpec

-----------------------------------------------------------------------------
(* What is read is the file, block by block. *)

Blocks(l) == \E q \in Nat : l = q * Block

LEMMA BlocksLess ==
  /\ Blocks(BufSize) /\ BufSize >= Block
  /\ \A l \in Nat : Blocks(l) /\ l # 0 => l >= Block /\ Blocks(l - Block)
<1>1. Block \in Nat \ {0} /\ BufSize \in Nat \ {0} /\ BufSize % Block = 0
  BY BufferParams
<1>2. \E q \in Nat : BufSize = q * Block
  BY <1>1, SMTT(20)
<1>3. ASSUME NEW l \in Nat, NEW q \in Nat, l = q * Block, l # 0
      PROVE  q - 1 \in Nat /\ l >= Block /\ l - Block = (q - 1) * Block
  BY <1>1, <1>3, SMTT(20)
<1>4. \A l \in Nat : Blocks(l) /\ l # 0 => l >= Block /\ Blocks(l - Block)
  BY <1>3, Zenon DEF Blocks
<1> QED
  BY <1>1, <1>2, <1>4, Zenon DEF Blocks

\* A reader that has something in its buffer has the bytes between those that
\* were returned and the position in the file: whole blocks, or the last ones.
Ahead(h) ==
  LET f == made[h]
      g == Len(got[f])
  IN  /\ obj[h].owner /\ g + Len(buf[h]) = pos[f] /\ buf[h] = Span(f, g, pos[f])
      /\ f \in Piped \/ Blocks(Len(buf[h])) \/ pos[f] = FileLen

AllRead(f) ==
  \/ Len(got[f]) = pos[f]
  \/ \E h \in Objects : kind[h] = "reader" /\ made[h] = f /\ buf[h] # <<>>

Order ==
  /\ \A f \in Files \ Written :
       /\ got[f] = Span(f, 0, Len(got[f])) /\ Len(got[f]) <= pos[f]
       /\ f \notin opened => pos[f] = 0
       /\ (\E n \in Numbers : table[n] = f) => AllRead(f)
  /\ \A h \in Objects : kind[h] = "reader" /\ buf[h] # <<>> => Ahead(h)

LEMMA OrderInitially == BfdInit => Order
<1> SUFFICES ASSUME BfdInit PROVE Order
  OBVIOUS
<1>1. /\ \A f \in Files : got[f] = <<>> /\ pos[f] = 0
      /\ \A h \in Objects : buf[h] = <<>>
  BY DEF BfdInit
<1>2. Len(<<>>) = 0 /\ \A f \in Files : Span(f, 0, 0) = <<>>
  BY SpanEmpty, EmptySeq
<1>3. \A f \in Files : Len(got[f]) = 0 /\ got[f] = Span(f, 0, 0) /\ pos[f] = 0
  BY <1>1, <1>2
<1> QED
  BY <1>1, <1>3 DEF Order, AllRead

\* Whatever is not a read: a file may be closed, with what a reader of it still
\* had, and files may be opened that were never opened before.
LEMMA OrderElsewhere ==
  ASSUME BTyped, Order, UNCHANGED <<pos, got>>, opened \subseteq opened',
         \A n \in Numbers : table'[n] \in {table[n], Closed} \/ table'[n] \notin opened,
         \A g \in Objects : kind[g] = "reader" /\ buf[g] # <<>> =>
           \/ kind'[g] = kind[g] /\ made'[g] = made[g] /\ buf'[g] = buf[g]
           \/ \A n \in Numbers : table'[n] # made[g],
         \A g \in Objects : kind'[g] = "reader" /\ buf'[g] # <<>> =>
           kind'[g] = kind[g] /\ made'[g] = made[g] /\ buf'[g] = buf[g] /\ obj'[g].owner = obj[g].owner
  PROVE  Order'
<1>1. ASSUME NEW g \in Objects, kind'[g] = "reader", buf'[g] # <<>>
      PROVE  Ahead(g)'
  <2>1. /\ kind[g] = "reader" /\ buf'[g] = buf[g] /\ made'[g] = made[g] /\ obj'[g].owner = obj[g].owner
    BY <1>1
  <2>2. Ahead(g)
    BY <1>1, <2>1 DEF Order
  <2> QED
    BY <2>1, <2>2 DEF Ahead
<1>2. ASSUME NEW f \in Files \ Written, NEW n \in Numbers, table'[n] = f
      PROVE  AllRead(f)'
  <2>1. f # Closed
    BY ClosedIsNoFile
  <2>2. CASE f \notin opened
    <3>1. Len(got[f]) <= pos[f] /\ pos[f] = 0 /\ Len(got[f]) \in Nat
      BY <2>2, LenFacts DEF Order
    <3>2. Len(got'[f]) = pos'[f]
      BY <3>1
    <3> QED
      BY <3>2 DEF AllRead
  <2>3. CASE f \in opened
    <3>1. table[n] = f
      BY <1>2, <2>1, <2>3
    <3>2. AllRead(f)
      BY <3>1 DEF Order
    <3> QED
      BY <1>2, <3>2 DEF AllRead
  <2> QED
    BY <2>2, <2>3
<1>3. \A f \in Files \ Written :
        /\ got'[f] = Span(f, 0, Len(got'[f])) /\ Len(got'[f]) <= pos'[f]
        /\ f \notin opened' => pos'[f] = 0
  BY DEF Order
<1> QED
  BY <1>1, <1>2, <1>3 DEF Order

\* The numbers of a read: g is returned before it, p is the position, q the one
\* after it, and e is returned then.
LEMMA Counted ==
  ASSUME NEW g \in Nat, NEW p \in Nat, NEW q \in Nat, NEW e \in Nat, g <= p, p <= q, q <= FileLen,
         e - g = LeastOf(q - g, Block),
         p # g => q = p /\ (Blocks(p - g) \/ p = FileLen),
         p = g => q - p = LeastOf(BufSize, FileLen - p)
  PROVE  /\ (e = q /\ e = FileLen) \/ e = g + Block
         /\ e # q => Blocks(q - e) \/ q = FileLen
<1>1. Block \in Nat /\ BufSize \in Nat /\ FileLen \in Nat /\ Block > 0
  BY ParamFacts
<1>2. (e = q /\ q - g <= Block) \/ (e = g + Block /\ q - g >= Block)
  BY <1>1 DEF LeastOf
<1>3. CASE q = FileLen
  BY <1>1, <1>2, <1>3
<1>4. CASE q # FileLen
  <2>1. Blocks(q - g) /\ q - g \in Nat /\ q - g # 0
    <3>1. CASE p # g
      BY <1>4, <3>1
    <3>2. CASE p = g
      <4>1. q - g = BufSize
        BY <1>1, <1>4, <3>2 DEF LeastOf
      <4> QED
        BY <1>1, <4>1, BlocksLess
    <3> QED
      BY <3>1, <3>2
  <2>2. q - g >= Block /\ Blocks((q - g) - Block)
    BY <2>1, BlocksLess
  <2>3. e = g + Block /\ (q - g) - Block = q - e
    BY <1>1, <1>2, <2>2
  <2> QED
    BY <2>2, <2>3
<1> QED
  BY <1>3, <1>4

\* A reader in use, before it reads.
LEMMA InRead ==
  ASSUME BTyped, Order, NEW h \in Objects, Usable(h, "reader")
  PROVE  \E f \in Files \ Written, g, p \in Nat :
           /\ f = made[h] /\ p = pos[f] /\ g <= p /\ p <= FileLen /\ got[f] = Span(f, 0, g) /\ buf[h] = Span(f, g, p)
           /\ f \in opened /\ (buf[h] # <<>> => f \in Piped \/ Blocks(p - g) \/ p = FileLen)
           /\ \A k \in Objects : kind[k] = "reader" /\ buf[k] # <<>> /\ made[k] = f => k = h
<1>1. /\ obj[h].num \in Numbers /\ To(h) = made[h] /\ made[h] \in Files /\ obj[h].owner /\ kind[h] = "reader"
      /\ pos[made[h]] \in 0..FileLen /\ made[h] \notin Written
  BY UsableFacts
<1>2. PICK f \in Files \ Written : f = made[h]
  BY <1>1
<1>3. PICK g \in Nat : g = Len(got[f])
  BY LenFacts
<1>4. PICK p \in Nat : p = pos[f] /\ p <= FileLen
  BY <1>1, <1>2, ParamFacts
<1>5. table[obj[h].num] = f
  BY <1>1, <1>2 DEF To
<1>6. got[f] = Span(f, 0, g) /\ g <= p /\ AllRead(f)
  BY <1>1, <1>3, <1>4, <1>5 DEF Order
<1>7. f \in opened
  BY <1>1, <1>5, ClosedIsNoFile DEF BTyped, EachOnce
<1>8. \A k \in Objects : kind[k] = "reader" /\ buf[k] # <<>> /\ made[k] = f => k = h
  <2> SUFFICES ASSUME NEW k \in Objects, kind[k] = "reader", buf[k] # <<>>, made[k] = f PROVE k = h
    OBVIOUS
  <2>1. obj[k].owner
    BY DEF Order, Ahead
  <2> QED
    BY <1>1, <1>2, <2>1, OneUser
<1>9. buf[h] = Span(f, g, p) /\ (buf[h] # <<>> => f \in Piped \/ Blocks(p - g) \/ p = FileLen)
  <2>1. CASE buf[h] # <<>>
    <3>1. Ahead(h)
      BY <1>1, <2>1 DEF Order
    <3>2. PICK l \in Nat : l = Len(buf[h])
      BY LenFacts
    <3>3. g + l = p /\ buf[h] = Span(f, g, p) /\ (f \in Piped \/ Blocks(l) \/ p = FileLen)
      BY <1>2, <1>3, <1>4, <3>1, <3>2 DEF Ahead
    <3>4. l = p - g
      BY <3>3
    <3> QED
      BY <3>3, <3>4
  <2>2. CASE buf[h] = <<>>
    <3>1. Len(got[f]) = pos[f]
      BY <1>6, <1>8, <2>2 DEF AllRead
    <3>2. g = p
      BY <1>3, <1>4, <3>1
    <3> QED
      BY <2>2, <3>2, SpanEmpty
  <2> QED
    BY <2>1, <2>2
<1> QED
  BY <1>2, <1>4, <1>6, <1>7, <1>8, <1>9

\* What a read returns is what comes next, in a block or to the end of the file.
LEMMA ReadRun ==
  ASSUME BTyped, Order, NEW h \in Objects, Read(h)
  PROVE  \E f \in Files \ Written, g, e, q \in Nat :
           /\ f = made[h] /\ kind[h] = "reader" /\ obj[h].owner /\ f \in opened
           /\ UNCHANGED <<obj, table, opened, kind, made>>
           /\ \A k \in Objects : kind[k] = "reader" /\ buf[k] # <<>> /\ made[k] = f => k = h
           /\ g <= e /\ e <= q /\ got[f] = Span(f, 0, g) /\ got'[f] = Span(f, 0, e)
           /\ buf'[h] = Span(f, e, q) /\ pos'[f] = q
           /\ \A k \in Files \ {f} : got'[k] = got[k] /\ pos'[k] = pos[k]
           /\ \A k \in Objects \ {h} : buf'[k] = buf[k]
           /\ f \in Piped \/ e = FileLen \/ e = g + Block
           /\ e # q => f \in Piped \/ Blocks(q - e) \/ q = FileLen
<1>1. /\ Usable(h, "reader") /\ UNCHANGED <<obj, table, opened, kind, made>> /\ Count(h) \in Nat \ {0}
  BY ReadFacts
<1>2. PICK f \in Files \ Written, g \in Nat, p \in Nat :
           /\ f = made[h] /\ p = pos[f] /\ g <= p /\ p <= FileLen /\ got[f] = Span(f, 0, g) /\ buf[h] = Span(f, g, p)
           /\ f \in opened /\ (buf[h] # <<>> => f \in Piped \/ Blocks(p - g) \/ p = FileLen)
           /\ \A k \in Objects : kind[k] = "reader" /\ buf[k] # <<>> /\ made[k] = f => k = h
  BY <1>1, InRead
<1>3. PICK n \in 0..BufSize :
        LET full == buf[h] \o Bytes(f, p + 1, p + n)
            take == LeastOf(Len(full), Count(h))
        IN  /\ IF buf[h] # <<>> THEN n = 0 ELSE n \in Supply(f)
            /\ p + n \in 0..FileLen
            /\ pos' = [pos EXCEPT ![f] = p + n]
            /\ buf' = [buf EXCEPT ![h] = Part(full, take + 1, Len(full))]
            /\ got' = [got EXCEPT ![f] = Cat(got[f], Part(full, 1, take))]
  BY <1>2, ReadFacts, Zenon DEF Part, Cat
<1>4. PICK q \in Nat : q = p + n
  BY ParamFacts
<1>5. g <= p /\ p <= q /\ g <= q /\ q <= FileLen /\ 0 <= g /\ 0 \in Nat /\ 1 \in Nat /\ q <= q /\ g <= g
  BY <1>2, <1>3, <1>4, ParamFacts
<1>6. buf[h] \o Bytes(f, p + 1, p + n) = Span(f, g, q)
  <2>1. Cat(Span(f, g, p), Span(f, p, q)) = Span(f, g, q)
    BY <1>2, <1>5, SpanJoins
  <2> QED
    BY <1>2, <1>4, <2>1, Zenon DEF Cat, Span
<1>7. Len(Span(f, g, q)) = q - g /\ q - g \in Nat
  BY <1>5, SpanProperties
<1>8. PICK take \in Nat : take = LeastOf(q - g, Count(h)) /\ take <= q - g
  BY <1>1, <1>7 DEF LeastOf
<1>9. PICK e \in Nat : e = g + take
  OBVIOUS
<1>10. g <= e /\ e <= q /\ e - g = take
  BY <1>5, <1>8, <1>9
<1>11. Part(Span(f, g, q), 1, take) = Span(f, g, e)
  <2>1. 1 = g - g + 1 /\ take = e - g
    BY <1>10
  <2> QED
    BY <1>5, <1>10, <2>1, SpanPart
<1>12. Part(Span(f, g, q), take + 1, q - g) = Span(f, e, q)
  <2>1. PICK i \in Nat, j \in Nat : i = take + 1 /\ j = q - g
    BY <1>7
  <2>2. i = e - g + 1
    BY <1>10, <2>1
  <2>3. Part(Span(f, g, q), i, j) = Span(f, e, q)
    BY <1>5, <1>10, <2>1, <2>2, SpanPart
  <2> QED
    BY <2>1, <2>3
<1>13. Cat(Span(f, 0, g), Span(f, g, e)) = Span(f, 0, e)
  BY <1>5, <1>10, SpanJoins
<1>14. /\ pos' = [pos EXCEPT ![f] = q]
       /\ buf' = [buf EXCEPT ![h] = Span(f, e, q)]
       /\ got' = [got EXCEPT ![f] = Span(f, 0, e)]
  <2>1. /\ pos' = [pos EXCEPT ![f] = q]
        /\ buf' = [buf EXCEPT ![h] = Part(Span(f, g, q), take + 1, q - g)]
        /\ got' = [got EXCEPT ![f] = Cat(Span(f, 0, g), Part(Span(f, g, q), 1, take))]
    BY <1>2, <1>3, <1>4, <1>6, <1>7, <1>8, Zenon
  <2> QED
    BY <1>11, <1>12, <1>13, <2>1, Zenon
<1>15. /\ got'[f] = Span(f, 0, e) /\ buf'[h] = Span(f, e, q) /\ pos'[f] = q
       /\ \A k \in Files \ {f} : got'[k] = got[k] /\ pos'[k] = pos[k]
       /\ \A k \in Objects \ {h} : buf'[k] = buf[k]
  BY <1>14 DEF BTyped, Domains
<1>16. CASE f \in Piped
  BY <1>1, <1>2, <1>10, <1>15, <1>16 DEF Usable
<1>17. CASE f \notin Piped
  <2>1. e - g = LeastOf(q - g, Block)
    BY <1>2, <1>8, <1>10, <1>17 DEF Count
  <2>2. buf[h] # <<>> <=> p # g
    <3>1. Len(Span(f, g, p)) = p - g /\ Len(<<>>) = 0
      BY <1>5, SpanProperties, EmptySeq
    <3>2. p = g => Span(f, g, p) = <<>>
      BY SpanEmpty
    <3>3. Span(f, g, p) = <<>> => p = g
      BY <1>2, <3>1
    <3> QED
      BY <1>2, <3>2, <3>3
  <2>3. p # g => q = p /\ (Blocks(p - g) \/ p = FileLen)
    BY <1>2, <1>3, <1>4, <1>17, <2>2
  <2>4. p = g => q - p = LeastOf(BufSize, FileLen - p)
    <3> SUFFICES ASSUME p = g PROVE q - p = LeastOf(BufSize, FileLen - p)
      OBVIOUS
    <3>1. n \in Supply(f)
      BY <1>3, <2>2
    <3>2. n = LeastOf(BufSize, FileLen - pos[f])
      BY <1>17, <3>1 DEF Supply
    <3>3. n = q - p
      BY <1>4
    <3> QED
      BY <1>2, <3>2, <3>3, Zenon
  <2>5. /\ (e = q /\ e = FileLen) \/ e = g + Block
        /\ e # q => Blocks(q - e) \/ q = FileLen
    BY <1>5, <2>1, <2>3, <2>4, Counted
  <2> QED
    BY <1>1, <1>2, <1>10, <1>15, <2>5 DEF Usable
<1> QED
  BY <1>16, <1>17

LEMMA OrderRead ==
  ASSUME BTyped, BTyped', Order, NEW h \in Objects, Read(h)
  PROVE  Order'
<1>1. PICK f \in Files \ Written, g \in Nat, e \in Nat, q \in Nat :
           /\ f = made[h] /\ kind[h] = "reader" /\ obj[h].owner /\ f \in opened
           /\ UNCHANGED <<obj, table, opened, kind, made>>
           /\ \A k \in Objects : kind[k] = "reader" /\ buf[k] # <<>> /\ made[k] = f => k = h
           /\ g <= e /\ e <= q /\ got[f] = Span(f, 0, g) /\ got'[f] = Span(f, 0, e)
           /\ buf'[h] = Span(f, e, q) /\ pos'[f] = q
           /\ \A k \in Files \ {f} : got'[k] = got[k] /\ pos'[k] = pos[k]
           /\ \A k \in Objects \ {h} : buf'[k] = buf[k]
           /\ f \in Piped \/ e = FileLen \/ e = g + Block
           /\ e # q => f \in Piped \/ Blocks(q - e) \/ q = FileLen
  BY ReadRun
<1>2. g <= e /\ e <= q /\ 0 \in Nat /\ 0 <= e
  BY <1>1
<1>3. Len(got'[f]) = e
  <2>1. Len(Span(f, 0, e)) = e - 0
    BY <1>2, SpanProperties
  <2>2. got'[f] = Span(f, 0, e)
    BY <1>1
  <2> QED
    BY <2>1, <2>2
<1>4. Len(buf'[h]) = q - e /\ (buf'[h] = <<>> <=> e = q)
  <2>1. Len(Span(f, e, q)) = q - e /\ Len(<<>>) = 0
    BY <1>2, SpanProperties, EmptySeq
  <2>2. e = q => Span(f, e, q) = <<>>
    BY SpanEmpty
  <2>3. Span(f, e, q) = <<>> => e = q
    BY <2>1
  <2>4. buf'[h] = Span(f, e, q)
    BY <1>1
  <2> QED
    BY <2>1, <2>2, <2>3, <2>4
<1>5. ASSUME NEW k \in Objects, kind'[k] = "reader", buf'[k] # <<>>
      PROVE  Ahead(k)'
  <2>1. CASE k = h
    <3>1. e # q
      BY <1>4, <1>5, <2>1
    <3>2. made'[h] = f /\ obj'[h].owner /\ pos'[f] = q /\ buf'[h] = Span(f, e, q) /\ e + (q - e) = q
      BY <1>1, <1>2
    <3>3. f \in Piped \/ Blocks(q - e) \/ q = FileLen
      BY <1>1, <3>1
    <3>4. Len(got'[f]) + Len(buf'[h]) = q
      BY <1>3, <1>4, <3>2
    <3> QED
      BY <1>3, <1>4, <2>1, <3>2, <3>3, <3>4 DEF Ahead
  <2>2. CASE k # h
    <3>1. kind[k] = "reader" /\ buf[k] = buf'[k] /\ made'[k] = made[k] /\ obj'[k] = obj[k] /\ made[k] # f
      BY <1>1, <1>5, <2>2
    <3>2. PICK x \in Files \ {f} : x = made[k]
      BY <1>5, <3>1 DEF BTyped, Kinds
    <3>3. got'[x] = got[x] /\ pos'[x] = pos[x]
      BY <1>1
    <3>4. Ahead(k)
      BY <1>5, <3>1 DEF Order
    <3> QED
      BY <3>1, <3>2, <3>3, <3>4 DEF Ahead
  <2> QED
    BY <2>1, <2>2
<1>6. ASSUME NEW k \in Files \ Written
      PROVE  /\ got'[k] = Span(k, 0, Len(got'[k])) /\ Len(got'[k]) <= pos'[k]
             /\ k \notin opened' => pos'[k] = 0
             /\ (\E n \in Numbers : table'[n] = k) => AllRead(k)'
  <2>1. CASE k = f
    <3>1. got'[f] = Span(f, 0, e) /\ pos'[f] = q /\ f \in opened' /\ kind'[h] = "reader" /\ made'[h] = f
      BY <1>1
    <3>2. AllRead(f)'
      BY <1>3, <1>4, <3>1 DEF AllRead
    <3> QED
      BY <1>2, <1>3, <2>1, <3>1, <3>2
  <2>2. CASE k # f
    <3>1. got'[k] = got[k] /\ pos'[k] = pos[k] /\ UNCHANGED <<table, opened, kind, made>>
      BY <1>1, <2>2
    <3>2. /\ got[k] = Span(k, 0, Len(got[k])) /\ Len(got[k]) <= pos[k]
          /\ k \notin opened => pos[k] = 0
          /\ (\E n \in Numbers : table[n] = k) => AllRead(k)
      BY DEF Order
    <3>3. AllRead(k) => AllRead(k)'
      <4>1. CASE Len(got[k]) = pos[k]
        BY <3>1, <4>1 DEF AllRead
      <4>2. ASSUME NEW x \in Objects, kind[x] = "reader", made[x] = k, buf[x] # <<>>
            PROVE  AllRead(k)'
        <5>1. x # h
          BY <1>1, <2>2, <4>2
        <5>2. buf'[x] = buf[x]
          BY <1>1, <5>1
        <5> QED
          BY <3>1, <4>2, <5>2 DEF AllRead
      <4> QED
        BY <4>1, <4>2 DEF AllRead
    <3> QED
      BY <3>1, <3>2, <3>3
  <2> QED
    BY <2>1, <2>2
<1> QED
  BY <1>5, <1>6 DEF Order

LEMMA OrderDestroy ==
  ASSUME BTyped, FdIInv', EachOnce', Order, NEW h \in Objects, DestroyQuietly(h) \/ DestroyFlushing(h)
  PROVE  Order'
<1>1. /\ \A g \in Objects \ {h} : obj'[g] = obj[g]
      /\ kind'[h] = "fd" /\ buf'[h] = <<>>
      /\ \A g \in Objects \ {h} : kind'[g] = kind[g] /\ made'[g] = made[g] /\ buf'[g] = buf[g]
      /\ UNCHANGED <<pos, got>>
  BY DestroyFacts
<1>2. table' = Close(h) /\ opened' = opened
  BY DEF DestroyQuietly, DestroyFlushing, Destroy
<1>3. \A n \in Numbers : table'[n] \in {table[n], Closed} \/ table'[n] \notin opened
  BY <1>2 DEF Close, BTyped, FdIInv, FdTypeOK
<1>4. ASSUME kind[h] = "reader", buf[h] # <<>>, NEW n \in Numbers
      PROVE  table'[n] # made[h]
  <2>1. obj[h].owner
    BY <1>4 DEF Order, Ahead
  <2>2. obj[h].num \in Numbers /\ table[obj[h].num] = made[h] /\ made[h] # Closed
    BY <1>4, <2>1 DEF BTyped, Kinds, FdIInv, OneOwner, OwnersOpen
  <2>3. table'[n] = IF n = obj[h].num THEN Closed ELSE table[n]
    BY <1>2, <2>1, <2>2 DEF Close, BTyped, FdIInv, FdTypeOK
  <2>4. n # obj[h].num => table[n] # table[obj[h].num]
    BY <2>2 DEF BTyped, EachOnce
  <2> QED
    BY <2>2, <2>3, <2>4
<1> QED
  BY <1>1, <1>2, <1>3, <1>4, OrderElsewhere

LEMMA OrderWriter ==
  ASSUME BTyped, Order, NEW h \in Objects,
         \/ Flush(h) \/ ClearWriter(h) \/ Fail(h)
         \/ \E c \in Counts : Write(h, c) \/ WriteThrough(h, c)
  PROVE  Order'
<1>1. kind[h] = "writer" /\ UNCHANGED <<kind, made, pos, got>>
  BY DEF Flush, ClearWriter, Fail, Write, WriteThrough, Give, Usable
<1>2. \A g \in Objects \ {h} : buf'[g] = buf[g]
  <2>1. ASSUME NEW b, buf' = [buf EXCEPT ![h] = b] PROVE \A g \in Objects \ {h} : buf'[g] = buf[g]
    BY <2>1 DEF BTyped, Domains
  <2>2. buf' = buf \/ \E b : buf' = [buf EXCEPT ![h] = b]
    <3>1. CASE Flush(h) \/ ClearWriter(h) \/ Fail(h)
      BY <3>1, Zenon DEF Flush, ClearWriter, Fail, FlushOf
    <3>2. ASSUME NEW c \in Counts, Write(h, c) PROVE \E b : buf' = [buf EXCEPT ![h] = b]
      BY <3>2, Zenon DEF Write, FlushOf
    <3>3. ASSUME NEW c \in Counts, WriteThrough(h, c) PROVE \E b : buf' = [buf EXCEPT ![h] = b]
      <4>1. \/ FlushOf(h, buf[h], 0, <<>>)
            \/ \E n : buf' = [buf EXCEPT ![h] = Left(@, n)]
        BY <3>3, Zenon DEF WriteThrough
      <4> QED
        BY <4>1, Zenon DEF FlushOf
    <3> QED
      BY <3>1, <3>2, <3>3
  <2> QED
    BY <2>1, <2>2
<1>3. /\ opened' = opened /\ (table' = table \/ table' = Close(h))
      /\ \A g \in Objects \ {h} : obj'[g] = obj[g]
  <2>1. CASE UNCHANGED <<obj, table, opened>>
    BY <2>1
  <2>2. CASE Clear(h)
    BY <2>2 DEF Clear, Cleared, BTyped, FdIInv, FdTypeOK
  <2>3. UNCHANGED <<obj, table, opened>> \/ Clear(h)
    BY DEF Flush, ClearWriter, Fail, Write, WriteThrough, Give
  <2> QED
    BY <2>1, <2>2, <2>3
<1>4. \A n \in Numbers : table'[n] \in {table[n], Closed} \/ table'[n] \notin opened
  BY <1>3 DEF Close, BTyped, FdIInv, FdTypeOK
<1> QED
  BY <1>1, <1>2, <1>3, <1>4, OrderElsewhere

LEMMA OrderStep == BTyped /\ Order /\ [BfdNext]_bfdVars => Order'
<1> SUFFICES ASSUME BTyped, Order, [BfdNext]_bfdVars PROVE Order'
  OBVIOUS
<1>1. BTyped' /\ FdIInv' /\ EachOnce'
  BY BTypedStep DEF BTyped
<1>2. CASE UNCHANGED bfdVars
  BY <1>2 DEF bfdVars, Order, Ahead, AllRead
<1>3. CASE BfdNext
  <2>1. PICK h \in Objects :
          \/ Plain(h) /\ (Default(h) \/ Clear(h)) /\ UNCHANGED ours
          \/ \E f \in Files : Open(h, f) /\ UNCHANGED ours
          \/ \E k \in Objects : Plain(h) /\ Plain(k) /\ Assign(h, k) /\ UNCHANGED ours
          \/ \E k \in Objects : Lend(h, k) \/ Make(h, k, "writer") \/ Make(h, k, "reader")
          \/ Flush(h) \/ ClearWriter(h) \/ DestroyQuietly(h) \/ DestroyFlushing(h) \/ Fail(h) \/ Read(h)
          \/ \E c \in Counts : Write(h, c) \/ WriteThrough(h, c)
    BY <1>3 DEF BfdNext
  <2>2. CASE /\ UNCHANGED ours
             /\ \/ Plain(h) /\ (Default(h) \/ Clear(h))
                \/ \E f \in Files : Open(h, f)
                \/ \E k \in Objects : Plain(h) /\ Plain(k) /\ Assign(h, k)
    <3>1. /\ \A g \in Objects : kind[g] # "fd" => obj'[g] = obj[g]
          /\ \A n \in Numbers : table'[n] \in {table[n], Closed} \/ table'[n] \notin opened
      BY <1>1, <2>2, PlainStep
    <3>2. UNCHANGED <<kind, made, buf>> /\ UNCHANGED <<pos, got>>
      BY <2>2 DEF ours
    <3>3. opened \subseteq opened'
      BY <2>2 DEF Default, Clear, Open, Assign
    <3> QED
      BY <3>1, <3>2, <3>3, OrderElsewhere
  <2>3. ASSUME NEW k \in Objects, Lend(h, k) \/ Make(h, k, "writer") \/ Make(h, k, "reader")
        PROVE  Order'
    <3>1. /\ kind[h] = "fd" /\ buf[k] = <<>> /\ UNCHANGED buf
          /\ UNCHANGED <<pos, got>> /\ UNCHANGED <<table, opened>>
          /\ \A g \in Objects \ {h, k} : obj'[g] = obj[g]
          /\ \A g \in Objects \ {h} : kind'[g] = kind[g] /\ made'[g] = made[g]
      BY <1>1, <2>3, HandOver
    <3>2. buf[h] = <<>>
      BY <3>1 DEF BTyped, Kinds
    <3> QED
      BY <3>1, <3>2, OrderElsewhere
  <2> QED
    BY <1>1, <2>1, <2>2, <2>3, OrderWriter, OrderDestroy, OrderRead
<1> QED
  BY <1>2, <1>3

LEMMA StepReads ==
  ASSUME BTyped, BTyped', Order, [BfdNext]_bfdVars, NEW f \in Files \ Written
  PROVE  got'[f] = got[f] \/ /\ got'[f] = Bytes(f, 1, Len(got'[f]))
                             /\ \/ f \in Piped \/ Len(got'[f]) = FileLen
                                \/ Len(got'[f]) - Len(got[f]) = Block
<1>1. UNCHANGED got \/ \E h \in Objects : Read(h)
  BY DEF bfdVars, BfdNext, ours, Lend, Make, Flush, ClearWriter, DestroyQuietly, DestroyFlushing, Forget,
         Fail, Write, WriteThrough, Give
<1>2. ASSUME NEW h \in Objects, Read(h), got'[f] # got[f]
      PROVE  /\ got'[f] = Bytes(f, 1, Len(got'[f]))
             /\ \/ f \in Piped \/ Len(got'[f]) = FileLen
                \/ Len(got'[f]) - Len(got[f]) = Block
  <2>0. PICK x \in Files \ Written, g \in Nat, e \in Nat, q \in Nat :
           /\ x = made[h] /\ kind[h] = "reader" /\ obj[h].owner /\ x \in opened
           /\ UNCHANGED <<obj, table, opened, kind, made>>
           /\ \A k \in Objects : kind[k] = "reader" /\ buf[k] # <<>> /\ made[k] = x => k = h
           /\ g <= e /\ e <= q /\ got[x] = Span(x, 0, g) /\ got'[x] = Span(x, 0, e)
           /\ buf'[h] = Span(x, e, q) /\ pos'[x] = q
           /\ \A k \in Files \ {x} : got'[k] = got[k] /\ pos'[k] = pos[k]
           /\ \A k \in Objects \ {h} : buf'[k] = buf[k]
           /\ x \in Piped \/ e = FileLen \/ e = g + Block
           /\ e # q => x \in Piped \/ Blocks(q - e) \/ q = FileLen
    BY <1>2, ReadRun
  <2>1. /\ got[x] = Span(x, 0, g) /\ got'[x] = Span(x, 0, e)
        /\ \A k \in Files \ {x} : got'[k] = got[k]
        /\ x \in Piped \/ e = FileLen \/ e = g + Block
    BY <2>0
  <2>2. x = f
    BY <1>2, <2>1
  <2>3. 0 \in Nat /\ 0 <= e /\ 0 <= g
    OBVIOUS
  <2>4. Len(Span(f, 0, e)) = e - 0 /\ Len(Span(f, 0, g)) = g - 0
    BY <2>3, SpanProperties
  <2>5. Len(got'[f]) = e /\ Len(got[f]) = g
    BY <2>1, <2>2, <2>4
  <2>6. got'[f] = Bytes(f, 1, e)
    BY <2>1, <2>2 DEF Span
  <2> QED
    BY <2>1, <2>2, <2>5, <2>6, ParamFacts
<1> QED
  BY <1>1, <1>2

\* A read returns what comes next in its file, a whole block or all that is left
\* of it: for every size of buffer that is a multiple of the block, whoever else
\* reads, writes, opens and closes files, and also where writes may be partial
\* (read_bufferfd::read, buffer_copy).
THEOREM ReadsNeverSkip == BfdSpec => ReadsInOrder
<1>1. BfdInit => Order
  BY OrderInitially
<1>2. BTyped /\ Order /\ [BfdNext]_bfdVars => Order'
  BY OrderStep
<1>3. BTyped /\ BTyped' /\ Order /\ [BfdNext]_bfdVars
      => [\A f \in Files \ Written :
            got'[f] = got[f] \/ /\ got'[f] = Bytes(f, 1, Len(got'[f]))
                                /\ \/ f \in Piped \/ Len(got'[f]) = FileLen
                                   \/ Len(got'[f]) - Len(got[f]) = Block]_bfdVars
  BY StepReads
<1> QED
  BY <1>1, <1>2, <1>3, AlwaysTyped, PTL DEF BfdSpec, ReadsInOrder
=============================================================================
