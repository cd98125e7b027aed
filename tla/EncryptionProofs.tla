--------------------------- MODULE EncryptionProofs ---------------------------
(***************************************************************************)
(* Proofs about EncryptStream and Resync, for every key parameter and every*)
(* input.                                                                  *)
(*                                                                         *)
(* EncryptStream: type correctness, and that chunk boundaries are          *)
(* content-defined.                                                        *)
(*                                                                         *)
(* Resync: an edit changes the encrypted file around the edit and nowhere  *)
(* else.  What is left of an encryption is described without its run: the  *)
(* chunks of the plain text, and the blocks each of them becomes.  Two     *)
(* files are then compared chunk by chunk, by induction on the chunks.     *)
(***************************************************************************)
EXTENDS Resync, SequenceTheorems, WellFoundedInduction, TLAPS

\* The part of s after its first a elements, up to the first b.
LEMMA Slice ==
  ASSUME NEW S, NEW s \in Seq(S), NEW a \in Nat, NEW b \in Nat, a <= b, b <= Len(s)
  PROVE  /\ SubSeq(s, a + 1, b) \in Seq(S) /\ Len(SubSeq(s, a + 1, b)) = b - a
         /\ \A j \in 1..(b - a) : SubSeq(s, a + 1, b)[j] = s[a + j]
<1>1. \A j \in (a + 1)..b : s[j] \in S
  <2>1. \A j \in (a + 1)..b : j \in 1..Len(s)
    OBVIOUS
  <2> QED
    BY <2>1
<1> DEFINE t == SubSeq(s, a + 1, b)
<1>2. /\ t \in Seq(S)
      /\ Len(t) = IF a + 1 <= b THEN b - (a + 1) + 1 ELSE 0
      /\ \A j \in 1..(b - (a + 1) + 1) : t[j] = s[(a + 1) + j - 1]
  BY <1>1, SubSeqProperties
<1> HIDE DEF t
<1>3. b - (a + 1) + 1 = b - a /\ \A j \in 1..(b - a) : (a + 1) + j - 1 = a + j
  OBVIOUS
<1>4. Len(t) = b - a
  BY <1>2
<1> QED
  BY <1>2, <1>3, <1>4 DEF t

\* The first b elements of s.
LEMMA Start ==
  ASSUME NEW S, NEW s \in Seq(S), NEW b \in Nat, b <= Len(s)
  PROVE  /\ SubSeq(s, 1, b) \in Seq(S) /\ Len(SubSeq(s, 1, b)) = b
         /\ \A j \in 1..b : SubSeq(s, 1, b)[j] = s[j]
<1>1. PICK t : t = SubSeq(s, 1, b)
  OBVIOUS
<1>2. /\ 0 \in Nat /\ 0 + 1 = 1 /\ b - 0 = b /\ 0 <= b
      /\ \A j \in 1..b : 0 + j = j
  OBVIOUS
<1>3. /\ t \in Seq(S) /\ Len(t) = b - 0 /\ \A j \in 1..(b - 0) : t[j] = s[0 + j]
  BY <1>1, <1>2, Slice
<1> QED
  BY <1>1, <1>2, <1>3

\* A zero-padded block of up to a block of bytes is a block.
LEMMA PadBlockType ==
  ASSUME NEW data \in Seq(Byte), Len(data) <= BlockSize
  PROVE  PadBlock(data) \in Block
<1>1. 0 \in Byte
  BY BlockParams
<1>2. \A j \in 1..BlockSize : j <= Len(data) => data[j] \in Byte
  BY BlockParams
<1> QED
  BY <1>1, <1>2 DEF PadBlock, Block

\* init_encrypt and calc_boundry keep the key state well formed.
LEMMA RollTypes ==
  ASSUME NEW r \in RollState
  PROVE  /\ InitRoll(r) \in RollState
         /\ \A data \in Byte : CalcBoundry(r, data) \in RollState
<1>1. InitRoll(r) \in RollState
  BY RollParams DEF InitRoll, FreshRoll, RollState
<1>2. ASSUME NEW data \in Byte PROVE CalcBoundry(r, data) \in RollState
  <2> DEFINE q == CalcBoundry(r, data)
  <2>1. q.loc \in 0..(SumSpan - 1)
    BY RollParams DEF CalcBoundry, RollState
  <2>2. q.count \in Nat
    BY DEF CalcBoundry, RollState
  <2>3. q.win \in Window
    BY DEF CalcBoundry, RollState, Window
  <2>4. r.sub => r.win[r.loc] \in Nat
    BY BlockParams DEF RollState, Window
  <2>5. q.sum \in Int
    BY <2>4, BlockParams DEF CalcBoundry, Leaving, RollState
  <2>6. q.sub \in BOOLEAN /\ q.may \in BOOLEAN
    BY DEF CalcBoundry, RollState, MayRotate
  <2> QED
    BY <2>1, <2>2, <2>3, <2>5, <2>6 DEF CalcBoundry, RollState
<1> QED
  BY <1>1, <1>2

-----------------------------------------------------------------------------
(* One byte. *)

\* What EncryptByte calls byte and r.
ThisByte == plain[pos + 1]
NextRoll == CalcBoundry(ChunkRoll(newBlock, roll), ThisByte)

\* The byte read is a byte, and the sums read so far are the numbers they are.
LEMMA ByteFacts ==
  ASSUME EncTypeOK, HistoryOK
  PROVE  /\ pos < Len(plain) => ThisByte \in Byte /\ ThisByte \in Nat
         /\ \A n \in 1..Len(plain) : plain[n] \in Nat
         /\ \A n \in 1..(pos + 1) : sums[n] \in Nat
         /\ pos \in Nat /\ Len(plain) \in Nat /\ Len(sums) = pos + 1
         /\ ChunkStart \in 0..pos
<1>1. plain \in Seq(Byte)
  BY PlainsAreBytes DEF EncTypeOK
<1>2. \A n \in 1..Len(plain) : plain[n] \in Byte
  BY <1>1
<1>3. \A n \in 1..Len(plain) : plain[n] \in Nat
  BY <1>2, BlockParams
<1>4. Len(plain) \in Nat /\ pos \in Nat
  BY <1>1 DEF EncTypeOK
<1>5. pos < Len(plain) => ThisByte \in Byte /\ ThisByte \in Nat
  BY <1>2, <1>3, <1>4 DEF ThisByte
<1>6. sums \in Seq(Nat) /\ Len(sums) = pos + 1
  BY DEF EncTypeOK
<1>7. \A n \in 1..(pos + 1) : sums[n] \in Nat
  BY <1>6
<1>8. Len(cuts) \in 1..Len(cuts) /\ cuts[Len(cuts)] \in Cut
  BY DEF EncTypeOK
<1>9. ChunkStart \in 0..pos
  BY <1>4, <1>8 DEF HistoryOK, ChunkStart, Cut
<1> QED
  BY <1>3, <1>4, <1>5, <1>6, <1>7, <1>9

\* At the first byte of a chunk init_encrypt puts the key state where the
\* invariant wants it; within a chunk it is there already.
LEMMA ChunkRollTracks ==
  ASSUME EncIInv, epc = "loop"
  PROVE  Tracks(ChunkRoll(newBlock, roll), ChunkStart, pos)
<1>1. CASE newBlock
  <2> DEFINE q == ChunkRoll(newBlock, roll)
  <2>1. q = FreshRoll(roll.win) /\ ChunkStart = pos
    BY <1>1 DEF ChunkRoll, InitRoll, EncIInv, HistoryOK
  <2>2. /\ q.count = 0 /\ q.sum = 0 /\ q.loc = 0
        /\ q.sub = FALSE /\ q.may = FALSE
    BY <2>1 DEF FreshRoll
  <2>3. WindowTotal(pos, pos) = 0
    BY ByteFacts, RollParams DEF WindowTotal, EncIInv
  <2> QED
    BY <2>1, <2>2, <2>3, ByteFacts, RollParams DEF Tracks, EncIInv
<1>2. CASE ~newBlock
  BY <1>2 DEF ChunkRoll, EncIInv
<1> QED
  BY <1>1, <1>2

\* What reading a byte does to what has been read.
LEMMA ByteHistory ==
  ASSUME EncTypeOK, HistoryOK, EncryptByte
  PROVE  /\ pos < Len(plain) /\ ThisByte \in Byte /\ ThisByte \in Nat
         /\ pos' = pos + 1 /\ plain' = plain
         /\ sums' = Append(sums, sums[pos + 1] + ThisByte)
         /\ \A n \in 1..(pos + 1) : sums'[n] = sums[n]
         /\ sums'[pos + 2] = sums[pos + 1] + ThisByte
<1>1. /\ pos < Len(plain) /\ pos' = pos + 1 /\ plain' = plain
      /\ sums' = Append(sums, sums[pos + 1] + ThisByte)
  BY DEF EncryptByte, ThisByte
<1>2. sums \in Seq(Nat) /\ Len(sums) = pos + 1
  BY DEF EncTypeOK
<1>3. /\ \A n \in 1..(pos + 1) : sums'[n] = sums[n]
      /\ sums'[pos + 2] = sums[pos + 1] + ThisByte
  BY <1>1, <1>2, ByteFacts
<1> QED
  BY <1>1, <1>3, ByteFacts

\* The total of a window read before does not change as sums grow.
LEMMA WindowTotalKept ==
  ASSUME EncTypeOK, HistoryOK, EncryptByte,
         NEW s \in Nat, NEW p \in s..pos
  PROVE  WindowTotal(s, p)' = WindowTotal(s, p)
<1>1. p + 1 \in 1..(pos + 1)
  BY ByteFacts
<1>2. (IF p - s > SumSpan THEN p - SumSpan ELSE s) + 1 \in 1..(pos + 1)
  BY ByteFacts, RollParams
<1> QED
  BY <1>1, <1>2, ByteHistory DEF WindowTotal

\* The window total after one more byte: that byte comes in, and the byte
\* SumSpan before it goes out once the chunk is that long.
LEMMA WindowTotalStep ==
  ASSUME EncTypeOK, HistoryOK, EncryptByte, NEW s \in 0..pos
  PROVE  WindowTotal(s, pos)' = WindowTotal(s, pos) + ThisByte
           - (IF pos - s >= SumSpan THEN plain[pos - SumSpan + 1] ELSE 0)
<1>1. /\ pos \in Nat /\ ThisByte \in Nat /\ SumSpan \in Nat /\ SumSpan > 0
      /\ \A n \in 1..(pos + 1) : sums[n] \in Nat
  BY ByteFacts, ByteHistory, RollParams
<1>2. CASE pos - s >= SumSpan
  <2> DEFINE n == pos - SumSpan + 1
  <2>1. n \in 1..pos /\ n + 1 \in 1..(pos + 1)
    BY <1>1, <1>2
  <2>2. sums[n + 1] = sums[n] + plain[n]
    BY <2>1 DEF HistoryOK
  <2>3. sums[n] \in Nat /\ sums[n + 1] \in Nat /\ sums[pos + 1] \in Nat /\ plain[n] \in Nat
    BY <2>1, <1>1, ByteFacts, SMTT(30) DEF EncTypeOK
  <2>4. WindowTotal(s, pos)' = sums'[pos + 2] - sums'[n + 1]
    <3>1. pos' - s > SumSpan /\ pos' + 1 = pos + 2 /\ pos' - SumSpan + 1 = n + 1
      BY <1>1, <1>2, ByteHistory
    <3> QED
      BY <3>1 DEF WindowTotal
  <2>5. WindowTotal(s, pos) = sums[pos + 1] - sums[n]
    <3>1. (IF pos - s > SumSpan THEN pos - SumSpan ELSE s) + 1 = n
      BY <1>1, <1>2
    <3> QED
      BY <3>1 DEF WindowTotal
  <2>6. sums'[pos + 2] = sums[pos + 1] + ThisByte /\ sums'[n + 1] = sums[n + 1]
    BY <2>1, ByteHistory
  <2>7. WindowTotal(s, pos)' = WindowTotal(s, pos) + ThisByte - plain[n]
    <3> HIDE DEF n
    <3> QED
      BY <1>1, <2>2, <2>3, <2>4, <2>5, <2>6
  <2> QED
    BY <2>7, <1>2
<1>3. CASE ~(pos - s >= SumSpan)
  <2>1. WindowTotal(s, pos)' = sums'[pos + 2] - sums'[s + 1]
    <3>1. ~(pos' - s > SumSpan) /\ pos' + 1 = pos + 2
      BY <1>1, <1>3, ByteHistory
    <3> QED
      BY <3>1 DEF WindowTotal
  <2>2. WindowTotal(s, pos) = sums[pos + 1] - sums[s + 1]
    BY <1>1, <1>3 DEF WindowTotal
  <2>3. s + 1 \in 1..(pos + 1)
    BY <1>1
  <2> QED
    BY <1>1, <1>3, <2>1, <2>2, <2>3, ByteHistory, SMTT(30)
<1> QED
  BY <1>2, <1>3

\* calc_boundry keeps the key state in step with the bytes of the chunk.
LEMMA TracksStep ==
  ASSUME EncTypeOK, HistoryOK, EncryptByte,
         NEW s \in 0..pos, NEW r \in RollState, NEW q,
         Tracks(r, s, pos), q = CalcBoundry(r, ThisByte)
  PROVE  Tracks(q, s, pos)'
<1> DEFINE wraps == r.loc + 1 = SumSpan
<1>1. /\ q.loc = (IF wraps THEN 0 ELSE r.loc + 1)
      /\ q.count = r.count + 1
      /\ q.sum = r.sum + ThisByte - (IF r.sub THEN r.win[r.loc] ELSE 0)
      /\ q.sub <=> (r.sub \/ wraps)
      /\ q.may <=> (r.may \/ r.count = SumMinDist)
      /\ q.win = [r.win EXCEPT ![r.loc] = ThisByte]
  BY DEF CalcBoundry, Leaving, MayRotate
<1>2. /\ pos \in Nat /\ s \in Nat /\ s <= pos /\ ThisByte \in Nat
      /\ pos' = pos + 1 /\ plain' = plain
      /\ SumSpan \in Nat /\ SumSpan > 0 /\ SumMinDist \in Nat
  BY ByteFacts, ByteHistory, RollParams
<1>3. /\ r.loc \in 0..(SumSpan - 1) /\ r.count \in Nat /\ r.sum \in Int
      /\ r.sub \in BOOLEAN /\ r.may \in BOOLEAN
      /\ r.win \in [0..(SumSpan - 1) -> Byte]
  BY DEF RollState, Window
<1>4. /\ r.count = pos - s
      /\ r.may <=> pos - s > SumMinDist
      /\ r.sum = WindowTotal(s, pos)
      /\ IF r.sub THEN pos - s >= SumSpan ELSE pos - s = r.loc
      /\ \A l \in 0..(SumSpan - 1) :
           /\ l < r.loc => r.win[l] = plain[pos - r.loc + l + 1]
           /\ (r.sub /\ l >= r.loc) => r.win[l] = plain[pos - r.loc - SumSpan + l + 1]
  BY DEF Tracks
<1>5. q.count = pos' - s /\ (q.may <=> pos' - s > SumMinDist)
  <2>1. q.count = r.count + 1 /\ r.count = pos - s
    BY <1>1, <1>4
  <2>2. (pos + 1) - s > SumMinDist <=> (pos - s > SumMinDist \/ pos - s = SumMinDist)
    BY <1>2
  <2>3. q.may <=> (r.may \/ pos - s = SumMinDist)
    BY <1>1, <2>1
  <2>4. q.may <=> pos' - s > SumMinDist
    BY <2>2, <2>3, <1>2, <1>4
  <2> QED
    BY <2>1, <2>4, <1>2
<1>6. IF q.sub THEN pos' - s >= SumSpan ELSE pos' - s = q.loc
  <2>1. CASE r.sub
    BY <2>1, <1>1, <1>2, <1>4
  <2>2. CASE ~r.sub
    <3>1. pos - s = r.loc
      BY <2>2, <1>4
    <3>2. wraps => q.sub /\ (pos + 1) - s >= SumSpan
      BY <3>1, <1>1, <1>2
    <3>3. ~wraps => ~q.sub /\ (pos + 1) - s = q.loc
      BY <3>1, <2>2, <1>1, <1>2
    <3> QED
      BY <3>2, <3>3, <1>2
  <2> QED
    BY <2>1, <2>2
<1>7. q.sum = WindowTotal(s, pos)'
  <2>1. r.sub <=> pos - s >= SumSpan
    BY <1>2, <1>3, <1>4
  <2>2. r.sub => r.win[r.loc] = plain[pos - r.loc - SumSpan + r.loc + 1]
    BY <1>3, <1>4
  <2>3. pos - r.loc - SumSpan + r.loc + 1 = pos - SumSpan + 1
    BY <1>2, <1>3
  <2> QED
    BY <1>1, <1>4, <2>1, <2>2, <2>3, WindowTotalStep
<1>8. ASSUME NEW l \in 0..(SumSpan - 1)
      PROVE  /\ l < q.loc => q.win[l] = plain[pos' - q.loc + l + 1]
             /\ (q.sub /\ l >= q.loc) => q.win[l] = plain[pos' - q.loc - SumSpan + l + 1]
  <2>0. r.loc \in Int /\ l \in Int
    BY <1>2, <1>3
  <2>1. q.win[l] = IF l = r.loc THEN plain[pos + 1] ELSE r.win[l]
    BY <1>1, <1>3 DEF ThisByte
  <2>2. /\ l < r.loc => r.win[l] = plain[pos - r.loc + l + 1]
        /\ (r.sub /\ l >= r.loc) => r.win[l] = plain[pos - r.loc - SumSpan + l + 1]
    BY <1>4
  <2>3. CASE wraps
    <3>1. q.loc = 0 /\ r.loc = SumSpan - 1
      <4>1. q.loc = 0 /\ r.loc + 1 = SumSpan
        BY <2>3, <1>1
      <4> QED
        BY <4>1, <1>2, <2>0
    <3>2. l = r.loc => pos' - q.loc - SumSpan + l + 1 = pos + 1
      BY <3>1, <1>2
    <3>3. l # r.loc => /\ l < r.loc
                      /\ pos' - q.loc - SumSpan + l + 1 = pos - r.loc + l + 1
      BY <3>1, <1>2
    <3> QED
      BY <2>1, <2>2, <3>1, <3>2, <3>3
  <2>4. CASE ~wraps
    <3>1. q.loc = r.loc + 1 /\ (q.sub <=> r.sub)
      BY <2>4, <1>1, <1>3
    <3>2. /\ pos' - q.loc + l + 1 = pos - r.loc + l + 1
          /\ pos' - q.loc - SumSpan + l + 1 = pos - r.loc - SumSpan + l + 1
      BY <3>1, <1>2, <2>0
    <3>3. /\ l = r.loc => pos - r.loc + l + 1 = pos + 1
          /\ l < q.loc => l < r.loc \/ l = r.loc
          /\ l >= q.loc => l >= r.loc /\ l # r.loc
      BY <3>1, <1>2, <1>3
    <3> QED
      BY <2>1, <2>2, <3>1, <3>2, <3>3
  <2> QED
    BY <2>3, <2>4
<1> QED
  BY <1>2, <1>5, <1>6, <1>7, <1>8 DEF Tracks

\* What calc_boundry returns is what the content of the chunk says.
LEMMA BoundaryByContent ==
  ASSUME EncIInv, EncryptByte, NEW s, s = ChunkStart
  PROVE  /\ s \in 0..pos
         /\ Tracks(roll, s, pos)'
         /\ newBlock' <=> ContentBoundary(s, pos)'
<1>1. epc = "loop" /\ EncTypeOK /\ HistoryOK
  BY DEF EncryptByte, EncIInv
<1>2. ChunkRoll(newBlock, roll) \in RollState
  BY <1>1, RollTypes DEF ChunkRoll, EncTypeOK
<1>3. Tracks(ChunkRoll(newBlock, roll), s, pos)
  BY <1>1, ChunkRollTracks
<1>4. s \in 0..pos
  BY <1>1, ByteFacts
<1>5. roll' = CalcBoundry(ChunkRoll(newBlock, roll), ThisByte) /\ newBlock' = AtBoundry(roll')
  BY DEF EncryptByte, ThisByte
<1>6. \A r \in RollState : \A q :
        Tracks(r, s, pos) /\ q = CalcBoundry(r, ThisByte) => Tracks(q, s, pos)'
  BY <1>1, <1>4, TracksStep
<1>7. Tracks(roll, s, pos)'
  BY <1>2, <1>3, <1>5, <1>6
<1>8. newBlock' <=> ContentBoundary(s, pos)'
  BY <1>5, <1>7 DEF AtBoundry, ContentBoundary, Tracks
<1> QED
  BY <1>4, <1>7, <1>8

-----------------------------------------------------------------------------
(* Type correctness. *)

LEMMA EncTypeInit == EncInit => EncTypeOK
<1> SUFFICES ASSUME EncInit PROVE EncTypeOK
  OBVIOUS
<1>1. plain \in Seq(Byte)
  BY PlainsAreBytes DEF EncInit
<1>2. pos \in 0..Len(plain)
  BY <1>1 DEF EncInit
<1>3. roll \in RollState
  <2>1. PICK w \in Window : roll = FreshRoll(w)
    BY DEF EncInit
  <2> QED
    BY <2>1, RollParams DEF FreshRoll, RollState
<1>4. buf \in Seq(Byte) /\ Len(buf) < BlockSize
  BY BlockParams DEF EncInit
<1>5. sums \in Seq(Nat) /\ Len(sums) = pos + 1
  BY DEF EncInit
<1>6. cuts \in Seq(Cut) /\ cuts # <<>>
  BY DEF EncInit, Cut
<1> QED
  BY <1>2, <1>3, <1>4, <1>5, <1>6 DEF EncInit, EncTypeOK

LEMMA EncTypeByte ==
  ASSUME EncTypeOK, HistoryOK, EncryptByte
  PROVE  EncTypeOK'
<1> DEFINE r     == CalcBoundry(ChunkRoll(newBlock, roll), ThisByte)
           base  == ChunkBase(newBlock, cbc)
           block == Append(buf, ThisByte)
<1>1. ThisByte \in Byte
  BY ByteHistory
<1>2. /\ pos' = pos + 1 /\ pos' \in 0..Len(plain') /\ plain' \in Plains
      /\ epc' \in {"loop", "done"}
  BY ByteFacts, ByteHistory DEF EncryptByte, EncTypeOK
<1>3. roll' \in RollState
  <2>1. ChunkRoll(newBlock, roll) \in RollState
    BY RollTypes DEF ChunkRoll, EncTypeOK
  <2>2. roll' = r
    BY DEF EncryptByte, ThisByte
  <2> QED
    BY <1>1, <2>1, <2>2, RollTypes
<1>4. newBlock' \in BOOLEAN
  BY DEF EncryptByte, AtBoundry
<1>5. base \in Seq(Block)
  BY DEF ChunkBase, EncTypeOK
<1>6. block \in Seq(Byte) /\ Len(block) = Len(buf) + 1 /\ Len(buf) \in Nat
  BY <1>1 DEF EncTypeOK
<1>7. PadBlock(block) \in Block
  <2>1. Len(block) <= BlockSize
    BY <1>6, BlockParams DEF EncTypeOK
  <2> HIDE DEF block
  <2> QED
    BY <1>6, <2>1, PadBlockType
<1>8. /\ buf' \in Seq(Byte) /\ Len(buf') < BlockSize
      /\ cbc' \in Seq(Block) /\ cipher' \in Seq(Seq(Block))
  <2>1. CASE BlockDone(block, r)
    <3>1. /\ cbc' = Append(base, PadBlock(block))
          /\ cipher' = Append(cipher, cbc') /\ buf' = <<>>
      BY <2>1 DEF EncryptByte, ThisByte
    <3>2. cbc' \in Seq(Block)
      BY <3>1, <1>5, <1>7
    <3> QED
      BY <3>1, <3>2, BlockParams DEF EncTypeOK
  <2>2. CASE ~BlockDone(block, r)
    <3>1. cbc' = base /\ cipher' = cipher /\ buf' = block
      BY <2>2 DEF EncryptByte, ThisByte
    <3> QED
      BY <2>2, <3>1, <1>5, <1>6, BlockParams DEF EncTypeOK, BlockDone
  <2> QED
    BY <2>1, <2>2
<1>9. sums' \in Seq(Nat) /\ Len(sums') = pos' + 1
  <2>0. pos + 1 \in 1..(pos + 1) /\ ThisByte \in Nat
    BY ByteFacts, ByteHistory
  <2>1. sums \in Seq(Nat) /\ Len(sums) = pos + 1 /\ sums[pos + 1] + ThisByte \in Nat
    BY <2>0, ByteFacts DEF EncTypeOK
  <2>2. sums' = Append(sums, sums[pos + 1] + ThisByte) /\ pos' = pos + 1
    BY ByteHistory
  <2> QED
    BY <2>1, <2>2
<1>10. cuts' \in Seq(Cut) /\ cuts' # <<>>
  <2> DEFINE c == [at |-> pos + 1, block |-> Len(cipher) + 1]
  <2>1. c \in Cut
    BY ByteFacts DEF EncTypeOK, Cut
  <2>2. cuts' = Append(cuts, c) \/ cuts' = cuts
    BY DEF EncryptByte
  <2>3. cuts \in Seq(Cut) /\ cuts # <<>>
    BY DEF EncTypeOK
  <2> HIDE DEF c
  <2> QED
    BY <2>1, <2>2, <2>3
<1> QED
  BY <1>2, <1>3, <1>4, <1>8, <1>9, <1>10 DEF EncTypeOK

LEMMA EncTypeTail ==
  ASSUME EncTypeOK, EncryptTail
  PROVE  EncTypeOK'
<1>1. PadBlock(buf) \in Block
  <2>1. buf \in Seq(Byte) /\ Len(buf) <= BlockSize
    BY BlockParams DEF EncTypeOK
  <2> QED
    BY <2>1, PadBlockType
<1>2. Trailer(Len(buf)) \in Block
  <2>1. Len(buf) \in 0..(BlockSize - 1)
    BY BlockParams DEF EncTypeOK
  <2>2. <<Len(buf)>> \in Seq(Byte) /\ Len(<<Len(buf)>>) <= BlockSize
    BY <2>1, BlockParams
  <2> QED
    BY <2>2, PadBlockType DEF Trailer
<1>3. cbc' \in Seq(Block)
  BY <1>2 DEF EncryptTail
<1>4. cipher' \in Seq(Seq(Block))
  <2> DEFINE leftover == IF buf = <<>> THEN <<>> ELSE <<Append(cbc, PadBlock(buf))>>
  <2>1. leftover \in Seq(Seq(Block))
    BY <1>1 DEF EncTypeOK
  <2>2. <<<<Trailer(Len(buf))>>>> \in Seq(Seq(Block))
    BY <1>2
  <2>3. cipher' = (cipher \o leftover) \o <<<<Trailer(Len(buf))>>>>
    BY DEF EncryptTail
  <2> HIDE DEF leftover
  <2> QED
    BY <2>1, <2>2, <2>3 DEF EncTypeOK
<1>5. roll' \in RollState
  BY RollTypes DEF EncryptTail, EncTypeOK
<1> QED
  BY <1>3, <1>4, <1>5 DEF EncryptTail, EncTypeOK

-----------------------------------------------------------------------------
(* The inductive invariant. *)

LEMMA EncIInvInit == EncInit => EncIInv
<1> SUFFICES ASSUME EncInit PROVE EncIInv
  OBVIOUS
<1>1. HistoryOK
  BY DEF EncInit, HistoryOK, ChunkStart
<1>2. CutsByContent
  BY DEF EncInit, CutsByContent
<1> QED
  BY <1>1, <1>2, EncTypeInit DEF EncInit, EncIInv

\* How EncryptByte extends the list of chunk starts.
LEMMA CutsGrow ==
  ASSUME EncTypeOK, HistoryOK, EncryptByte
  PROVE  /\ Len(cuts) \in Nat /\ Len(cuts) > 0
         /\ \A k \in 1..Len(cuts) : /\ cuts'[k] = cuts[k]
                                    /\ cuts[k].at \in 0..pos
         /\ IF newBlock'
              THEN Len(cuts') = Len(cuts) + 1 /\ cuts'[Len(cuts) + 1].at = pos + 1
              ELSE cuts' = cuts
<1> DEFINE c == [at |-> pos + 1, block |-> Len(cipher) + 1]
<1>1. cuts \in Seq(Cut) /\ cuts # <<>>
  BY DEF EncTypeOK
<1>2. cuts' = IF newBlock' THEN Append(cuts, c) ELSE cuts
  BY DEF EncryptByte
<1>3. c.at = pos + 1
  OBVIOUS
<1>4. ASSUME NEW k \in 1..Len(cuts) PROVE cuts[k].at \in 0..pos
  <2>1. cuts[k] \in Cut
    BY <1>1
  <2>2. cuts[k].at \in Nat
    BY <2>1 DEF Cut
  <2> QED
    BY <2>2, ByteFacts DEF HistoryOK
<1> HIDE DEF c
<1> QED
  BY <1>1, <1>2, <1>3, <1>4

LEMMA HistoryByte ==
  ASSUME EncTypeOK, HistoryOK, EncryptByte
  PROVE  HistoryOK'
<1>1. sums'[1] = 0
  <2>1. 1 \in 1..(pos + 1)
    BY ByteFacts
  <2> QED
    BY <2>1, ByteHistory DEF HistoryOK
<1>2. ASSUME NEW n \in 1..pos' PROVE sums'[n + 1] = sums'[n] + plain'[n]
  <2>1. CASE n = pos + 1
    <3>1. n + 1 = pos + 2 /\ n \in 1..(pos + 1)
      BY <2>1, ByteFacts
    <3> QED
      BY <2>1, <3>1, ByteHistory DEF ThisByte
  <2>2. CASE n # pos + 1
    <3>1. n \in 1..pos /\ n \in 1..(pos + 1) /\ n + 1 \in 1..(pos + 1)
      BY <2>2, ByteFacts, ByteHistory
    <3> QED
      BY <3>1, ByteHistory DEF HistoryOK
  <2> QED
    BY <2>1, <2>2
<1>3. \A k \in 1..Len(cuts') : cuts'[k].at <= pos'
  <2>1. pos \in Nat /\ pos' = pos + 1
    BY ByteFacts, ByteHistory
  <2> QED
    BY <2>1, CutsGrow
<1>4. newBlock' => ChunkStart' = pos'
  BY CutsGrow, ByteHistory DEF ChunkStart
<1> QED
  BY <1>1, <1>2, <1>3, <1>4 DEF HistoryOK

LEMMA ContentBoundaryKept ==
  ASSUME EncTypeOK, HistoryOK, EncryptByte, NEW s \in Nat, NEW p \in s..pos
  PROVE  ContentBoundary(s, p)' <=> ContentBoundary(s, p)
BY WindowTotalKept DEF ContentBoundary

LEMMA CutsByte ==
  ASSUME EncIInv, EncryptByte
  PROVE  CutsByContent'
<1> DEFINE K == Len(cuts)
<1>1. EncTypeOK /\ HistoryOK /\ CutsByContent
  BY DEF EncIInv
<1>2. /\ pos \in Nat /\ pos' = pos + 1 /\ K \in Nat /\ K > 0
  BY <1>1, ByteFacts, ByteHistory, CutsGrow
<1>3. /\ \A k \in 1..K : cuts'[k] = cuts[k] /\ cuts[k].at \in 0..pos
      /\ IF newBlock' THEN Len(cuts') = K + 1 /\ cuts'[K + 1].at = pos + 1
                      ELSE cuts' = cuts
  BY <1>1, CutsGrow
<1>4. SUFFICES ASSUME NEW k \in 1..Len(cuts'),
                      NEW p \in (cuts'[k].at + 1)..pos',
                      k = Len(cuts') \/ p <= cuts'[k + 1].at,
                      NEW a, a = cuts'[k].at
               PROVE  ContentBoundary(a, p)'
                        <=> (k < Len(cuts') /\ p = cuts'[k + 1].at)
  BY DEF CutsByContent, ContentBoundary, WindowTotal
<1>5. CASE k < K
  <2>1. /\ k \in 1..K /\ k + 1 \in 1..K /\ k < Len(cuts')
        /\ cuts'[k + 1].at = cuts[k + 1].at /\ a = cuts[k].at
    BY <1>2, <1>3, <1>4, <1>5
  <2>2. a \in Nat /\ p \in a..pos /\ p \in (a + 1)..pos /\ p <= cuts[k + 1].at
    BY <1>2, <1>3, <1>4, <2>1
  <2>3. ContentBoundary(a, p) <=> p = cuts[k + 1].at
    BY <1>1, <1>5, <2>1, <2>2 DEF CutsByContent
  <2> QED
    BY <1>1, <2>1, <2>2, <2>3, ContentBoundaryKept
<1>6. CASE k = K /\ p <= pos
  <2>1. a = cuts[K].at /\ a \in Nat /\ p \in a..pos /\ p \in (a + 1)..pos
    BY <1>2, <1>3, <1>4, <1>6
  <2>2. ~ContentBoundary(a, p)
    BY <1>1, <1>2, <2>1 DEF CutsByContent
  <2>3. ~(k < Len(cuts') /\ p = cuts'[k + 1].at)
    BY <1>2, <1>3, <1>6
  <2> QED
    BY <1>1, <2>1, <2>2, <2>3, ContentBoundaryKept
<1>7. CASE k = K /\ p > pos
  <2>1. p = pos + 1 /\ a = ChunkStart
    BY <1>2, <1>3, <1>4, <1>7 DEF ChunkStart
  <2>2. ContentBoundary(a, p)' <=> newBlock'
    BY <1>2, <2>1, BoundaryByContent DEF ContentBoundary, WindowTotal
  <2>3. newBlock' <=> (k < Len(cuts') /\ p = cuts'[k + 1].at)
    BY <1>2, <1>3, <1>7, <2>1
  <2> QED
    BY <2>2, <2>3
<1>8. CASE k > K
  BY <1>2, <1>3, <1>4, <1>8
<1> QED
  BY <1>2, <1>3, <1>5, <1>6, <1>7, <1>8

LEMMA EncIInvStep == EncIInv /\ [EncNext]_encVars => EncIInv'
<1> SUFFICES ASSUME EncIInv, [EncNext]_encVars PROVE EncIInv'
  OBVIOUS
<1>1. EncTypeOK /\ HistoryOK /\ CutsByContent
  BY DEF EncIInv
<1>2. CASE EncryptByte
  <2>1. EncTypeOK' /\ HistoryOK' /\ CutsByContent'
    BY <1>1, <1>2, EncTypeByte, HistoryByte, CutsByte
  <2>2. ~newBlock' => ChunkStart' = ChunkStart
    BY <1>1, <1>2, CutsGrow DEF ChunkStart
  <2>3. ~newBlock' => Tracks(roll, ChunkStart, pos)'
    BY <1>2, <2>2, BoundaryByContent DEF Tracks, WindowTotal
  <2> QED
    BY <2>1, <2>3 DEF EncIInv
<1>3. CASE EncryptTail
  <2>1. EncTypeOK'
    BY <1>1, <1>3, EncTypeTail
  <2>2. HistoryOK' /\ CutsByContent' /\ epc' = "done"
    BY <1>1, <1>3
    DEF EncryptTail, HistoryOK, CutsByContent, ContentBoundary, WindowTotal, ChunkStart
  <2> QED
    BY <2>1, <2>2 DEF EncIInv
<1>4. CASE UNCHANGED encVars
  <2>1. EncTypeOK' /\ HistoryOK' /\ CutsByContent'
    BY <1>1, <1>4
    DEF encVars, EncTypeOK, HistoryOK, CutsByContent, ContentBoundary, WindowTotal, ChunkStart
  <2>2. (epc' = "loop" /\ ~newBlock') => Tracks(roll, ChunkStart, pos)'
    BY <1>4 DEF encVars, EncIInv, Tracks, WindowTotal, ChunkStart
  <2> QED
    BY <2>1, <2>2 DEF EncIInv
<1> QED
  BY <1>2, <1>3, <1>4 DEF EncNext

-----------------------------------------------------------------------------
(* The theorems. *)

\* encrypt_file keeps its state well formed, and in step with its input.
THEOREM EncInvariant == EncSpec => []EncIInv
<1> QED
  BY EncIInvInit, EncIInvStep, PTL DEF EncSpec

\* Every block handed to the cipher fits its buffer, and every block written
\* is a block of bytes chained onto blocks.
THEOREM EncTypeCorrect == EncSpec => []EncTypeOK
<1>1. EncIInv => EncTypeOK
  BY DEF EncIInv
<1> QED
  BY <1>1, EncInvariant, PTL

\* The rolling sum of calc_boundry is the sum of the window, whatever the
\* buffer held before and however often the window has wrapped.
THEOREM WindowSumCorrect == EncSpec => []WindowSum
<1>1. EncIInv => WindowSum
  BY DEF EncIInv, WindowSum, Tracks
<1> QED
  BY <1>1, EncInvariant, PTL

\* Chunk boundaries are content-defined, for every input and all values of
\* --roll-win, --roll-sensitivity and --roll-min the code accounts for.
THEOREM CutsAreContentDefined == EncSpec => []CutsByContent
<1>1. EncIInv => CutsByContent
  BY DEF EncIInv
<1> QED
  BY <1>1, EncInvariant, PTL

-----------------------------------------------------------------------------
(* Resync: what is left of an encryption. *)

\* Bytes in j full blocks.
Off(j) == j * BlockSize

LeastOf(a, b) == IF a <= b THEN a ELSE b

\* The bytes of text t that go into its block i, and its blocks up to block j,
\* which is what the CBC chain of block j is.
Piece(t, i) == SubSeq(t, Off(i - 1) + 1, LeastOf(Off(i), Len(t)))
CbcChain(t, j) == [i \in 1..j |-> PadBlock(Piece(t, i))]

\* n blocks are what len bytes need; Over of them are in a last, partial block.
Covers(n, len) == n \in Nat /\ len <= Off(n) /\ (n > 0 => Off(n - 1) < len)
Over(n, len) == IF len = Off(n) THEN 0 ELSE len - Off(n - 1)

Text(p, s, e) == SubSeq(p, s + 1, e)

\* The bytes of p after s up to e are the blocks of x after b up to f.
IsChunk(p, x, s, b, e, f) ==
  /\ b <= f /\ s <= e
  /\ Covers(f - b, e - s)
  /\ \A j \in 1..(f - b) : x[b + j] = CbcChain(Text(p, s, e), j)

\* Chunk k of cuts c, before the last, is whole.
WholeChunk(p, x, c, k) ==
  c[k].at < c[k + 1].at /\ IsChunk(p, x, c[k].at, c[k].block, c[k + 1].at, c[k + 1].block)

\* A chunk that goes on to byte e has its boundaries where its content says.
Total(u, s, p) ==
  u[p + 1] - u[(IF p - s > SumSpan THEN p - SumSpan ELSE s) + 1]

Boundary(u, s, p) == p - s > SumMinDist /\ Total(u, s, p) % SumMod = 0

ByContent(u, c, e) ==
  \A k \in 1..Len(c) : \A p \in (c[k].at + 1)..e :
    (k = Len(c) \/ p <= c[k + 1].at) =>
      (Boundary(u, c[k].at, p) <=> (k < Len(c) /\ p = c[k + 1].at))

\* The prefix sums of the first e bytes of p.
Sums(u, p, e) ==
  /\ u \in Seq(Nat) /\ Len(u) = e + 1 /\ u[1] = 0
  /\ \A n \in 1..e : u[n + 1] = u[n] + p[n] /\ p[n] \in Nat

\* m elements of s after a are those of t after b; all of them are.
SamePart(s, a, t, b, m) == \A j \in 1..m : s[a + j] = t[b + j]
SameFrom(s, a, t, b) == Len(s) - a = Len(t) - b /\ SamePart(s, a, t, b, Len(s) - a)

\* m bytes of p after a are those of q after b, u and v being the prefix sums.
SameRun(p, u, a, q, v, b, m) ==
  /\ \E e \in Nat : Sums(u, p, e) /\ a + m <= e
  /\ \E f \in Nat : Sums(v, q, f) /\ b + m <= f
  /\ SamePart(p, a, q, b, m)

\* The cuts made in the first e bytes, with m blocks written.
CutsOK(p, x, c, e, m) ==
  /\ p \in Seq(Byte) /\ x \in Seq(Seq(Block)) /\ c \in Seq(Cut) /\ c # <<>>
  /\ e \in 0..Len(p) /\ m \in 0..Len(x)
  /\ c[1] = [at |-> 0, block |-> 0]
  /\ \A k \in 1..Len(c) : c[k].at <= e /\ c[k].block <= m
  /\ \A k \in 1..(Len(c) - 1) : WholeChunk(p, x, c, k)

\* What an encryption of p leaves behind: x, with cuts c and sums u.
Encrypted(p, x, c, u) ==
  /\ CutsOK(p, x, c, Len(p), Len(x) - 1)
  /\ Sums(u, p, Len(p))
  /\ ByContent(u, c, Len(p))
  /\ LET s == c[Len(c)].at
         b == c[Len(c)].block
     IN  /\ IsChunk(p, x, s, b, Len(p), Len(x) - 1)
         /\ x[Len(x)] = <<Trailer(Over(Len(x) - 1 - b, Len(p) - s))>>

\* The chunk that is being encrypted: its full blocks are written, the rest of
\* it is in the buffer.
Current ==
  LET s == ChunkStart
      b == cuts[Len(cuts)].block
      n == Len(cipher) - b
      t == Text(plain, s, pos)
  IN  /\ pos - s = Off(n) + Len(buf)
      /\ buf = SubSeq(t, Off(n) + 1, Len(t))
      /\ \A j \in 1..n : cipher[b + j] = CbcChain(t, j)
      /\ ChunkBase(newBlock, cbc) = CbcChain(t, n)

Writing ==
  /\ epc = "loop" => CutsOK(plain, cipher, cuts, pos, Len(cipher)) /\ Current
  /\ epc = "done" => Encrypted(plain, cipher, cuts, sums)

LeftBehind ==
  past = <<>> \/ (Len(past) = 1 /\ \E u \in Seq(Nat) :
                    Encrypted(past[1].plain, past[1].cipher, past[1].cuts, u))

RsIInv == EncIInv /\ Writing /\ LeftBehind

-----------------------------------------------------------------------------
(* Numbers. *)

\* Induction: a set of numbers with an element has a least one.
LEMMA LeastNumber ==
  ASSUME NEW T \in SUBSET Nat, T # {}
  PROVE  \E n \in T : \A m \in T : n <= m
<1>1. PICK n \in T : \A m \in T : ~(<<m, n>> \in OpToRel(<, Nat))
  BY NatLessThanWellFounded, WFMin
<1>2. \A m \in T : ~(m < n)
  BY <1>1 DEF OpToRel
<1> QED
  BY <1>2

LEMMA Offsets ==
  /\ Off(0) = 0
  /\ \A n \in Int : Off(n) \in Int /\ Off(n + 1) = Off(n) + BlockSize
<1>1. BlockSize \in Nat
  BY BlockParams
<1>2. Off(0) = 0
  BY <1>1 DEF Off
<1>3. ASSUME NEW n \in Int PROVE Off(n) \in Int /\ Off(n + 1) = Off(n) + BlockSize
  BY <1>1, SMTT(30) DEF Off
<1> QED
  BY <1>2, <1>3

LEMMA OffType == ASSUME NEW n \in Int PROVE Off(n) \in Int
BY Offsets

\* Product of a natural number and a positive one.
LEMMA Products ==
  ASSUME NEW a \in Nat, NEW b \in Nat, b > 0
  PROVE  a * b \in Nat /\ (a > 0 => a * b >= b)
OBVIOUS

LEMMA OffsetsGrow ==
  ASSUME NEW m \in Int, NEW n \in Int, m <= n
  PROVE  Off(m) <= Off(n) /\ (m < n => Off(m) + BlockSize <= Off(n))
<1>1. BlockSize \in Nat /\ BlockSize > 0
  BY BlockParams
<1>2. PICK d \in Nat : d = n - m
  OBVIOUS
<1>3. n = m + d /\ (m < n => d > 0)
  BY <1>2
<1>4. Off(n) = Off(m) + d * BlockSize
  <2>1. (m + d) * BlockSize = m * BlockSize + d * BlockSize
    BY <1>1
  <2> QED
    BY <1>3, <2>1 DEF Off
<1>5. d * BlockSize \in Nat /\ (d > 0 => d * BlockSize >= BlockSize)
  BY <1>1, Products
<1>6. Off(m) \in Int
  BY Offsets
<1> QED
  BY <1>1, <1>3, <1>4, <1>5, <1>6

\* As many bytes need as many blocks.
LEMMA CoversOnce ==
  ASSUME NEW len \in Nat, NEW m, NEW n, Covers(m, len), Covers(n, len)
  PROVE  m = n
<1>1. /\ m \in Nat /\ len <= Off(m) /\ (m > 0 => Off(m - 1) < len)
      /\ n \in Nat /\ len <= Off(n) /\ (n > 0 => Off(n - 1) < len)
  BY DEF Covers
<1>2. Off(m) \in Int /\ Off(n) \in Int /\ Off(m - 1) \in Int /\ Off(n - 1) \in Int
  BY <1>1, Offsets
<1>3. ~(m < n)
  <2> SUFFICES ASSUME m < n PROVE FALSE
    OBVIOUS
  <2>1. Off(m) <= Off(n - 1) /\ n > 0
    <3>1. m \in Int /\ n - 1 \in Int /\ m <= n - 1 /\ n > 0
      BY <1>1
    <3> QED
      BY <3>1, OffsetsGrow
  <2> QED
    BY <1>1, <1>2, <2>1
<1>4. ~(n < m)
  <2> SUFFICES ASSUME n < m PROVE FALSE
    OBVIOUS
  <2>1. Off(n) <= Off(m - 1) /\ m > 0
    <3>1. n \in Int /\ m - 1 \in Int /\ n <= m - 1 /\ m > 0
      BY <1>1
    <3> QED
      BY <3>1, OffsetsGrow
  <2> QED
    BY <1>1, <1>2, <2>1
<1> QED
  BY <1>1, <1>3, <1>4

-----------------------------------------------------------------------------
(* The blocks of a text that grows by a byte. *)

LEMMA TextProperties ==
  ASSUME NEW p \in Seq(Byte), NEW s \in Nat, NEW e \in Nat, s <= e, e <= Len(p)
  PROVE  /\ Text(p, s, e) \in Seq(Byte) /\ Len(Text(p, s, e)) = e - s
         /\ \A j \in 1..(e - s) : Text(p, s, e)[j] = p[s + j]
BY Slice DEF Text

LEMMA TextGrows ==
  ASSUME NEW p \in Seq(Byte), NEW s \in Nat, NEW e \in Nat, s <= e, e + 1 <= Len(p)
  PROVE  Text(p, s, e + 1) = Append(Text(p, s, e), p[e + 1])
<1>1. PICK t : t = Text(p, s, e)
  OBVIOUS
<1>2. PICK q : q = Text(p, s, e + 1)
  OBVIOUS
<1>3. /\ Len(p) \in Nat /\ p[e + 1] \in Byte
      /\ e <= Len(p) /\ e + 1 \in Nat /\ s <= e + 1
  <2>1. Len(p) \in Nat /\ e + 1 \in 1..Len(p)
    OBVIOUS
  <2>2. p[e + 1] \in Byte
    BY <2>1, ElementOfSeq
  <2> QED
    BY <2>1, <2>2
<1>4. /\ t \in Seq(Byte) /\ Len(t) = e - s /\ \A j \in 1..(e - s) : t[j] = p[s + j]
  BY <1>1, <1>3, TextProperties, Zenon
<1>5. /\ q \in Seq(Byte) /\ Len(q) = (e + 1) - s /\ \A j \in 1..((e + 1) - s) : q[j] = p[s + j]
  BY <1>2, <1>3, TextProperties, Zenon
<1>6. PICK r : r = Append(t, p[e + 1])
  OBVIOUS
<1>7. /\ r \in Seq(Byte) /\ Len(r) = Len(t) + 1 /\ \A j \in 1..Len(t) : r[j] = t[j]
      /\ r[Len(t) + 1] = p[e + 1]
  BY <1>3, <1>4, <1>6, AppendProperties
<1>8. Len(q) = Len(r) /\ \A j \in 1..Len(q) : q[j] = r[j]
  <2>1. Len(q) = Len(r)
    BY <1>4, <1>5, <1>7
  <2>2. ASSUME NEW j \in 1..Len(q) PROVE q[j] = r[j]
    <3>1. j \in 1..(e - s) \/ j = (e - s) + 1
      BY <1>5, <2>2
    <3>2. CASE j \in 1..(e - s)
      BY <1>4, <1>5, <1>7, <2>2, <3>2
    <3>3. CASE j = (e - s) + 1
      <4>1. s + j = e + 1 /\ j = Len(t) + 1
        BY <1>4, <3>3
      <4> QED
        BY <1>5, <1>7, <2>2, <4>1
    <3> QED
      BY <3>1, <3>2, <3>3
  <2> QED
    BY <2>1, <2>2
<1>9. q = r
  BY <1>5, <1>7, <1>8, SeqEqual
<1> QED
  BY <1>1, <1>2, <1>6, <1>9

\* A part of a text stays as it is, and so does a full block.
LEMMA TextKept ==
  ASSUME NEW t \in Seq(Byte), NEW q \in Seq(Byte), Len(t) <= Len(q),
         \A j \in 1..Len(t) : q[j] = t[j],
         NEW a \in Nat, NEW b \in Nat, a <= b, b <= Len(t)
  PROVE  Text(q, a, b) = Text(t, a, b)
<1>1. PICK x : x = Text(t, a, b)
  OBVIOUS
<1>2. PICK y : y = Text(q, a, b)
  OBVIOUS
<1>3. Len(t) \in Nat /\ Len(q) \in Nat /\ b <= Len(q)
  OBVIOUS
<1>4. x \in Seq(Byte) /\ Len(x) = b - a /\ \A j \in 1..(b - a) : x[j] = t[a + j]
  BY <1>1, <1>3, TextProperties
<1>5. y \in Seq(Byte) /\ Len(y) = b - a /\ \A j \in 1..(b - a) : y[j] = q[a + j]
  BY <1>2, <1>3, TextProperties
<1>6. \A j \in 1..(b - a) : a + j \in 1..Len(t)
  BY <1>3
<1>7. x = y
  BY <1>4, <1>5, <1>6, SeqEqual
<1> QED
  BY <1>1, <1>2, <1>7

LEMMA PieceKept ==
  ASSUME NEW t \in Seq(Byte), NEW q \in Seq(Byte), Len(t) <= Len(q),
         \A j \in 1..Len(t) : q[j] = t[j],
         NEW i \in Nat, i >= 1, Off(i) <= Len(t)
  PROVE  Piece(q, i) = Piece(t, i)
<1>1. PICK a \in Nat, b \in Nat : a = Off(i - 1) /\ b = Off(i) /\ a <= b
  <2>1. /\ Off(i - 1) \in Int /\ Off(i) \in Int /\ Off(0) = 0 /\ i - 1 \in Int /\ 0 <= i - 1
        /\ i - 1 <= i
    BY Offsets
  <2>2. Off(0) <= Off(i - 1) /\ Off(i - 1) <= Off(i)
    BY <2>1, OffsetsGrow
  <2> QED
    BY <2>1, <2>2
<1>2. Len(t) \in Nat /\ Len(q) \in Nat /\ b <= Len(t) /\ b <= Len(q)
  BY <1>1
<1>3. Piece(t, i) = Text(t, a, b) /\ Piece(q, i) = Text(q, a, b)
  BY <1>1, <1>2 DEF Piece, LeastOf, Text
<1>4. Text(q, a, b) = Text(t, a, b)
  BY <1>1, <1>2, TextKept
<1> QED
  BY <1>3, <1>4

LEMMA ChainKept ==
  ASSUME NEW t \in Seq(Byte), NEW q \in Seq(Byte), Len(t) <= Len(q),
         \A j \in 1..Len(t) : q[j] = t[j],
         NEW n \in Nat, Off(n) <= Len(t)
  PROVE  \A j \in 0..n : CbcChain(q, j) = CbcChain(t, j)
<1> SUFFICES ASSUME NEW j \in 0..n PROVE CbcChain(q, j) = CbcChain(t, j)
  OBVIOUS
<1>1. \A i \in 1..j : Piece(q, i) = Piece(t, i)
  <2> SUFFICES ASSUME NEW i \in 1..j PROVE Piece(q, i) = Piece(t, i)
    OBVIOUS
  <2>1. i \in Nat /\ i >= 1 /\ i <= n /\ i \in Int /\ n \in Int
    OBVIOUS
  <2>2. Off(i) \in Int /\ Off(n) \in Int
    BY <2>1, OffType
  <2>3. Off(i) <= Len(t)
    <3>1. Off(i) <= Off(n)
      BY <2>1, OffsetsGrow
    <3>2. Len(t) \in Int
      OBVIOUS
    <3> QED
      BY <2>2, <3>1, <3>2
  <2> QED
    BY <2>1, <2>3, PieceKept
<1> QED
  BY <1>1 DEF CbcChain

\* The bytes after the full blocks make the next one.
LEMMA ChainNext ==
  ASSUME NEW t \in Seq(Byte), NEW n \in Nat, Len(t) <= Off(n + 1)
  PROVE  CbcChain(t, n + 1) = Append(CbcChain(t, n), PadBlock(SubSeq(t, Off(n) + 1, Len(t))))
<1>1. Piece(t, n + 1) = SubSeq(t, Off(n) + 1, Len(t))
  <2>1. Len(t) \in Nat /\ Off(n + 1) \in Int /\ (n + 1) - 1 = n
    BY Offsets
  <2>2. LeastOf(Off(n + 1), Len(t)) = Len(t)
    BY <2>1 DEF LeastOf
  <2> QED
    BY <2>1, <2>2 DEF Piece
<1>2. PICK f : f = [i \in 1..(n + 1) |-> PadBlock(Piece(t, i))]
  OBVIOUS
<1>3. PICK b : b = PadBlock(Piece(t, n + 1))
  OBVIOUS
<1>4. [i \in 1..(n + 1) |-> PadBlock(Piece(t, i))] = Append([i \in 1..n |-> PadBlock(Piece(t, i))], PadBlock(Piece(t, n + 1)))
  OBVIOUS
<1> QED
  BY <1>1, <1>4 DEF CbcChain

-----------------------------------------------------------------------------
(* Two encryptions compared. *)

\* The same bytes add up to the same sums, wherever they are.
LEMMA SameSums ==
  ASSUME NEW p, NEW q, NEW u, NEW v,
         NEW a \in Nat, NEW b \in Nat, NEW m \in Nat, SameRun(p, u, a, q, v, b, m)
  PROVE  \A j \in 0..m : /\ u[a + j + 1] \in Nat /\ v[b + j + 1] \in Nat
                         /\ u[a + j + 1] - u[a + 1] = v[b + j + 1] - v[b + 1]
<1>1. PICK e \in Nat : Sums(u, p, e) /\ a + m <= e
  BY DEF SameRun
<1>2. PICK f \in Nat : Sums(v, q, f) /\ b + m <= f
  BY DEF SameRun
<1> DEFINE Same(j) == u[a + j + 1] - u[a + 1] = v[b + j + 1] - v[b + 1]
           T == {j \in 0..m : ~Same(j)}
<1>3. \A n \in 1..(e + 1) : u[n] \in Nat
  BY <1>1, ElementOfSeq DEF Sums
<1>4. \A n \in 1..(f + 1) : v[n] \in Nat
  BY <1>2, ElementOfSeq DEF Sums
<1>5. \A j \in 0..m : u[a + j + 1] \in Nat /\ v[b + j + 1] \in Nat
  <2> SUFFICES ASSUME NEW j \in 0..m PROVE u[a + j + 1] \in Nat /\ v[b + j + 1] \in Nat
    OBVIOUS
  <2>1. a + j + 1 \in 1..(e + 1) /\ b + j + 1 \in 1..(f + 1)
    BY <1>1, <1>2
  <2> QED
    BY <1>3, <1>4, <2>1
<1>6. T = {}
  <2> SUFFICES ASSUME T # {} PROVE FALSE
    OBVIOUS
  <2>1. T \in SUBSET Nat
    OBVIOUS
  <2>2. PICK n \in T : \A l \in T : n <= l
    BY <2>1, LeastNumber
  <2>3. n \in 0..m /\ ~Same(n)
    OBVIOUS
  <2>4. u[a + 0 + 1] = u[a + 1] /\ v[b + 0 + 1] = v[b + 1] /\ 0 \in 0..m
    OBVIOUS
  <2>5. u[a + 1] \in Nat /\ v[b + 1] \in Nat
    BY <1>5, <2>4
  <2>6. n # 0
    BY <2>3, <2>4, <2>5
  <2>7. PICK l \in 0..m : n = l + 1
    <3>1. n - 1 \in 0..m /\ n = (n - 1) + 1
      BY <2>3, <2>6
    <3> QED
      BY <3>1
  <2>8. Same(l)
    <3>1. l \notin T
      BY <2>2, <2>7
    <3> QED
      BY <3>1
  <2>9. u[a + n + 1] = u[a + n] + p[a + n] /\ v[b + n + 1] = v[b + n] + q[b + n]
    <3>1. a + n \in 1..e /\ b + n \in 1..f
      BY <1>1, <1>2, <2>3, <2>6
    <3> QED
      BY <1>1, <1>2, <3>1 DEF Sums
  <2>10. p[a + n] = q[b + n] /\ p[a + n] \in Nat
    <3>1. n \in 1..m /\ a + n \in 1..e
      BY <1>1, <2>3, <2>6
    <3> QED
      BY <1>1, <3>1 DEF Sums, SamePart, SameRun
  <2>11. a + n = a + l + 1 /\ b + n = b + l + 1
    BY <2>7
  <2>12. /\ u[a + l + 1] \in Nat /\ v[b + l + 1] \in Nat
         /\ u[a + n + 1] = u[a + l + 1] + p[a + n] /\ v[b + n + 1] = v[b + l + 1] + p[a + n]
    BY <1>5, <2>9, <2>10, <2>11
  <2>13. Same(n)
    BY <2>5, <2>8, <2>10, <2>12
  <2> QED
    BY <2>3, <2>13
<1> QED
  BY <1>5, <1>6

SameBoundaries(u, a, v, b, m) ==
  \A j \in 1..m : Boundary(u, a, a + j) <=> Boundary(v, b, b + j)

\* ... and have their boundaries at the same places.
LEMMA SameBoundary ==
  ASSUME NEW p, NEW q, NEW u, NEW v,
         NEW a \in Nat, NEW b \in Nat, NEW m \in Nat, SameRun(p, u, a, q, v, b, m)
  PROVE  SameBoundaries(u, a, v, b, m)
<1> SUFFICES ASSUME NEW j \in 1..m PROVE Boundary(u, a, a + j) <=> Boundary(v, b, b + j)
  BY DEF SameBoundaries
<1>1. PICK h \in 0..m : h = (IF j > SumSpan THEN j - SumSpan ELSE 0)
  <2>1. (IF j > SumSpan THEN j - SumSpan ELSE 0) \in 0..m
    BY RollParams
  <2> QED
    BY <2>1
<1>2. /\ (a + j) - a = j /\ (b + j) - b = j
      /\ (IF (a + j) - a > SumSpan THEN (a + j) - SumSpan ELSE a) = a + h
      /\ (IF (b + j) - b > SumSpan THEN (b + j) - SumSpan ELSE b) = b + h
  BY <1>1, RollParams
<1>3. Total(u, a, a + j) = u[a + j + 1] - u[a + h + 1]
  BY <1>2, Zenon DEF Total
<1>4. Total(v, b, b + j) = v[b + j + 1] - v[b + h + 1]
  BY <1>2, Zenon DEF Total
<1>5. \A l \in 0..m : /\ u[a + l + 1] \in Nat /\ v[b + l + 1] \in Nat
                      /\ u[a + l + 1] - u[a + 1] = v[b + l + 1] - v[b + 1]
  BY SameSums
<1>6. PICK u0 \in Nat, v0 \in Nat : u0 = u[a + 1] /\ v0 = v[b + 1]
  <2>1. a + 0 + 1 = a + 1 /\ b + 0 + 1 = b + 1 /\ 0 \in 0..m
    OBVIOUS
  <2> QED
    BY <1>5, <2>1
<1>7. j \in 0..m
  OBVIOUS
<1>8. PICK uj \in Nat, vj \in Nat : uj = u[a + j + 1] /\ vj = v[b + j + 1] /\ uj - u0 = vj - v0
  BY <1>5, <1>6, <1>7
<1>9. PICK uh \in Nat, vh \in Nat : uh = u[a + h + 1] /\ vh = v[b + h + 1] /\ uh - u0 = vh - v0
  BY <1>5, <1>6
<1>10. uj - uh = vj - vh
  BY <1>8, <1>9
<1>11. Total(u, a, a + j) = Total(v, b, b + j)
  BY <1>3, <1>4, <1>8, <1>9, <1>10
<1> QED
  BY <1>2, <1>11 DEF Boundary

LEMMA CutFacts ==
  ASSUME NEW p, NEW x, NEW c, NEW e, NEW m, CutsOK(p, x, c, e, m), NEW k \in 1..Len(c)
  PROVE  /\ Len(c) \in Nat /\ Len(p) \in Nat /\ Len(x) \in Nat
         /\ e \in 0..Len(p) /\ m \in 0..Len(x)
         /\ c[k].at \in 0..e /\ c[k].block \in 0..m
         /\ k < Len(c) => /\ k + 1 \in 1..Len(c)
                          /\ c[k + 1].at \in 0..e /\ c[k + 1].block \in 0..m
                          /\ c[k].at < c[k + 1].at /\ c[k].block <= c[k + 1].block
<1>1. /\ p \in Seq(Byte) /\ x \in Seq(Seq(Block)) /\ c \in Seq(Cut)
      /\ e \in 0..Len(p) /\ m \in 0..Len(x)
      /\ \A l \in 1..Len(c) : c[l].at <= e /\ c[l].block <= m
  BY DEF CutsOK
<1>2. Len(c) \in Nat /\ Len(p) \in Nat /\ Len(x) \in Nat
  BY <1>1
<1>3. \A l \in 1..Len(c) : c[l].at \in 0..e /\ c[l].block \in 0..m
  <2> SUFFICES ASSUME NEW l \in 1..Len(c) PROVE c[l].at \in 0..e /\ c[l].block \in 0..m
    OBVIOUS
  <2>1. c[l] \in Cut
    BY <1>1, ElementOfSeq
  <2>2. c[l].at \in Nat /\ c[l].block \in Nat
    BY <2>1 DEF Cut
  <2> QED
    BY <1>1, <1>2, <2>2
<1>4. ASSUME k < Len(c)
      PROVE  k + 1 \in 1..Len(c) /\ c[k].at < c[k + 1].at /\ c[k].block <= c[k + 1].block
  <2>1. k + 1 \in 1..Len(c) /\ k \in 1..(Len(c) - 1)
    BY <1>2, <1>4
  <2>2. WholeChunk(p, x, c, k)
    BY <2>1 DEF CutsOK
  <2> QED
    BY <2>1, <2>2 DEF WholeChunk, IsChunk
<1> QED
  BY <1>1, <1>2, <1>3, <1>4

\* The numbers of an encryption, and the cuts without the last block.
LEMMA EncryptedFacts ==
  ASSUME NEW p, NEW x, NEW c, NEW u, Encrypted(p, x, c, u)
  PROVE  /\ CutsOK(p, x, c, Len(p), Len(x) - 1)
         /\ Sums(u, p, Len(p)) /\ ByContent(u, c, Len(p))
         /\ p \in Seq(Byte) /\ x \in Seq(Seq(Block)) /\ Len(c) \in Nat /\ Len(c) >= 1
         /\ Len(p) \in Nat /\ Len(x) \in Nat /\ Len(x) >= 1
         /\ \A j \in 1..Len(p) : p[j] \in Nat
<1>1. CutsOK(p, x, c, Len(p), Len(x) - 1) /\ Sums(u, p, Len(p)) /\ ByContent(u, c, Len(p))
  BY DEF Encrypted
<1>2. /\ p \in Seq(Byte) /\ x \in Seq(Seq(Block)) /\ c \in Seq(Cut) /\ c # <<>>
      /\ Len(x) - 1 \in 0..Len(x)
  BY <1>1 DEF CutsOK
<1>3. Len(c) \in Nat /\ Len(c) >= 1
  BY <1>2
<1>4. Len(p) \in Nat /\ Len(x) \in Nat /\ Len(x) >= 1
  BY <1>2
<1>5. \A j \in 1..Len(p) : p[j] \in Nat
  BY <1>2, ElementOfSeq, BlockParams
<1> QED
  BY <1>1, <1>2, <1>3, <1>4, <1>5

\* The m bytes after s, as text.
LEMMA TextOf ==
  ASSUME NEW p \in Seq(Byte), NEW m \in Nat, NEW s \in Nat, NEW e \in Nat,
         e = s + m, e <= Len(p)
  PROVE  /\ Text(p, s, e) \in Seq(Byte) /\ Len(Text(p, s, e)) = m
         /\ \A j \in 1..m : Text(p, s, e)[j] = p[s + j]
<1>1. s <= e
  OBVIOUS
<1>2. /\ Text(p, s, e) \in Seq(Byte) /\ Len(Text(p, s, e)) = e - s
      /\ \A j \in 1..(e - s) : Text(p, s, e)[j] = p[s + j]
  BY <1>1, TextProperties
<1>3. e - s = m
  OBVIOUS
<1> QED
  BY <1>2, <1>3, Zenon

\* The same bytes in a row are the same text.
LEMMA SameText ==
  ASSUME NEW p \in Seq(Byte), NEW q \in Seq(Byte), NEW m \in Nat,
         NEW s \in Nat, NEW e \in Nat, NEW t \in Nat, NEW f \in Nat,
         e <= Len(p), f <= Len(q), e = s + m, f = t + m, SamePart(p, s, q, t, m)
  PROVE  Text(p, s, e) = Text(q, t, f)
<1>1. /\ Text(p, s, e) \in Seq(Byte) /\ Len(Text(p, s, e)) = m
      /\ \A j \in 1..m : Text(p, s, e)[j] = p[s + j]
  BY TextOf
<1>2. /\ Text(q, t, f) \in Seq(Byte) /\ Len(Text(q, t, f)) = m
      /\ \A j \in 1..m : Text(q, t, f)[j] = q[t + j]
  BY TextOf
<1>3. \A j \in 1..m : Text(p, s, e)[j] = Text(q, t, f)[j]
  BY <1>1, <1>2 DEF SamePart
<1> QED
  BY <1>1, <1>2, <1>3, SeqEqual

\* The same text is cut into the same blocks.
LEMMA SameBlocks ==
  ASSUME NEW p \in Seq(Byte), NEW q \in Seq(Byte), NEW x, NEW y, NEW m \in Nat,
         NEW s \in Nat, NEW e \in Nat, NEW t \in Nat, NEW h \in Nat,
         NEW b \in Nat, NEW f \in Nat, NEW d \in Nat, NEW g \in Nat,
         e <= Len(p), h <= Len(q), e = s + m, h = t + m, SamePart(p, s, q, t, m),
         IsChunk(p, x, s, b, e, f), IsChunk(q, y, t, d, h, g)
  PROVE  f - b = g - d /\ SamePart(x, b, y, d, f - b)
<1>1. Text(p, s, e) = Text(q, t, h)
  BY SameText
<1>2. Covers(f - b, m) /\ Covers(g - d, m)
  <2>1. Covers(f - b, e - s) /\ Covers(g - d, h - t)
    BY DEF IsChunk
  <2>2. e - s = m /\ h - t = m
    OBVIOUS
  <2> QED
    BY <2>1, <2>2, Zenon
<1>3. f - b = g - d
  BY <1>2, CoversOnce
<1>4. \A j \in 1..(f - b) : x[b + j] = y[d + j]
  BY <1>1, <1>3 DEF IsChunk
<1> QED
  BY <1>3, <1>4 DEF SamePart

\* m bytes after s is the first boundary.
FirstBoundary(u, s, m) == \A j \in 1..m : Boundary(u, s, s + j) <=> j = m

LEMMA SameFirst ==
  ASSUME NEW p, NEW q, NEW u, NEW v,
         NEW a \in Nat, NEW b \in Nat, NEW m \in Nat, SameRun(p, u, a, q, v, b, m),
         FirstBoundary(u, a, m)
  PROVE  FirstBoundary(v, b, m)
<1>1. SameBoundaries(u, a, v, b, m)
  BY SameBoundary
<1>2. \A j \in 1..m : Boundary(u, a, a + j) <=> Boundary(v, b, b + j)
  BY <1>1 DEF SameBoundaries
<1>3. \A j \in 1..m : Boundary(u, a, a + j) <=> j = m
  BY DEF FirstBoundary
<1> QED
  BY <1>2, <1>3 DEF FirstBoundary

\* Chunk k of an encryption is whole, and has its boundary at its end, or is the
\* last, without a boundary.
WholeAt(p, x, c, u, k, a, b, e, f) ==
  /\ c[k].at = a /\ c[k].block = b
  /\ k + 1 \in 1..Len(c) /\ c[k + 1].at = e /\ c[k + 1].block = f
  /\ a < e /\ e <= Len(p) /\ b <= f /\ f < Len(x)
  /\ IsChunk(p, x, a, b, e, f)
  /\ FirstBoundary(u, a, e - a)

LastAt(p, x, c, u, a, b) ==
  /\ c[Len(c)].at = a /\ c[Len(c)].block = b /\ a <= Len(p) /\ b < Len(x)
  /\ IsChunk(p, x, a, b, Len(p), Len(x) - 1)
  /\ x[Len(x)] = <<Trailer(Over(Len(x) - 1 - b, Len(p) - a))>>
  /\ \A j \in (a + 1)..Len(p) : ~Boundary(u, a, j)

LEMMA WholeFacts ==
  ASSUME NEW p, NEW x, NEW c, NEW u, Encrypted(p, x, c, u),
         NEW k \in 1..Len(c), k < Len(c)
  PROVE  \E a \in Nat, b \in Nat, e \in Nat, f \in Nat : WholeAt(p, x, c, u, k, a, b, e, f)
<1>1. /\ CutsOK(p, x, c, Len(p), Len(x) - 1) /\ ByContent(u, c, Len(p))
      /\ Len(c) \in Nat /\ Len(p) \in Nat /\ Len(x) \in Nat
  BY EncryptedFacts
<1>2. /\ c[k].at \in 0..Len(p) /\ c[k].block \in 0..(Len(x) - 1)
      /\ k + 1 \in 1..Len(c) /\ c[k + 1].at \in 0..Len(p) /\ c[k + 1].block \in 0..(Len(x) - 1)
      /\ c[k].at < c[k + 1].at /\ c[k].block <= c[k + 1].block
  BY <1>1, CutFacts
<1>3. PICK a \in Nat, b \in Nat : c[k].at = a /\ c[k].block = b
  BY <1>2
<1>4. PICK e \in Nat, f \in Nat : c[k + 1].at = e /\ c[k + 1].block = f /\ e <= Len(p) /\ f < Len(x)
  BY <1>1, <1>2
<1>5. IsChunk(p, x, a, b, e, f)
  <2>1. k \in 1..(Len(c) - 1)
    BY <1>1
  <2>2. WholeChunk(p, x, c, k)
    BY <1>1, <2>1 DEF CutsOK
  <2> QED
    BY <1>3, <1>4, <2>2 DEF WholeChunk
<1>6. FirstBoundary(u, a, e - a)
  <2> SUFFICES ASSUME NEW j \in 1..(e - a) PROVE Boundary(u, a, a + j) <=> j = e - a
    BY DEF FirstBoundary
  <2>1. a + j \in (a + 1)..Len(p) /\ a + j <= e
    BY <1>1, <1>3, <1>4
  <2>2. Boundary(u, a, a + j) <=> a + j = e
    BY <1>1, <1>3, <1>4, <2>1 DEF ByContent
  <2>3. a + j = e <=> j = e - a
    BY <1>3, <1>4
  <2> QED
    BY <2>2, <2>3
<1>7. WholeAt(p, x, c, u, k, a, b, e, f)
  BY <1>2, <1>3, <1>4, <1>5, <1>6 DEF WholeAt
<1> QED
  BY <1>3, <1>4, <1>7

LEMMA LastFacts ==
  ASSUME NEW p, NEW x, NEW c, NEW u, Encrypted(p, x, c, u)
  PROVE  \E a \in Nat, b \in Nat : LastAt(p, x, c, u, a, b)
<1>1. /\ CutsOK(p, x, c, Len(p), Len(x) - 1) /\ ByContent(u, c, Len(p))
      /\ Len(c) \in Nat /\ Len(p) \in Nat /\ Len(x) \in Nat /\ Len(c) \in 1..Len(c)
  BY EncryptedFacts
<1>2. c[Len(c)].at \in 0..Len(p) /\ c[Len(c)].block \in 0..(Len(x) - 1)
  BY <1>1, CutFacts
<1>3. PICK a \in Nat, b \in Nat : c[Len(c)].at = a /\ c[Len(c)].block = b /\ a <= Len(p) /\ b < Len(x)
  BY <1>1, <1>2
<1>4. /\ IsChunk(p, x, a, b, Len(p), Len(x) - 1)
      /\ x[Len(x)] = <<Trailer(Over(Len(x) - 1 - b, Len(p) - a))>>
  BY <1>3 DEF Encrypted
<1>5. \A j \in (a + 1)..Len(p) : ~Boundary(u, a, j)
  BY <1>1, <1>3 DEF ByContent
<1>6. LastAt(p, x, c, u, a, b)
  BY <1>3, <1>4, <1>5 DEF LastAt
<1> QED
  BY <1>3, <1>6

\* A chunk has one end.
LEMMA SameEnd ==
  ASSUME NEW v, NEW s, NEW m \in Nat, NEW n \in Nat, m > 0, n > 0,
         FirstBoundary(v, s, m), FirstBoundary(v, s, n)
  PROVE  m = n
<1>1. m \in 1..m /\ n \in 1..n
  OBVIOUS
<1>2. Boundary(v, s, s + m) /\ Boundary(v, s, s + n)
  BY <1>1 DEF FirstBoundary
<1>3. ~(m < n)
  BY <1>2 DEF FirstBoundary
<1>4. ~(n < m)
  BY <1>2 DEF FirstBoundary
<1> QED
  BY <1>3, <1>4

\* A whole chunk of one file, wherever its text is a chunk's beginning in the
\* other, is a whole chunk there, of the same blocks.
LEMMA SameChunk ==
  ASSUME NEW p, NEW x, NEW c, NEW u, NEW q, NEW y, NEW d, NEW v,
         Encrypted(p, x, c, u), Encrypted(q, y, d, v),
         NEW i \in 1..Len(c), i < Len(c), NEW k \in 1..Len(d),
         NEW m \in Nat, c[i + 1].at = c[i].at + m,
         d[k].at + m <= Len(q), SamePart(p, c[i].at, q, d[k].at, m)
  PROVE  /\ k < Len(d) /\ d[k + 1].at = d[k].at + m
         /\ d[k + 1].block - d[k].block = c[i + 1].block - c[i].block
         /\ SamePart(x, c[i].block, y, d[k].block, c[i + 1].block - c[i].block)
<1>1. PICK a \in Nat, b \in Nat, e \in Nat, f \in Nat : WholeAt(p, x, c, u, i, a, b, e, f)
  BY WholeFacts
<1>2. /\ c[i].at = a /\ c[i].block = b /\ c[i + 1].at = e /\ c[i + 1].block = f
      /\ a < e /\ e <= Len(p) /\ b <= f
      /\ IsChunk(p, x, a, b, e, f)
      /\ FirstBoundary(u, a, e - a)
  BY <1>1 DEF WholeAt
<1>3. p \in Seq(Byte) /\ q \in Seq(Byte) /\ Len(p) \in Nat /\ Len(q) \in Nat /\ Len(d) \in Nat
  BY EncryptedFacts
<1>4. PICK s \in Nat : d[k].at = s
  <2>1. CASE k < Len(d)
    <3>1. PICK s1 \in Nat, t1 \in Nat, h1 \in Nat, g1 \in Nat : WholeAt(q, y, d, v, k, s1, t1, h1, g1)
      BY <2>1, WholeFacts
    <3> QED
      BY <3>1 DEF WholeAt
  <2>2. CASE k = Len(d)
    <3>1. PICK s1 \in Nat, t1 \in Nat : LastAt(q, y, d, v, s1, t1)
      BY LastFacts
    <3> QED
      BY <2>2, <3>1 DEF LastAt
  <2> QED
    BY <1>3, <2>1, <2>2
<1>5. e = a + m /\ s + m <= Len(q) /\ SamePart(p, a, q, s, m)
  BY <1>2, <1>4
<1>6. m > 0 /\ a + m <= Len(p)
  BY <1>1, <1>2, <1>3, <1>5
<1>7. SameRun(p, u, a, q, v, s, m)
  <2>1. Sums(u, p, Len(p)) /\ Sums(v, q, Len(q))
    BY EncryptedFacts
  <2> QED
    BY <1>3, <1>5, <1>6, <2>1 DEF SameRun
<1>8. FirstBoundary(v, s, m)
  <2>1. e - a = m
    BY <1>1, <1>5
  <2>2. FirstBoundary(u, a, m)
    BY <1>2, <2>1, Zenon
  <2> QED
    BY <1>1, <1>4, <1>7, <2>2, SameFirst
<1>9. k < Len(d)
  <2> SUFFICES ASSUME k = Len(d) PROVE FALSE
    BY <1>3
  <2>1. PICK s1 \in Nat, t1 \in Nat : LastAt(q, y, d, v, s1, t1)
    BY LastFacts
  <2>2. \A j \in (s + 1)..Len(q) : ~Boundary(v, s, j)
    BY <1>4, <2>1 DEF LastAt
  <2>3. m \in 1..m /\ s + m \in (s + 1)..Len(q)
    BY <1>3, <1>4, <1>5, <1>6
  <2> QED
    BY <1>8, <2>2, <2>3 DEF FirstBoundary
<1>10. PICK s1 \in Nat, t \in Nat, h \in Nat, g \in Nat : WholeAt(q, y, d, v, k, s1, t, h, g)
  BY <1>9, WholeFacts
<1>11. /\ d[k].block = t /\ d[k + 1].at = h /\ d[k + 1].block = g
       /\ s < h /\ h <= Len(q) /\ t <= g
       /\ IsChunk(q, y, s, t, h, g)
       /\ FirstBoundary(v, s, h - s)
  BY <1>4, <1>10 DEF WholeAt
<1>12. h = s + m
  <2>1. PICK n \in Nat : n = h - s /\ n > 0
    BY <1>4, <1>10, <1>11
  <2>2. FirstBoundary(v, s, n)
    BY <1>11, <2>1
  <2>3. m = n
    BY <1>6, <1>8, <2>1, <2>2, SameEnd
  <2> QED
    BY <1>4, <1>10, <2>1, <2>3
<1>13. f - b = g - t /\ SamePart(x, b, y, t, f - b)
  <2>1. SamePart(p, a, q, s, m) /\ p \in Seq(Byte) /\ q \in Seq(Byte)
    BY <1>1, <1>2, <1>3, <1>4, <1>5
  <2>2. e <= Len(p) /\ h <= Len(q) /\ e = a + m /\ h = s + m
    BY <1>1, <1>2, <1>3, <1>4, <1>5, <1>11, <1>12
  <2>3. IsChunk(p, x, a, b, e, f) /\ IsChunk(q, y, s, t, h, g)
    BY <1>1, <1>2, <1>11
  <2>4. /\ a \in Nat /\ b \in Nat /\ s \in Nat /\ t \in Nat /\ m \in Nat
        /\ e \in Nat /\ h \in Nat /\ f \in Nat /\ g \in Nat
    BY <1>1, <1>2, <1>3, <1>4, <1>5, <1>10
  <2> QED
    BY <2>1, <2>2, <2>3, <2>4, SameBlocks
<1> QED
  BY <1>2, <1>4, <1>9, <1>11, <1>12, <1>13

-----------------------------------------------------------------------------
(* The same text left gives the same blocks left. *)

\* A sequence in two parts is the same if its parts are.
LEMMA SameJoined ==
  ASSUME NEW S, NEW x \in Seq(S), NEW y \in Seq(S),
         NEW b \in Nat, NEW t \in Nat, NEW n \in Nat,
         SamePart(x, b, y, t, n), SameFrom(x, b + n, y, t + n)
  PROVE  SameFrom(x, b, y, t)
<1>1. Len(x) \in Nat /\ Len(y) \in Nat /\ Len(x) - (b + n) = Len(y) - (t + n)
  BY DEF SameFrom
<1>2. Len(x) - b = Len(y) - t
  BY <1>1
<1>3. ASSUME NEW j \in 1..(Len(x) - b) PROVE x[b + j] = y[t + j]
  <2>1. CASE j <= n
    BY <2>1 DEF SamePart
  <2>2. CASE j > n
    <3>1. PICK l \in 1..(Len(x) - (b + n)) : j = n + l
      <4>1. j - n \in 1..(Len(x) - (b + n)) /\ j = n + (j - n)
        BY <1>1, <2>2
      <4> QED
        BY <4>1
    <3>2. x[(b + n) + l] = y[(t + n) + l]
      BY <3>1 DEF SameFrom, SamePart
    <3>3. (b + n) + l = b + j /\ (t + n) + l = t + j
      BY <3>1
    <3> QED
      BY <3>2, <3>3
  <2> QED
    BY <1>1, <2>1, <2>2
<1> QED
  BY <1>2, <1>3 DEF SameFrom, SamePart

\* What is left of a text after its first m bytes.
LEMMA SameRest ==
  ASSUME NEW S, NEW p \in Seq(S), NEW q \in Seq(S),
         NEW a \in Nat, NEW s \in Nat, NEW m \in Nat, a + m <= Len(p),
         SameFrom(p, a, q, s)
  PROVE  /\ s + m <= Len(q) /\ SamePart(p, a, q, s, m)
         /\ SameFrom(p, a + m, q, s + m)
<1>1. Len(p) \in Nat /\ Len(q) \in Nat /\ Len(p) - a = Len(q) - s
  BY DEF SameFrom
<1>2. \A j \in 1..(Len(p) - a) : p[a + j] = q[s + j]
  BY DEF SameFrom, SamePart
<1>3. s + m <= Len(q) /\ Len(p) - (a + m) = Len(q) - (s + m)
  BY <1>1
<1>4. SamePart(p, a, q, s, m)
  BY <1>1, <1>2 DEF SamePart
<1>5. ASSUME NEW l \in 1..(Len(p) - (a + m)) PROVE p[(a + m) + l] = q[(s + m) + l]
  <2>1. m + l \in 1..(Len(p) - a) /\ (a + m) + l = a + (m + l) /\ (s + m) + l = s + (m + l)
    BY <1>1
  <2> QED
    BY <1>2, <2>1
<1> QED
  BY <1>3, <1>4, <1>5 DEF SameFrom, SamePart

\* The last chunks: the leftover and the trailer are the same as well.
LEMMA SameLast ==
  ASSUME NEW p, NEW x, NEW c, NEW u, NEW q, NEW y, NEW d, NEW v,
         Encrypted(p, x, c, u), Encrypted(q, y, d, v),
         SameFrom(p, c[Len(c)].at, q, d[Len(d)].at)
  PROVE  SameFrom(x, c[Len(c)].block, y, d[Len(d)].block)
<1>1. /\ p \in Seq(Byte) /\ q \in Seq(Byte) /\ Len(p) \in Nat /\ Len(q) \in Nat
      /\ x \in Seq(Seq(Block)) /\ y \in Seq(Seq(Block)) /\ Len(x) \in Nat /\ Len(y) \in Nat
  BY EncryptedFacts
<1>2. PICK a \in Nat, b \in Nat : LastAt(p, x, c, u, a, b)
  BY LastFacts
<1>3. PICK s \in Nat, t \in Nat : LastAt(q, y, d, v, s, t)
  BY LastFacts
<1>4. /\ c[Len(c)].at = a /\ c[Len(c)].block = b /\ a <= Len(p) /\ b < Len(x)
      /\ IsChunk(p, x, a, b, Len(p), Len(x) - 1)
      /\ x[Len(x)] = <<Trailer(Over(Len(x) - 1 - b, Len(p) - a))>>
  BY <1>2 DEF LastAt
<1>5. /\ d[Len(d)].at = s /\ d[Len(d)].block = t /\ s <= Len(q) /\ t < Len(y)
      /\ IsChunk(q, y, s, t, Len(q), Len(y) - 1)
      /\ y[Len(y)] = <<Trailer(Over(Len(y) - 1 - t, Len(q) - s))>>
  BY <1>3 DEF LastAt
<1>6. SameFrom(p, a, q, s)
  BY <1>4, <1>5
<1>7. PICK m \in Nat : m = Len(p) - a /\ m = Len(q) - s
  <2>1. Len(p) - a \in Nat
    <3>1. a \in Nat /\ Len(p) \in Nat /\ a <= Len(p)
      BY <1>1, <1>2, <1>4
    <3> QED
      BY <3>1
  <2>2. Len(p) - a = Len(q) - s
    BY <1>6 DEF SameFrom
  <2> QED
    BY <2>1, <2>2
<1>8. Len(p) = a + m /\ Len(q) = s + m /\ SamePart(p, a, q, s, m)
  <2>1. Len(p) \in Nat /\ Len(q) \in Nat
    BY <1>1
  <2>2. Len(p) = a + m
    BY <1>2, <1>7, <2>1
  <2>3. Len(q) = s + m
    <3>1. m = Len(q) - s
      BY <1>7
    <3>2. s \in Nat
      BY <1>3
    <3> QED
      BY <2>1, <3>1, <3>2
  <2>4. SamePart(p, a, q, s, m)
    BY <1>6, <1>7 DEF SameFrom
  <2> QED
    BY <2>2, <2>3, <2>4
<1>9. PICK f \in Nat, g \in Nat : f = Len(x) - 1 /\ g = Len(y) - 1
  <2>1. Len(x) - 1 \in Nat
    BY <1>1, <1>2, <1>4
  <2>2. Len(y) - 1 \in Nat
    BY <1>1, <1>3, <1>5
  <2> QED
    BY <2>1, <2>2
<1>10. IsChunk(p, x, a, b, Len(p), f) /\ IsChunk(q, y, s, t, Len(q), g)
  BY <1>4, <1>5, <1>9
<1>11. f - b = g - t /\ SamePart(x, b, y, t, f - b)
  <2>1. PICK e \in Nat, h \in Nat : e = Len(p) /\ h = Len(q)
    BY <1>1
  <2>2. e <= Len(p) /\ h <= Len(q) /\ e = a + m /\ h = s + m
    BY <1>8, <2>1
  <2>3. IsChunk(p, x, a, b, e, f) /\ IsChunk(q, y, s, t, h, g)
    BY <1>10, <2>1
  <2>4. SamePart(p, a, q, s, m) /\ p \in Seq(Byte) /\ q \in Seq(Byte)
    BY <1>1, <1>8
  <2>5. /\ a \in Nat /\ b \in Nat /\ s \in Nat /\ t \in Nat /\ m \in Nat
        /\ e \in Nat /\ h \in Nat /\ f \in Nat /\ g \in Nat
    BY <1>2, <1>3, <1>7, <1>9, <2>1
  <2> QED
    BY <2>2, <2>3, <2>4, <2>5, SameBlocks
<1>12. x[Len(x)] = y[Len(y)]
  <2>1. Len(x) - 1 - b = Len(y) - 1 - t /\ Len(p) - a = Len(q) - s
    BY <1>1, <1>2, <1>3, <1>7, <1>9, <1>11
  <2> QED
    BY <1>4, <1>5, <2>1, Zenon
<1>13. SameFrom(x, f, y, g)
  <2>1. Len(x) - f = 1 /\ Len(y) - g = 1 /\ f + 1 = Len(x) /\ g + 1 = Len(y)
    BY <1>1, <1>9
  <2>2. \A j \in 1..1 : x[f + j] = y[g + j]
    <3>1. \A j \in 1..1 : j = 1
      OBVIOUS
    <3> QED
      BY <1>12, <2>1, <3>1, Zenon
  <2> QED
    BY <2>1, <2>2, Zenon DEF SameFrom, SamePart
<1>14. PICK n \in Nat : n = f - b /\ f = b + n /\ g = t + n
  <2>1. b <= f
    BY <1>1, <1>2, <1>4, <1>9
  <2>2. f - b \in Nat /\ f = b + (f - b) /\ g = t + (f - b)
    BY <1>2, <1>3, <1>9, <1>11, <2>1
  <2> QED
    BY <2>2
<1>15. SamePart(x, b, y, t, n) /\ SameFrom(x, b + n, y, t + n)
  BY <1>11, <1>13, <1>14
<1>16. SameFrom(x, b, y, t)
  BY <1>1, <1>2, <1>3, <1>14, <1>15, SameJoined
<1> QED
  BY <1>4, <1>5, <1>16

\* Where a cut is.
LEMMA CutAt ==
  ASSUME NEW p, NEW x, NEW c, NEW u, Encrypted(p, x, c, u), NEW k \in 1..Len(c)
  PROVE  c[k].at \in 0..Len(p) /\ c[k].block \in 0..Len(x) /\ c[k].block < Len(x)
<1>1. CutsOK(p, x, c, Len(p), Len(x) - 1) /\ Len(x) \in Nat
  BY EncryptedFacts
<1>2. c[k].at \in 0..Len(p) /\ c[k].block \in 0..(Len(x) - 1)
  BY <1>1, CutFacts
<1> QED
  BY <1>1, <1>2

LEMMA SameBackwards ==
  ASSUME NEW p, NEW a, NEW q, NEW s, SameFrom(p, a, q, s)
  PROVE  SameFrom(q, s, p, a)
BY DEF SameFrom, SamePart

\* From one chunk to the next.
LEMMA TailStep ==
  ASSUME NEW p, NEW x, NEW c, NEW u, NEW q, NEW y, NEW d, NEW v,
         Encrypted(p, x, c, u), Encrypted(q, y, d, v),
         NEW i \in 1..Len(c), i < Len(c), NEW k \in 1..Len(d),
         SameFrom(p, c[i].at, q, d[k].at)
  PROVE  /\ k < Len(d) /\ SameFrom(p, c[i + 1].at, q, d[k + 1].at)
         /\ SameFrom(x, c[i + 1].block, y, d[k + 1].block)
              => SameFrom(x, c[i].block, y, d[k].block)
<1>1. /\ p \in Seq(Byte) /\ q \in Seq(Byte) /\ x \in Seq(Seq(Block)) /\ y \in Seq(Seq(Block))
      /\ Len(p) \in Nat /\ Len(q) \in Nat
  BY EncryptedFacts
<1>2. PICK a \in Nat, b \in Nat, e \in Nat, f \in Nat : WholeAt(p, x, c, u, i, a, b, e, f)
  BY WholeFacts
<1>3. /\ c[i].at = a /\ c[i].block = b /\ c[i + 1].at = e /\ c[i + 1].block = f
      /\ a < e /\ e <= Len(p) /\ b <= f
  BY <1>2 DEF WholeAt
<1>4. d[k].at \in 0..Len(q) /\ d[k].block \in 0..Len(y)
  BY CutAt
<1>5. PICK s \in Nat, t \in Nat : d[k].at = s /\ d[k].block = t
  BY <1>4
<1>6. PICK m \in Nat : e = a + m
  <2>1. e - a \in Nat /\ e = a + (e - a)
    BY <1>2, <1>3
  <2> QED
    BY <2>1
<1>7. a \in Nat /\ s \in Nat /\ m \in Nat /\ a + m <= Len(p) /\ SameFrom(p, a, q, s)
  BY <1>2, <1>3, <1>5, <1>6
<1>8. s + m <= Len(q) /\ SamePart(p, a, q, s, m) /\ SameFrom(p, a + m, q, s + m)
  BY <1>1, <1>7, SameRest
<1>9. c[i + 1].at = c[i].at + m /\ d[k].at + m <= Len(q) /\ SamePart(p, c[i].at, q, d[k].at, m)
  BY <1>3, <1>5, <1>6, <1>8
<1>10. /\ k < Len(d) /\ d[k + 1].at = d[k].at + m
       /\ d[k + 1].block - d[k].block = c[i + 1].block - c[i].block
       /\ SamePart(x, c[i].block, y, d[k].block, c[i + 1].block - c[i].block)
  BY <1>6, <1>9, SameChunk
<1>11. SameFrom(p, c[i + 1].at, q, d[k + 1].at)
  BY <1>3, <1>5, <1>6, <1>8, <1>10
<1>12. PICK n \in Nat : f = b + n /\ n = f - b
  <2>1. f - b \in Nat /\ f = b + (f - b)
    BY <1>2, <1>3
  <2> QED
    BY <2>1
<1>13. d[k + 1].block = t + n
  <2>1. Len(d) \in Nat
    BY EncryptedFacts
  <2>2. k + 1 \in 1..Len(d)
    BY <1>10, <2>1
  <2>3. d[k + 1].block \in 0..Len(y)
    BY <2>2, CutAt
  <2>4. PICK g \in Nat : d[k + 1].block = g
    BY <2>3
  <2>5. g - t = n
    BY <1>3, <1>5, <1>10, <1>12, <2>4
  <2>6. g = t + n
    BY <1>5, <1>12, <2>4, <2>5
  <2> QED
    BY <2>4, <2>6
<1>14. ASSUME SameFrom(x, c[i + 1].block, y, d[k + 1].block)
       PROVE  SameFrom(x, c[i].block, y, d[k].block)
  <2>1. SamePart(x, b, y, t, n) /\ SameFrom(x, b + n, y, t + n)
    BY <1>3, <1>5, <1>10, <1>12, <1>13, <1>14
  <2>2. SameFrom(x, b, y, t)
    BY <1>1, <1>2, <1>5, <1>12, <2>1, SameJoined
  <2> QED
    BY <1>3, <1>5, <2>2
<1> QED
  BY <1>10, <1>11, <1>14

\* Chunks with the same text left have the same blocks left, by induction on the
\* number of chunks after them.
LEMMA TailsAgree ==
  ASSUME NEW p, NEW x, NEW c, NEW u, NEW q, NEW y, NEW d, NEW v,
         Encrypted(p, x, c, u), Encrypted(q, y, d, v)
  PROVE  \A i \in 1..Len(c), k \in 1..Len(d) :
           SameFrom(p, c[i].at, q, d[k].at) => SameFrom(x, c[i].block, y, d[k].block)
<1> DEFINE Differ(i) == \E k \in 1..Len(d) : /\ SameFrom(p, c[i].at, q, d[k].at)
                                             /\ ~SameFrom(x, c[i].block, y, d[k].block)
           T == {n \in Nat : Len(c) - n \in 1..Len(c) /\ Differ(Len(c) - n)}
<1>1. Len(c) \in Nat /\ Len(d) \in Nat
  BY EncryptedFacts
<1>2. T = {}
  <2> SUFFICES ASSUME T # {} PROVE FALSE
    OBVIOUS
  <2>1. PICK n \in T : \A l \in T : n <= l
    <3>1. T \in SUBSET Nat
      OBVIOUS
    <3> HIDE DEF T
    <3> QED
      BY <3>1, LeastNumber
  <2>2. n \in Nat /\ Len(c) - n \in 1..Len(c) /\ Differ(Len(c) - n)
    BY <2>1
  <2>3. PICK i \in 1..Len(c) : i = Len(c) - n
    BY <2>2
  <2>4. PICK k \in 1..Len(d) : /\ SameFrom(p, c[i].at, q, d[k].at)
                               /\ ~SameFrom(x, c[i].block, y, d[k].block)
    BY <2>2, <2>3
  <2>5. CASE i < Len(c)
    <3>1. /\ k < Len(d) /\ SameFrom(p, c[i + 1].at, q, d[k + 1].at)
          /\ SameFrom(x, c[i + 1].block, y, d[k + 1].block)
               => SameFrom(x, c[i].block, y, d[k].block)
      BY <2>3, <2>4, <2>5, TailStep
    <3>2. k + 1 \in 1..Len(d)
      <4>1. k < Len(d)
        BY <3>1
      <4> QED
        BY <1>1, <2>4, <4>1
    <3>3. Differ(i + 1)
      BY <2>4, <3>1, <3>2
    <3>4. PICK l \in Nat : n = l + 1 /\ i + 1 = Len(c) - l
      <4>1. n - 1 \in Nat /\ n = (n - 1) + 1 /\ i + 1 = Len(c) - (n - 1)
        BY <1>1, <2>2, <2>3, <2>5
      <4> QED
        BY <4>1
    <3>5. i + 1 \in 1..Len(c)
      BY <1>1, <2>3, <2>5
    <3>6. l \in T
      BY <3>3, <3>4, <3>5
    <3> QED
      BY <2>1, <2>2, <3>4, <3>6
  <2>6. CASE i = Len(c)
    <3>1. CASE k = Len(d)
      BY <2>4, <2>6, <3>1, SameLast
    <3>2. CASE k < Len(d)
      <4>1. SameFrom(q, d[k].at, p, c[i].at)
        BY <2>4, SameBackwards
      <4>2. i < Len(c)
        BY <2>3, <2>4, <3>2, <4>1, TailStep
      <4> QED
        BY <1>1, <2>6, <4>2
    <3> QED
      BY <1>1, <2>4, <3>1, <3>2
  <2> QED
    BY <1>1, <2>3, <2>5, <2>6
<1>3. ASSUME NEW i \in 1..Len(c), Differ(i) PROVE FALSE
  <2>1. PICK n \in Nat : i = Len(c) - n
    <3>1. Len(c) - i \in Nat /\ i = Len(c) - (Len(c) - i)
      BY <1>1
    <3> QED
      BY <3>1
  <2>2. n \in T
    BY <1>3, <2>1
  <2> QED
    BY <1>2, <2>2
<1> QED
  BY <1>3

-----------------------------------------------------------------------------
(* The same text before gives the same blocks before. *)

LEMMA SameCut ==
  ASSUME NEW p, NEW x, NEW c, NEW u, NEW q, NEW y, NEW d, NEW v,
         Encrypted(p, x, c, u), Encrypted(q, y, d, v),
         NEW i \in 1..Len(c), NEW k \in 1..Len(d),
         c[i].at = d[k].at, c[i].block = d[k].block
  PROVE  c[i] = d[k]
<1>1. c \in Seq(Cut) /\ d \in Seq(Cut)
  BY EncryptedFacts DEF CutsOK
<1>2. c[i] \in Cut /\ d[k] \in Cut
  BY <1>1, ElementOfSeq
<1> QED
  BY <1>2 DEF Cut

LEMMA HeadStep ==
  ASSUME NEW p, NEW x, NEW c, NEW u, NEW q, NEW y, NEW d, NEW v,
         Encrypted(p, x, c, u), Encrypted(q, y, d, v),
         NEW i \in 1..Len(c), i < Len(c), i <= Len(d), d[i] = c[i],
         SamePart(x, 0, y, 0, c[i].block),
         c[i + 1].at <= Len(q), SamePart(p, 0, q, 0, c[i + 1].at)
  PROVE  /\ i + 1 <= Len(d) /\ d[i + 1] = c[i + 1]
         /\ SamePart(x, 0, y, 0, c[i + 1].block)
<1>1. Len(c) \in Nat /\ Len(d) \in Nat /\ i \in 1..Len(d) /\ Len(q) \in Nat
  BY EncryptedFacts
<1>2. PICK a \in Nat, b \in Nat, e \in Nat, f \in Nat : WholeAt(p, x, c, u, i, a, b, e, f)
  BY WholeFacts
<1>3. /\ c[i].at = a /\ c[i].block = b /\ c[i + 1].at = e /\ c[i + 1].block = f
      /\ a < e /\ e <= Len(p) /\ b <= f
  BY <1>2 DEF WholeAt
<1>4. PICK m \in Nat, n \in Nat : e = a + m /\ f = b + n
  <2>1. e - a \in Nat /\ e = a + (e - a) /\ f - b \in Nat /\ f = b + (f - b)
    BY <1>2, <1>3
  <2> QED
    BY <2>1
<1>5. SamePart(p, a, q, a, m)
  <2>1. \A j \in 1..e : p[0 + j] = q[0 + j]
    BY <1>3 DEF SamePart
  <2>2. \A j \in 1..m : a + j \in 1..e /\ 0 + (a + j) = a + j
    BY <1>2, <1>4
  <2> QED
    BY <2>1, <2>2 DEF SamePart
<1>6. /\ c[i + 1].at = c[i].at + m /\ d[i].at + m <= Len(q)
      /\ SamePart(p, c[i].at, q, d[i].at, m)
  BY <1>3, <1>4, <1>5
<1>7. /\ i < Len(d) /\ d[i + 1].at = d[i].at + m
      /\ d[i + 1].block - d[i].block = c[i + 1].block - c[i].block
      /\ SamePart(x, c[i].block, y, d[i].block, c[i + 1].block - c[i].block)
  BY <1>1, <1>4, <1>6, SameChunk
<1>8. i + 1 \in 1..Len(d) /\ i + 1 \in 1..Len(c)
  <2>1. i < Len(d)
    BY <1>7
  <2> QED
    BY <1>1, <2>1
<1>9. PICK g \in Nat : d[i + 1].block = g
  <2>1. d[i + 1].block \in 0..Len(y)
    BY <1>8, CutAt
  <2> QED
    BY <2>1
<1>10. f - b = n
  BY <1>2, <1>4
<1>11. g - b = n
  BY <1>3, <1>7, <1>9, <1>10
<1>12. g = f
  BY <1>2, <1>4, <1>9, <1>11
<1>13. d[i + 1] = c[i + 1]
  <2>1. c[i + 1].at = d[i + 1].at /\ c[i + 1].block = d[i + 1].block
    BY <1>3, <1>6, <1>7, <1>9, <1>12
  <2> QED
    BY <1>8, <2>1, SameCut
<1>14. SamePart(x, 0, y, 0, f)
  <2>1. SamePart(x, b, y, b, n) /\ SamePart(x, 0, y, 0, b)
    BY <1>3, <1>7, <1>10
  <2> SUFFICES ASSUME NEW j \in 1..f PROVE x[0 + j] = y[0 + j]
    BY DEF SamePart
  <2>2. CASE j <= b
    <3>1. j \in 1..b
      BY <1>2, <2>2
    <3> QED
      BY <2>1, <3>1 DEF SamePart
  <2>3. CASE ~(j <= b)
    <3>1. j - b \in 1..n /\ b + (j - b) = 0 + j
      BY <1>2, <1>4, <2>3
    <3> QED
      BY <2>1, <3>1 DEF SamePart
  <2> QED
    BY <2>2, <2>3
<1> QED
  BY <1>3, <1>8, <1>13, <1>14

\* Cuts before the edit are where they were, after the same blocks, by induction
\* on the cuts.
LEMMA HeadsAgree ==
  ASSUME NEW p, NEW x, NEW c, NEW u, NEW q, NEW y, NEW d, NEW v,
         Encrypted(p, x, c, u), Encrypted(q, y, d, v)
  PROVE  \A i \in 1..Len(c) : c[i].at <= Len(q) /\ SamePart(p, 0, q, 0, c[i].at) =>
           i <= Len(d) /\ d[i] = c[i] /\ SamePart(x, 0, y, 0, c[i].block)
<1> DEFINE Reached(i) == c[i].at <= Len(q) /\ SamePart(p, 0, q, 0, c[i].at)
           Agree(i) == i <= Len(d) /\ d[i] = c[i] /\ SamePart(x, 0, y, 0, c[i].block)
           T == {i \in 1..Len(c) : Reached(i) /\ ~Agree(i)}
<1>1. /\ Len(c) \in Nat /\ Len(d) \in Nat /\ Len(d) >= 1 /\ Len(q) \in Nat
      /\ c[1] = [at |-> 0, block |-> 0] /\ d[1] = [at |-> 0, block |-> 0]
  BY EncryptedFacts DEF CutsOK
<1>2. Agree(1)
  <2>1. c[1].block = 0 /\ d[1] = c[1]
    BY <1>1
  <2> QED
    BY <1>1, <2>1 DEF SamePart
<1>3. T = {}
  <2> SUFFICES ASSUME T # {} PROVE FALSE
    OBVIOUS
  <2>1. PICK n \in T : \A l \in T : n <= l
    <3>1. T \in SUBSET Nat
      OBVIOUS
    <3> HIDE DEF T
    <3> QED
      BY <3>1, LeastNumber
  <2>2. n \in 1..Len(c) /\ Reached(n) /\ ~Agree(n)
    BY <2>1
  <2>3. n # 1
    BY <1>2, <2>2
  <2>4. PICK i \in 1..Len(c) : n = i + 1 /\ i < Len(c)
    <3>1. n - 1 \in 1..Len(c) /\ n = (n - 1) + 1 /\ n - 1 < Len(c)
      BY <1>1, <2>2, <2>3
    <3> QED
      BY <3>1
  <2>5. PICK a \in Nat, b \in Nat, e \in Nat, f \in Nat : WholeAt(p, x, c, u, i, a, b, e, f)
    BY <2>4, WholeFacts
  <2>6. c[i].at = a /\ c[n].at = e /\ a < e
    BY <2>4, <2>5 DEF WholeAt
  <2>7. Reached(i)
    <3>1. e <= Len(q) /\ \A j \in 1..e : p[0 + j] = q[0 + j]
      BY <2>2, <2>6 DEF SamePart
    <3>2. a <= Len(q) /\ \A j \in 1..a : j \in 1..e
      BY <1>1, <2>5, <2>6, <3>1
    <3> QED
      BY <2>6, <3>1, <3>2 DEF SamePart
  <2>8. i \notin T
    BY <2>1, <2>4
  <2>9. Agree(i)
    BY <2>7, <2>8
  <2>10. c[i + 1].at <= Len(q) /\ SamePart(p, 0, q, 0, c[i + 1].at)
    BY <2>2, <2>4
  <2>11. Agree(i + 1)
    BY <2>4, <2>9, <2>10, HeadStep
  <2> QED
    BY <2>2, <2>4, <2>11
<1> QED
  BY <1>3

-----------------------------------------------------------------------------
(* What encrypt_file writes. *)

\* Cuts stay right when blocks are written and bytes read after them.
LEMMA CutsKept ==
  ASSUME NEW p, NEW x, NEW c, NEW e, NEW m, CutsOK(p, x, c, e, m),
         NEW z \in Seq(Seq(Block)), NEW f \in 0..Len(p), NEW g \in 0..Len(z),
         e <= f, m <= g, \A j \in 1..m : z[j] = x[j]
  PROVE  CutsOK(p, z, c, f, g)
<1>1. /\ p \in Seq(Byte) /\ c \in Seq(Cut) /\ c # <<>>
      /\ e \in 0..Len(p) /\ m \in 0..Len(x)
      /\ c[1] = [at |-> 0, block |-> 0]
      /\ \A k \in 1..(Len(c) - 1) : WholeChunk(p, x, c, k)
  BY DEF CutsOK
<1>2. ASSUME NEW k \in 1..Len(c) PROVE c[k].at <= f /\ c[k].block <= g
  <2>1. c[k].at \in 0..e /\ c[k].block \in 0..m /\ e \in 0..Len(p) /\ m \in 0..Len(x)
    BY CutFacts
  <2>2. PICK a \in Nat, b \in Nat, i \in Nat, h \in Nat :
          a = c[k].at /\ b = c[k].block /\ i = e /\ h = m /\ a <= i /\ b <= h
    BY <2>1
  <2>3. f \in Int /\ g \in Int /\ i <= f /\ h <= g
    BY <2>2
  <2> QED
    BY <2>2, <2>3
<1>3. ASSUME NEW k \in 1..(Len(c) - 1) PROVE WholeChunk(p, z, c, k)
  <2>1. Len(c) \in Nat /\ k \in 1..Len(c) /\ k < Len(c)
    BY <1>1
  <2>2. c[k].block \in 0..m /\ c[k + 1].block \in 0..m /\ c[k].block <= c[k + 1].block /\ m \in Nat
    BY <2>1, CutFacts
  <2>3. PICK b \in Nat, h \in Nat : c[k].block = b /\ c[k + 1].block = h /\ b <= h /\ h <= m
    BY <2>2
  <2>4. WholeChunk(p, x, c, k)
    BY <1>1
  <2>5. \A j \in 1..(h - b) : z[b + j] = x[b + j]
    <3>1. \A j \in 1..(h - b) : b + j \in 1..m
      <4>1. m \in Nat /\ h <= m
        BY <2>2, <2>3
      <4> QED
        BY <2>3, <4>1
    <3> QED
      BY <3>1
  <2> QED
    BY <2>3, <2>4, <2>5 DEF WholeChunk, IsChunk
<1> QED
  BY <1>1, <1>2, <1>3 DEF CutsOK

\* A cut is made where a chunk of blocks ends.
LEMMA CutsAppended ==
  ASSUME NEW p, NEW x, NEW c, NEW e, NEW m, CutsOK(p, x, c, e, m),
         c[Len(c)].at < e, IsChunk(p, x, c[Len(c)].at, c[Len(c)].block, e, m)
  PROVE  CutsOK(p, x, Append(c, [at |-> e, block |-> m]), e, m)
<1>1. /\ p \in Seq(Byte) /\ x \in Seq(Seq(Block)) /\ c \in Seq(Cut) /\ c # <<>>
      /\ e \in 0..Len(p) /\ m \in 0..Len(x)
      /\ c[1] = [at |-> 0, block |-> 0]
      /\ \A k \in 1..Len(c) : c[k].at <= e /\ c[k].block <= m
      /\ \A k \in 1..(Len(c) - 1) : WholeChunk(p, x, c, k)
  BY DEF CutsOK
<1>2. Len(c) \in Nat /\ Len(c) >= 1 /\ e \in Nat /\ m \in Nat
  BY <1>1
<1>3. PICK d : d = Append(c, [at |-> e, block |-> m])
  OBVIOUS
<1>4. [at |-> e, block |-> m] \in Cut
  BY <1>2 DEF Cut
<1>5. /\ d \in Seq(Cut) /\ d # <<>> /\ Len(d) = Len(c) + 1
      /\ \A k \in 1..Len(c) : d[k] = c[k]
      /\ d[Len(c) + 1] = [at |-> e, block |-> m]
  BY <1>1, <1>3, <1>4, AppendProperties
<1>6. d[1] = [at |-> 0, block |-> 0]
  BY <1>1, <1>2, <1>5
<1>7. ASSUME NEW k \in 1..Len(d) PROVE d[k].at <= e /\ d[k].block <= m
  <2>1. k \in 1..Len(c) \/ k = Len(c) + 1
    BY <1>2, <1>5
  <2>2. CASE k \in 1..Len(c)
    BY <1>1, <1>5, <2>2
  <2>3. CASE k = Len(c) + 1
    BY <1>2, <1>5, <2>3
  <2> QED
    BY <2>1, <2>2, <2>3
<1>8. ASSUME NEW k \in 1..(Len(d) - 1) PROVE WholeChunk(p, x, d, k)
  <2>1. k \in 1..Len(c) /\ (k \in 1..(Len(c) - 1) \/ k = Len(c))
    BY <1>2, <1>5
  <2>2. CASE k \in 1..(Len(c) - 1)
    <3>1. d[k] = c[k] /\ d[k + 1] = c[k + 1] /\ WholeChunk(p, x, c, k)
      <4>1. k + 1 \in 1..Len(c)
        BY <1>2, <2>2
      <4> QED
        BY <1>1, <1>5, <2>1, <2>2, <4>1
    <3> QED
      BY <3>1 DEF WholeChunk
  <2>3. CASE k = Len(c)
    <3>1. d[k] = c[Len(c)] /\ d[k + 1].at = e /\ d[k + 1].block = m
      BY <1>5, <2>1, <2>3
    <3> QED
      BY <3>1 DEF WholeChunk
  <2> QED
    BY <2>1, <2>2, <2>3
<1>9. CutsOK(p, x, d, e, m)
  BY <1>1, <1>5, <1>6, <1>7, <1>8 DEF CutsOK
<1> QED
  BY <1>3, <1>9

LEMMA ChainEmpty == ASSUME NEW t PROVE CbcChain(t, 0) = <<>>
<1>1. [i \in 1..0 |-> PadBlock(Piece(t, i))] = <<>>
  OBVIOUS
<1> QED
  BY <1>1 DEF CbcChain

\* q is text t with a byte after it: its n full blocks are those of t, and the
\* next one has the byte too.
Extends(t, byte, n, q) ==
  /\ q = Append(t, byte) /\ q \in Seq(Byte) /\ Len(q) = Len(t) + 1
  /\ \A j \in 0..n : CbcChain(q, j) = CbcChain(t, j)
  /\ Append(SubSeq(t, Off(n) + 1, Len(t)), byte) = SubSeq(q, Off(n) + 1, Len(q))
  /\ CbcChain(q, n + 1)
       = Append(CbcChain(t, n), PadBlock(Append(SubSeq(t, Off(n) + 1, Len(t)), byte)))

\* A byte is added to a text with n full blocks.
LEMMA BlockStep ==
  ASSUME NEW t \in Seq(Byte), NEW byte \in Byte, NEW n \in Nat,
         Off(n) <= Len(t), Len(t) < Off(n + 1)
  PROVE  \E q : Extends(t, byte, n, q)
<1>0. PICK q : q = Append(t, byte)
  OBVIOUS
<1>1. /\ q \in Seq(Byte) /\ Len(q) = Len(t) + 1 /\ \A j \in 1..Len(t) : q[j] = t[j]
      /\ q[Len(t) + 1] = byte /\ Len(t) \in Nat
  BY <1>0, AppendProperties
<1>2. Off(n) \in Int /\ Off(n + 1) \in Int /\ Off(n) \in Nat
  <2>1. Off(n) \in Int /\ Off(n + 1) \in Int
    BY OffType
  <2>2. Off(0) <= Off(n) /\ Off(0) = 0
    <3>1. 0 \in Int /\ n \in Int /\ 0 <= n
      OBVIOUS
    <3> QED
      BY <3>1, Offsets, OffsetsGrow
  <2> QED
    BY <2>1, <2>2
<1>3. \A j \in 0..n : CbcChain(q, j) = CbcChain(t, j)
  <2>1. Len(t) <= Len(q)
    BY <1>1
  <2> QED
    BY <1>1, <2>1, ChainKept
<1>4. PICK o \in Nat, l \in Nat : o = Off(n) /\ l = Len(t) /\ o <= l /\ l + 1 = Len(q)
  BY <1>1, <1>2
<1>5. Append(Text(q, o, l), q[l + 1]) = Text(q, o, l + 1)
  <2>1. q \in Seq(Byte) /\ o <= l /\ l + 1 <= Len(q)
    BY <1>1, <1>4
  <2> QED
    BY <1>4, <2>1, TextGrows
<1>6. Text(q, o, l) = Text(t, o, l)
  <2>1. o <= l /\ l <= Len(t) /\ Len(t) <= Len(q)
    BY <1>1, <1>4
  <2> QED
    BY <1>1, <1>4, <2>1, TextKept
<1>7. Append(SubSeq(t, Off(n) + 1, Len(t)), byte) = SubSeq(q, Off(n) + 1, Len(q))
  BY <1>0, <1>1, <1>4, <1>5, <1>6 DEF Text
<1>8. Len(q) <= Off(n + 1)
  BY <1>1, <1>2
<1>9. CbcChain(q, n + 1) = Append(CbcChain(q, n), PadBlock(SubSeq(q, Off(n) + 1, Len(q))))
  BY <1>1, <1>8, ChainNext
<1>10. CbcChain(q, n) = CbcChain(t, n)
  <2>1. n \in 0..n
    OBVIOUS
  <2> QED
    BY <1>3, <2>1
<1>11. CbcChain(q, n + 1) = Append(CbcChain(t, n), PadBlock(Append(SubSeq(t, Off(n) + 1, Len(t)), byte)))
  BY <1>7, <1>9, <1>10
<1> QED
  BY <1>0, <1>1, <1>3, <1>7, <1>11 DEF Extends

-----------------------------------------------------------------------------
(* The invariant holds. *)

\* A chunk is about to start.
AtStart ==
  /\ newBlock = TRUE /\ buf = <<>> /\ plain \in Seq(Byte)
  /\ pos \in 0..Len(plain) /\ ChunkStart = pos
  /\ Len(cipher) \in Nat /\ cuts[Len(cuts)].block = Len(cipher)

LEMMA StartsEmpty == AtStart => Current
<1> SUFFICES ASSUME AtStart PROVE Current
  OBVIOUS
<1>1. PICK s \in Nat, b \in Nat : s = ChunkStart /\ s = pos /\ s <= Len(plain)
                                  /\ b = cuts[Len(cuts)].block /\ b = Len(cipher)
  BY DEF AtStart
<1>2. s - s = 0 /\ b - b = 0 /\ Off(0) = 0 /\ 0 = Off(0) + 0
  BY <1>1, Offsets
<1>3. PICK t : t = Text(plain, s, s)
  OBVIOUS
<1>4. t \in Seq(Byte) /\ Len(t) = 0
  <2>1. plain \in Seq(Byte) /\ s <= s /\ s <= Len(plain)
    BY <1>1 DEF AtStart
  <2> QED
    BY <1>1, <1>2, <1>3, <2>1, TextProperties
<1>5. SubSeq(t, 0 + 1, 0) = <<>> /\ Len(<<>>) = 0
  BY SubSeqEmpty
<1>6. ChunkBase(newBlock, cbc) = CbcChain(t, 0)
  BY ChainEmpty DEF ChunkBase, AtStart
<1>7. buf = <<>>
  BY DEF AtStart
<1> QED
  BY <1>1, <1>2, <1>3, <1>4, <1>5, <1>6, <1>7 DEF Current

LEMMA WritingInit == EncInit => Writing
<1> SUFFICES ASSUME EncInit PROVE Writing
  OBVIOUS
<1>1. /\ plain \in Seq(Byte) /\ pos = 0 /\ newBlock = TRUE /\ buf = <<>>
      /\ cipher = <<>> /\ epc = "loop" /\ cuts = <<[at |-> 0, block |-> 0]>>
  BY PlainsAreBytes DEF EncInit
<1>2. /\ Len(cuts) = 1 /\ cuts[1] = [at |-> 0, block |-> 0] /\ cuts # <<>>
      /\ Len(cipher) = 0 /\ Len(plain) \in Nat /\ [at |-> 0, block |-> 0] \in Cut
  BY <1>1 DEF Cut
<1>3. cipher \in Seq(Seq(Block)) /\ cuts \in Seq(Cut)
  BY <1>1, <1>2
<1>4. AtStart
  BY <1>1, <1>2 DEF AtStart, ChunkStart
<1>5. CutsOK(plain, cipher, cuts, pos, Len(cipher))
  BY <1>1, <1>2, <1>3 DEF CutsOK
<1> QED
  BY <1>1, <1>4, <1>5, StartsEmpty DEF Writing

\* What is known of the chunk being encrypted.
InChunk(s, b, n, t) ==
  /\ s = ChunkStart /\ b = cuts[Len(cuts)].block /\ Len(cipher) = b + n
  /\ s <= pos /\ t = Text(plain, s, pos)
  /\ Len(t) = pos - s /\ Len(t) = Off(n) + Len(buf)
  /\ Len(t) \in Nat /\ Len(buf) \in Nat /\ Off(n) \in Nat /\ Off(n + 1) \in Nat
  /\ Off(n + 1) = Off(n) + BlockSize /\ Off(n) <= Len(t) /\ Len(t) < Off(n + 1)
  /\ buf = SubSeq(t, Off(n) + 1, Len(t))
  /\ \A j \in 1..n : cipher[b + j] = CbcChain(t, j)
  /\ ChunkBase(newBlock, cbc) = CbcChain(t, n)

LEMMA CurrentFacts ==
  ASSUME EncIInv, Writing, epc = "loop"
  PROVE  /\ CutsOK(plain, cipher, cuts, pos, Len(cipher))
         /\ plain \in Seq(Byte) /\ cipher \in Seq(Seq(Block)) /\ buf \in Seq(Byte)
         /\ Len(cuts) \in 1..Len(cuts) /\ pos \in 0..Len(plain) /\ Len(plain) \in Nat
         /\ \E s \in Nat, b \in Nat, n \in Nat, t \in Seq(Byte) : InChunk(s, b, n, t)
<1>1. /\ CutsOK(plain, cipher, cuts, pos, Len(cipher)) /\ Current
      /\ EncTypeOK
  BY DEF Writing, EncIInv
<1>2. /\ plain \in Seq(Byte) /\ cipher \in Seq(Seq(Block)) /\ buf \in Seq(Byte) /\ cuts \in Seq(Cut)
      /\ cuts # <<>> /\ pos \in 0..Len(plain) /\ Len(buf) < BlockSize
  BY <1>1, PlainsAreBytes DEF EncTypeOK
<1>3. Len(plain) \in Nat /\ Len(cipher) \in Nat /\ Len(buf) \in Nat /\ Len(cuts) \in 1..Len(cuts)
  BY <1>2
<1>4. cuts[Len(cuts)].at \in 0..pos /\ cuts[Len(cuts)].block \in 0..Len(cipher)
  BY <1>1, <1>3, CutFacts
<1>5. PICK s \in Nat, b \in Nat : s = ChunkStart /\ b = cuts[Len(cuts)].block /\ s <= pos /\ b <= Len(cipher)
  BY <1>2, <1>3, <1>4 DEF ChunkStart
<1>6. PICK n \in Nat : n = Len(cipher) - b /\ Len(cipher) = b + n
  <2>1. PICK l \in Nat : l = Len(cipher) /\ b <= l
    BY <1>3, <1>5
  <2>2. l - b \in Nat /\ l = b + (l - b)
    BY <1>5, <2>1
  <2> QED
    BY <2>1, <2>2
<1>7. PICK t : t = Text(plain, s, pos)
  OBVIOUS
<1>8. t \in Seq(Byte) /\ Len(t) = pos - s
  <2>1. pos \in Nat /\ pos <= Len(plain)
    BY <1>2, <1>3
  <2> QED
    BY <1>2, <1>5, <1>7, <2>1, TextProperties
<1>9. /\ pos - s = Off(n) + Len(buf)
      /\ buf = SubSeq(t, Off(n) + 1, Len(t))
      /\ \A j \in 1..n : cipher[b + j] = CbcChain(t, j)
      /\ ChunkBase(newBlock, cbc) = CbcChain(t, n)
  BY <1>1, <1>5, <1>6, <1>7 DEF Current
<1>10. Off(n) \in Nat /\ Off(n + 1) = Off(n) + BlockSize
  <2>1. 0 \in Int /\ n \in Int /\ 0 <= n
    BY <1>6
  <2>2. Off(0) = 0 /\ Off(n) \in Int /\ Off(n + 1) = Off(n) + BlockSize
    BY <2>1, Offsets
  <2>3. Off(0) <= Off(n)
    BY <2>1, OffsetsGrow
  <2> QED
    BY <2>2, <2>3
<1>11. Len(t) = Off(n) + Len(buf)
  BY <1>8, <1>9
<1>12. Len(t) < Off(n + 1)
  BY <1>2, <1>3, <1>10, <1>11, BlockParams
<1>13. Len(t) \in Nat /\ Off(n + 1) \in Nat /\ Off(n) <= Len(t)
  <2>1. PICK o \in Nat, l \in Nat, z \in Nat : o = Off(n) /\ l = Len(buf) /\ z = BlockSize
    BY <1>3, <1>10, BlockParams
  <2>2. Len(t) = o + l /\ Off(n + 1) = o + z
    BY <1>10, <1>11, <2>1
  <2> QED
    BY <2>1, <2>2
<1>14. InChunk(s, b, n, t)
  BY <1>3, <1>5, <1>6, <1>7, <1>8, <1>9, <1>10, <1>11, <1>12, <1>13 DEF InChunk
<1> QED
  BY <1>1, <1>2, <1>3, <1>5, <1>6, <1>8, <1>14

\* One byte.  r and block are what the turn of the loop makes of the key and the
\* buffer.
LEMMA OneByte ==
  ASSUME EncIInv, EncryptByte
  PROVE  /\ epc = "loop" /\ epc' = "loop" /\ pos < Len(plain) /\ pos' = pos + 1 /\ plain' = plain
         /\ plain[pos + 1] \in Byte
         /\ \E r, block :
              /\ block = Append(buf, plain[pos + 1])
              /\ newBlock' = AtBoundry(r)
              /\ IF BlockDone(block, r)
                   THEN /\ cbc' = Append(ChunkBase(newBlock, cbc), PadBlock(block))
                        /\ cipher' = Append(cipher, cbc') /\ buf' = <<>>
                   ELSE cbc' = ChunkBase(newBlock, cbc) /\ buf' = block /\ cipher' = cipher
              /\ cuts' = IF AtBoundry(r)
                           THEN Append(cuts, [at |-> pos + 1, block |-> Len(cipher) + 1])
                           ELSE cuts
<1>1. EncTypeOK
  BY DEF EncIInv
<1>2. plain \in Seq(Byte) /\ pos \in 0..Len(plain) /\ cipher \in Seq(Seq(Block))
  BY <1>1, PlainsAreBytes DEF EncTypeOK
<1>3. epc = "loop" /\ epc' = "loop" /\ pos < Len(plain) /\ pos' = pos + 1 /\ plain' = plain
  BY DEF EncryptByte
<1>4. plain[pos + 1] \in Byte
  <2>1. pos + 1 \in 1..Len(plain)
    BY <1>2, <1>3
  <2> QED
    BY <1>2, <2>1, ElementOfSeq
<1>5. PICK r : r = CalcBoundry(ChunkRoll(newBlock, roll), plain[pos + 1])
  OBVIOUS
<1>6. PICK block : block = Append(buf, plain[pos + 1])
  OBVIOUS
<1>7. /\ newBlock' = AtBoundry(r)
      /\ IF BlockDone(block, r)
           THEN /\ cbc' = Append(ChunkBase(newBlock, cbc), PadBlock(block))
                /\ cipher' = Append(cipher, cbc') /\ buf' = <<>>
           ELSE cbc' = ChunkBase(newBlock, cbc) /\ buf' = block /\ cipher' = cipher
      /\ cuts' = IF AtBoundry(r)
                   THEN Append(cuts, [at |-> pos + 1, block |-> Len(cipher) + 1])
                   ELSE cuts
  <2>1. (AtBoundry(r) => BlockDone(block, r)) /\ newBlock' = AtBoundry(r)
    BY <1>5, <1>6 DEF EncryptByte, BlockDone
  <2> QED
    BY <1>5, <1>6, <2>1, Zenon DEF EncryptByte
<1> QED
  BY <1>3, <1>4, <1>6, <1>7

\* The text of the chunk with the byte that is read, and the buffer with it.
NextText(s, b, n, q) ==
  LET block == Append(buf, plain[pos + 1])
  IN  /\ q \in Seq(Byte) /\ q = Text(plain, s, pos + 1)
      /\ Len(block) = Len(buf) + 1
      /\ Len(q) = (pos + 1) - s /\ Len(q) = Off(n) + Len(block)
      /\ Len(q) <= Off(n + 1) /\ Off(n) < Len(q)
      /\ block = SubSeq(q, Off(n) + 1, Len(q))
      /\ \A j \in 1..n : cipher[b + j] = CbcChain(q, j)
      /\ ChunkBase(newBlock, cbc) = CbcChain(q, n)
      /\ Append(ChunkBase(newBlock, cbc), PadBlock(block)) = CbcChain(q, n + 1)

LEMMA ByteBlocks ==
  ASSUME EncIInv, Writing, EncryptByte,
         NEW s \in Nat, NEW b \in Nat, NEW n \in Nat, NEW t \in Seq(Byte), InChunk(s, b, n, t)
  PROVE  \E q : NextText(s, b, n, q)
<1>1. epc = "loop" /\ pos < Len(plain) /\ plain[pos + 1] \in Byte
  BY OneByte
<1>2. plain \in Seq(Byte) /\ buf \in Seq(Byte) /\ pos \in 0..Len(plain) /\ Len(plain) \in Nat
  BY <1>1, CurrentFacts
<1>3. s <= pos /\ t = Text(plain, s, pos)
  BY DEF InChunk
<1>4. /\ Len(t) \in Nat /\ Len(buf) \in Nat /\ Off(n) \in Nat /\ Off(n + 1) \in Nat
      /\ Len(t) = pos - s /\ Len(t) = Off(n) + Len(buf)
      /\ Off(n) <= Len(t) /\ Len(t) < Off(n + 1)
  BY DEF InChunk
<1>5. buf = SubSeq(t, Off(n) + 1, Len(t))
  BY DEF InChunk
<1>6. /\ \A j \in 1..n : cipher[b + j] = CbcChain(t, j)
      /\ ChunkBase(newBlock, cbc) = CbcChain(t, n)
  BY DEF InChunk
<1>7. PICK byte \in Byte : byte = plain[pos + 1]
  BY <1>1
<1>8. PICK q : Extends(t, byte, n, q)
  <2>1. Off(n) <= Len(t) /\ Len(t) < Off(n + 1)
    BY <1>4
  <2> QED
    BY <1>7, <2>1, BlockStep
<1>9. PICK block : block = Append(buf, byte)
  OBVIOUS
<1>10. Len(block) = Len(buf) + 1
  BY <1>2, <1>7, <1>9, AppendProperties
<1>11. /\ q \in Seq(Byte) /\ Len(q) = Len(t) + 1
       /\ \A j \in 0..n : CbcChain(q, j) = CbcChain(t, j)
       /\ Append(SubSeq(t, Off(n) + 1, Len(t)), byte) = SubSeq(q, Off(n) + 1, Len(q))
       /\ CbcChain(q, n + 1)
            = Append(CbcChain(t, n), PadBlock(Append(SubSeq(t, Off(n) + 1, Len(t)), byte)))
       /\ q = Append(t, byte)
  BY <1>8 DEF Extends
<1>12. /\ block = SubSeq(q, Off(n) + 1, Len(q))
       /\ CbcChain(q, n + 1) = Append(CbcChain(t, n), PadBlock(block))
  BY <1>5, <1>9, <1>11
<1>13. q = Text(plain, s, pos + 1)
  <2>1. pos \in Nat /\ pos + 1 <= Len(plain) /\ s <= pos /\ plain \in Seq(Byte)
    BY <1>1, <1>2, <1>3
  <2>2. Text(plain, s, pos + 1) = Append(Text(plain, s, pos), plain[pos + 1])
    BY <2>1, TextGrows
  <2> QED
    BY <1>3, <1>7, <1>11, <2>2
<1>14. /\ Len(q) = (pos + 1) - s /\ Len(q) <= Off(n + 1) /\ Off(n) < Len(q)
       /\ Len(q) = Off(n) + Len(block)
  <2>1. PICK l \in Nat, o \in Nat, w \in Nat, h \in Nat :
          /\ l = Len(t) /\ o = Off(n) /\ w = Off(n + 1) /\ h = Len(buf)
          /\ l = pos - s /\ l = o + h /\ o <= l /\ l < w
    BY <1>4
  <2>2. PICK e \in Nat : e = pos
    BY <1>2
  <2>3. Len(q) = l + 1 /\ Len(block) = h + 1
    BY <1>10, <1>11, <2>1
  <2>4. l + 1 = (pos + 1) - s /\ l + 1 <= w /\ o < l + 1 /\ l + 1 = o + (h + 1)
    <3>1. l = e - s /\ l = o + h /\ o <= l /\ l < w
      BY <2>1, <2>2
    <3>2. l + 1 = (e + 1) - s
      BY <3>1
    <3>3. l + 1 <= w /\ o < l + 1 /\ l + 1 = o + (h + 1)
      BY <3>1
    <3> QED
      BY <2>2, <3>2, <3>3
  <2> QED
    BY <2>1, <2>3, <2>4
<1>15. \A j \in 1..n : cipher[b + j] = CbcChain(q, j)
  <2>1. \A j \in 1..n : j \in 0..n
    OBVIOUS
  <2> QED
    BY <1>6, <1>11, <2>1
<1>16. ChunkBase(newBlock, cbc) = CbcChain(q, n)
  <2>1. n \in 0..n
    OBVIOUS
  <2> QED
    BY <1>6, <1>11, <2>1
<1>17. Append(ChunkBase(newBlock, cbc), PadBlock(block)) = CbcChain(q, n + 1)
  BY <1>6, <1>12
<1>18. NextText(s, b, n, q)
  BY <1>7, <1>9, <1>10, <1>11, <1>12, <1>13, <1>14, <1>15, <1>16, <1>17 DEF NextText
<1> QED
  BY <1>18

\* The byte stays in the buffer.
LEMMA ByteKept ==
  ASSUME EncIInv, EncIInv', Writing, EncryptByte, cuts' = cuts, cipher' = cipher,
         newBlock' = FALSE, cbc' = ChunkBase(newBlock, cbc), buf' = Append(buf, plain[pos + 1])
  PROVE  Writing'
<1>1. epc = "loop" /\ epc' = "loop" /\ pos < Len(plain) /\ pos' = pos + 1 /\ plain' = plain
  BY OneByte
<1>2. /\ CutsOK(plain, cipher, cuts, pos, Len(cipher))
      /\ cipher \in Seq(Seq(Block)) /\ pos \in 0..Len(plain) /\ Len(plain) \in Nat
  BY <1>1, CurrentFacts
<1>3. PICK s \in Nat, b \in Nat, n \in Nat, t \in Seq(Byte) : InChunk(s, b, n, t)
  BY <1>1, CurrentFacts
<1>4. PICK q : NextText(s, b, n, q)
  BY <1>3, ByteBlocks
<1>5. /\ q = Text(plain, s, pos + 1) /\ Len(q) = (pos + 1) - s
      /\ buf' = SubSeq(q, Off(n) + 1, Len(q)) /\ Len(q) = Off(n) + Len(buf')
      /\ \A j \in 1..n : cipher[b + j] = CbcChain(q, j)
      /\ ChunkBase(newBlock, cbc) = CbcChain(q, n)
  BY <1>4 DEF NextText
<1>6. CutsOK(plain, cipher, cuts, pos + 1, Len(cipher))
  <2>1. /\ pos + 1 \in 0..Len(plain) /\ pos <= pos + 1 /\ Len(cipher) \in 0..Len(cipher)
        /\ Len(cipher) <= Len(cipher)
    BY <1>1, <1>2
  <2> QED
    BY <1>2, <2>1, CutsKept
<1>7. Current'
  <2>1. /\ ChunkStart' = s /\ cuts'[Len(cuts')].block = b /\ Len(cipher') = b + n
    BY <1>3 DEF InChunk, ChunkStart
  <2>2. Len(cipher') - b = n
    BY <1>3, <2>1
  <2>3. ChunkBase(newBlock', cbc') = CbcChain(q, n)
    BY <1>5 DEF ChunkBase
  <2> QED
    BY <1>1, <1>5, <2>1, <2>2, <2>3 DEF Current
<1> QED
  BY <1>1, <1>6, <1>7 DEF Writing

\* The buffer is written as the next block of the chunk.
Flushed(s, b, n, q) ==
  /\ Len(cipher') = Len(cipher) + 1 /\ Len(cipher') = b + (n + 1)
  /\ \A j \in 1..(n + 1) : cipher'[b + j] = CbcChain(q, j)
  /\ CutsOK(plain, cipher', cuts, pos + 1, Len(cipher'))

LEMMA ByteFlushed ==
  ASSUME EncIInv, EncIInv', Writing, EncryptByte,
         NEW s \in Nat, NEW b \in Nat, NEW n \in Nat, NEW t, NEW q,
         InChunk(s, b, n, t), NextText(s, b, n, q),
         cipher' = Append(cipher, Append(ChunkBase(newBlock, cbc),
                                         PadBlock(Append(buf, plain[pos + 1]))))
  PROVE  Flushed(s, b, n, q)
<1>1. epc = "loop" /\ pos < Len(plain)
  BY OneByte
<1>2. /\ CutsOK(plain, cipher, cuts, pos, Len(cipher))
      /\ cipher \in Seq(Seq(Block)) /\ pos \in 0..Len(plain) /\ Len(plain) \in Nat
  BY <1>1, CurrentFacts
<1>3. PICK k : k = Append(ChunkBase(newBlock, cbc), PadBlock(Append(buf, plain[pos + 1])))
  OBVIOUS
<1>4. cipher' = Append(cipher, k) /\ k = CbcChain(q, n + 1)
  BY <1>3 DEF NextText
<1>5. cipher' \in Seq(Seq(Block))
  BY DEF EncIInv, EncTypeOK
<1>6. /\ Len(cipher') = Len(cipher) + 1 /\ cipher'[Len(cipher) + 1] = k
      /\ \A j \in 1..Len(cipher) : cipher'[j] = cipher[j]
  <2>1. Len(cipher) \in Nat /\ cipher \in Seq(Seq(Block))
    BY <1>2
  <2>2. k \in Seq(Block)
    <3>1. cipher' \in Seq(Seq(Block)) /\ Len(cipher') = Len(cipher) + 1 /\ cipher'[Len(cipher) + 1] = k
      BY <1>4, <1>5, <2>1
    <3>2. Len(cipher) + 1 \in 1..Len(cipher')
      BY <2>1, <3>1
    <3> QED
      BY <3>1, <3>2, ElementOfSeq
  <2> QED
    BY <1>4, <2>1, <2>2, AppendProperties
<1>7. PICK l \in Nat : l = Len(cipher) /\ l = b + n
  <2>1. Len(cipher) \in Nat
    BY <1>2
  <2>2. Len(cipher) = b + n
    BY DEF InChunk
  <2> QED
    BY <2>1, <2>2
<1>8. \A j \in 1..n : cipher[b + j] = CbcChain(q, j)
  BY DEF NextText
<1>9. Len(cipher') = b + (n + 1)
  <2>1. Len(cipher') = l + 1 /\ l = b + n
    BY <1>6, <1>7
  <2> QED
    BY <2>1
<1>10. ASSUME NEW j \in 1..(n + 1) PROVE cipher'[b + j] = CbcChain(q, j)
  <2>0. j \in 1..n \/ j = n + 1
    OBVIOUS
  <2>1. CASE j \in 1..n
    <3>1. b + j \in 1..Len(cipher)
      BY <1>7, <2>1
    <3> QED
      BY <1>6, <1>8, <2>1, <3>1
  <2>2. CASE j = n + 1
    <3>1. b + j = Len(cipher) + 1
      BY <1>7, <2>2
    <3> QED
      BY <1>4, <1>6, <2>2, <3>1
  <2> QED
    BY <2>0, <2>1, <2>2
<1>11. CutsOK(plain, cipher', cuts, pos + 1, Len(cipher'))
  <2>1. pos + 1 \in 0..Len(plain) /\ pos <= pos + 1
    BY <1>1, <1>2
  <2>2. PICK m \in Nat : m = Len(cipher') /\ m = l + 1
    BY <1>6, <1>7
  <2>3. m \in 0..Len(cipher') /\ Len(cipher) <= m
    BY <1>7, <2>2
  <2> QED
    BY <1>2, <1>5, <1>6, <2>1, <2>2, <2>3, CutsKept
<1> QED
  BY <1>6, <1>9, <1>10, <1>11 DEF Flushed

\* The buffer is full, and the chunk goes on.
LEMMA ByteFull ==
  ASSUME EncIInv, EncIInv', Writing, EncryptByte, cuts' = cuts, newBlock' = FALSE, buf' = <<>>,
         Len(Append(buf, plain[pos + 1])) >= BlockSize,
         cbc' = Append(ChunkBase(newBlock, cbc), PadBlock(Append(buf, plain[pos + 1]))),
         cipher' = Append(cipher, cbc')
  PROVE  Writing'
<1>1. epc = "loop" /\ epc' = "loop" /\ pos < Len(plain) /\ pos' = pos + 1 /\ plain' = plain
  BY OneByte
<1>2. PICK s \in Nat, b \in Nat, n \in Nat, t \in Seq(Byte) : InChunk(s, b, n, t)
  BY <1>1, CurrentFacts
<1>3. PICK q : NextText(s, b, n, q)
  BY <1>2, ByteBlocks
<1>4. Flushed(s, b, n, q)
  BY <1>2, <1>3, ByteFlushed
<1>5. PICK block : block = Append(buf, plain[pos + 1])
  OBVIOUS
<1>6. /\ q = Text(plain, s, pos + 1) /\ Len(q) = (pos + 1) - s /\ Len(q) = Off(n) + Len(block)
      /\ Len(q) <= Off(n + 1) /\ Len(block) = Len(buf) + 1 /\ q \in Seq(Byte)
      /\ cbc' = CbcChain(q, n + 1)
  BY <1>3, <1>5 DEF NextText
<1>7. Len(q) = Off(n + 1)
  <2>1. Off(n) \in Nat /\ Len(buf) \in Nat /\ Off(n + 1) = Off(n) + BlockSize
    BY <1>2 DEF InChunk
  <2>2. PICK o \in Nat, h \in Nat, z \in Nat : o = Off(n) /\ h = Len(block) /\ z = BlockSize
    BY <1>6, <2>1, BlockParams
  <2>3. Len(q) = o + h /\ h >= z /\ Off(n + 1) = o + z /\ Len(q) <= Off(n + 1)
    BY <1>5, <1>6, <2>1, <2>2
  <2> QED
    BY <2>2, <2>3
<1>8. Current'
  <2>1. ChunkStart' = s /\ cuts'[Len(cuts')].block = b
    BY <1>2 DEF InChunk, ChunkStart
  <2>2. Len(cipher') - b = n + 1 /\ \A j \in 1..(n + 1) : cipher'[b + j] = CbcChain(q, j)
    <3>1. Len(cipher') = b + (n + 1)
      BY <1>4 DEF Flushed
    <3> QED
      BY <1>4, <3>1 DEF Flushed
  <2>3. buf' = SubSeq(q, Off(n + 1) + 1, Len(q)) /\ Len(buf') = 0
    <3>1. Off(n + 1) + 1 > Len(q)
      BY <1>6, <1>7
    <3>2. Off(n + 1) + 1 \in Int /\ Len(q) \in Int
      BY <1>6, <1>7
    <3> QED
      BY <3>1, <3>2, SubSeqEmpty
  <2>4. ChunkBase(newBlock', cbc') = CbcChain(q, n + 1)
    BY <1>6 DEF ChunkBase
  <2>5. pos' - s = Off(n + 1) + Len(buf')
    BY <1>1, <1>6, <1>7, <2>3
  <2> QED
    BY <1>1, <1>6, <2>1, <2>2, <2>3, <2>4, <2>5 DEF Current
<1> QED
  BY <1>1, <1>4, <1>8 DEF Writing, Flushed

\* A boundary: the chunk ends with the block that is written.
LEMMA ByteCut ==
  ASSUME EncIInv, EncIInv', Writing, EncryptByte, newBlock' = TRUE, buf' = <<>>,
         cuts' = Append(cuts, [at |-> pos + 1, block |-> Len(cipher) + 1]),
         cipher' = Append(cipher, Append(ChunkBase(newBlock, cbc),
                                         PadBlock(Append(buf, plain[pos + 1]))))
  PROVE  Writing'
<1>1. epc = "loop" /\ epc' = "loop" /\ pos < Len(plain) /\ pos' = pos + 1 /\ plain' = plain
  BY OneByte
<1>2. /\ pos \in 0..Len(plain) /\ Len(plain) \in Nat /\ plain \in Seq(Byte)
      /\ cipher \in Seq(Seq(Block))
  BY <1>1, CurrentFacts
<1>3. PICK s \in Nat, b \in Nat, n \in Nat, t \in Seq(Byte) : InChunk(s, b, n, t)
  BY <1>1, CurrentFacts
<1>4. PICK q : NextText(s, b, n, q)
  BY <1>3, ByteBlocks
<1>5. Flushed(s, b, n, q)
  BY <1>3, <1>4, ByteFlushed
<1>6. PICK e \in Nat, m \in Nat : /\ e = pos + 1 /\ m = Len(cipher) + 1 /\ m = Len(cipher')
                                  /\ m = b + (n + 1) /\ s < e
  <2>1. pos \in Nat /\ Len(cipher) \in Nat
    BY <1>2
  <2>2. s <= pos
    BY <1>3 DEF InChunk
  <2>3. pos + 1 \in Nat /\ Len(cipher) + 1 \in Nat /\ s < pos + 1
    BY <2>1, <2>2
  <2>4. Len(cipher') = Len(cipher) + 1 /\ Len(cipher') = b + (n + 1)
    BY <1>5 DEF Flushed
  <2> QED
    BY <2>3, <2>4
<1>7. cuts[Len(cuts)].at = s /\ cuts[Len(cuts)].block = b
  BY <1>3 DEF InChunk, ChunkStart
<1>8. IsChunk(plain, cipher', s, b, e, m)
  <2>1. /\ q = Text(plain, s, e) /\ Len(q) = e - s /\ Len(q) <= Off(n + 1) /\ Off(n) < Len(q)
        /\ \A j \in 1..(n + 1) : cipher'[b + j] = CbcChain(q, j)
    BY <1>4, <1>5, <1>6 DEF NextText, Flushed
  <2>2. m - b = n + 1 /\ b <= m /\ s <= e /\ (n + 1) - 1 = n /\ n + 1 \in Nat
    BY <1>6
  <2>3. Covers(n + 1, e - s)
    BY <2>1, <2>2 DEF Covers
  <2> QED
    BY <2>1, <2>2, <2>3 DEF IsChunk
<1>9. CutsOK(plain, cipher', cuts', e, m)
  <2>1. CutsOK(plain, cipher', cuts, e, m)
    BY <1>5, <1>6 DEF Flushed
  <2>2. CutsOK(plain, cipher', Append(cuts, [at |-> e, block |-> m]), e, m)
    BY <1>6, <1>7, <1>8, <2>1, CutsAppended
  <2> QED
    BY <1>6, <2>2
<1>10. Current'
  <2>1. EncTypeOK /\ EncTypeOK'
    BY DEF EncIInv
  <2>2. cuts \in Seq(Cut) /\ Len(cuts) \in Nat /\ [at |-> e, block |-> m] \in Cut
    BY <2>1, <1>6 DEF EncTypeOK, Cut
  <2>3. Len(cuts') = Len(cuts) + 1 /\ cuts'[Len(cuts) + 1] = [at |-> e, block |-> m]
    BY <1>6, <2>2, AppendProperties
  <2>4. ChunkStart' = pos' /\ cuts'[Len(cuts')].block = Len(cipher')
    BY <1>1, <1>6, <2>3 DEF ChunkStart
  <2>5. pos' \in 0..Len(plain') /\ plain' \in Seq(Byte) /\ Len(cipher') \in Nat
    BY <1>1, <1>2, <1>6
  <2>6. AtStart'
    BY <2>4, <2>5 DEF AtStart
  <2> QED
    BY <2>6, StartsEmpty, PTL
<1> QED
  BY <1>1, <1>6, <1>9, <1>10 DEF Writing

LEMMA WritingByte == ASSUME EncIInv, EncIInv', Writing, EncryptByte PROVE Writing'
<1>1. PICK r, block :
        /\ block = Append(buf, plain[pos + 1])
        /\ newBlock' = AtBoundry(r)
        /\ IF BlockDone(block, r)
             THEN /\ cbc' = Append(ChunkBase(newBlock, cbc), PadBlock(block))
                  /\ cipher' = Append(cipher, cbc') /\ buf' = <<>>
             ELSE cbc' = ChunkBase(newBlock, cbc) /\ buf' = block /\ cipher' = cipher
        /\ cuts' = IF AtBoundry(r)
                     THEN Append(cuts, [at |-> pos + 1, block |-> Len(cipher) + 1])
                     ELSE cuts
  BY OneByte
<1>2. newBlock' \in BOOLEAN
  BY DEF EncIInv, EncTypeOK
<1>3. CASE newBlock' = TRUE
  <2>1. AtBoundry(r) /\ BlockDone(block, r)
    BY <1>1, <1>3 DEF BlockDone
  <2> QED
    BY <1>1, <1>3, <2>1, ByteCut
<1>4. CASE newBlock' = FALSE /\ BlockDone(block, r)
  <2>1. ~AtBoundry(r) /\ Len(block) >= BlockSize
    BY <1>1, <1>4 DEF BlockDone
  <2> QED
    BY <1>1, <1>4, <2>1, ByteFull
<1>5. CASE newBlock' = FALSE /\ ~BlockDone(block, r)
  <2>1. ~AtBoundry(r)
    BY <1>1, <1>5
  <2> QED
    BY <1>1, <1>5, <2>1, ByteKept
<1> QED
  BY <1>2, <1>3, <1>4, <1>5

\* The history is that of the input read: its sums, and its chunks by content.
LEMMA HistoryOfPlain ==
  ASSUME EncIInv PROVE Sums(sums, plain, pos) /\ ByContent(sums, cuts, pos)
<1>1. EncTypeOK /\ HistoryOK /\ CutsByContent
  BY DEF EncIInv
<1>2. Sums(sums, plain, pos)
  <2>1. sums \in Seq(Nat) /\ Len(sums) = pos + 1 /\ sums[1] = 0
    BY <1>1 DEF EncTypeOK, HistoryOK
  <2>2. \A n \in 1..pos : sums[n + 1] = sums[n] + plain[n]
    BY <1>1 DEF HistoryOK
  <2>3. \A n \in 1..pos : plain[n] \in Nat
    <3>1. /\ \A n \in 1..Len(plain) : plain[n] \in Nat
          /\ Len(plain) \in Nat /\ pos \in 0..Len(plain)
      BY <1>1, ByteFacts DEF EncTypeOK
    <3> QED
      BY <3>1
  <2> QED
    BY <2>1, <2>2, <2>3 DEF Sums
<1>3. \A s, p : WindowTotal(s, p) = Total(sums, s, p)
  BY DEF WindowTotal, Total
<1>4. \A s, p : ContentBoundary(s, p) <=> Boundary(sums, s, p)
  BY <1>3, Zenon DEF ContentBoundary, Boundary
<1>5. ByContent(sums, cuts, pos)
  BY <1>1, <1>4, Zenon DEF CutsByContent, ByContent
<1> QED
  BY <1>2, <1>5

\* The m blocks of the last chunk t, and the trailer, end the file z.
TailWritten(z, b, m, t) ==
  /\ z \in Seq(Seq(Block)) /\ Len(z) = (b + m) + 1 /\ Covers(m, Len(t))
  /\ \A j \in 1..Len(cipher) : z[j] = cipher[j]
  /\ \A j \in 1..m : z[b + j] = CbcChain(t, j)
  /\ z[(b + m) + 1] = <<Trailer(Over(m, Len(t)))>>

LEMMA TailDone ==
  ASSUME EncIInv, Writing, epc = "loop", pos = Len(plain),
         NEW s \in Nat, NEW b \in Nat, NEW n \in Nat, NEW t \in Seq(Byte), InChunk(s, b, n, t),
         NEW m \in Nat, n <= m, NEW z, TailWritten(z, b, m, t)
  PROVE  Encrypted(plain, z, cuts, sums)
<1>1. /\ CutsOK(plain, cipher, cuts, pos, Len(cipher))
      /\ Len(plain) \in Nat /\ plain \in Seq(Byte)
  BY CurrentFacts
<1>2. /\ cuts[Len(cuts)].at = s /\ cuts[Len(cuts)].block = b /\ Len(cipher) = b + n
      /\ s <= pos /\ t = Text(plain, s, pos) /\ Len(t) = pos - s
  BY DEF InChunk, ChunkStart
<1>3. PICK e \in Nat, g \in Nat : e = pos /\ e = Len(plain) /\ g = b + m /\ g = Len(z) - 1
  <2>1. b + m \in Nat /\ Len(z) - 1 = b + m
    BY DEF TailWritten
  <2> QED
    BY <1>1, <2>1
<1>4. CutsOK(plain, z, cuts, e, g)
  <2>1. e \in 0..Len(plain) /\ e <= e /\ Len(cipher) <= g
    BY <1>2, <1>3
  <2>2. z \in Seq(Seq(Block)) /\ \A j \in 1..Len(cipher) : z[j] = cipher[j]
    BY DEF TailWritten
  <2>3. g \in 0..Len(z)
    BY <1>3, <2>2
  <2> QED
    BY <1>1, <1>3, <2>1, <2>2, <2>3, CutsKept
<1>5. IsChunk(plain, z, s, b, e, g)
  <2>1. b <= g /\ s <= e /\ g - b = m
    BY <1>2, <1>3
  <2>2. Text(plain, s, e) = t /\ e - s = Len(t)
    BY <1>2, <1>3
  <2> QED
    BY <2>1, <2>2 DEF IsChunk, TailWritten
<1>6. z[Len(z)] = <<Trailer(Over((Len(z) - 1) - b, Len(plain) - s))>>
  <2>1. (Len(z) - 1) - b = m
    BY <1>3
  <2>3. z[Len(z)] = <<Trailer(Over(m, Len(t)))>>
    BY DEF TailWritten
  <2>2. Len(plain) - s = Len(t)
    BY <1>2, <1>3
  <2> QED
    BY <2>1, <2>2, <2>3, Zenon
<1>7. Sums(sums, plain, Len(plain)) /\ ByContent(sums, cuts, Len(plain))
  BY HistoryOfPlain
<1> QED
  BY <1>2, <1>3, <1>4, <1>5, <1>6, <1>7 DEF Encrypted

\* No bytes are left over: the trailer says that none of a block is.
LEMMA TailEven ==
  ASSUME EncIInv, EncIInv', Writing, EncryptTail, buf = <<>>
  PROVE  Encrypted(plain, cipher', cuts, sums)
<1>1. epc = "loop" /\ pos = Len(plain)
  BY DEF EncryptTail
<1>2. cipher' = (cipher \o <<>>) \o <<<<Trailer(0)>>>>
  BY DEF EncryptTail
<1>3. cipher \in Seq(Seq(Block)) /\ cipher' \in Seq(Seq(Block))
  BY DEF EncIInv, EncTypeOK
<1>4. PICK s \in Nat, b \in Nat, n \in Nat, t \in Seq(Byte) : InChunk(s, b, n, t)
  BY <1>1, CurrentFacts
<1>5. /\ Len(cipher) = b + n /\ \A j \in 1..n : cipher[b + j] = CbcChain(t, j)
      /\ Len(t) = Off(n) + Len(buf) /\ Off(n) \in Nat
  BY <1>4 DEF InChunk
<1>6. Len(t) = Off(n)
  BY <1>5
<1>7. cipher \o <<>> = cipher
  BY <1>3, ConcatEmptySeq
<1>8. PICK tr : tr = <<Trailer(0)>>
  OBVIOUS
<1>9. /\ Len(cipher') = (b + n) + 1 /\ cipher'[(b + n) + 1] = tr
      /\ \A j \in 1..Len(cipher) : cipher'[j] = cipher[j]
  BY <1>2, <1>3, <1>5, <1>7, <1>8
<1>10. \A j \in 1..n : cipher'[b + j] = CbcChain(t, j)
  <2>1. \A j \in 1..n : b + j \in 1..Len(cipher)
    BY <1>5
  <2> QED
    BY <1>5, <1>9, <2>1
<1>11. Covers(n, Len(t)) /\ tr = <<Trailer(Over(n, Len(t)))>>
  <2>1. ASSUME n > 0 PROVE Off(n - 1) < Off(n)
    <3>1. n - 1 \in Int /\ (n - 1) + 1 = n
      OBVIOUS
    <3>2. Off(n - 1) \in Int /\ Off((n - 1) + 1) = Off(n - 1) + BlockSize
      BY <3>1, Offsets
    <3> QED
      BY <3>1, <3>2, BlockParams
  <2> QED
    BY <1>5, <1>6, <1>8, <2>1 DEF Covers, Over
<1>12. TailWritten(cipher', b, n, t)
  BY <1>3, <1>8, <1>9, <1>10, <1>11, Zenon DEF TailWritten
<1>13. n <= n
  OBVIOUS
<1> QED
  BY <1>1, <1>4, <1>12, <1>13, TailDone

LEMMA OneMore ==
  ASSUME NEW S, NEW s \in Seq(S), NEW e
  PROVE  /\ \E V : s \o <<e>> \in Seq(V)
         /\ Len(s \o <<e>>) = Len(s) + 1 /\ (s \o <<e>>)[Len(s) + 1] = e
         /\ \A j \in 1..Len(s) : (s \o <<e>>)[j] = s[j]
<1>1. PICK V : V = S \cup {e}
  OBVIOUS
<1>2. s \in Seq(V) /\ e \in V
  BY <1>1
<1>3. s \o <<e>> = Append(s, e)
  BY <1>2, AppendIsConcat
<1>4. /\ Append(s, e) \in Seq(V) /\ Len(Append(s, e)) = Len(s) + 1
      /\ Append(s, e)[Len(s) + 1] = e /\ \A j \in 1..Len(s) : Append(s, e)[j] = s[j]
  BY <1>2, AppendProperties
<1> QED
  BY <1>3, <1>4, Zenon

\* Bytes are left over: one more block, and the trailer says how much of it counts.
LEMMA TailOdd ==
  ASSUME EncIInv, EncIInv', Writing, EncryptTail, buf # <<>>
  PROVE  Encrypted(plain, cipher', cuts, sums)
<1>1. epc = "loop" /\ pos = Len(plain)
  BY DEF EncryptTail
<1>2. cipher' = (cipher \o <<Append(cbc, PadBlock(buf))>>) \o <<<<Trailer(Len(buf))>>>>
  BY DEF EncryptTail
<1>3. /\ cipher \in Seq(Seq(Block)) /\ cipher' \in Seq(Seq(Block))
      /\ newBlock \in BOOLEAN /\ Len(buf) < BlockSize /\ buf \in Seq(Byte)
  BY DEF EncIInv, EncTypeOK
<1>4. PICK s \in Nat, b \in Nat, n \in Nat, t \in Seq(Byte) : InChunk(s, b, n, t)
  BY <1>1, CurrentFacts
<1>5. /\ Len(cipher) = b + n /\ \A j \in 1..n : cipher[b + j] = CbcChain(t, j)
      /\ Len(t) = Off(n) + Len(buf) /\ Off(n) \in Nat /\ Off(n + 1) = Off(n) + BlockSize
      /\ Len(t) < Off(n + 1) /\ Len(t) = pos - s /\ s = ChunkStart
      /\ buf = SubSeq(t, Off(n) + 1, Len(t)) /\ ChunkBase(newBlock, cbc) = CbcChain(t, n)
  BY <1>4 DEF InChunk
<1>6. /\ Len(buf) \in Nat /\ Len(buf) > 0 /\ Off(n) < Len(t) /\ Len(t) \in Nat
      /\ Len(t) <= Off(n + 1) /\ Off(n + 1) \in Nat
  <2>1. Len(buf) \in Nat /\ Len(buf) > 0
    BY <1>3
  <2>2. PICK o \in Nat, h \in Nat, w \in Nat : o = Off(n) /\ h = Len(buf) /\ w = Off(n + 1) /\ h > 0
    BY <1>4, <2>1 DEF InChunk
  <2>3. Len(t) = o + h /\ o + h < w
    BY <1>5, <2>2
  <2> QED
    BY <2>2, <2>3
<1>7. newBlock = FALSE
  <2> SUFFICES ASSUME newBlock = TRUE PROVE FALSE
    BY <1>3
  <2>1. ChunkStart = pos /\ pos \in Nat
    BY DEF EncIInv, HistoryOK, EncTypeOK
  <2>2. Len(t) = 0
    BY <1>5, <2>1
  <2> QED
    BY <1>5, <1>6, <2>2
<1>8. PICK k : k = Append(cbc, PadBlock(buf))
  OBVIOUS
<1>9. k = CbcChain(t, n + 1)
  <2>1. CbcChain(t, n + 1) = Append(CbcChain(t, n), PadBlock(SubSeq(t, Off(n) + 1, Len(t))))
    BY <1>6, ChainNext
  <2>2. cbc = CbcChain(t, n)
    BY <1>5, <1>7 DEF ChunkBase
  <2> QED
    BY <1>5, <1>8, <2>1, <2>2, Zenon
<1>10. PICK tr : tr = <<Trailer(Len(buf))>>
  OBVIOUS
<1>11. /\ Len(cipher') = (b + n) + 2 /\ cipher'[(b + n) + 1] = k /\ cipher'[(b + n) + 2] = tr
       /\ \A j \in 1..Len(cipher) : cipher'[j] = cipher[j]
  <2>1. cipher' = (cipher \o <<k>>) \o <<tr>>
    BY <1>2, <1>8, <1>10
  <2>2. PICK l \in Nat : l = Len(cipher) /\ l = b + n
    BY <1>3, <1>5
  <2>3. Len(cipher') = l + 2 /\ cipher'[l + 1] = k /\ cipher'[l + 2] = tr
    <3>1. PICK y : y = cipher \o <<k>>
      OBVIOUS
    <3>2. Len(y) = l + 1 /\ y[l + 1] = k /\ \E S : y \in Seq(S)
      <4>1. PICK V : V = Seq(Block)
        OBVIOUS
      <4>2. cipher \in Seq(V)
        BY <1>3, <4>1
      <4>3. /\ \E S : cipher \o <<k>> \in Seq(S)
            /\ Len(cipher \o <<k>>) = Len(cipher) + 1
            /\ (cipher \o <<k>>)[Len(cipher) + 1] = k
        BY <4>2, OneMore
      <4> QED
        BY <2>2, <3>1, <4>3, Zenon
    <3>3. PICK S : y \in Seq(S)
      BY <3>2
    <3>4. cipher' = y \o <<tr>>
      BY <2>1, <3>1
    <3>5. /\ Len(cipher') = Len(y) + 1 /\ cipher'[Len(y) + 1] = tr
          /\ \A j \in 1..Len(y) : cipher'[j] = y[j]
      BY <3>3, <3>4, OneMore
    <3>6. Len(y) \in 1..Len(y) /\ Len(y) + 1 = l + 2
      BY <2>2, <3>2
    <3> QED
      BY <3>2, <3>5, <3>6
  <2>4. \A j \in 1..Len(cipher) : cipher'[j] = cipher[j]
    BY <1>3, <2>1
  <2> QED
    BY <2>2, <2>3, <2>4
<1>12. PICK m \in Nat : m = n + 1 /\ m - 1 = n
  OBVIOUS
<1>13. Len(cipher') = (b + m) + 1 /\ cipher'[(b + m) + 1] = tr
  <2>1. (b + m) + 1 = (b + n) + 2
    BY <1>12
  <2> QED
    BY <1>11, <2>1
<1>14. ASSUME NEW j \in 1..m PROVE cipher'[b + j] = CbcChain(t, j)
  <2>1. j \in 1..n \/ j = n + 1
    BY <1>12
  <2>2. CASE j \in 1..n
    <3>1. b + j \in 1..Len(cipher)
      BY <1>5, <2>2
    <3> QED
      BY <1>5, <1>11, <2>2, <3>1
  <2>3. CASE j = n + 1
    <3>1. b + j = (b + n) + 1
      BY <2>3
    <3> QED
      BY <1>9, <1>11, <2>3, <3>1
  <2> QED
    BY <2>1, <2>2, <2>3
<1>15. Covers(m, Len(t)) /\ tr = <<Trailer(Over(m, Len(t)))>>
  <2>1. PICK o \in Nat, h \in Nat, w \in Nat : o = Off(n) /\ h = Len(buf) /\ w = Off(m)
    BY <1>5, <1>6, <1>12
  <2>2. Len(t) = o + h /\ o < o + h /\ o + h < w
    BY <1>5, <1>6, <1>12, <2>1
  <2>3. Covers(m, Len(t))
    BY <1>12, <2>1, <2>2 DEF Covers
  <2>4. Over(m, Len(t)) = h
    <3>1. Off(m - 1) = o
      BY <1>12, <2>1
    <3>2. Over(m, Len(t)) = (o + h) - o
      BY <2>1, <2>2, <3>1 DEF Over
    <3> QED
      BY <3>2
  <2> QED
    BY <1>10, <2>1, <2>3, <2>4
<1>16. TailWritten(cipher', b, m, t)
  BY <1>3, <1>10, <1>11, <1>13, <1>14, <1>15, Zenon DEF TailWritten
<1>17. n <= m
  BY <1>12
<1> QED
  BY <1>1, <1>4, <1>12, <1>16, <1>17, TailDone

LEMMA WritingTail == ASSUME EncIInv, EncIInv', Writing, EncryptTail PROVE Writing'
<1>1. Encrypted(plain, cipher', cuts, sums)
  BY TailEven, TailOdd
<1>2. epc' = "done" /\ plain' = plain /\ cuts' = cuts /\ sums' = sums
  BY DEF EncryptTail
<1> QED
  BY <1>1, <1>2 DEF Writing

\* The edited file starts from the beginning.
LEMMA StartsAgain ==
  ASSUME RsIInv, EncryptAgain PROVE EncIInv' /\ Writing' /\ LeftBehind'
<1>1. EncInit'
  BY DEF EncryptAgain, EncInit
<1>2. EncIInv'
  BY <1>1, EncIInvInit, PTL
<1>3. Writing'
  BY <1>1, WritingInit, PTL
<1>4. Encrypted(plain, cipher, cuts, sums)
  BY DEF RsIInv, Writing, EncryptAgain
<1>5. Len(past') = 1 /\ past'[1] = [plain |-> plain, cipher |-> cipher, cuts |-> cuts]
  BY DEF EncryptAgain
<1>6. sums \in Seq(Nat)
  BY DEF RsIInv, EncIInv, EncTypeOK
<1>7. Encrypted(past'[1].plain, past'[1].cipher, past'[1].cuts, sums)
  BY <1>4, <1>5
<1> QED
  BY <1>2, <1>3, <1>5, <1>6, <1>7 DEF LeftBehind

LEMMA RsIInvInit == RsInit => RsIInv
BY EncIInvInit, WritingInit DEF RsInit, RsIInv, LeftBehind

LEMMA RsIInvStep == RsIInv /\ [RsNext]_rsVars => RsIInv'
<1> SUFFICES ASSUME RsIInv, [RsNext]_rsVars PROVE RsIInv'
  OBVIOUS
<1>1. EncIInv /\ Writing /\ LeftBehind
  BY DEF RsIInv
<1>2. CASE EncNext /\ UNCHANGED past
  <2>1. EncIInv'
    BY <1>1, <1>2, EncIInvStep
  <2>2. Writing'
    BY <1>1, <1>2, <2>1, WritingByte, WritingTail DEF EncNext
  <2>3. LeftBehind'
    BY <1>1, <1>2 DEF LeftBehind
  <2> QED
    BY <2>1, <2>2, <2>3 DEF RsIInv
<1>3. CASE EncryptAgain
  BY <1>3, StartsAgain DEF RsIInv
<1>4. CASE UNCHANGED rsVars
  <2>1. UNCHANGED encVars /\ past' = past
    BY <1>4 DEF rsVars
  <2>2. EncIInv'
    BY <1>1, <2>1, EncIInvStep
  <2>3. Writing'
    BY <1>1, <2>1 DEF encVars, Writing, Current, ChunkStart
  <2>4. LeftBehind'
    BY <1>1, <2>1 DEF LeftBehind
  <2> QED
    BY <2>2, <2>3, <2>4 DEF RsIInv
<1> QED
  BY <1>2, <1>3, <1>4 DEF RsNext

-----------------------------------------------------------------------------
(* What the invariant says of the two files. *)

\* Parts of sequences, element by element.
LEMMA SuffixSame ==
  ASSUME NEW S, NEW s \in Seq(S), NEW t \in Seq(S),
         NEW a \in 0..Len(s), NEW b \in 0..Len(t)
  PROVE  SubSeq(s, a + 1, Len(s)) = SubSeq(t, b + 1, Len(t)) <=> SameFrom(s, a, t, b)
<1>1. Len(s) \in Nat /\ Len(t) \in Nat /\ a \in Nat /\ b \in Nat /\ a <= Len(s) /\ b <= Len(t)
  OBVIOUS
<1>2. PICK h, k : h = SubSeq(s, a + 1, Len(s)) /\ k = SubSeq(t, b + 1, Len(t))
  OBVIOUS
<1>3. /\ h \in Seq(S) /\ Len(h) = Len(s) - a
      /\ \A j \in 1..(Len(s) - a) : h[j] = s[a + j]
  <2>1. Len(s) <= Len(s)
    BY <1>1
  <2> QED
    BY <1>1, <1>2, <2>1, Slice
<1>4. /\ k \in Seq(S) /\ Len(k) = Len(t) - b
      /\ \A j \in 1..(Len(t) - b) : k[j] = t[b + j]
  <2>1. Len(t) <= Len(t)
    BY <1>1
  <2> QED
    BY <1>1, <1>2, <2>1, Slice
<1>5. ASSUME h = k PROVE SameFrom(s, a, t, b)
  BY <1>3, <1>4, <1>5 DEF SameFrom, SamePart
<1>6. ASSUME SameFrom(s, a, t, b) PROVE h = k
  <2>1. Len(h) = Len(k)
    BY <1>3, <1>4, <1>6 DEF SameFrom
  <2>2. \A j \in 1..Len(h) : h[j] = k[j]
    BY <1>3, <1>4, <1>6 DEF SameFrom, SamePart
  <2> QED
    BY <1>3, <1>4, <2>1, <2>2, SeqEqual
<1> QED
  BY <1>2, <1>5, <1>6

LEMMA PrefixSame ==
  ASSUME NEW S, NEW s \in Seq(S), NEW t \in Seq(S), NEW m \in Nat, m <= Len(s), m <= Len(t)
  PROVE  SubSeq(s, 1, m) = SubSeq(t, 1, m) <=> SamePart(s, 0, t, 0, m)
<1>1. PICK h, k : h = SubSeq(s, 1, m) /\ k = SubSeq(t, 1, m)
  OBVIOUS
<1>2. h \in Seq(S) /\ Len(h) = m /\ \A j \in 1..m : h[j] = s[j]
  BY <1>1, Start
<1>3. k \in Seq(S) /\ Len(k) = m /\ \A j \in 1..m : k[j] = t[j]
  BY <1>1, Start
<1>4. h = k <=> \A j \in 1..m : h[j] = k[j]
  BY <1>2, <1>3, SeqEqual
<1>5. SamePart(s, 0, t, 0, m) <=> \A j \in 1..m : s[j] = t[j]
  <2>1. \A j \in 1..m : 0 + j = j
    OBVIOUS
  <2> QED
    BY <2>1 DEF SamePart
<1> QED
  BY <1>1, <1>2, <1>3, <1>4, <1>5

\* A cut of an encryption is in its plain text, and its block in the file.
LEMMA CutInside ==
  ASSUME NEW p, NEW x, NEW c, NEW u, Encrypted(p, x, c, u), NEW k \in 1..Len(c)
  PROVE  /\ c[k].at \in 0..Len(p) /\ c[k].block \in 0..Len(x)
         /\ c[k].at \in Nat /\ c[k].block \in Nat
         /\ c[k].at <= Len(p) /\ c[k].block <= Len(x)
<1>1. CutsOK(p, x, c, Len(p), Len(x) - 1) /\ Len(p) \in Nat /\ Len(x) \in Nat /\ Len(x) >= 1
  BY EncryptedFacts
<1>2. c[k].at \in 0..Len(p) /\ c[k].block \in 0..(Len(x) - 1)
  BY <1>1, CutFacts
<1> QED
  BY <1>1, <1>2

LEMMA TwoFiles ==
  ASSUME RsIInv, Both
  PROVE  /\ Encrypted(plain, cipher, cuts, sums)
         /\ \E u : Encrypted(past[1].plain, past[1].cipher, past[1].cuts, u)
BY DEF RsIInv, Writing, LeftBehind, Both

LEMMA TailsSame == ASSUME RsIInv, Both PROVE SameTail
<1>1. PICK p, x, c : p = past[1].plain /\ x = past[1].cipher /\ c = past[1].cuts
  OBVIOUS
<1>2. PICK u : Encrypted(p, x, c, u)
  BY <1>1, TwoFiles
<1>3. Encrypted(plain, cipher, cuts, sums)
  BY TwoFiles
<1>4. p \in Seq(Byte) /\ x \in Seq(Seq(Block)) /\ plain \in Seq(Byte) /\ cipher \in Seq(Seq(Block))
  BY <1>2, <1>3, EncryptedFacts
<1>5. ASSUME NEW i \in 1..Len(c), NEW k \in 1..Len(cuts),
             SubSeq(p, c[i].at + 1, Len(p)) = SubSeq(plain, cuts[k].at + 1, Len(plain))
      PROVE  SubSeq(x, c[i].block + 1, Len(x)) = SubSeq(cipher, cuts[k].block + 1, Len(cipher))
  <2>1. c[i].at \in 0..Len(p) /\ c[i].block \in 0..Len(x)
    BY <1>2, CutInside
  <2>2. cuts[k].at \in 0..Len(plain) /\ cuts[k].block \in 0..Len(cipher)
    BY <1>3, CutInside
  <2>3. SameFrom(p, c[i].at, plain, cuts[k].at)
    BY <1>4, <1>5, <2>1, <2>2, SuffixSame
  <2>4. SameFrom(x, c[i].block, cipher, cuts[k].block)
    BY <1>2, <1>3, <2>3, TailsAgree
  <2>5. PICK S, a, b : S = Seq(Block) /\ a = c[i].block /\ b = cuts[k].block
    OBVIOUS
  <2>6. /\ x \in Seq(S) /\ cipher \in Seq(S) /\ a \in 0..Len(x) /\ b \in 0..Len(cipher)
        /\ SameFrom(x, a, cipher, b)
    BY <1>4, <2>1, <2>2, <2>4, <2>5
  <2>7. SubSeq(x, a + 1, Len(x)) = SubSeq(cipher, b + 1, Len(cipher))
    BY <2>6, SuffixSame
  <2> QED
    BY <2>5, <2>7
<1> QED
  BY <1>1, <1>5, Zenon DEF SameTail

LEMMA HeadsSame == ASSUME RsIInv, Both PROVE SameHead
<1>1. PICK p, x, c : p = past[1].plain /\ x = past[1].cipher /\ c = past[1].cuts
  OBVIOUS
<1>2. PICK u : Encrypted(p, x, c, u)
  BY <1>1, TwoFiles
<1>3. Encrypted(plain, cipher, cuts, sums)
  BY TwoFiles
<1>4. p \in Seq(Byte) /\ x \in Seq(Seq(Block)) /\ plain \in Seq(Byte) /\ cipher \in Seq(Seq(Block))
  BY <1>2, <1>3, EncryptedFacts
<1>5. ASSUME NEW i \in 1..Len(c), c[i].at <= Len(plain),
             SubSeq(p, 1, c[i].at) = SubSeq(plain, 1, c[i].at)
      PROVE  /\ i <= Len(cuts) /\ cuts[i] = c[i]
             /\ SubSeq(x, 1, c[i].block) = SubSeq(cipher, 1, c[i].block)
  <2>1. /\ c[i].at \in Nat /\ c[i].at <= Len(p) /\ c[i].block \in Nat /\ c[i].block <= Len(x)
    BY <1>2, CutInside
  <2>2. SamePart(p, 0, plain, 0, c[i].at)
    BY <1>4, <1>5, <2>1, PrefixSame
  <2>3. i <= Len(cuts) /\ cuts[i] = c[i] /\ SamePart(x, 0, cipher, 0, c[i].block)
    BY <1>2, <1>3, <1>5, <2>2, HeadsAgree
  <2>4. c[i].block <= Len(cipher)
    <3>1. i \in 1..Len(cuts)
      <4>1. Len(cuts) \in Nat
        BY <1>3, EncryptedFacts
      <4> QED
        BY <2>3, <4>1
    <3> QED
      BY <1>3, <2>3, <3>1, CutInside
  <2> QED
    BY <1>4, <2>1, <2>3, <2>4, PrefixSame
<1> QED
  BY <1>1, <1>5, Zenon DEF SameHead

-----------------------------------------------------------------------------
(* The theorems. *)

\* A file that is encrypted, edited and encrypted again: at every moment the
\* encrypted file is, up to the byte read, what its chunks say it is.
THEOREM RsInvariant == RsSpec => []RsIInv
<1> QED
  BY RsIInvInit, RsIInvStep, PTL DEF RsSpec

\* The chunks of the edited file are by content too, whatever was encrypted
\* before it with the key.
THEOREM ResyncCutsByContent == RsSpec => []CutsByContent
<1>1. RsIInv => CutsByContent
  BY DEF RsIInv, EncIInv
<1> QED
  BY <1>1, RsInvariant, PTL

\* An edit changes the encrypted file around the edit and nowhere else: the
\* chunks before it, and all that follows the first chunk to start with the same
\* text left, are the same blocks, for every file, every edit and every key.
THEOREM RsyncFriendlyCorrect == RsSpec => []RsyncFriendly
<1>1. RsIInv => RsyncFriendly
  BY TailsSame, HeadsSame DEF RsyncFriendly
<1> QED
  BY <1>1, RsInvariant, PTL
=============================================================================
