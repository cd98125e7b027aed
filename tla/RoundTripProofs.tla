--------------------------- MODULE RoundTripProofs ---------------------------
(***************************************************************************)
(* Proofs about RoundTrip, for every key parameter and every input: what   *)
(* encryption wrote, decryption cuts at the same places and gives back;    *)
(* and it implements FaithfulCopy.                                         *)
(***************************************************************************)
EXTENDS RoundTrip, EncryptionProofs

(* The invariant.  First, what encrypt_file has written. *)

\* Bytes of plain in the first n blocks.
To(n) == IF n = 0 THEN 0 ELSE blocks[n].to

\* Where the chunk of the block after block n starts.
NextStart(n) ==
  IF n = 0 THEN 0
  ELSE IF ContentBoundary(blocks[n].start, blocks[n].to) THEN blocks[n].to ELSE blocks[n].start

\* What the block after block n is chained onto.
Chain(n) == IF NextStart(n) = To(n) THEN <<>> ELSE cipher[n]

Size(n) == blocks[n].to - blocks[n].from

Content(n) == PadBlock(SubSeq(plain, blocks[n].from + 1, blocks[n].to))

\* Block n was written for what was left at the end of plain.
Left(n) == epc = "done" /\ n = Len(blocks) /\ buf # <<>>

\* Block n holds the bytes after those of block n - 1, of one chunk, and as many
\* as fit before it ends.
WellCut(n) ==
  /\ blocks[n].start = NextStart(n - 1) /\ blocks[n].from = To(n - 1)
  /\ blocks[n].start <= blocks[n].from /\ blocks[n].from < blocks[n].to
  /\ Size(n) <= BlockSize /\ blocks[n].to <= pos
  /\ \A p \in (blocks[n].from + 1)..(blocks[n].to - 1) : ~ContentBoundary(blocks[n].start, p)
  /\ Size(n) = BlockSize \/ ContentBoundary(blocks[n].start, blocks[n].to) \/ Left(n)
  /\ cipher[n] = Append(Chain(n - 1), Content(n))

AllCut == \A n \in 1..Len(blocks) : WellCut(n)

\* In the loop the buffer holds what follows the blocks written.
Filling ==
  epc = "loop" =>
    /\ Len(cipher) = Len(blocks)
    /\ To(Len(blocks)) = pos - Len(buf)
    /\ NextStart(Len(blocks)) = ChunkStart
    /\ ChunkBase(newBlock, cbc) = Chain(Len(blocks))
    /\ \A j \in 1..Len(buf) : buf[j] = plain[pos - Len(buf) + j]
    /\ \A p \in (pos - Len(buf) + 1)..pos : ~ContentBoundary(ChunkStart, p)

\* At the end everything is in a block, and the trailer counts the last one.
Finished ==
  epc = "done" =>
    /\ Len(blocks) > 0 /\ To(Len(blocks)) = Len(plain)
    /\ Len(cipher) = Len(blocks) + 1
    /\ cipher[Len(blocks) + 1] = <<Trailer(Len(buf))>>
    /\ buf # <<>> => Size(Len(blocks)) = Len(buf)

Written == EncIInv /\ blocks \in Seq(Held) /\ AllCut /\ Filling /\ Finished

\* Then, how far decrypt_file is.  The file is a start of what was written.
Delivered ==
  dpc # "off" =>
    /\ epc = "done"
    /\ Len(file) <= Len(cipher) /\ (partial => Len(file) < Len(cipher))
    /\ \A j \in 1..Len(file) : file[j] = cipher[j]

Waiting == dpc = "off" => rpos = 0 /\ dnew /\ out = <<>>

\* Before a block: the key is where the encryptor's was.
Between ==
  dpc = "loop" =>
    /\ rpos = 0 \/ ~NearEnd(rpos)
    /\ out = SubSeq(plain, 1, To(rpos))
    /\ ChunkBase(dnew, dcbc) = Chain(rpos)
    /\ Tracks(ChunkRoll(dnew, droll), NextStart(rpos), To(rpos))

\* Block rpos is decrypted and not yet given away.
Decrypted ==
  dpc \in {"scan", "trailer"} =>
    /\ rpos \in 1..Len(blocks)
    /\ dblk = Content(rpos)
    /\ out = SubSeq(plain, 1, blocks[rpos].from)

\* Within it the scan is in step with the encryptor, up to the end of plain.
Scanning ==
  dpc = "scan" =>
    /\ dcbc = cipher[rpos]
    /\ IF di > Size(rpos) THEN Left(rpos)
       ELSE /\ dnew <=> (di > 0 /\ ContentBoundary(blocks[rpos].start, blocks[rpos].from + di))
            /\ ~dnew => Tracks(droll, blocks[rpos].start, blocks[rpos].from + di)

AtTrailer == dpc = "trailer" => ~partial /\ rpos = Len(file) - 1

Restored ==
  /\ IsPrefix(plain, out)
  /\ ~EndsInsideBlock => out = plain

Verdict == (dpc = "error" => ~Intact) /\ (dpc = "done" /\ Intact => Restored)

RTIInv ==
  /\ Written /\ DecTypeOK /\ Waiting /\ Delivered
  /\ Between /\ Decrypted /\ Scanning /\ AtTrailer /\ Verdict

-----------------------------------------------------------------------------
(* Blocks. *)

\* Numbers of the state that the arithmetic below needs to know are numbers.
LEMMA Numbers ==
  ASSUME Written
  PROVE  /\ pos \in Nat /\ Len(plain) \in Nat /\ pos <= Len(plain)
         /\ Len(blocks) \in Nat /\ Len(cipher) \in Nat /\ Len(buf) \in 0..(BlockSize - 1)
         /\ BlockSize \in Nat /\ BlockSize > 0
         /\ ChunkStart \in 0..pos
         /\ plain \in Seq(Byte) /\ plain # <<>>
<1>1. EncTypeOK /\ HistoryOK
  BY DEF Written, EncIInv
<1>2. plain \in Seq(Byte) /\ plain # <<>>
  BY <1>1, PlainsAreBytes, PlainsNotEmpty DEF EncTypeOK
<1>3. pos \in 0..Len(plain) /\ Len(buf) \in Nat /\ Len(buf) < BlockSize /\ Len(cipher) \in Nat
  BY <1>1 DEF EncTypeOK
<1> QED
  BY <1>1, <1>2, <1>3, ByteFacts, BlockParams DEF Written

LEMMA BlockFacts ==
  ASSUME Written, NEW n \in 1..Len(blocks)
  PROVE  /\ blocks[n].start \in Nat /\ blocks[n].from \in Nat /\ blocks[n].to \in Nat
         /\ Size(n) \in 1..BlockSize
         /\ WellCut(n)
<1>1. blocks[n] \in Held
  BY DEF Written
<1>2. blocks[n].start \in Nat /\ blocks[n].from \in Nat /\ blocks[n].to \in Nat
  BY <1>1 DEF Held
<1>3. WellCut(n)
  BY DEF Written, AllCut
<1>4. Size(n) \in 1..BlockSize
  <2>1. blocks[n].from < blocks[n].to /\ Size(n) <= BlockSize
    BY <1>3 DEF WellCut
  <2> QED
    BY <1>2, <2>1, Numbers DEF Size
<1> QED
  BY <1>2, <1>3, <1>4

\* A chunk starts no later than its next block.
LEMMA StartBeforeTo ==
  ASSUME Written, NEW n \in 0..Len(blocks)
  PROVE  NextStart(n) \in Nat /\ To(n) \in 0..pos /\ NextStart(n) <= To(n)
<1>1. CASE n = 0
  BY <1>1, Numbers DEF NextStart, To
<1>2. CASE n # 0
  <2>1. n \in 1..Len(blocks)
    BY <1>2, Numbers
  <2>2. /\ blocks[n].start \in Nat /\ blocks[n].from \in Nat /\ blocks[n].to \in Nat
        /\ blocks[n].start <= blocks[n].from /\ blocks[n].from < blocks[n].to /\ blocks[n].to <= pos
    BY <2>1, BlockFacts DEF WellCut
  <2>3. NextStart(n) \in {blocks[n].start, blocks[n].to} /\ To(n) = blocks[n].to
    BY <1>2 DEF NextStart, To
  <2> QED
    BY <2>2, <2>3, Numbers, SMTT(30)
<1> QED
  BY <1>1, <1>2

\* What a block holds: its bytes of plain, then zeros.
LEMMA ContentFacts ==
  ASSUME Written, NEW n \in 1..Len(blocks)
  PROVE  /\ Content(n) \in Block
         /\ \A j \in 1..BlockSize :
              Content(n)[j] = IF j <= Size(n) THEN plain[blocks[n].from + j] ELSE 0
<1> DEFINE b == blocks[n]
           data == SubSeq(plain, b.from + 1, b.to)
<1>1. /\ b.from \in Nat /\ b.to \in Nat /\ b.from < b.to /\ b.to <= Len(plain)
      /\ b.to - b.from <= BlockSize /\ Size(n) = b.to - b.from
  BY BlockFacts, Numbers, SMTT(30) DEF WellCut, Size
<1>2. plain \in Seq(Byte)
  BY Numbers
<1> HIDE DEF b
<1>3. /\ data \in Seq(Byte) /\ Len(data) = b.to - b.from
      /\ \A j \in 1..Len(data) : data[j] = plain[b.from + j]
  <2>1. b.to <= Len(plain) /\ b.from <= b.to
    BY <1>1
  <2>2. /\ data \in Seq(Byte) /\ Len(data) = b.to - b.from
        /\ \A j \in 1..(b.to - b.from) : data[j] = plain[b.from + j]
    BY <1>1, <1>2, <2>1, Slice, SMTT(30)
  <2> QED
    BY <2>2
<1>4. Content(n) = PadBlock(data)
  BY DEF Content, b
<1> HIDE DEF data
<1>5. Content(n) \in Block
  BY <1>1, <1>3, <1>4, PadBlockType
<1>6. ASSUME NEW j \in 1..BlockSize
      PROVE  Content(n)[j] = IF j <= Size(n) THEN plain[b.from + j] ELSE 0
  <2>1. Content(n)[j] = IF j <= Size(n) THEN data[j] ELSE 0
    BY <1>1, <1>3, <1>4 DEF PadBlock
  <2>2. j <= Size(n) => data[j] = plain[b.from + j]
    BY <1>1, <1>3
  <2> QED
    BY <2>1, <2>2
<1> QED
  BY <1>5, <1>6 DEF b

-----------------------------------------------------------------------------
(* Encryption only adds to what it has written. *)

Grows ==
  /\ plain' = plain /\ pos <= pos' /\ pos' \in Nat
  /\ Len(blocks) <= Len(blocks')
  /\ \A n \in 1..Len(blocks) : blocks'[n] = blocks[n] /\ cipher'[n] = cipher[n]
  /\ \A s \in Nat : \A p \in s..pos : ContentBoundary(s, p)' <=> ContentBoundary(s, p)

LEMMA KeptPlaces ==
  ASSUME Written, Grows, NEW n \in 0..Len(blocks)
  PROVE  To(n)' = To(n) /\ NextStart(n)' = NextStart(n) /\ Chain(n)' = Chain(n)
<1>1. CASE n = 0
  BY <1>1 DEF To, NextStart, Chain
<1>2. CASE n # 0
  <2>1. n \in 1..Len(blocks) /\ blocks'[n] = blocks[n] /\ cipher'[n] = cipher[n]
    BY <1>2, Numbers DEF Grows
  <2>2. blocks[n].start \in Nat /\ blocks[n].to \in blocks[n].start..pos
    <3>1. /\ blocks[n].start \in Nat /\ blocks[n].from \in Nat /\ blocks[n].to \in Nat
          /\ blocks[n].start <= blocks[n].from /\ blocks[n].from < blocks[n].to /\ blocks[n].to <= pos
      BY <2>1, BlockFacts DEF WellCut
    <3> QED
      BY <3>1, Numbers
  <2>3. ContentBoundary(blocks[n].start, blocks[n].to)'
          <=> ContentBoundary(blocks[n].start, blocks[n].to)
    <3>1. \A s \in Nat : \A p \in s..pos : ContentBoundary(s, p)' <=> ContentBoundary(s, p)
      BY DEF Grows
    <3> QED
      BY <2>1, <2>2, <3>1 DEF ContentBoundary, WindowTotal
  <2>4. To(n)' = To(n) /\ NextStart(n)' = NextStart(n)
    BY <1>2, <2>1, <2>3 DEF To, NextStart
  <2> QED
    BY <2>1, <2>4 DEF Chain
<1> QED
  BY <1>1, <1>2

LEMMA KeptBlocks ==
  ASSUME Written, Grows, epc = "loop", NEW n \in 1..Len(blocks)
  PROVE  WellCut(n)'
<1>1. blocks'[n] = blocks[n] /\ cipher'[n] = cipher[n] /\ plain' = plain /\ pos <= pos' /\ pos' \in Nat
  BY DEF Grows
<1>2. n - 1 \in 0..Len(blocks)
  BY Numbers
<1>3. To(n - 1)' = To(n - 1) /\ NextStart(n - 1)' = NextStart(n - 1) /\ Chain(n - 1)' = Chain(n - 1)
  BY <1>2, KeptPlaces
<1>4. WellCut(n) /\ ~Left(n)
  BY BlockFacts DEF Left
<1>5. /\ blocks[n].start \in Nat /\ blocks[n].from \in Nat /\ blocks[n].to \in Nat
      /\ blocks[n].start <= blocks[n].from /\ blocks[n].from < blocks[n].to /\ blocks[n].to <= pos
      /\ pos \in Nat
  BY BlockFacts, Numbers DEF WellCut
<1>6. PICK b : b = blocks[n]
  OBVIOUS
<1>7. \A p \in (b.from + 1)..b.to : ContentBoundary(b.start, p)' <=> ContentBoundary(b.start, p)
  <2>1. b.start \in Nat /\ \A p \in (b.from + 1)..b.to : p \in b.start..pos
    BY <1>5, <1>6
  <2> QED
    BY <2>1 DEF Grows
<1>8. Content(n)' = Content(n) /\ Size(n)' = Size(n)
  BY <1>1 DEF Content, Size
<1>9. /\ b.start = NextStart(n - 1) /\ b.from = To(n - 1)
      /\ Size(n) <= BlockSize
      /\ \A p \in (b.from + 1)..(b.to - 1) : ~ContentBoundary(b.start, p)
      /\ Size(n) = BlockSize \/ ContentBoundary(b.start, b.to)
      /\ cipher[n] = Append(Chain(n - 1), Content(n))
  BY <1>4, <1>6 DEF WellCut
<1>10. /\ \A p \in (b.from + 1)..(b.to - 1) : ~ContentBoundary(b.start, p)'
       /\ ContentBoundary(b.start, b.to) => ContentBoundary(b.start, b.to)'
  <2>1. b.to \in (b.from + 1)..b.to /\ \A p \in (b.from + 1)..(b.to - 1) : p \in (b.from + 1)..b.to
    BY <1>5, <1>6
  <2> QED
    BY <1>7, <1>9, <2>1
<1>11. blocks'[n] = b /\ b.to <= pos' /\ b.start <= b.from /\ b.from < b.to
  BY <1>1, <1>5, <1>6
<1> QED
  BY <1>1, <1>3, <1>8, <1>9, <1>10, <1>11 DEF WellCut, ContentBoundary, WindowTotal

\* A turn of encrypt_file's loop, in terms of the blocks.
LEMMA ByteTurn ==
  ASSUME Written, EncryptByte, NEW s, s = ChunkStart
  PROVE  /\ epc = "loop" /\ epc' = "loop" /\ pos < Len(plain)
         /\ pos' = pos + 1 /\ plain' = plain /\ ThisByte \in Byte
         /\ newBlock' \in BOOLEAN
         /\ newBlock' <=> ContentBoundary(s, pos)'
         /\ ChunkStart' = IF newBlock' THEN pos + 1 ELSE s
         /\ IF Len(buf) + 1 = BlockSize \/ newBlock'
              THEN /\ buf' = <<>>
                   /\ cbc' = Append(Chain(Len(blocks)), PadBlock(Append(buf, ThisByte)))
                   /\ cipher' = Append(cipher, cbc')
              ELSE buf' = Append(buf, ThisByte) /\ cbc' = Chain(Len(blocks)) /\ cipher' = cipher
<1>1. EncIInv /\ EncTypeOK /\ HistoryOK /\ epc = "loop" /\ epc' = "loop"
  BY DEF Written, EncIInv, EncryptByte
<1>2. /\ pos < Len(plain) /\ ThisByte \in Byte /\ pos' = pos + 1 /\ plain' = plain
  BY <1>1, ByteHistory
<1>3. newBlock' <=> ContentBoundary(s, pos)'
  BY <1>1, BoundaryByContent
<1>4. ChunkStart' = IF newBlock' THEN pos + 1 ELSE s
  BY <1>1, CutsGrow DEF ChunkStart
<1>5. ChunkBase(newBlock, cbc) = Chain(Len(blocks))
  BY <1>1 DEF Written, Filling
<1>6. PICK block : block = Append(buf, ThisByte)
  OBVIOUS
<1>7. PICK r : r = CalcBoundry(ChunkRoll(newBlock, roll), ThisByte)
  OBVIOUS
<1>8. /\ newBlock' = AtBoundry(r)
      /\ IF BlockDone(block, r)
           THEN /\ cbc' = Append(Chain(Len(blocks)), PadBlock(block))
                /\ cipher' = Append(cipher, cbc') /\ buf' = <<>>
           ELSE cbc' = Chain(Len(blocks)) /\ buf' = block /\ cipher' = cipher
  BY <1>5, <1>6, <1>7 DEF EncryptByte, ThisByte
<1>9. BlockDone(block, r) <=> Len(buf) + 1 = BlockSize \/ newBlock'
  <2>1. Len(block) = Len(buf) + 1 /\ Len(buf) \in 0..(BlockSize - 1) /\ BlockSize \in Nat
    BY <1>1, <1>2, <1>6, Numbers DEF EncTypeOK
  <2>2. Len(block) >= BlockSize <=> Len(buf) + 1 = BlockSize
    BY <2>1
  <2>3. newBlock' <=> AtBoundry(r)
    BY <1>8
  <2> QED
    BY <2>2, <2>3 DEF BlockDone
<1>10. newBlock' \in BOOLEAN
  BY <1>8 DEF AtBoundry
<1> QED
  BY <1>1, <1>2, <1>3, <1>4, <1>6, <1>8, <1>9, <1>10

\* The block that EncryptByte fills, and EncryptTail when something is left.
LastHeld == [start |-> ChunkStart, from |-> pos - Len(buf), to |-> pos']

LEMMA LastHeldType ==
  ASSUME Written, epc = "loop", pos' \in Nat
  PROVE  LastHeld \in Held /\ pos - Len(buf) \in 0..pos
<1>1. pos - Len(buf) \in 0..pos
  <2>1. To(Len(blocks)) = pos - Len(buf)
    BY DEF Written, Filling
  <2>2. Len(blocks) \in 0..Len(blocks)
    BY Numbers
  <2> QED
    BY <2>1, <2>2, StartBeforeTo
<1> QED
  BY <1>1, Numbers DEF LastHeld, Held

LEMMA ByteGrows ==
  ASSUME Written, EncryptByte, blocks' \in {blocks, Append(blocks, LastHeld)}
  PROVE  Grows
<1>1. EncTypeOK /\ HistoryOK
  BY DEF Written, EncIInv
<1>2. epc = "loop" /\ plain' = plain /\ pos' = pos + 1 /\ pos \in Nat
  BY ByteTurn, Numbers
<1>3. cipher' = cipher \/ cipher' = Append(cipher, cbc')
  BY ByteTurn
<1>4. Len(cipher) = Len(blocks) /\ cipher \in Seq(Seq(Block)) /\ blocks \in Seq(Held)
  BY <1>1, <1>2 DEF Written, Filling, EncTypeOK
<1>5. Len(blocks) <= Len(blocks') /\ \A n \in 1..Len(blocks) : blocks'[n] = blocks[n]
  <2> DEFINE h == LastHeld
  <2>1. blocks' = blocks \/ blocks' = Append(blocks, h)
    OBVIOUS
  <2>2. h \in Held
    BY <1>2, LastHeldType
  <2> HIDE DEF h
  <2>3. Len(Append(blocks, h)) = Len(blocks) + 1 /\ \A n \in 1..Len(blocks) : Append(blocks, h)[n] = blocks[n]
    BY <1>4, <2>2, AppendProperties
  <2>4. Len(blocks) \in Nat
    BY Numbers
  <2>5. CASE blocks' = blocks
    BY <2>4, <2>5
  <2>6. CASE blocks' = Append(blocks, h)
    BY <2>3, <2>4, <2>6
  <2> QED
    BY <2>1, <2>5, <2>6
<1>6. \A n \in 1..Len(blocks) : cipher'[n] = cipher[n]
  <2>1. EncTypeOK'
    BY <1>1, EncTypeByte
  <2>2. cbc' \in Seq(Block)
    BY <2>1 DEF EncTypeOK
  <2>3. \A n \in 1..Len(cipher) : Append(cipher, cbc')[n] = cipher[n]
    BY <1>4, <2>2, AppendProperties
  <2> QED
    BY <1>3, <1>4, <2>3
<1>7. \A s \in Nat : \A p \in s..pos : ContentBoundary(s, p)' <=> ContentBoundary(s, p)
  BY <1>1, ContentBoundaryKept
<1> QED
  BY <1>2, <1>5, <1>6, <1>7 DEF Grows

\* What the buffer and one more byte hold is a slice of plain.
LEMMA BufferIsSlice ==
  ASSUME Written, epc = "loop"
  PROVE  /\ buf = SubSeq(plain, pos - Len(buf) + 1, pos)
         /\ pos < Len(plain) => Append(buf, ThisByte) = SubSeq(plain, pos - Len(buf) + 1, pos + 1)
<1>1. PICK a : a = pos - Len(buf)
  OBVIOUS
<1>2. /\ buf \in Seq(Byte) /\ plain \in Seq(Byte) /\ Len(buf) \in Nat
      /\ pos \in Nat /\ pos <= Len(plain)
  BY Numbers DEF Written, EncIInv, EncTypeOK
<1>3. a \in Nat /\ a <= pos /\ a + Len(buf) = pos /\ pos - a = Len(buf)
  <2>1. To(Len(blocks)) = pos - Len(buf) /\ Len(blocks) \in 0..Len(blocks)
    BY Numbers DEF Written, Filling
  <2>2. To(Len(blocks)) \in 0..pos
    BY <2>1, StartBeforeTo
  <2> QED
    BY <1>1, <1>2, <2>1, <2>2
<1>4. \A j \in 1..Len(buf) : buf[j] = plain[a + j]
  BY <1>1 DEF Written, Filling
<1>5. buf = SubSeq(plain, a + 1, pos)
  <2>1. PICK t : t = SubSeq(plain, a + 1, pos)
    OBVIOUS
  <2>2. t \in Seq(Byte) /\ Len(t) = pos - a /\ \A j \in 1..(pos - a) : t[j] = plain[a + j]
    BY <1>2, <1>3, <2>1, Slice
  <2>3. Len(t) = Len(buf) /\ \A j \in 1..Len(buf) : t[j] = buf[j]
    BY <1>3, <1>4, <2>2
  <2> QED
    BY <1>2, <2>1, <2>2, <2>3, SeqEqual
<1>6. ASSUME pos < Len(plain) PROVE Append(buf, ThisByte) = SubSeq(plain, a + 1, pos + 1)
  <2>1. PICK t : t = SubSeq(plain, a + 1, pos + 1)
    OBVIOUS
  <2>2. /\ t \in Seq(Byte) /\ Len(t) = pos + 1 - a
        /\ \A j \in 1..(pos + 1 - a) : t[j] = plain[a + j]
    <3>1. pos + 1 \in Nat /\ a <= pos + 1 /\ pos + 1 <= Len(plain)
      BY <1>2, <1>3, <1>6
    <3> QED
      BY <1>2, <1>3, <2>1, <3>1, Slice
  <2>3. PICK u : u = Append(buf, ThisByte)
    OBVIOUS
  <2>4. ThisByte \in Byte /\ ThisByte = plain[pos + 1]
    BY <1>2, <1>6 DEF ThisByte
  <2>5. /\ u \in Seq(Byte) /\ Len(u) = Len(buf) + 1
        /\ \A j \in 1..Len(buf) : u[j] = buf[j]
        /\ u[Len(buf) + 1] = plain[pos + 1]
    BY <1>2, <2>3, <2>4
  <2>6. Len(t) = Len(u) /\ \A j \in 1..Len(u) : t[j] = u[j]
    <3>1. pos + 1 - a = Len(buf) + 1 /\ a + (Len(buf) + 1) = pos + 1
      BY <1>2, <1>3
    <3>2. \A j \in 1..(Len(buf) + 1) : j \in 1..Len(buf) \/ j = Len(buf) + 1
      BY <1>2
    <3>3. \A j \in 1..(Len(buf) + 1) : t[j] = u[j]
      BY <1>4, <2>2, <2>5, <3>1, <3>2
    <3> QED
      BY <2>2, <2>5, <3>1, <3>3
  <2> QED
    BY <2>1, <2>2, <2>3, <2>5, <2>6, SeqEqual
<1> QED
  BY <1>1, <1>5, <1>6

\* A block that takes in the buffer is cut where it should be.
LEMMA NewBlock ==
  ASSUME Written, epc = "loop", Grows, EncTypeOK', NEW h \in Held, h = LastHeld,
         NEW N, N = Len(blocks),
         blocks' = Append(blocks, h), h.from < h.to, h.to - h.from <= BlockSize,
         cipher'[N + 1] = Append(Chain(N), PadBlock(SubSeq(plain, h.from + 1, h.to))),
         \A p \in (h.from + 1)..(h.to - 1) : ~ContentBoundary(h.start, p)',
         \/ h.to - h.from = BlockSize \/ ContentBoundary(h.start, h.to)'
         \/ epc' = "done" /\ buf' # <<>>
  PROVE  AllCut' /\ Len(blocks') = N + 1 /\ blocks'[N + 1] = h
<1>1. N \in Nat /\ N \in 0..N /\ N + 1 - 1 = N
  BY Numbers
<1>2. blocks \in Seq(Held)
  BY DEF Written
<1>3. Len(blocks') = N + 1 /\ blocks'[N + 1] = h
  BY <1>2, AppendProperties
<1>4. To(N)' = To(N) /\ NextStart(N)' = NextStart(N) /\ Chain(N)' = Chain(N)
  BY <1>1, KeptPlaces
<1>5. h.start = NextStart(N) /\ h.from = To(N) /\ h.to = pos'
  BY DEF Written, Filling, LastHeld
<1>6. h.start <= h.from
  BY <1>1, <1>5, StartBeforeTo
<1>7. Content(N + 1)' = PadBlock(SubSeq(plain, h.from + 1, h.to)) /\ Size(N + 1)' = h.to - h.from
  BY <1>3 DEF Content, Size, Grows
<1>8. h.to <= pos'
  BY <1>5 DEF Grows
<1>9. Left(N + 1)' <=> epc' = "done" /\ buf' # <<>>
  BY <1>3 DEF Left
<1>10. WellCut(N + 1)'
  BY <1>1, <1>3, <1>4, <1>5, <1>6, <1>7, <1>8, <1>9 DEF WellCut, ContentBoundary, WindowTotal
<1>11. ASSUME NEW n \in 1..(N + 1) PROVE WellCut(n)'
  <2>1. n \in 1..N \/ n = N + 1
    BY <1>1
  <2> QED
    BY <1>10, <2>1, KeptBlocks
<1> QED
  BY <1>3, <1>11 DEF AllCut

LEMMA WrittenByte ==
  ASSUME Written, EncryptByte,
         blocks' = IF buf' = <<>> THEN Append(blocks, LastHeld) ELSE blocks
  PROVE  Written'
<1>1. PICK s : s = ChunkStart
  OBVIOUS
<1>2. PICK N : N = Len(blocks)
  OBVIOUS
<1>3. PICK h : h = LastHeld
  OBVIOUS
<1>4. PICK l : l = Len(buf)
  OBVIOUS
<1>5. /\ epc = "loop" /\ epc' = "loop" /\ pos < Len(plain)
      /\ pos' = pos + 1 /\ plain' = plain /\ ThisByte \in Byte
      /\ newBlock' \in BOOLEAN
      /\ newBlock' <=> ContentBoundary(s, pos)'
      /\ ChunkStart' = IF newBlock' THEN pos + 1 ELSE s
      /\ IF l + 1 = BlockSize \/ newBlock'
           THEN /\ buf' = <<>>
                /\ cbc' = Append(Chain(N), PadBlock(Append(buf, ThisByte)))
                /\ cipher' = Append(cipher, cbc')
           ELSE buf' = Append(buf, ThisByte) /\ cbc' = Chain(N) /\ cipher' = cipher
  BY <1>1, <1>2, <1>4, ByteTurn
<1>6. EncIInv' /\ EncTypeOK'
  BY <1>5, EncIInvStep DEF EncNext, Written, EncIInv
<1>7. /\ pos \in Nat /\ N \in Nat /\ N \in 0..N /\ l \in 0..(BlockSize - 1) /\ BlockSize \in Nat
      /\ pos' \in Nat /\ s \in 0..pos
  BY <1>1, <1>2, <1>4, <1>5, Numbers, SMTT(30)
<1>8. /\ h \in Held /\ h.start = s /\ h.from = pos - l /\ h.to = pos + 1
      /\ pos - l \in 0..pos
  BY <1>1, <1>3, <1>4, <1>5, <1>7, LastHeldType DEF LastHeld
<1>9. /\ Len(cipher) = N /\ To(N) = pos - l /\ NextStart(N) = s
      /\ \A p \in (pos - l + 1)..pos : ~ContentBoundary(s, p)
      /\ \A j \in 1..l : buf[j] = plain[pos - l + j]
      /\ blocks \in Seq(Held) /\ cipher \in Seq(Seq(Block)) /\ buf \in Seq(Byte)
  BY <1>1, <1>2, <1>4, <1>5 DEF Written, Filling, EncIInv, EncTypeOK
<1>10. Grows
  BY ByteGrows
<1>11. To(N)' = To(N) /\ NextStart(N)' = NextStart(N) /\ Chain(N)' = Chain(N)
  BY <1>2, <1>7, <1>10, KeptPlaces
<1>12. \A p \in (pos - l + 1)..pos : ~ContentBoundary(s, p)'
  <2>1. s \in Nat /\ s <= pos - l
    BY <1>2, <1>7, <1>9, StartBeforeTo
  <2>2. \A p \in (pos - l + 1)..pos : p \in s..pos
    BY <1>7, <1>8, <2>1
  <2> QED
    BY <1>9, <1>10, <2>1, <2>2 DEF Grows
<1>13. Append(buf, ThisByte) = SubSeq(plain, pos - l + 1, pos + 1)
  BY <1>4, <1>5, BufferIsSlice
<1>14. CASE l + 1 = BlockSize \/ newBlock'
  <2>1. /\ buf' = <<>> /\ blocks' = Append(blocks, h)
        /\ cipher' = Append(cipher, cbc')
        /\ cbc' = Append(Chain(N), PadBlock(SubSeq(plain, h.from + 1, h.to)))
    BY <1>3, <1>5, <1>8, <1>13, <1>14
  <2>2. cipher'[N + 1] = cbc' /\ Len(cipher') = N + 1
    <3>1. cbc' \in Seq(Block)
      BY <1>6 DEF EncTypeOK
    <3> QED
      BY <1>9, <2>1, <3>1, AppendProperties
  <2>3. h.from < h.to /\ h.to - h.from = l + 1 /\ l + 1 <= BlockSize
    BY <1>7, <1>8
  <2>4. \A p \in (h.from + 1)..(h.to - 1) : ~ContentBoundary(h.start, p)'
    <3>1. h.to - 1 = pos
      BY <1>7, <1>8
    <3> QED
      BY <1>8, <1>12, <3>1
  <2>5. ContentBoundary(h.start, h.to)' <=> newBlock'
    BY <1>5, <1>8 DEF ContentBoundary, WindowTotal
  <2>6. AllCut' /\ Len(blocks') = N + 1 /\ blocks'[N + 1] = h
    <3>1. h.to - h.from = BlockSize \/ ContentBoundary(h.start, h.to)'
      BY <1>14, <2>3, <2>5
    <3>2. cipher'[N + 1] = Append(Chain(N), PadBlock(SubSeq(plain, h.from + 1, h.to)))
      BY <2>1, <2>2
    <3> QED
      BY <1>2, <1>3, <1>5, <1>6, <1>8, <1>10, <2>1, <2>3, <2>4, <3>1, <3>2, NewBlock
  <2>7. To(N + 1)' = pos + 1 /\ N + 1 # 0
    BY <1>7, <1>8, <2>6 DEF To
  <2>8. NextStart(N + 1)' = IF newBlock' THEN pos + 1 ELSE s
    <3>1. NextStart(N + 1)' = IF ContentBoundary(h.start, h.to)' THEN h.to ELSE h.start
      BY <2>6, <2>7 DEF NextStart, ContentBoundary, WindowTotal
    <3> QED
      BY <1>8, <2>5, <3>1
  <2>9. ChunkBase(newBlock, cbc)' = Chain(N + 1)'
    <3>1. CASE newBlock'
      BY <2>7, <2>8, <3>1 DEF ChunkBase, Chain
    <3>2. CASE ~newBlock'
      <4>1. NextStart(N + 1)' # To(N + 1)'
        BY <1>7, <2>7, <2>8, <3>2
      <4> QED
        BY <2>2, <3>2, <4>1 DEF ChunkBase, Chain
    <3> QED
      BY <3>1, <3>2
  <2>10. Len(buf') = 0 /\ pos' - 0 = pos + 1
    BY <1>5, <1>7, <2>1
  <2>11. Filling'
    <3>1. /\ Len(cipher') = Len(blocks') /\ Len(blocks') = N + 1
          /\ To(N + 1)' = pos' - Len(buf')
          /\ NextStart(N + 1)' = ChunkStart'
          /\ \A j \in 1..Len(buf') : FALSE
          /\ \A p \in (pos' - Len(buf') + 1)..pos' : FALSE
      BY <1>5, <1>7, <2>2, <2>6, <2>7, <2>8, <2>10
    <3> QED
      BY <2>9, <3>1 DEF Filling
  <2>12. blocks' \in Seq(Held)
    BY <1>8, <1>9, <2>1
  <2> QED
    BY <1>5, <1>6, <2>6, <2>11, <2>12 DEF Written, Finished
<1>15. CASE ~(l + 1 = BlockSize \/ newBlock')
  <2>1. buf' = Append(buf, ThisByte) /\ cbc' = Chain(N) /\ cipher' = cipher /\ ~newBlock'
    BY <1>5, <1>15
  <2>2. /\ Len(buf') = l + 1 /\ \A j \in 1..l : buf'[j] = buf[j]
        /\ buf'[l + 1] = ThisByte
    BY <1>4, <1>5, <1>9, <2>1, AppendProperties
  <2>3. blocks' = blocks
    <3>1. buf' # <<>>
      BY <1>5, <1>9, <2>1, AppendProperties
    <3> QED
      BY <3>1
  <2>4. AllCut'
    BY <1>2, <1>5, <1>10, <2>3, KeptBlocks DEF AllCut
  <2>5. pos' - Len(buf') = pos - l
    BY <1>5, <1>7, <2>2
  <2>6. \A j \in 1..(l + 1) : buf'[j] = plain'[pos - l + j]
    <3> SUFFICES ASSUME NEW j \in 1..(l + 1) PROVE buf'[j] = plain[pos - l + j]
      BY <1>5
    <3>1. CASE j = l + 1
      <4>1. pos - l + j = pos + 1
        BY <1>7, <3>1
      <4> QED
        BY <2>2, <3>1, <4>1 DEF ThisByte
    <3>2. CASE j # l + 1
      <4>1. j \in 1..l
        BY <1>7, <3>2
      <4> QED
        BY <1>9, <2>2, <4>1
    <3> QED
      BY <3>1, <3>2
  <2>7. \A p \in (pos - l + 1)..(pos + 1) : ~ContentBoundary(s, p)'
    <3> SUFFICES ASSUME NEW p \in (pos - l + 1)..(pos + 1) PROVE ~ContentBoundary(s, p)'
      BY <1>5 DEF ContentBoundary, WindowTotal
    <3>1. CASE p = pos + 1
      BY <1>5, <2>1, <3>1 DEF ContentBoundary, WindowTotal
    <3>2. CASE p # pos + 1
      <4>1. p \in (pos - l + 1)..pos
        BY <1>7, <1>8, <3>2
      <4> QED
        BY <1>12, <4>1
    <3> QED
      BY <3>1, <3>2
  <2>8. Filling'
    <3>1. /\ Len(cipher') = Len(blocks') /\ Len(blocks') = N
          /\ To(N)' = pos' - Len(buf')
          /\ NextStart(N)' = ChunkStart' /\ ChunkStart' = s
      BY <1>2, <1>5, <1>9, <1>11, <2>1, <2>3, <2>5
    <3>2. ChunkBase(newBlock, cbc)' = Chain(N)'
      BY <1>11, <2>1 DEF ChunkBase
    <3>3. \A p \in (pos' - Len(buf') + 1)..pos' : ~ContentBoundary(s, p)'
      BY <1>5, <2>5, <2>7
    <3>4. \A j \in 1..Len(buf') : buf'[j] = plain'[pos' - Len(buf') + j]
      BY <2>2, <2>5, <2>6
    <3> QED
      BY <3>1, <3>2, <3>3, <3>4 DEF Filling, ContentBoundary, WindowTotal
  <2> QED
    BY <1>5, <1>6, <1>9, <2>3, <2>4, <2>8 DEF Written, Finished
<1> QED
  BY <1>14, <1>15

LEMMA WrittenTail ==
  ASSUME Written, EncryptTail,
         blocks' = IF buf # <<>> THEN Append(blocks, LastHeld) ELSE blocks
  PROVE  Written'
<1>1. PICK N : N = Len(blocks)
  OBVIOUS
<1>2. PICK h : h = LastHeld
  OBVIOUS
<1>3. PICK l : l = Len(buf)
  OBVIOUS
<1>4. PICK t : t = <<Trailer(l)>>
  OBVIOUS
<1>5. /\ epc = "loop" /\ epc' = "done" /\ pos = Len(plain) /\ pos' = pos
      /\ plain' = plain /\ buf' = buf /\ sums' = sums /\ cbc' = t
  BY <1>3, <1>4 DEF EncryptTail
<1>6. EncIInv' /\ EncTypeOK' /\ EncTypeOK /\ HistoryOK
  BY EncIInvStep DEF EncNext, Written, EncIInv
<1>7. /\ pos \in Nat /\ N \in Nat /\ N \in 0..N /\ l \in 0..(BlockSize - 1) /\ BlockSize \in Nat
      /\ pos' \in Nat /\ pos > 0
  <2>1. Len(plain) > 0
    BY Numbers
  <2> QED
    BY <1>1, <1>3, <1>5, <2>1, Numbers
<1>8. /\ h \in Held /\ h.start = ChunkStart /\ h.from = pos - l /\ h.to = pos
      /\ pos - l \in 0..pos
  BY <1>2, <1>3, <1>5, <1>7, LastHeldType DEF LastHeld
<1>9. /\ Len(cipher) = N /\ To(N) = pos - l /\ NextStart(N) = ChunkStart
      /\ ChunkBase(newBlock, cbc) = Chain(N)
      /\ \A p \in (pos - l + 1)..pos : ~ContentBoundary(ChunkStart, p)
      /\ blocks \in Seq(Held) /\ cipher \in Seq(Seq(Block)) /\ buf \in Seq(Byte)
  BY <1>1, <1>3, <1>5, <1>6 DEF Written, Filling, EncTypeOK
<1>10. t \in Seq(Block)
  BY <1>5, <1>6 DEF EncTypeOK
<1>11. /\ \A n \in 1..N : cipher'[n] = cipher[n]
       /\ IF buf = <<>>
            THEN Len(cipher') = N + 1 /\ cipher'[N + 1] = t
            ELSE /\ Len(cipher') = N + 2 /\ cipher'[N + 2] = t
                 /\ cipher'[N + 1] = Append(cbc, PadBlock(buf))
  <2>1. PICK c : c = Append(cbc, PadBlock(buf))
    OBVIOUS
  <2>2. c \in Seq(Block)
    <3>1. PadBlock(buf) \in Block /\ cbc \in Seq(Block)
      BY <1>3, <1>6, <1>7, <1>9, PadBlockType DEF EncTypeOK
    <3> QED
      BY <2>1, <3>1
  <2>3. cipher' = (cipher \o (IF buf = <<>> THEN <<>> ELSE <<c>>)) \o <<t>>
    BY <1>3, <1>4, <2>1 DEF EncryptTail
  <2>4. CASE buf = <<>>
    <3>1. cipher' = cipher \o <<t>>
      BY <1>9, <2>3, <2>4, ConcatEmptySeq
    <3>2. cipher' = Append(cipher, t)
      BY <1>9, <1>10, <3>1, AppendIsConcat
    <3> QED
      BY <1>9, <1>10, <2>4, <3>2, AppendProperties
  <2>5. CASE buf # <<>>
    <3>1. PICK d : d = Append(cipher, c)
      OBVIOUS
    <3>2. /\ d \in Seq(Seq(Block)) /\ Len(d) = N + 1 /\ d[N + 1] = c
          /\ \A n \in 1..N : d[n] = cipher[n]
      BY <1>9, <2>2, <3>1, AppendProperties
    <3>3. cipher' = d \o <<t>>
      BY <1>9, <2>2, <2>3, <2>5, <3>1, AppendIsConcat
    <3>4. cipher' = Append(d, t)
      BY <1>10, <3>2, <3>3, AppendIsConcat
    <3>5. /\ Len(cipher') = N + 1 + 1 /\ cipher'[N + 1 + 1] = t
          /\ \A n \in 1..(N + 1) : cipher'[n] = d[n]
      BY <1>10, <3>2, <3>4, AppendProperties
    <3> QED
      BY <1>7, <2>1, <2>5, <3>2, <3>5
  <2> QED
    BY <2>4, <2>5
<1>12. Grows
  <2>1. Len(blocks) <= Len(blocks') /\ \A n \in 1..N : blocks'[n] = blocks[n]
    <3>1. Len(Append(blocks, h)) = N + 1 /\ \A n \in 1..N : Append(blocks, h)[n] = blocks[n]
      BY <1>1, <1>8, <1>9, AppendProperties
    <3>2. CASE buf = <<>>
      BY <1>1, <1>7, <3>2
    <3>3. CASE buf # <<>>
      BY <1>1, <1>2, <1>7, <3>1, <3>3
    <3> QED
      BY <3>2, <3>3
  <2>2. \A s \in Nat : \A p \in s..pos : ContentBoundary(s, p)' <=> ContentBoundary(s, p)
    BY <1>5 DEF ContentBoundary, WindowTotal
  <2> QED
    BY <1>1, <1>5, <1>7, <1>11, <2>1, <2>2 DEF Grows
<1>13. CASE buf = <<>>
  <2>1. l = 0 /\ blocks' = blocks
    BY <1>3, <1>13
  <2>2. AllCut'
    BY <1>1, <1>5, <1>12, <2>1, KeptBlocks DEF AllCut
  <2>3. To(N)' = pos
    BY <1>1, <1>7, <1>9, <1>12, <2>1, KeptPlaces
  <2>4. N > 0
    BY <1>7, <2>3 DEF To
  <2> QED
    BY <1>1, <1>3, <1>4, <1>5, <1>6, <1>9, <1>11, <1>13, <2>1, <2>2, <2>3, <2>4
    DEF Written, Finished, Filling
<1>14. CASE buf # <<>>
  <2>1. l > 0 /\ blocks' = Append(blocks, h)
    <3>1. Len(buf) # 0
      BY <1>9, <1>14
    <3> QED
      BY <1>2, <1>3, <1>7, <1>14, <3>1
  <2>2. cbc = Chain(N)
    <3>1. ChunkStart \in Nat /\ ChunkStart <= pos - l
      BY <1>1, <1>7, <1>9, StartBeforeTo
    <3>2. ChunkStart # pos
      BY <1>7, <2>1, <3>1
    <3>3. ~newBlock
      BY <1>6, <3>2 DEF HistoryOK
    <3> QED
      BY <1>9, <3>3 DEF ChunkBase
  <2>3. buf = SubSeq(plain, h.from + 1, h.to)
    BY <1>3, <1>5, <1>8, BufferIsSlice
  <2>4. h.from < h.to /\ h.to - h.from = l /\ l <= BlockSize
    BY <1>7, <1>8, <2>1
  <2>5. \A p \in (h.from + 1)..(h.to - 1) : ~ContentBoundary(h.start, p)'
    <3>1. \A p \in (h.from + 1)..(h.to - 1) : p \in (pos - l + 1)..pos
      BY <1>7, <1>8
    <3> QED
      BY <1>5, <1>8, <1>9, <3>1 DEF ContentBoundary, WindowTotal
  <2>6. AllCut' /\ Len(blocks') = N + 1 /\ blocks'[N + 1] = h
    <3>1. cipher'[N + 1] = Append(Chain(N), PadBlock(SubSeq(plain, h.from + 1, h.to)))
      BY <1>11, <1>14, <2>2, <2>3
    <3>2. epc' = "done" /\ buf' # <<>>
      BY <1>5, <1>14
    <3> QED
      BY <1>1, <1>2, <1>5, <1>6, <1>8, <1>12, <2>1, <2>4, <2>5, <3>1, <3>2, NewBlock
  <2>7. To(N + 1)' = pos /\ N + 1 > 0 /\ Size(N + 1)' = l
    BY <1>7, <1>8, <2>4, <2>6 DEF To, Size
  <2>8. blocks' \in Seq(Held)
    BY <1>8, <1>9, <2>1
  <2>9. Len(cipher') = N + 1 + 1 /\ cipher'[N + 1 + 1] = t
    BY <1>7, <1>11, <1>14
  <2> QED
    BY <1>3, <1>4, <1>5, <1>6, <2>6, <2>7, <2>8, <2>9
    DEF Written, Finished, Filling
<1> QED
  BY <1>13, <1>14

LEMMA WrittenInit == RTInit => Written
<1> SUFFICES ASSUME RTInit PROVE Written
  OBVIOUS
<1>1. EncInit /\ blocks = <<>> /\ EncIInv
  BY EncIInvInit DEF RTInit
<1>2. epc = "loop" /\ pos = 0 /\ buf = <<>> /\ cipher = <<>> /\ newBlock /\ ChunkStart = 0
  BY <1>1 DEF EncInit, ChunkStart
<1>3. Len(blocks) = 0 /\ Len(buf) = 0 /\ Len(cipher) = 0 /\ blocks \in Seq(Held)
  BY <1>1, <1>2
<1>4. To(0) = 0 /\ NextStart(0) = 0 /\ Chain(0) = <<>>
  BY DEF To, NextStart, Chain
<1>5. Filling
  BY <1>2, <1>3, <1>4 DEF Filling, ChunkBase
<1> QED
  BY <1>1, <1>2, <1>3, <1>5 DEF Written, AllCut, Finished

\* It is not touched by anything else.
LEMMA WrittenKept ==
  ASSUME Written, UNCHANGED <<encVars, blocks>>
  PROVE  /\ Written'
         /\ \A n \in Nat : /\ To(n)' = To(n) /\ NextStart(n)' = NextStart(n) /\ Chain(n)' = Chain(n)
                          /\ Content(n)' = Content(n) /\ Size(n)' = Size(n)
                          /\ Left(n)' = Left(n)
<1>1. EncIInv'
  <2>1. EncIInv /\ UNCHANGED encVars
    BY DEF Written
  <2> QED
    BY <2>1, EncIInvStep
<1>2. /\ plain' = plain /\ pos' = pos /\ buf' = buf /\ epc' = epc /\ cipher' = cipher
      /\ sums' = sums /\ cuts' = cuts /\ newBlock' = newBlock /\ cbc' = cbc /\ blocks' = blocks
  BY DEF encVars
<1>3. \A n \in Nat : /\ To(n)' = To(n) /\ NextStart(n)' = NextStart(n) /\ Chain(n)' = Chain(n)
                    /\ Content(n)' = Content(n) /\ Size(n)' = Size(n) /\ Left(n)' = Left(n)
  BY <1>2 DEF To, NextStart, Chain, Content, Size, Left, ContentBoundary, WindowTotal
<1>4. AllCut'
  <2> SUFFICES ASSUME NEW n \in 1..Len(blocks) PROVE WellCut(n)'
    BY <1>2 DEF AllCut
  <2>1. n \in Nat /\ n - 1 \in Nat /\ WellCut(n)
    BY BlockFacts
  <2> QED
    BY <1>2, <1>3, <2>1 DEF WellCut, ContentBoundary, WindowTotal
<1>5. Filling' /\ Finished'
  <2>1. Len(blocks) \in Nat /\ Len(blocks) + 1 \in Nat
    BY Numbers
  <2> QED
    BY <1>2, <1>3, <2>1
    DEF Written, Filling, Finished, ContentBoundary, WindowTotal, ChunkStart, ChunkBase
<1> QED
  BY <1>1, <1>2, <1>3, <1>4, <1>5 DEF Written

\* encrypt_file keeps account of what it has written.
LEMMA WrittenStep == Written /\ [Encrypt]_rtVars => Written'
<1> SUFFICES ASSUME Written, [Encrypt]_rtVars PROVE Written'
  OBVIOUS
<1>1. CASE Encrypt
  <2>1. CASE EncryptByte
    <3>1. epc' = "loop"
      BY <2>1 DEF EncryptByte
    <3>2. blocks' = IF buf' = <<>> THEN Append(blocks, LastHeld) ELSE blocks
      BY <1>1, <3>1 DEF Encrypt, BlockWritten, LastHeld
    <3> QED
      BY <2>1, <3>2, WrittenByte
  <2>2. CASE EncryptTail
    <3>1. epc' = "done"
      BY <2>2 DEF EncryptTail
    <3>2. blocks' = IF buf # <<>> THEN Append(blocks, LastHeld) ELSE blocks
      BY <1>1, <3>1 DEF Encrypt, BlockWritten, LastHeld
    <3> QED
      BY <2>2, <3>2, WrittenTail
  <2> QED
    BY <1>1, <2>1, <2>2 DEF Encrypt, EncNext
<1>2. CASE UNCHANGED rtVars
  BY <1>2, WrittenKept DEF rtVars
<1> QED
  BY <1>1, <1>2

-----------------------------------------------------------------------------
(* The scan of decrypt_file, over bytes that encryption has read. *)

LEMMA TotalNext ==
  ASSUME Written, NEW p \in Nat, p < pos, NEW s \in 0..p
  PROVE  WindowTotal(s, p + 1) = WindowTotal(s, p) + plain[p + 1]
           - (IF p - s >= SumSpan THEN plain[p - SumSpan + 1] ELSE 0)
<1>1. EncTypeOK /\ HistoryOK
  BY DEF Written, EncIInv
<1>2. /\ pos \in Nat /\ SumSpan \in Nat /\ SumSpan > 0
      /\ \A n \in 1..(pos + 1) : sums[n] \in Nat
      /\ \A n \in 1..pos : sums[n + 1] = sums[n] + plain[n] /\ plain[n] \in Nat
  <2>1. \A n \in 1..pos : n \in 1..Len(plain)
    BY Numbers
  <2> QED
    BY <1>1, <2>1, ByteFacts, RollParams DEF HistoryOK
<1>3. p + 1 \in 1..pos /\ p + 1 \in 1..(pos + 1)
  BY <1>2
<1>4. sums[p + 2] = sums[p + 1] + plain[p + 1] /\ sums[p + 1] \in Nat /\ plain[p + 1] \in Nat
  <2>1. (p + 1) + 1 = p + 2
    OBVIOUS
  <2> QED
    BY <1>2, <1>3, <2>1
<1>5. CASE p - s >= SumSpan
  <2> DEFINE n == p - SumSpan + 1
  <2>1. n \in 1..pos /\ n + 1 \in 1..(pos + 1) /\ n \in 1..(pos + 1)
    BY <1>2, <1>5
  <2>2. sums[n + 1] = sums[n] + plain[n] /\ sums[n] \in Nat /\ plain[n] \in Nat
    BY <1>2, <2>1
  <2>3. WindowTotal(s, p + 1) = sums[p + 2] - sums[n + 1]
    <3>1. /\ (p + 1) - s > SumSpan /\ (p + 1) + 1 = p + 2 /\ (p + 1) - SumSpan + 1 = n + 1
      BY <1>2, <1>5
    <3> QED
      BY <3>1 DEF WindowTotal
  <2>4. WindowTotal(s, p) = sums[p + 1] - sums[n]
    <3>1. (IF p - s > SumSpan THEN p - SumSpan ELSE s) + 1 = n
      BY <1>2, <1>5
    <3> QED
      BY <3>1 DEF WindowTotal
  <2>5. WindowTotal(s, p + 1) = WindowTotal(s, p) + plain[p + 1] - plain[n]
    <3> HIDE DEF n
    <3> QED
      BY <1>4, <2>2, <2>3, <2>4
  <2> QED
    BY <2>5, <1>5
<1>6. CASE ~(p - s >= SumSpan)
  <2>1. WindowTotal(s, p + 1) = sums[p + 2] - sums[s + 1]
    <3>1. ~((p + 1) - s > SumSpan) /\ (p + 1) + 1 = p + 2
      BY <1>2, <1>6
    <3> QED
      BY <3>1 DEF WindowTotal
  <2>2. WindowTotal(s, p) = sums[p + 1] - sums[s + 1]
    BY <1>2, <1>6 DEF WindowTotal
  <2>3. s + 1 \in 1..(pos + 1) /\ sums[s + 1] \in Nat
    BY <1>2
  <2> QED
    BY <1>4, <1>6, <2>1, <2>2, <2>3
<1> QED
  BY <1>5, <1>6

\* calc_boundry keeps a key in step with the bytes of a chunk, whoever calls it.
LEMMA TracksNext ==
  ASSUME Written, NEW p \in Nat, p < pos, NEW s \in 0..p,
         NEW r \in RollState, Tracks(r, s, p), NEW q, q = CalcBoundry(r, plain[p + 1])
  PROVE  Tracks(q, s, p + 1) /\ (AtBoundry(q) <=> ContentBoundary(s, p + 1))
<1> DEFINE wraps == r.loc + 1 = SumSpan
<1>1. /\ q.loc = (IF wraps THEN 0 ELSE r.loc + 1)
      /\ q.count = r.count + 1
      /\ q.sum = r.sum + plain[p + 1] - (IF r.sub THEN r.win[r.loc] ELSE 0)
      /\ q.sub <=> (r.sub \/ wraps)
      /\ q.may <=> (r.may \/ r.count = SumMinDist)
      /\ q.win = [r.win EXCEPT ![r.loc] = plain[p + 1]]
  BY DEF CalcBoundry, Leaving, MayRotate
<1>2. /\ s \in Nat /\ s <= p /\ SumSpan \in Nat /\ SumSpan > 0 /\ SumMinDist \in Nat
  BY RollParams
<1>3. /\ r.loc \in 0..(SumSpan - 1) /\ r.count \in Nat /\ r.sum \in Int
      /\ r.sub \in BOOLEAN /\ r.may \in BOOLEAN
      /\ r.win \in [0..(SumSpan - 1) -> Byte]
  BY DEF RollState, Window
<1>4. /\ r.count = p - s
      /\ r.may <=> p - s > SumMinDist
      /\ r.sum = WindowTotal(s, p)
      /\ IF r.sub THEN p - s >= SumSpan ELSE p - s = r.loc
      /\ \A l \in 0..(SumSpan - 1) :
           /\ l < r.loc => r.win[l] = plain[p - r.loc + l + 1]
           /\ (r.sub /\ l >= r.loc) => r.win[l] = plain[p - r.loc - SumSpan + l + 1]
  BY DEF Tracks
<1>5. q.count = (p + 1) - s /\ (q.may <=> (p + 1) - s > SumMinDist)
  <2>1. q.count = r.count + 1 /\ r.count = p - s
    BY <1>1, <1>4
  <2>2. (p + 1) - s > SumMinDist <=> (p - s > SumMinDist \/ p - s = SumMinDist)
    BY <1>2
  <2>3. q.may <=> (r.may \/ p - s = SumMinDist)
    BY <1>1, <2>1
  <2> QED
    BY <2>1, <2>2, <2>3, <1>2, <1>4
<1>6. IF q.sub THEN (p + 1) - s >= SumSpan ELSE (p + 1) - s = q.loc
  <2>1. CASE r.sub
    BY <2>1, <1>1, <1>2, <1>4
  <2>2. CASE ~r.sub
    <3>1. p - s = r.loc
      BY <2>2, <1>4
    <3>2. wraps => q.sub /\ (p + 1) - s >= SumSpan
      BY <3>1, <1>1, <1>2
    <3>3. ~wraps => ~q.sub /\ (p + 1) - s = q.loc
      BY <3>1, <2>2, <1>1, <1>2
    <3> QED
      BY <3>2, <3>3
  <2> QED
    BY <2>1, <2>2
<1>7. q.sum = WindowTotal(s, p + 1)
  <2>1. r.sub <=> p - s >= SumSpan
    BY <1>2, <1>3, <1>4
  <2>2. r.sub => r.win[r.loc] = plain[p - r.loc - SumSpan + r.loc + 1]
    BY <1>3, <1>4
  <2>3. p - r.loc - SumSpan + r.loc + 1 = p - SumSpan + 1
    BY <1>2, <1>3
  <2> QED
    BY <1>1, <1>4, <2>1, <2>2, <2>3, TotalNext
<1>8. ASSUME NEW l \in 0..(SumSpan - 1)
      PROVE  /\ l < q.loc => q.win[l] = plain[(p + 1) - q.loc + l + 1]
             /\ (q.sub /\ l >= q.loc) => q.win[l] = plain[(p + 1) - q.loc - SumSpan + l + 1]
  <2>0. r.loc \in Int /\ l \in Int
    BY <1>2, <1>3
  <2>1. q.win[l] = IF l = r.loc THEN plain[p + 1] ELSE r.win[l]
    BY <1>1, <1>3
  <2>2. /\ l < r.loc => r.win[l] = plain[p - r.loc + l + 1]
        /\ (r.sub /\ l >= r.loc) => r.win[l] = plain[p - r.loc - SumSpan + l + 1]
    BY <1>4
  <2>3. CASE wraps
    <3>1. q.loc = 0 /\ r.loc = SumSpan - 1
      <4>1. q.loc = 0 /\ r.loc + 1 = SumSpan
        BY <2>3, <1>1
      <4> QED
        BY <4>1, <1>2, <2>0
    <3>2. l = r.loc => (p + 1) - q.loc - SumSpan + l + 1 = p + 1
      BY <3>1, <1>2
    <3>3. l # r.loc => /\ l < r.loc
                      /\ (p + 1) - q.loc - SumSpan + l + 1 = p - r.loc + l + 1
      BY <3>1, <1>2
    <3> QED
      BY <2>1, <2>2, <3>1, <3>2, <3>3
  <2>4. CASE ~wraps
    <3>1. q.loc = r.loc + 1 /\ (q.sub <=> r.sub)
      BY <2>4, <1>1, <1>3
    <3>2. /\ (p + 1) - q.loc + l + 1 = p - r.loc + l + 1
          /\ (p + 1) - q.loc - SumSpan + l + 1 = p - r.loc - SumSpan + l + 1
      BY <3>1, <1>2, <2>0
    <3>3. /\ l = r.loc => p - r.loc + l + 1 = p + 1
          /\ l < q.loc => l < r.loc \/ l = r.loc
          /\ l >= q.loc => l >= r.loc /\ l # r.loc
      BY <3>1, <1>2, <1>3
    <3> QED
      BY <2>1, <2>2, <3>1, <3>2, <3>3
  <2> QED
    BY <2>3, <2>4
<1>9. Tracks(q, s, p + 1)
  BY <1>5, <1>6, <1>7, <1>8 DEF Tracks
<1>10. AtBoundry(q) <=> ContentBoundary(s, p + 1)
  BY <1>5, <1>7 DEF AtBoundry, ContentBoundary
<1> QED
  BY <1>9, <1>10

\* A key that starts a chunk is in step with no bytes of it.
LEMMA TracksFresh ==
  ASSUME Written, NEW s \in 0..pos, NEW r \in RollState
  PROVE  Tracks(InitRoll(r), s, s)
<1> DEFINE q == InitRoll(r)
<1>1. /\ q.count = 0 /\ q.sum = 0 /\ q.loc = 0
      /\ q.sub = FALSE /\ q.may = FALSE
  BY DEF InitRoll, FreshRoll
<1>2. WindowTotal(s, s) = 0
  <2>1. sums[s + 1] \in Nat
    <3>1. EncTypeOK /\ HistoryOK /\ s + 1 \in 1..(pos + 1)
      BY Numbers DEF Written, EncIInv
    <3> QED
      BY <3>1, ByteFacts
  <2> QED
    BY <2>1, Numbers, RollParams DEF WindowTotal
<1> HIDE DEF q
<1> QED
  BY <1>1, <1>2, Numbers, RollParams DEF Tracks, q

-----------------------------------------------------------------------------
(* The steps of decrypt_file. *)

\* The file in terms of the blocks written.
LEMMA FileFacts ==
  ASSUME RTIInv, dpc # "off", NEW N, N = Len(blocks)
  PROVE  /\ epc = "done" /\ N \in Nat /\ N > 0 /\ Len(cipher) = N + 1
         /\ To(N) = pos /\ pos = Len(plain)
         /\ Len(file) \in 0..(N + 1) /\ rpos \in 0..Len(file)
         /\ partial \in BOOLEAN /\ (partial => Len(file) <= N)
         /\ \A n \in 1..Len(file) : n <= N => file[n] = cipher[n]
         /\ Left(N) => Size(N) = Len(buf) /\ Len(buf) < BlockSize
<1>1. /\ epc = "done" /\ N > 0 /\ To(N) = Len(plain) /\ Len(cipher) = N + 1
      /\ buf # <<>> => Size(N) = Len(buf)
  BY DEF RTIInv, Delivered, Written, Finished
<1>2. N \in Nat /\ N \in 0..N /\ Len(buf) < BlockSize /\ pos <= Len(plain) /\ pos \in Nat /\ Len(plain) \in Nat
  BY Numbers DEF RTIInv
<1>3. To(N) \in 0..pos
  BY <1>2, StartBeforeTo DEF RTIInv
<1>4. To(N) = pos /\ pos = Len(plain)
  BY <1>1, <1>2, <1>3
<1>5. Len(file) \in Nat /\ rpos \in 0..Len(file) /\ partial \in BOOLEAN
  BY DEF RTIInv, DecTypeOK
<1>6. /\ Len(file) <= N + 1 /\ (partial => Len(file) < N + 1)
      /\ \A n \in 1..Len(file) : file[n] = cipher[n]
  BY <1>1 DEF RTIInv, Delivered
<1> QED
  BY <1>1, <1>2, <1>4, <1>5, <1>6 DEF Left

\* Far from the end of the file there is another block before the trailer.
LEMMA FarFromEnd ==
  ASSUME RTIInv, dpc # "off", NEW n \in Nat, ~NearEnd(n)
  PROVE  n < Len(blocks) /\ n < Len(file) /\ (~partial => n + 1 < Len(file))
<1>1. PICK N : N = Len(blocks)
  OBVIOUS
<1>2. /\ N \in Nat /\ Len(file) \in 0..(N + 1) /\ partial \in BOOLEAN
      /\ partial => Len(file) <= N
  BY <1>1, FileFacts
<1>3. CASE partial
  <2>1. ~(n >= Len(file))
    BY <1>3 DEF NearEnd
  <2> QED
    BY <1>1, <1>2, <1>3, <2>1
<1>4. CASE ~partial
  <2>1. ~(n >= Len(file) - 1)
    BY <1>4 DEF NearEnd
  <2> QED
    BY <1>1, <1>2, <1>4, <2>1
<1> QED
  BY <1>2, <1>3, <1>4

\* So a file that is not all there ends before its trailer.
LEMMA CutShort ==
  ASSUME RTIInv, dpc # "off", Len(file) <= Len(blocks)
  PROVE  file # cipher
<1>1. PICK N : N = Len(blocks)
  OBVIOUS
<1>2. N \in Nat /\ Len(cipher) = N + 1 /\ Len(file) <= N
  BY <1>1, FileFacts
<1> QED
  BY <1>2

\* Decryption of a block on the chain it was made on.
LEMMA DecryptsChained ==
  ASSUME NEW base \in Seq(Block), NEW x \in Block, NEW c, c = Append(base, x)
  PROVE  Decryptions(c, base) = {x}
<1>1. /\ c \in Seq(Block) /\ c # <<>> /\ Len(c) = Len(base) + 1
      /\ \A i \in 1..Len(base) : c[i] = base[i]
      /\ c[Len(base) + 1] = x
  BY AppendProperties
<1>2. Len(base) \in Nat
  OBVIOUS
<1>3. SubSeq(c, 1, Len(base)) = base
  <2>1. PICK t : t = SubSeq(c, 1, Len(base))
    OBVIOUS
  <2>2. t \in Seq(Block) /\ Len(t) = Len(base) /\ \A j \in 1..Len(base) : t[j] = c[j]
    BY <1>1, <1>2, <2>1, Start
  <2>3. Len(t) = Len(base) /\ \A j \in 1..Len(t) : t[j] = base[j]
    BY <1>1, <1>2, <2>2
  <2> QED
    BY <2>1, <2>2, <2>3, SeqEqual
<1>4. Len(c) - 1 = Len(base)
  BY <1>1, <1>2
<1> QED
  BY <1>1, <1>3, <1>4 DEF Decryptions

LEMMA ChainType ==
  ASSUME Written, NEW n \in 0..Len(blocks), Len(blocks) <= Len(cipher)
  PROVE  Chain(n) \in Seq(Block)
<1>1. CASE NextStart(n) = To(n)
  BY <1>1 DEF Chain
<1>2. CASE NextStart(n) # To(n)
  <2>1. n # 0
    BY <1>2 DEF NextStart, To
  <2>2. cipher \in Seq(Seq(Block))
    BY DEF Written, EncIInv, EncTypeOK
  <2>3. n \in 1..Len(cipher)
    BY <2>1, Numbers
  <2> QED
    BY <1>2, <2>2, <2>3 DEF Chain
<1> QED
  BY <1>1, <1>2

LEMMA ReadType ==
  ASSUME DecTypeOK, ReadBlock
  PROVE  DecTypeOK'
<1>1. rpos + 1 \in 1..Len(file) /\ file[rpos + 1] \in Seq(Block)
  BY DEF DecTypeOK, ReadBlock
<1>2. dblk' \in Block
  <2>1. Decryptions(file[rpos + 1], ChunkBase(dnew, dcbc)) \subseteq Block
    BY <1>1 DEF Decryptions
  <2> QED
    BY <2>1 DEF ReadBlock
<1>3. droll' \in RollState
  BY RollTypes DEF ReadBlock, ChunkRoll, DecTypeOK
<1>4. /\ dnew' = FALSE /\ dpc' = "scan" /\ dcbc' = file[rpos + 1] /\ di' = 0
      /\ file' = file /\ partial' = partial /\ out' = out /\ rpos' = rpos + 1
  BY DEF ReadBlock
<1>5. di' \in 0..BlockSize
  BY <1>4, BlockParams
<1>6. rpos' \in 0..Len(file')
  BY <1>1, <1>4
<1> QED
  BY <1>1, <1>2, <1>3, <1>4, <1>5, <1>6 DEF DecTypeOK

\* A block read in the loop is decrypted as it was encrypted.
LEMMA ReadStep ==
  ASSUME RTIInv, ReadBlock, UNCHANGED <<encVars, blocks>>
  PROVE  RTIInv'
<1>1. PICK N : N = Len(blocks)
  OBVIOUS
<1>2. PICK n : n = rpos + 1
  OBVIOUS
<1>3. /\ dpc = "loop" /\ dpc' = "scan" /\ rpos < Len(file) /\ rpos' = n /\ di' = 0 /\ dnew' = FALSE
      /\ dblk' \in Decryptions(file[n], ChunkBase(dnew, dcbc)) /\ dcbc' = file[n]
      /\ droll' = ChunkRoll(dnew, droll)
      /\ file' = file /\ partial' = partial /\ out' = out
  BY <1>2 DEF ReadBlock
<1>4. Written /\ DecTypeOK /\ Delivered /\ Between
  BY DEF RTIInv
<1>5. /\ rpos = 0 \/ ~NearEnd(rpos)
      /\ out = SubSeq(plain, 1, To(rpos))
      /\ ChunkBase(dnew, dcbc) = Chain(rpos)
      /\ Tracks(ChunkRoll(dnew, droll), NextStart(rpos), To(rpos))
  BY <1>3, <1>4 DEF Between
<1>6. /\ N \in Nat /\ rpos \in Nat /\ rpos < N /\ n \in 1..N /\ n \in 1..Len(file)
      /\ rpos \in 0..N /\ n - 1 = rpos /\ N <= Len(cipher)
  <2>1. N \in Nat /\ N > 0 /\ Len(cipher) = N + 1 /\ Len(file) \in Nat /\ rpos \in 0..Len(file)
    BY <1>1, <1>3, FileFacts
  <2>2. rpos < N
    BY <1>1, <1>3, <1>5, <2>1, FarFromEnd
  <2> QED
    BY <1>2, <1>3, <2>1, <2>2
<1>7. file[n] = cipher[n]
  <2>1. n \in 1..Len(file) /\ n <= N
    BY <1>6
  <2> QED
    BY <1>1, <1>3, <2>1, FileFacts
<1>8. /\ blocks[n].start = NextStart(rpos) /\ blocks[n].from = To(rpos)
      /\ cipher[n] = Append(Chain(rpos), Content(n)) /\ Size(n) \in 1..BlockSize
      /\ blocks[n].from \in Nat
  BY <1>1, <1>4, <1>6, BlockFacts DEF WellCut
<1>9. dblk' = Content(n)
  <2>1. Chain(rpos) \in Seq(Block) /\ Content(n) \in Block
    BY <1>1, <1>4, <1>6, ChainType, ContentFacts
  <2>2. Decryptions(file[n], Chain(rpos)) = {Content(n)}
    BY <1>7, <1>8, <2>1, DecryptsChained
  <2> QED
    BY <1>3, <1>5, <2>2
<1>10. /\ Written' /\ plain' = plain /\ sums' = sums /\ cipher' = cipher /\ blocks' = blocks /\ epc' = epc
       /\ Content(n)' = Content(n) /\ Size(n)' = Size(n)
  <2>1. n \in Nat
    BY <1>6
  <2>2. Written' /\ Content(n)' = Content(n) /\ Size(n)' = Size(n)
    BY <1>4, <2>1, WrittenKept
  <2> QED
    BY <2>2 DEF encVars
<1>11. DecTypeOK'
  BY <1>4, ReadType
<1>12. Decrypted'
  BY <1>1, <1>3, <1>5, <1>6, <1>8, <1>9, <1>10 DEF Decrypted, Content
<1>13. Scanning'
  <2>1. Tracks(droll', blocks[n].start, blocks[n].from + 0)
    BY <1>3, <1>5, <1>8
  <2>2. Tracks(droll, blocks[n].start, blocks[n].from + 0)'
    BY <1>10, <2>1 DEF Tracks, WindowTotal
  <2>3. ~(di' > Size(n)') /\ ~(di' > 0) /\ dcbc' = cipher'[n]
    BY <1>3, <1>7, <1>8, <1>10
  <2> QED
    BY <1>3, <2>2, <2>3 DEF Scanning, Size, Tracks, WindowTotal
<1>14. Delivered' /\ Between' /\ AtTrailer' /\ Verdict' /\ Waiting'
  BY <1>3, <1>4, <1>10 DEF Delivered, Between, AtTrailer, Verdict, Waiting
<1> QED
  BY <1>10, <1>11, <1>12, <1>13, <1>14 DEF RTIInv

LEMMA ScanType ==
  ASSUME DecTypeOK, ScanByte
  PROVE  DecTypeOK'
<1>1. /\ di < BlockSize /\ droll' = CalcBoundry(droll, dblk[di + 1]) /\ dnew' = AtBoundry(droll')
      /\ di' = di + 1
      /\ UNCHANGED <<file, partial, rpos, dcbc, dblk, out, dpc>>
  BY DEF ScanByte, Scans
<1>2. BlockSize \in Nat /\ di \in 0..BlockSize
  BY BlockParams DEF DecTypeOK
<1>3. di + 1 \in 1..BlockSize /\ di' \in 0..BlockSize
  BY <1>1, <1>2
<1>4. dblk[di + 1] \in Byte
  BY <1>3 DEF DecTypeOK, Block
<1>5. droll' \in RollState
  BY <1>1, <1>4, RollTypes DEF DecTypeOK
<1>6. dnew' \in BOOLEAN
  BY <1>1 DEF AtBoundry
<1> QED
  BY <1>1, <1>3, <1>5, <1>6 DEF DecTypeOK

\* The scan takes in the bytes the encryptor took in; it passes the end of them
\* only where the padding follows what was left.
LEMMA ScanStep ==
  ASSUME RTIInv, ScanByte, UNCHANGED <<encVars, blocks>>
  PROVE  RTIInv'
<1>1. PICK n : n = rpos
  OBVIOUS
<1>2. PICK b : b = blocks[n]
  OBVIOUS
<1>3. /\ dpc = "scan" /\ dpc' = "scan" /\ di < BlockSize /\ ~dnew /\ di' = di + 1
      /\ droll' = CalcBoundry(droll, dblk[di + 1]) /\ dnew' = AtBoundry(droll')
      /\ rpos' = n /\ UNCHANGED <<file, partial, dcbc, dblk, out>>
  BY <1>1 DEF ScanByte, Scans
<1>4. Written /\ DecTypeOK /\ Delivered
  BY DEF RTIInv
<1>5. /\ n \in 1..Len(blocks) /\ dblk = Content(n) /\ out = SubSeq(plain, 1, b.from)
      /\ dcbc = cipher[n]
      /\ IF di > Size(n) THEN Left(n)
         ELSE /\ ~(di > 0 /\ ContentBoundary(b.start, b.from + di))
              /\ Tracks(droll, b.start, b.from + di)
  BY <1>1, <1>2, <1>3 DEF RTIInv, Decrypted, Scanning
<1>6. /\ b.start \in Nat /\ b.from \in Nat /\ b.to \in Nat /\ b.start <= b.from
      /\ Size(n) = b.to - b.from /\ Size(n) \in 1..BlockSize /\ b.to <= pos
      /\ Size(n) = BlockSize \/ ContentBoundary(b.start, b.to) \/ Left(n)
      /\ pos \in Nat /\ BlockSize \in Nat /\ di \in 0..BlockSize
  BY <1>2, <1>4, <1>5, BlockFacts, Numbers DEF WellCut, Size, DecTypeOK
<1>7. IF di' > Size(n) THEN Left(n)
      ELSE /\ dnew' <=> (di' > 0 /\ ContentBoundary(b.start, b.from + di'))
           /\ Tracks(droll', b.start, b.from + di')
  <2>1. CASE di < Size(n)
    <3>1. /\ di + 1 > 0 /\ ~(di + 1 > Size(n))
      BY <1>6, <2>1
    <3>2. Tracks(droll', b.start, b.from + (di + 1)) /\ (dnew' <=> ContentBoundary(b.start, b.from + (di + 1)))
      <4>1. PICK p : p = b.from + di
        OBVIOUS
      <4>2. /\ p \in Nat /\ p < pos /\ b.start \in 0..p /\ p + 1 = b.from + (di + 1)
            /\ di + 1 \in 1..BlockSize /\ di + 1 <= Size(n) /\ ~(di > Size(n))
        BY <1>6, <2>1, <4>1
      <4>3. dblk[di + 1] = plain[p + 1]
        BY <1>4, <1>5, <1>2, <4>2, ContentFacts
      <4>4. Tracks(droll, b.start, p) /\ droll \in RollState
        BY <1>4, <1>5, <4>1, <4>2 DEF DecTypeOK
      <4>5. droll' = CalcBoundry(droll, plain[p + 1])
        BY <1>3, <4>3
      <4>6. Tracks(droll', b.start, p + 1) /\ (AtBoundry(droll') <=> ContentBoundary(b.start, p + 1))
        BY <1>4, <4>2, <4>4, <4>5, TracksNext
      <4> QED
        BY <1>3, <4>2, <4>6
    <3> QED
      BY <1>3, <3>1, <3>2
  <2>2. CASE ~(di < Size(n))
    <3>1. Left(n)
      <4>1. CASE di > Size(n)
        BY <1>5, <4>1
      <4>2. CASE di = Size(n)
        <5>1. di > 0 /\ b.from + di = b.to /\ Size(n) # BlockSize /\ ~(di > Size(n))
          BY <1>3, <1>6, <4>2
        <5> QED
          BY <1>5, <1>6, <5>1
      <4> QED
        BY <1>6, <2>2, <4>1, <4>2
    <3>2. di + 1 > Size(n)
      BY <1>6, <2>2
    <3> QED
      BY <1>3, <3>1, <3>2
  <2> QED
    BY <2>1, <2>2
<1>8. /\ Written' /\ plain' = plain /\ sums' = sums /\ cipher' = cipher /\ blocks' = blocks /\ epc' = epc
       /\ Content(n)' = Content(n) /\ Size(n)' = Size(n) /\ Left(n)' = Left(n)
  <2>1. n \in Nat
    BY <1>5
  <2>2. Written' /\ Content(n)' = Content(n) /\ Size(n)' = Size(n) /\ Left(n)' = Left(n)
    BY <1>4, <2>1, WrittenKept
  <2> QED
    BY <2>2 DEF encVars
<1>9. DecTypeOK'
  BY <1>4, ScanType
<1>10. Decrypted'
  BY <1>1, <1>2, <1>3, <1>5, <1>8 DEF Decrypted, Content
<1>11. Scanning'
  <2>1. ContentBoundary(b.start, b.from + di)' <=> ContentBoundary(b.start, b.from + di')
    BY <1>8 DEF ContentBoundary, WindowTotal
  <2>2. Tracks(droll', b.start, b.from + di') => Tracks(droll, b.start, b.from + di)'
    BY <1>8 DEF Tracks, WindowTotal
  <2>3. rpos' = n /\ blocks'[n] = b /\ dcbc' = cipher'[n]
    BY <1>2, <1>3, <1>5, <1>8
  <2>4. CASE di' > Size(n)
    BY <1>3, <1>7, <1>8, <2>3, <2>4 DEF Scanning, Size, Left
  <2>5. CASE ~(di' > Size(n))
    <3>1. (dnew' <=> (di' > 0 /\ ContentBoundary(b.start, b.from + di)')) /\ Tracks(droll, b.start, b.from + di)'
      BY <1>7, <2>1, <2>2, <2>5
    <3>2. ~(di' > Size(rpos)')
      BY <1>8, <2>3, <2>5 DEF Size
    <3> QED
      BY <2>3, <3>1, <3>2 DEF Scanning, ContentBoundary, WindowTotal, Tracks
  <2> QED
    BY <2>4, <2>5
<1>12. Delivered' /\ Between' /\ AtTrailer' /\ Verdict' /\ Waiting'
  BY <1>3, <1>4, <1>8 DEF Delivered, Between, AtTrailer, Verdict, Waiting
<1> QED
  BY <1>8, <1>9, <1>10, <1>11, <1>12 DEF RTIInv

LEMMA BlockIsSeq ==
  ASSUME NEW x \in Block
  PROVE  x \in Seq(Byte) /\ Len(x) = BlockSize
<1>1. BlockSize \in Nat /\ x \in [1..BlockSize -> Byte]
  BY BlockParams DEF Block
<1>2. x \in Seq(Byte)
  BY <1>1, SeqDef
<1> QED
  BY <1>1, <1>2, LenProperties

\* What gunzip has got once k bytes of block n follow the blocks before it.
Given(n, k) == SubSeq(plain, 1, blocks[n].from) \o SubSeq(Content(n), 1, k)

LEMMA GivesBack ==
  ASSUME Written, NEW n \in 1..Len(blocks), NEW k \in 0..BlockSize, NEW d, d = Given(n, k)
  PROVE  /\ d \in Seq(Byte) /\ Len(d) = blocks[n].from + k
         /\ \A j \in 1..blocks[n].from : d[j] = plain[j]
         /\ \A j \in (blocks[n].from + 1)..(blocks[n].from + k) :
              d[j] = IF j <= blocks[n].to THEN plain[j] ELSE 0
<1>1. PICK f, e : f = blocks[n].from /\ e = blocks[n].to
  OBVIOUS
<1>2. /\ f \in Nat /\ e \in Nat /\ f <= Len(plain) /\ e <= Len(plain)
      /\ Size(n) = e - f /\ plain \in Seq(Byte) /\ BlockSize \in Nat /\ k \in Nat
  <2>1. /\ f \in Nat /\ e \in Nat /\ f < e /\ e <= pos /\ Size(n) = e - f
    BY <1>1, BlockFacts DEF WellCut, Size
  <2> QED
    BY <2>1, Numbers
<1>3. PICK s : s = SubSeq(plain, 1, f)
  OBVIOUS
<1>4. s \in Seq(Byte) /\ Len(s) = f /\ \A j \in 1..f : s[j] = plain[j]
  BY <1>2, <1>3, Start
<1>5. PICK t : t = SubSeq(Content(n), 1, k)
  OBVIOUS
<1>6. /\ t \in Seq(Byte) /\ Len(t) = k
      /\ \A j \in 1..k : t[j] = IF j <= Size(n) THEN plain[f + j] ELSE 0
  <2>1. Content(n) \in Seq(Byte) /\ Len(Content(n)) = BlockSize
    BY ContentFacts, BlockIsSeq
  <2>2. k \in Nat /\ k <= BlockSize /\ \A j \in 1..k : j \in 1..BlockSize
    BY <1>2
  <2>3. /\ t \in Seq(Byte) /\ Len(t) = k /\ \A j \in 1..k : t[j] = Content(n)[j]
    BY <1>5, <2>1, <2>2, Start
  <2> QED
    BY <1>1, <2>2, <2>3, ContentFacts
<1>7. /\ d \in Seq(Byte) /\ Len(d) = f + k
      /\ \A j \in 1..(f + k) : d[j] = IF j <= f THEN s[j] ELSE t[j - f]
  <2>1. d = s \o t
    BY <1>1, <1>3, <1>5 DEF Given
  <2>2. /\ d \in Seq(Byte) /\ Len(d) = Len(s) + Len(t)
        /\ \A j \in 1..(Len(s) + Len(t)) : d[j] = IF j <= Len(s) THEN s[j] ELSE t[j - Len(s)]
    <3>1. s \in Seq(Byte) /\ t \in Seq(Byte)
      BY <1>4, <1>6
    <3> QED
      BY <2>1, <3>1, ConcatProperties, ZenonT(30)
  <2> QED
    BY <1>4, <1>6, <2>2
<1>8. \A j \in 1..f : d[j] = plain[j]
  <2>1. \A j \in 1..f : j \in 1..(f + k) /\ j <= f
    BY <1>2
  <2> QED
    BY <1>4, <1>7, <2>1
<1>9. ASSUME NEW j \in (f + 1)..(f + k)
      PROVE  d[j] = IF j <= e THEN plain[j] ELSE 0
  <2>1. j \in 1..(f + k) /\ ~(j <= f) /\ j - f \in 1..k
    BY <1>2
  <2>2. f + (j - f) = j /\ (j - f <= Size(n) <=> j <= e)
    <3>1. j \in Int /\ f \in Int /\ e \in Int
      BY <1>2
    <3> QED
      BY <1>2, <3>1
  <2>3. d[j] = t[j - f]
    BY <1>7, <2>1
  <2> QED
    BY <1>6, <2>1, <2>2, <2>3
<1> QED
  BY <1>1, <1>7, <1>8, <1>9

\* A sequence that agrees with plain is the start of it.
LEMMA IsStart ==
  ASSUME Written, NEW d \in Seq(Byte), Len(d) <= Len(plain), \A j \in 1..Len(d) : d[j] = plain[j]
  PROVE  d = SubSeq(plain, 1, Len(d))
<1>1. PICK t : t = SubSeq(plain, 1, Len(d))
  OBVIOUS
<1>2. t \in Seq(Byte) /\ Len(t) = Len(d) /\ \A j \in 1..Len(d) : t[j] = plain[j]
  BY <1>1, Numbers, Start
<1>3. Len(t) = Len(d) /\ \A j \in 1..Len(t) : t[j] = d[j]
  BY <1>2
<1> QED
  BY <1>1, <1>2, <1>3, SeqEqual

\* Where the scan of a block ends.
LEMMA ScanEnds ==
  ASSUME RTIInv, dpc = "scan", ~Scans, NEW n, n = rpos
  PROVE  /\ di \in Size(n)..BlockSize
         /\ \/ Left(n)
            \/ /\ di = Size(n)
               /\ dnew <=> ContentBoundary(blocks[n].start, blocks[n].to)
               /\ ~dnew => Tracks(droll, blocks[n].start, blocks[n].to)
         /\ \A j \in (di + 1)..BlockSize : dblk[j] = 0
<1>1. PICK b : b = blocks[n]
  OBVIOUS
<1>2. Written /\ DecTypeOK
  BY DEF RTIInv
<1>3. /\ n \in 1..Len(blocks) /\ dblk = Content(n)
      /\ IF di > Size(n) THEN Left(n)
         ELSE /\ dnew <=> (di > 0 /\ ContentBoundary(b.start, b.from + di))
              /\ ~dnew => Tracks(droll, b.start, b.from + di)
  BY <1>1 DEF RTIInv, Decrypted, Scanning
<1>4. /\ b.start \in Nat /\ b.from \in Nat /\ b.to \in Nat
      /\ Size(n) = b.to - b.from /\ Size(n) \in 1..BlockSize
      /\ \A p \in (b.from + 1)..(b.to - 1) : ~ContentBoundary(b.start, p)
      /\ BlockSize \in Nat /\ di \in 0..BlockSize
  BY <1>1, <1>2, <1>3, BlockFacts, Numbers DEF WellCut, Size, DecTypeOK
<1>5. di >= Size(n)
  <2>1. SUFFICES ASSUME di < Size(n) PROVE FALSE
    BY <1>4
  <2>2. di < BlockSize /\ ~(di > Size(n))
    BY <1>4, <2>1
  <2>3. dnew
    BY <2>2 DEF Scans
  <2>4. di > 0 /\ ContentBoundary(b.start, b.from + di)
    BY <1>3, <2>2, <2>3
  <2>5. b.from + di \in (b.from + 1)..(b.to - 1)
    BY <1>4, <2>1, <2>4
  <2> QED
    BY <1>4, <2>4, <2>5
<1>6. CASE di > Size(n)
  <2>1. Left(n)
    BY <1>3, <1>6
  <2> QED
    BY <1>2, <1>3, <1>4, <1>5, <2>1, ContentFacts
<1>7. CASE di = Size(n)
  <2>1. b.from + di = b.to /\ di > 0 /\ ~(di > Size(n))
    BY <1>4, <1>7
  <2>2. (dnew <=> ContentBoundary(b.start, b.to)) /\ (~dnew => Tracks(droll, b.start, b.to))
    BY <1>3, <2>1
  <2>3. \A j \in (di + 1)..BlockSize : j \in 1..BlockSize /\ ~(j <= Size(n))
    BY <1>4, <1>7
  <2>4. \A j \in (di + 1)..BlockSize : dblk[j] = 0
    BY <1>2, <1>3, <2>3, ContentFacts
  <2> QED
    BY <1>1, <1>4, <1>7, <2>2, <2>4
<1> QED
  BY <1>4, <1>5, <1>6, <1>7

\* A sequence whose elements another begins with is a prefix of it.
LEMMA PrefixByElements ==
  ASSUME NEW S, NEW s \in Seq(S), NEW t \in Seq(S), Len(s) <= Len(t),
         \A j \in 1..Len(s) : s[j] = t[j]
  PROVE  IsPrefix(s, t)
<1>1. PICK u, v : u = SubSeq(s, 1, Len(s)) /\ v = SubSeq(t, 1, Len(s))
  OBVIOUS
<1>2. /\ u \in Seq(S) /\ Len(u) = Len(s) /\ \A j \in 1..Len(s) : u[j] = s[j]
      /\ v \in Seq(S) /\ Len(v) = Len(s) /\ \A j \in 1..Len(s) : v[j] = t[j]
  BY <1>1, Start
<1>3. u = v
  BY <1>2, SeqEqual
<1> QED
  BY <1>1, <1>3 DEF IsPrefix

\* What becomes of a block that has been scanned.
LEMMA ScannedOutcome ==
  ASSUME RTIInv, BlockScanned, NEW n, n = rpos
  PROVE  \/ /\ NearEnd(n) /\ PastEnd(n) /\ dpc' = "error" /\ out' = out /\ file # cipher
         \/ /\ NearEnd(n) /\ ~PastEnd(n) /\ dpc' = "trailer" /\ out' = out
            /\ ~partial /\ n = Len(file) - 1
         \/ /\ ~NearEnd(n) /\ dpc' = "loop" /\ ~Left(n) /\ di = Size(n)
            /\ out' = SubSeq(plain, 1, blocks[n].to)
<1>1. PICK N : N = Len(blocks)
  OBVIOUS
<1>2. /\ dpc = "scan" /\ ~Scans
      /\ out' = IF NearEnd(n) THEN out ELSE out \o SubSeq(dblk, 1, di)
      /\ dpc' = IF (NearEnd(n) /\ PastEnd(n)) \/ \E j \in (di + 1)..BlockSize : dblk[j] # 0
                   THEN "error"
                   ELSE IF NearEnd(n) THEN "trailer" ELSE "loop"
  BY DEF BlockScanned
<1>3. /\ \/ Left(n)
         \/ di = Size(n)
      /\ \A j \in (di + 1)..BlockSize : dblk[j] = 0
      /\ di \in Size(n)..BlockSize
  BY <1>2, ScanEnds
<1>4. /\ n \in 1..N /\ dblk = Content(n) /\ out = SubSeq(plain, 1, blocks[n].from)
  BY <1>1, <1>2 DEF RTIInv, Decrypted
<1>5. /\ N \in Nat /\ Len(file) \in 0..(N + 1) /\ partial \in BOOLEAN /\ (partial => Len(file) <= N)
  BY <1>1, <1>2, FileFacts
<1>6. CASE NearEnd(n) /\ PastEnd(n)
  <2>1. Len(file) <= N
    <3>1. n >= Len(file)
      BY <1>6 DEF PastEnd
    <3> QED
      BY <1>4, <1>5, <3>1
  <2>2. file # cipher
    BY <1>1, <1>2, <2>1, CutShort
  <2> QED
    BY <1>2, <1>6, <2>2
<1>7. CASE NearEnd(n) /\ ~PastEnd(n)
  <2>1. ~(n >= Len(file)) /\ ~partial /\ n >= Len(file) - 1
    BY <1>5, <1>7 DEF NearEnd, PastEnd
  <2>2. n = Len(file) - 1
    BY <1>4, <1>5, <2>1
  <2> QED
    BY <1>2, <1>3, <1>7, <2>1, <2>2
<1>8. CASE ~NearEnd(n)
  <2>1. n < N /\ ~Left(n)
    <3>1. n \in Nat
      BY <1>4
    <3>2. n < N
      BY <1>1, <1>2, <1>8, <3>1, FarFromEnd
    <3> QED
      BY <1>1, <1>4, <1>5, <3>2 DEF Left
  <2>2. di = Size(n)
    BY <1>3, <2>1
  <2>3. PICK d : d = Given(n, di)
    OBVIOUS
  <2>4. Written
    BY DEF RTIInv
  <2>5. PICK f, e : f = blocks[n].from /\ e = blocks[n].to
    OBVIOUS
  <2>6. f \in Nat /\ e \in Nat /\ di = e - f /\ f < e /\ e <= Len(plain) /\ Size(n) \in 1..BlockSize
    <3>1. /\ f \in Nat /\ e \in Nat /\ f < e /\ e <= pos /\ Size(n) = e - f /\ Size(n) \in 1..BlockSize
      BY <1>1, <1>4, <2>4, <2>5, BlockFacts DEF WellCut, Size
    <3> QED
      BY <2>2, <2>4, <3>1, Numbers
  <2>7. di \in 0..BlockSize
    BY <2>2, <2>6
  <2>8. /\ d \in Seq(Byte) /\ Len(d) = f + di
        /\ \A j \in 1..f : d[j] = plain[j]
        /\ \A j \in (f + 1)..(f + di) : d[j] = IF j <= e THEN plain[j] ELSE 0
    <3>1. n \in 1..Len(blocks)
      BY <1>1, <1>4
    <3>2. /\ d \in Seq(Byte) /\ Len(d) = blocks[n].from + di
          /\ \A j \in 1..blocks[n].from : d[j] = plain[j]
          /\ \A j \in (blocks[n].from + 1)..(blocks[n].from + di) :
               d[j] = IF j <= blocks[n].to THEN plain[j] ELSE 0
      BY <2>3, <2>4, <2>7, <3>1, GivesBack
    <3> QED
      BY <2>5, <3>2
  <2>9. Len(d) = e /\ \A j \in 1..e : d[j] = plain[j]
    <3>1. f + di = e
      BY <2>6
    <3>2. \A j \in 1..e : j \in 1..f \/ (j \in (f + 1)..e /\ j <= e)
      BY <2>6
    <3> QED
      BY <2>8, <3>1, <3>2
  <2>10. d = SubSeq(plain, 1, e)
    BY <2>4, <2>6, <2>8, <2>9, IsStart
  <2> QED
    BY <1>2, <1>3, <1>4, <1>8, <2>1, <2>2, <2>3, <2>5, <2>10 DEF Given
<1> QED
  BY <1>6, <1>7, <1>8

LEMMA ScannedType ==
  ASSUME DecTypeOK, BlockScanned
  PROVE  DecTypeOK'
<1>1. SubSeq(dblk, 1, di) \in Seq(Byte)
  <2>1. dblk \in Seq(Byte) /\ Len(dblk) = BlockSize /\ di \in 0..BlockSize /\ BlockSize \in Nat
    BY BlockIsSeq, BlockParams DEF DecTypeOK
  <2> QED
    BY <2>1, Start
<1>2. out \in Seq(Byte)
  BY DEF DecTypeOK
<1>3. out' \in Seq(Byte)
  <2>1. PICK t : t = SubSeq(dblk, 1, di)
    OBVIOUS
  <2>2. out' = out \/ out' = out \o t
    BY <2>1 DEF BlockScanned
  <2>3. out \o t \in Seq(Byte)
    BY <1>1, <1>2, <2>1, ConcatProperties, Zenon
  <2> QED
    BY <1>2, <2>2, <2>3
<1>4. dpc' \in {"error", "trailer", "loop"} /\ UNCHANGED <<file, partial, rpos, dnew, droll, dcbc, dblk, di>>
  BY DEF BlockScanned
<1> QED
  BY <1>3, <1>4 DEF DecTypeOK

\* The key of the next block is where the encryptor's was.
LEMMA ScannedKey ==
  ASSUME RTIInv, dpc = "scan", ~Scans, NEW n, n = rpos, ~Left(n)
  PROVE  /\ ChunkBase(dnew, dcbc) = Chain(n)
         /\ Tracks(ChunkRoll(dnew, droll), NextStart(n), To(n))
<1>1. PICK b : b = blocks[n]
  OBVIOUS
<1>2. Written /\ DecTypeOK
  BY DEF RTIInv
<1>3. n \in 1..Len(blocks) /\ dcbc = cipher[n]
  BY DEF RTIInv, Decrypted, Scanning
<1>4. /\ b.start \in Nat /\ b.from \in Nat /\ b.to \in Nat
      /\ b.start <= b.from /\ b.from < b.to /\ b.to <= pos
  BY <1>1, <1>2, <1>3, BlockFacts DEF WellCut
<1>5. /\ dnew <=> ContentBoundary(b.start, b.to)
      /\ ~dnew => Tracks(droll, b.start, b.to)
  BY <1>1, ScanEnds
<1>6. To(n) = b.to /\ NextStart(n) = IF dnew THEN b.to ELSE b.start
  BY <1>1, <1>3, <1>5 DEF To, NextStart
<1>7. CASE dnew
  <2>1. b.to \in 0..pos /\ droll \in RollState
    BY <1>2, <1>4, Numbers DEF DecTypeOK
  <2>2. Tracks(InitRoll(droll), b.to, b.to)
    BY <1>2, <2>1, TracksFresh
  <2> QED
    BY <1>6, <1>7, <2>2 DEF ChunkBase, ChunkRoll, Chain
<1>8. CASE ~dnew
  <2>1. NextStart(n) # To(n)
    BY <1>4, <1>6, <1>8
  <2> QED
    BY <1>3, <1>5, <1>6, <1>8, <2>1 DEF ChunkBase, ChunkRoll, Chain
<1> QED
  BY <1>7, <1>8

LEMMA ScannedStep ==
  ASSUME RTIInv, BlockScanned, UNCHANGED <<encVars, blocks>>
  PROVE  RTIInv'
<1>1. PICK n : n = rpos
  OBVIOUS
<1>2. /\ dpc = "scan" /\ ~Scans
      /\ UNCHANGED <<file, partial, rpos, dnew, droll, dcbc, dblk, di>>
  BY DEF BlockScanned
<1>3. Written /\ DecTypeOK /\ Delivered
  BY DEF RTIInv
<1>4. n \in 1..Len(blocks) /\ n \in Nat /\ n # 0
  BY <1>1, <1>2 DEF RTIInv, Decrypted
<1>5. /\ Written' /\ plain' = plain /\ sums' = sums /\ cipher' = cipher /\ blocks' = blocks /\ epc' = epc
      /\ Content(n)' = Content(n) /\ NextStart(n)' = NextStart(n) /\ To(n)' = To(n) /\ Chain(n)' = Chain(n)
  BY <1>3, <1>4, WrittenKept DEF encVars
<1>6. DecTypeOK'
  BY <1>3, ScannedType
<1>7. Delivered'
  BY <1>2, <1>3, <1>5 DEF Delivered
<1>8. dpc' \in {"error", "trailer", "loop"}
  BY DEF BlockScanned
<1>9. Decrypted'
  <2>1. CASE dpc' = "trailer"
    <3>1. out' = out
      BY <1>1, <2>1, ScannedOutcome
    <3> QED
      BY <1>1, <1>2, <1>5, <3>1 DEF RTIInv, Decrypted, Content
  <2> QED
    BY <1>8, <2>1 DEF Decrypted
<1>10. AtTrailer'
  <2>1. dpc' = "trailer" => ~partial /\ n = Len(file) - 1
    BY <1>1, ScannedOutcome
  <2> QED
    BY <1>1, <1>2, <2>1 DEF AtTrailer
<1>11. Between'
  <2> SUFFICES ASSUME dpc' = "loop" PROVE Between'
    BY DEF Between
  <2>1. ~NearEnd(n) /\ ~Left(n) /\ out' = SubSeq(plain, 1, To(n))
    BY <1>1, <1>4, ScannedOutcome DEF To
  <2>2. /\ ChunkBase(dnew, dcbc) = Chain(n)
        /\ Tracks(ChunkRoll(dnew, droll), NextStart(n), To(n))
    BY <1>1, <1>2, <2>1, ScannedKey
  <2>3. rpos' = n /\ ~NearEnd(rpos)'
    BY <1>1, <1>2, <2>1 DEF NearEnd
  <2>4. ChunkBase(dnew, dcbc)' = Chain(n)'
    BY <1>2, <1>5, <2>2 DEF ChunkBase
  <2>5. Tracks(ChunkRoll(dnew, droll), NextStart(n), To(n))'
    <3>1. ChunkRoll(dnew, droll)' = ChunkRoll(dnew, droll)
      BY <1>2 DEF ChunkRoll
    <3> QED
      BY <1>5, <2>2, <3>1 DEF Tracks, WindowTotal
  <2>6. out' = SubSeq(plain', 1, To(n)')
    BY <1>5, <2>1
  <2>7. rpos = n /\ rpos' = rpos
    BY <1>1, <1>2
  <2>8. To(rpos)' = To(n)' /\ NextStart(rpos)' = NextStart(n)' /\ Chain(rpos)' = Chain(n)'
    BY <2>3 DEF To, NextStart, Chain
  <2> QED
    BY <2>3, <2>4, <2>5, <2>6, <2>8 DEF Between, Tracks
<1>12. Verdict'
  <2>1. dpc' = "error" => file # cipher
    BY <1>1, ScannedOutcome
  <2> QED
    BY <1>2, <1>5, <1>8, <2>1 DEF Verdict, Intact
<1>13. Scanning' /\ Waiting'
  BY <1>8 DEF Scanning, Waiting
<1> QED
  BY <1>5, <1>6, <1>7, <1>9, <1>10, <1>11, <1>12, <1>13 DEF RTIInv

\* The loop is left without a whole block only when the file is not all there.
LEMMA NothingLeftShort ==
  ASSUME RTIInv, DecryptNothingLeft
  PROVE  ~Intact
<1>1. PICK N : N = Len(blocks)
  OBVIOUS
<1>2. dpc = "loop" /\ rpos = Len(file)
  BY DEF DecryptNothingLeft
<1>3. rpos = 0 \/ ~NearEnd(rpos)
  BY <1>2 DEF RTIInv, Between
<1>4. N \in Nat /\ rpos \in Nat /\ Len(cipher) = N + 1 /\ Len(file) \in 0..(N + 1)
  <2>1. dpc # "off"
    BY <1>2
  <2>2. N \in Nat /\ Len(cipher) = N + 1 /\ Len(file) \in 0..(N + 1) /\ rpos \in 0..Len(file)
    BY <1>1, <2>1, FileFacts
  <2> QED
    BY <2>2
<1>5. rpos = 0
  BY <1>2, <1>3, <1>4, FarFromEnd
<1>6. Len(file) <= Len(blocks)
  BY <1>1, <1>2, <1>4, <1>5
<1> QED
  BY <1>2, <1>6, CutShort DEF Intact

LEMMA NothingLeftStep ==
  ASSUME RTIInv, DecryptNothingLeft, UNCHANGED <<encVars, blocks>>
  PROVE  RTIInv'
<1>1. dpc = "loop" /\ dpc' = "error" /\ UNCHANGED <<file, partial, rpos, dnew, droll, dcbc, dblk, di, out>>
  BY DEF DecryptNothingLeft
<1>2. Written' /\ cipher' = cipher /\ epc' = epc
  BY WrittenKept DEF RTIInv, encVars
<1>3. DecTypeOK' /\ Delivered'
  BY <1>1, <1>2 DEF RTIInv, DecTypeOK, Delivered
<1>4. Verdict'
  BY <1>1, <1>2, NothingLeftShort DEF Verdict, Intact
<1> QED
  BY <1>1, <1>2, <1>3, <1>4 DEF RTIInv, Waiting, Between, Decrypted, Scanning, AtTrailer

\* The trailer of an intact file says how much of the last block counts; what
\* stands there in another may say anything.
LEMMA TrailerOutcome ==
  ASSUME RTIInv, DecryptTrailer, NEW n, n = rpos
  PROVE  /\ n \in 1..Len(blocks)
         /\ \/ dpc' = "error" /\ out' = out /\ ~Intact
            \/ /\ dpc' = "done"
               /\ \E k \in 1..BlockSize :
                    /\ out' = Given(n, k)
                    /\ Intact => n = Len(blocks) /\ k = IF buf = <<>> THEN BlockSize ELSE Len(buf)
<1>1. PICK N, l : N = Len(blocks) /\ l = Len(buf)
  OBVIOUS
<1>2. PICK c : c = file[n + 1]
  OBVIOUS
<1>3. dpc = "trailer"
  BY DEF DecryptTrailer
<1>4. PICK x \in Decryptions(c, <<>>) :
        IF x[1] >= BlockSize \/ \E j \in 2..BlockSize : x[j] # 0
          THEN dpc' = "error" /\ UNCHANGED out
          ELSE /\ out' = out \o SubSeq(dblk, 1, TrailerLen(x))
               /\ dpc' = "done"
  BY <1>2 DEF DecryptTrailer
<1>5. /\ n \in 1..N /\ dblk = Content(n) /\ out = SubSeq(plain, 1, blocks[n].from)
      /\ ~partial /\ n = Len(file) - 1
  BY <1>1, <1>3 DEF RTIInv, Decrypted, AtTrailer
<1>6. /\ N \in Nat /\ Len(cipher) = N + 1 /\ Len(file) \in 0..(N + 1) /\ epc = "done"
      /\ n + 1 \in 1..Len(file)
  <2>1. dpc # "off"
    BY <1>3
  <2>2. N \in Nat /\ Len(cipher) = N + 1 /\ Len(file) \in 0..(N + 1) /\ epc = "done"
    BY <1>1, <2>1, FileFacts
  <2> QED
    BY <1>5, <2>2
<1>7. BlockSize \in Nat /\ BlockSize > 0 /\ l \in 0..(BlockSize - 1) /\ Byte \subseteq Nat
      /\ buf \in Seq(Byte)
  BY <1>1, Numbers, BlockParams DEF RTIInv, Written, EncIInv, EncTypeOK
<1>8. x \in Block
  <2>1. c \in Seq(Block)
    BY <1>2, <1>6 DEF RTIInv, DecTypeOK
  <2> QED
    BY <2>1 DEF Decryptions
<1>9. x[1] \in Nat
  <2>1. 1 \in 1..BlockSize
    BY <1>7
  <2>2. x[1] \in Byte
    BY <1>8, <2>1 DEF Block
  <2> QED
    BY <1>7, <2>2
<1>10. ASSUME Intact
       PROVE  n = N /\ x[1] = l /\ \A j \in 2..BlockSize : x[j] = 0
  <2>1. file = cipher /\ n = N
    BY <1>5, <1>6, <1>10 DEF Intact
  <2>2. PICK t : t = Trailer(l)
    OBVIOUS
  <2>3. c = <<t>>
    BY <1>1, <1>2, <1>6, <2>1, <2>2 DEF RTIInv, Written, Finished
  <2>4. t \in Block /\ t[1] = l /\ \A j \in 2..BlockSize : t[j] = 0
    <3>1. <<l>> \in Seq(Byte) /\ Len(<<l>>) = 1 /\ <<l>>[1] = l
      BY <1>7, BlockParams
    <3>2. t = PadBlock(<<l>>)
      BY <2>2 DEF Trailer
    <3>3. t \in Block
      <4>1. Len(<<l>>) <= BlockSize
        BY <1>7, <3>1
      <4> QED
        BY <3>1, <3>2, <4>1, PadBlockType
    <3>4. 1 \in 1..BlockSize /\ \A j \in 2..BlockSize : j \in 1..BlockSize /\ ~(j <= 1)
      BY <1>7
    <3> QED
      BY <3>1, <3>2, <3>3, <3>4 DEF PadBlock
  <2>5. Decryptions(c, <<>>) = {t}
    <3>1. <<>> \in Seq(Block) /\ c = Append(<<>>, t)
      BY <2>3
    <3> QED
      BY <2>4, <3>1, DecryptsChained
  <2>6. x = t
    BY <1>4, <2>5
  <2> QED
    BY <2>1, <2>4, <2>6
<1>11. CASE x[1] >= BlockSize \/ \E j \in 2..BlockSize : x[j] # 0
  <2>1. ~Intact
    BY <1>7, <1>10, <1>11
  <2> QED
    BY <1>1, <1>4, <1>5, <1>11, <2>1
<1>12. CASE ~(x[1] >= BlockSize \/ \E j \in 2..BlockSize : x[j] # 0)
  <2>1. PICK k : k = TrailerLen(x)
    OBVIOUS
  <2>2. k = IF x[1] = 0 THEN BlockSize ELSE x[1]
    BY <2>1 DEF TrailerLen
  <2>3. k \in 1..BlockSize
    BY <1>7, <1>9, <1>12, <2>2
  <2>4. dpc' = "done" /\ out' = Given(n, k)
    BY <1>4, <1>5, <1>12, <2>1 DEF Given
  <2>5. l = 0 <=> buf = <<>>
    BY <1>1, <1>7
  <2>6. Intact => n = N /\ k = IF buf = <<>> THEN BlockSize ELSE l
    BY <1>10, <2>2, <2>5
  <2> QED
    BY <1>1, <1>5, <2>3, <2>4, <2>6
<1> QED
  BY <1>11, <1>12

\* An intact file is restored.
LEMMA TrailerRestores ==
  ASSUME RTIInv, epc = "done", NEW N, N = Len(blocks), N \in 1..N, NEW k,
         k = (IF buf = <<>> THEN BlockSize ELSE Len(buf)),
         NEW d, d = Given(N, k), To(N) = Len(plain)
  PROVE  /\ IsPrefix(plain, d)
         /\ ~EndsInsideBlock => d = plain
<1>1. PICK f, e : f = blocks[N].from /\ e = blocks[N].to
  OBVIOUS
<1>2. Written /\ plain \in Seq(Byte)
  BY Numbers DEF RTIInv
<1>3. /\ f \in Nat /\ e \in Nat /\ f < e /\ Size(N) = e - f /\ Size(N) \in 1..BlockSize
      /\ BlockSize \in Nat /\ Len(buf) \in 0..(BlockSize - 1) /\ e = Len(plain)
      /\ buf # <<>> => Size(N) = Len(buf)
  <2>1. N \in 1..Len(blocks) /\ N # 0
    OBVIOUS
  <2>2. f \in Nat /\ e \in Nat /\ f < e /\ Size(N) = e - f /\ Size(N) \in 1..BlockSize
    BY <1>1, <1>2, <2>1, BlockFacts DEF WellCut, Size
  <2>3. e = Len(plain)
    BY <1>1, <2>1 DEF To
  <2>4. buf # <<>> => Size(N) = Len(buf)
    BY <1>2 DEF Written, Finished
  <2> QED
    BY <1>2, <2>2, <2>3, <2>4, Numbers
<1>4. k \in Size(N)..BlockSize /\ k \in 0..BlockSize
  BY <1>3
<1>5. /\ d \in Seq(Byte) /\ Len(d) = f + k
      /\ \A j \in 1..f : d[j] = plain[j]
      /\ \A j \in (f + 1)..(f + k) : d[j] = IF j <= e THEN plain[j] ELSE 0
  <2>1. /\ d \in Seq(Byte) /\ Len(d) = blocks[N].from + k
        /\ \A j \in 1..blocks[N].from : d[j] = plain[j]
        /\ \A j \in (blocks[N].from + 1)..(blocks[N].from + k) :
             d[j] = IF j <= blocks[N].to THEN plain[j] ELSE 0
    BY <1>2, <1>4, GivesBack
  <2> QED
    BY <1>1, <2>1
<1>6. Len(plain) <= Len(d)
  BY <1>3, <1>4, <1>5
<1>7. \A j \in 1..Len(plain) : plain[j] = d[j]
  <2>1. \A j \in 1..Len(plain) : j \in 1..f \/ (j \in (f + 1)..(f + k) /\ j <= e)
    BY <1>3, <1>4
  <2> QED
    BY <1>5, <2>1
<1>8. IsPrefix(plain, d)
  BY <1>2, <1>5, <1>6, <1>7, PrefixByElements
<1>9. ASSUME ~EndsInsideBlock PROVE d = plain
  <2>1. buf # <<>> \/ ~(Size(N) < BlockSize)
    BY <1>9 DEF EndsInsideBlock, Size
  <2>2. k = Size(N)
    BY <1>3, <2>1
  <2>3. Len(d) = Len(plain)
    BY <1>3, <1>5, <2>2
  <2> QED
    BY <1>2, <1>5, <1>7, <2>3, SeqEqual
<1> QED
  BY <1>8, <1>9

LEMMA TrailerType ==
  ASSUME RTIInv, DecryptTrailer
  PROVE  DecTypeOK'
<1>1. PICK n : n = rpos
  OBVIOUS
<1>2. DecTypeOK /\ Written /\ dpc = "trailer"
  BY DEF RTIInv, DecryptTrailer
<1>3. out' \in Seq(Byte) /\ dpc' \in {"done", "error"}
  <2>1. n \in 1..Len(blocks)
    BY <1>1, TrailerOutcome
  <2>2. CASE dpc' = "error" /\ out' = out
    BY <1>2, <2>2 DEF DecTypeOK
  <2>3. CASE dpc' = "done" /\ \E k \in 1..BlockSize : out' = Given(n, k)
    <3>1. PICK k \in 1..BlockSize : out' = Given(n, k)
      BY <2>3
    <3>2. k \in 0..BlockSize
      BY BlockParams
    <3>3. out' \in Seq(Byte)
      BY <1>2, <2>1, <3>1, <3>2, GivesBack
    <3> QED
      BY <2>3, <3>3
  <2> QED
    BY <1>1, <2>2, <2>3, TrailerOutcome
<1>4. /\ UNCHANGED <<file, partial, dnew, dblk, di>>
      /\ rpos' = rpos + 1 /\ dcbc' = file[rpos + 1] /\ droll' = InitRoll(droll)
  BY DEF DecryptTrailer
<1>5. rpos' \in 0..Len(file') /\ rpos + 1 \in 1..Len(file)
  <2>1. rpos = Len(file) - 1
    BY <1>2 DEF RTIInv, AtTrailer
  <2>2. rpos \in Nat /\ Len(file) \in Nat
    BY <1>2 DEF DecTypeOK
  <2> QED
    BY <1>4, <2>1, <2>2
<1>6. dcbc' \in Seq(Block)
  BY <1>2, <1>4, <1>5 DEF DecTypeOK
<1>7. droll' \in RollState
  BY <1>2, <1>4, RollTypes DEF DecTypeOK
<1> QED
  BY <1>2, <1>3, <1>4, <1>5, <1>6, <1>7 DEF DecTypeOK

LEMMA TrailerStep ==
  ASSUME RTIInv, DecryptTrailer, UNCHANGED <<encVars, blocks>>
  PROVE  RTIInv'
<1>1. PICK n, N : n = rpos /\ N = Len(blocks)
  OBVIOUS
<1>2. dpc = "trailer" /\ UNCHANGED <<file, partial>>
  BY DEF DecryptTrailer
<1>3. Written' /\ cipher' = cipher /\ epc' = epc /\ plain' = plain /\ buf' = buf /\ blocks' = blocks
  BY WrittenKept DEF RTIInv, encVars
<1>4. DecTypeOK' /\ dpc' \in {"done", "error"}
  BY <1>1, TrailerType, TrailerOutcome
<1>5. Delivered'
  BY <1>2, <1>3 DEF RTIInv, Delivered
<1>6. Intact' <=> Intact
  BY <1>2, <1>3, <1>4 DEF Intact
<1>7. dpc' = "error" => ~Intact
  BY <1>1, TrailerOutcome
<1>8. ASSUME dpc' = "done", Intact PROVE Restored'
  <2>1. PICK k \in 1..BlockSize :
          out' = Given(n, k) /\ n = N /\ k = IF buf = <<>> THEN BlockSize ELSE Len(buf)
    BY <1>1, <1>8, TrailerOutcome
  <2>2. epc = "done" /\ To(N) = Len(plain) /\ N \in 1..N
    BY <1>1, <1>2, FileFacts
  <2>3. PICK d : d = out'
    OBVIOUS
  <2>4. IsPrefix(plain, d) /\ (~EndsInsideBlock => d = plain)
    BY <1>1, <2>1, <2>2, <2>3, TrailerRestores
  <2>5. EndsInsideBlock' <=> EndsInsideBlock
    BY <1>3 DEF EndsInsideBlock
  <2> QED
    BY <1>3, <2>3, <2>4, <2>5 DEF Restored
<1>9. Verdict'
  BY <1>6, <1>7, <1>8 DEF Verdict
<1> QED
  BY <1>3, <1>4, <1>5, <1>9 DEF RTIInv, Waiting, Between, Decrypted, Scanning, AtTrailer

-----------------------------------------------------------------------------
(* All of it. *)

LEMMA RTIInvInit == RTInit => RTIInv
<1> SUFFICES ASSUME RTInit PROVE RTIInv
  OBVIOUS
<1>1. Written /\ DecInit
  BY WrittenInit DEF RTInit
<1>2. /\ file = <<>> /\ partial = FALSE /\ rpos = 0 /\ dnew = TRUE /\ dcbc = <<>>
      /\ dblk = PadBlock(<<>>) /\ di = 0 /\ out = <<>> /\ dpc = "off"
  BY <1>1 DEF DecInit
<1>3. droll \in RollState
  <2>1. PICK w \in Window : droll = FreshRoll(w)
    BY <1>1 DEF DecInit
  <2> QED
    BY <2>1, RollParams DEF FreshRoll, RollState
<1>4. dblk \in Block
  <2>1. <<>> \in Seq(Byte) /\ Len(<<>>) <= BlockSize
    BY BlockParams
  <2> QED
    BY <1>2, <2>1, PadBlockType
<1>5. DecTypeOK
  <2>1. Len(file) = 0 /\ rpos \in 0..Len(file) /\ di \in 0..BlockSize
    BY <1>2, BlockParams
  <2>2. file \in Seq(Seq(Block) \ {<<>>}) /\ dcbc \in Seq(Block) /\ out \in Seq(Byte)
    BY <1>2
  <2> QED
    BY <1>2, <1>3, <1>4, <2>1, <2>2 DEF DecTypeOK
<1> QED
  BY <1>1, <1>2, <1>5
  DEF RTIInv, Waiting, Delivered, Between, Decrypted, Scanning, AtTrailer, Verdict

\* While encryption runs, decryption has not started.
LEMMA EncryptFirst ==
  ASSUME RTIInv, Encrypt
  PROVE  dpc = "off" /\ plain' = plain /\ UNCHANGED decVars
<1>1. epc = "loop" /\ plain' = plain /\ UNCHANGED decVars
  BY DEF Encrypt, EncNext, EncryptByte, EncryptTail
<1> QED
  BY <1>1 DEF RTIInv, Delivered

LEMMA EncryptStep ==
  ASSUME RTIInv, Encrypt
  PROVE  RTIInv'
<1>1. dpc = "off" /\ UNCHANGED decVars
  BY EncryptFirst
<1>2. Written'
  BY WrittenStep DEF RTIInv
<1>3. DecTypeOK' /\ Waiting' /\ dpc' = "off"
  BY <1>1 DEF RTIInv, DecTypeOK, Waiting, decVars
<1> QED
  BY <1>2, <1>3
  DEF RTIInv, Delivered, Between, Decrypted, Scanning, AtTrailer, Verdict

\* Every block written is on a chain of at least itself.
LEMMA CipherType ==
  ASSUME Written, epc = "done"
  PROVE  cipher \in Seq(Seq(Block) \ {<<>>})
<1>1. PICK N : N = Len(blocks)
  OBVIOUS
<1>2. N \in Nat /\ Len(cipher) = N + 1 /\ cipher[N + 1] = <<Trailer(Len(buf))>>
  BY <1>1, Numbers DEF Written, Finished
<1>3. cipher \in Seq(Seq(Block))
  BY DEF Written, EncIInv, EncTypeOK
<1>4. ASSUME NEW n \in 1..Len(cipher) PROVE cipher[n] \in Seq(Block) \ {<<>>}
  <2>1. cipher[n] \in Seq(Block)
    BY <1>3
  <2>2. CASE n = N + 1
    <3>1. PICK t : cipher[n] = <<t>>
      BY <1>2, <2>2
    <3>2. Len(<<t>>) = 1
      OBVIOUS
    <3> QED
      BY <2>1, <3>1, <3>2
  <2>3. CASE n # N + 1
    <3>1. n \in 1..Len(blocks) /\ n - 1 \in 0..Len(blocks) /\ Len(blocks) <= Len(cipher)
      BY <1>1, <1>2, <2>3
    <3>2. cipher[n] = Append(Chain(n - 1), Content(n))
      BY <3>1, BlockFacts DEF WellCut
    <3>3. Chain(n - 1) \in Seq(Block) /\ Content(n) \in Block
      BY <3>1, ChainType, ContentFacts
    <3> QED
      BY <2>1, <3>2, <3>3, AppendProperties
  <2> QED
    BY <2>2, <2>3
<1> QED
  BY <1>3, <1>4, LenProperties, SeqDef

LEMMA DeliverStep ==
  ASSUME RTIInv, Deliver
  PROVE  RTIInv'
<1>1. /\ epc = "done" /\ dpc = "off" /\ dpc' = "loop"
      /\ UNCHANGED <<rpos, dnew, droll, dcbc, dblk, di, out>> /\ UNCHANGED <<encVars, blocks>>
  BY DEF Deliver
<1>2. PICK n \in 0..Len(cipher) :
        /\ file' = SubSeq(cipher, 1, n)
        /\ partial' \in {p \in BOOLEAN : p => n < Len(cipher)}
  BY DEF Deliver
<1>3. Written /\ DecTypeOK /\ rpos = 0 /\ dnew /\ out = <<>>
  BY <1>1 DEF RTIInv, Waiting
<1>4. /\ Written' /\ cipher' = cipher /\ epc' = epc /\ plain' = plain /\ sums' = sums
      /\ To(0)' = To(0) /\ NextStart(0)' = NextStart(0) /\ Chain(0)' = Chain(0)
  BY <1>1, <1>3, WrittenKept DEF encVars
<1>5. cipher \in Seq(Seq(Block) \ {<<>>})
  BY <1>1, <1>3, CipherType
<1>6. /\ file' \in Seq(Seq(Block) \ {<<>>}) /\ Len(file') = n
      /\ \A j \in 1..n : file'[j] = cipher[j]
  BY <1>2, <1>5, Start
<1>7. DecTypeOK'
  <2>1. rpos' \in 0..Len(file') /\ partial' \in BOOLEAN
    BY <1>1, <1>2, <1>3, <1>6
  <2> QED
    BY <1>1, <1>3, <1>6, <2>1 DEF DecTypeOK
<1>8. Delivered'
  BY <1>1, <1>2, <1>4, <1>6 DEF Delivered
<1>9. Between'
  <2>1. To(0) = 0 /\ NextStart(0) = 0 /\ Chain(0) = <<>>
    BY DEF To, NextStart, Chain
  <2>2. Tracks(InitRoll(droll), 0, 0)
    <3>1. 0 \in 0..pos /\ droll \in RollState
      BY <1>3, Numbers DEF DecTypeOK
    <3> QED
      BY <1>3, <3>1, TracksFresh
  <2>3. Tracks(ChunkRoll(dnew, droll), 0, 0)'
    <3>1. ChunkRoll(dnew, droll)' = InitRoll(droll)
      BY <1>1, <1>3 DEF ChunkRoll, InitRoll
    <3> QED
      BY <1>4, <2>2, <3>1 DEF Tracks, WindowTotal
  <2>4. rpos' = 0 /\ out' = <<>> /\ ChunkBase(dnew, dcbc)' = <<>>
    BY <1>1, <1>3 DEF ChunkBase
  <2>5. To(rpos)' = 0 /\ NextStart(rpos)' = 0 /\ Chain(rpos)' = <<>>
    BY <2>4 DEF To, NextStart, Chain
  <2>6. SubSeq(plain', 1, 0) = <<>>
    BY SubSeqEmpty
  <2> QED
    BY <2>3, <2>4, <2>5, <2>6 DEF Between, Tracks
<1> QED
  BY <1>1, <1>4, <1>7, <1>8, <1>9 DEF RTIInv, Waiting, Decrypted, Scanning, AtTrailer, Verdict

LEMMA RTIInvStep == RTIInv /\ [RTNext]_rtVars => RTIInv'
<1> SUFFICES ASSUME RTIInv, [RTNext]_rtVars PROVE RTIInv'
  OBVIOUS
<1>1. CASE Encrypt
  BY <1>1, EncryptStep
<1>2. CASE Deliver
  BY <1>2, DeliverStep
<1>3. CASE Decrypt
  BY <1>3, ReadStep, ScanStep, ScannedStep, NothingLeftStep, TrailerStep DEF Decrypt, DecNext
<1>4. CASE UNCHANGED rtVars
  <2>1. Written'
    BY <1>4, WrittenKept DEF RTIInv, rtVars
  <2> QED
    BY <1>4, <2>1, ZenonT(60)
    DEF RTIInv, rtVars, encVars, decVars, DecTypeOK, Waiting, Delivered, Between, Decrypted,
        Scanning, AtTrailer, Verdict, Restored, EndsInsideBlock, Intact, NearEnd, To, NextStart,
        Chain, Content, Size, Left, ContentBoundary, WindowTotal, Tracks, ChunkBase, ChunkRoll
<1> QED
  BY <1>1, <1>2, <1>3, <1>4 DEF RTNext, Rest

\* What decryption relies on: the encryptor's account of its blocks, and the
\* decryptor in step with it at every byte.
THEOREM RTInvariant == RTSpec => []RTIInv
<1> QED
  BY RTIInvInit, RTIInvStep, PTL DEF RTSpec

\* Type correctness of encryption and decryption together: nothing is read past
\* the end of the file, and every block fits.
THEOREM TypesHold == RTSpec => []RTTypeOK
<1>1. RTIInv => RTTypeOK
  BY DEF RTIInv, Written, EncIInv, RTTypeOK
<1> QED
  BY <1>1, RTInvariant, PTL

\* encrypt_file and decrypt_file are inverse: an intact file is accepted and
\* restored to the byte, whatever the plain text and the key's parameters; the
\* padding of the last block stays only where a chunk ends inside it.
THEOREM IntactIsRestored == RTSpec => []IntactRestored
<1>1. RTIInv => IntactRestored
  BY DEF RTIInv, Verdict, Restored, IntactRestored
<1> QED
  BY <1>1, RTInvariant, PTL

-----------------------------------------------------------------------------
(* RoundTrip implements FaithfulCopy. *)

\* What is given away begins with plain; zeros may follow, less than a block.
LEMMA GivenShows ==
  ASSUME RTIInv, NEW n \in 1..Len(blocks), NEW k \in 1..BlockSize, NEW d, d = Given(n, k)
  PROVE  \E m \in 0..Len(d) :
           /\ m <= Len(plain) /\ SubSeq(d, 1, m) = SubSeq(plain, 1, m)
           /\ Len(d) - m <= BlockSize - 1
           /\ \A j \in (m + 1)..Len(d) : d[j] = 0
<1>1. PICK f, e : f = blocks[n].from /\ e = blocks[n].to
  OBVIOUS
<1>2. Written /\ plain \in Seq(Byte)
  BY Numbers DEF RTIInv
<1>3. /\ f \in Nat /\ e \in Nat /\ f < e /\ e - f <= BlockSize /\ e <= Len(plain)
      /\ BlockSize \in Nat /\ BlockSize > 0 /\ k \in 0..BlockSize /\ Len(plain) \in Nat
  <2>1. /\ f \in Nat /\ e \in Nat /\ f < e /\ e - f <= BlockSize /\ e <= pos
    BY <1>1, <1>2, BlockFacts DEF WellCut, Size
  <2> QED
    BY <1>2, <2>1, Numbers
<1>4. /\ d \in Seq(Byte) /\ Len(d) = f + k
      /\ \A j \in 1..f : d[j] = plain[j]
      /\ \A j \in (f + 1)..(f + k) : d[j] = IF j <= e THEN plain[j] ELSE 0
  <2>1. /\ d \in Seq(Byte) /\ Len(d) = blocks[n].from + k
        /\ \A j \in 1..blocks[n].from : d[j] = plain[j]
        /\ \A j \in (blocks[n].from + 1)..(blocks[n].from + k) :
             d[j] = IF j <= blocks[n].to THEN plain[j] ELSE 0
    <3>1. Written /\ k \in 0..BlockSize
      BY <1>2, <1>3
    <3> QED
      BY <3>1, GivesBack
  <2> QED
    BY <1>1, <2>1
<1>5. PICK m : m = IF f + k <= e THEN f + k ELSE e
  OBVIOUS
<1>6. m \in 0..Len(d) /\ m \in Nat /\ m <= Len(plain) /\ m <= e /\ Len(d) - m <= BlockSize - 1
  BY <1>3, <1>4, <1>5
<1>7. \A j \in 1..m : d[j] = plain[j]
  <2>1. \A j \in 1..m : j \in 1..f \/ (j \in (f + 1)..(f + k) /\ j <= e)
    BY <1>3, <1>4, <1>6
  <2> QED
    BY <1>4, <2>1
<1>8. \A j \in (m + 1)..Len(d) : d[j] = 0
  <2>1. \A j \in (m + 1)..Len(d) : j \in (f + 1)..(f + k) /\ ~(j <= e)
    BY <1>3, <1>4, <1>5
  <2> QED
    BY <1>4, <2>1
<1>9. SubSeq(d, 1, m) = SubSeq(plain, 1, m)
  <2>1. PICK u, v : u = SubSeq(d, 1, m) /\ v = SubSeq(plain, 1, m)
    OBVIOUS
  <2>2. /\ u \in Seq(Byte) /\ Len(u) = m /\ \A j \in 1..m : u[j] = d[j]
        /\ v \in Seq(Byte) /\ Len(v) = m /\ \A j \in 1..m : v[j] = plain[j]
    <3>1. m <= Len(d)
      BY <1>6
    <3> QED
      BY <1>2, <1>4, <1>6, <2>1, <3>1, Start
  <2>3. \A j \in 1..m : u[j] = v[j]
    BY <1>7, <2>2
  <2> QED
    BY <2>1, <2>2, <2>3, SeqEqual
<1> QED
  BY <1>6, <1>7, <1>8, <1>9

\* So does a start of it.
LEMMA StartShows ==
  ASSUME RTIInv, NEW m \in Nat, m <= Len(plain), NEW d, d = SubSeq(plain, 1, m)
  PROVE  /\ d \in Seq(Byte) /\ Len(d) = m /\ \A j \in 1..m : d[j] = plain[j]
         /\ \E i \in 0..Len(d) :
              /\ i <= Len(plain) /\ SubSeq(d, 1, i) = SubSeq(plain, 1, i)
              /\ Len(d) - i <= BlockSize - 1
              /\ \A j \in (i + 1)..Len(d) : d[j] = 0
<1>1. plain \in Seq(Byte) /\ BlockSize \in Nat /\ BlockSize > 0
  BY Numbers DEF RTIInv
<1>2. d \in Seq(Byte) /\ Len(d) = m /\ \A j \in 1..m : d[j] = plain[j]
  BY <1>1, Start
<1>3. SubSeq(d, 1, m) = SubSeq(plain, 1, m)
  <2>1. SubSeq(d, 1, Len(d)) = d
    BY <1>2, SubSeqFull
  <2> QED
    BY <1>2, <2>1
<1>4. m \in 0..Len(d) /\ Len(d) - m <= BlockSize - 1 /\ \A j \in (m + 1)..Len(d) : FALSE
  BY <1>1, <1>2
<1> QED
  BY <1>2, <1>3, <1>4

\* What decryption hands over it does not take back.
LEMMA OutGrows ==
  ASSUME RTIInv, NEW n \in 1..Len(blocks), out = SubSeq(plain, 1, blocks[n].from),
         NEW d \in Seq(Byte), blocks[n].from <= Len(d), \A j \in 1..blocks[n].from : d[j] = plain[j]
  PROVE  IsPrefix(out, d)
<1>1. Written
  BY DEF RTIInv
<1>2. PICK f : f = blocks[n].from
  OBVIOUS
<1>3. f \in Nat /\ f <= Len(plain)
  <2>1. blocks[n].from \in Nat /\ blocks[n].to \in Nat /\ blocks[n].from < blocks[n].to /\ blocks[n].to <= pos
    BY <1>1, BlockFacts DEF WellCut
  <2> QED
    BY <1>1, <1>2, <2>1, Numbers
<1>4. out \in Seq(Byte) /\ Len(out) = f /\ \A j \in 1..f : out[j] = plain[j]
  BY <1>2, <1>3, StartShows, SMTT(30)
<1> QED
  BY <1>2, <1>4, PrefixByElements

LEMMA CopyInitHolds == RTInit => Copy!CopyInit
BY DEF RTInit, DecInit, Copy!CopyInit

LEMMA CopyArrives ==
  ASSUME Deliver
  PROVE  Copy!Arrive
<1>1. /\ dpc = "off" /\ dpc' = "loop" /\ out' = out /\ plain' = plain
  BY DEF Deliver, encVars
<1>2. (dpc = "off" \/ Intact)' \in BOOLEAN
  BY DEF Intact
<1> QED
  BY <1>1, <1>2 DEF Copy!Arrive

\* A step that extends out, and goes on or ends as it should.
LEMMA CopyExtends ==
  ASSUME dpc \in {"loop", "scan", "trailer"}, UNCHANGED <<encVars, file, partial>>,
         IsPrefix(out, out'), Copy!Shows(out'),
         \/ dpc' \in {"loop", "scan", "trailer"}
         \/ dpc' = "done" /\ (Intact => IsPrefix(plain, out'))
         \/ dpc' = "error" /\ ~Intact
  PROVE  Copy!Extend
<1>1. /\ dpc # "off" /\ dpc' # "off" /\ plain' = plain /\ cipher' = cipher /\ file' = file /\ partial' = partial
  BY DEF encVars
<1>2. (dpc = "off" \/ Intact)' = (dpc = "off" \/ Intact) /\ ((dpc = "off" \/ Intact) <=> Intact)
  BY <1>1 DEF Intact
<1>3. Copy!IsPrefix(out, out') /\ (IsPrefix(plain, out') => Copy!IsPrefix(plain, out'))
  BY DEF IsPrefix, Copy!IsPrefix
<1>4. CASE dpc' \in {"loop", "scan", "trailer"}
  BY <1>1, <1>2, <1>3, <1>4 DEF Copy!Extend
<1>5. CASE dpc' = "done" /\ (Intact => IsPrefix(plain, out'))
  BY <1>1, <1>2, <1>3, <1>5 DEF Copy!Extend
<1>6. CASE dpc' = "error" /\ ~Intact
  BY <1>1, <1>2, <1>3, <1>6 DEF Copy!Extend
<1> QED
  BY <1>4, <1>5, <1>6

LEMMA CopyScanned ==
  ASSUME RTIInv, BlockScanned, UNCHANGED encVars
  PROVE  Copy!Extend
<1>1. PICK n : n = rpos
  OBVIOUS
<1>2. Written
  BY DEF RTIInv
<1>3. dpc = "scan" /\ UNCHANGED <<file, partial>>
  BY DEF BlockScanned
<1>4. n \in 1..Len(blocks) /\ out = SubSeq(plain, 1, blocks[n].from)
  BY <1>1, <1>3 DEF RTIInv, Decrypted
<1>5. PICK f, e : f = blocks[n].from /\ e = blocks[n].to
  OBVIOUS
<1>6. f \in Nat /\ e \in Nat /\ f < e /\ e <= Len(plain) /\ f <= Len(plain)
  <2>1. f \in Nat /\ e \in Nat /\ f < e /\ e <= pos
    BY <1>2, <1>4, <1>5, BlockFacts DEF WellCut
  <2> QED
    BY <1>2, <2>1, Numbers
<1>7. PICK d : d = out'
  OBVIOUS
<1>8. PICK m : m \in {f, e} /\ d = SubSeq(plain, 1, m)
  BY <1>1, <1>4, <1>5, <1>7, ScannedOutcome
<1>9. /\ d \in Seq(Byte) /\ Len(d) = m /\ \A j \in 1..m : d[j] = plain[j]
      /\ \E i \in 0..Len(d) :
           /\ i <= Len(plain) /\ SubSeq(d, 1, i) = SubSeq(plain, 1, i)
           /\ Len(d) - i <= BlockSize - 1
           /\ \A j \in (i + 1)..Len(d) : d[j] = 0
  <2>1. m \in Nat /\ m <= Len(plain)
    BY <1>6, <1>8
  <2> QED
    BY <1>8, <2>1, StartShows
<1>10. IsPrefix(out, d)
  <2>1. f <= m /\ \A j \in 1..f : j \in 1..m
    BY <1>6, <1>8
  <2> QED
    BY <1>4, <1>5, <1>9, <2>1, OutGrows
<1>11. Copy!Shows(out')
  BY <1>7, <1>9 DEF Copy!Shows
<1>12. dpc' \in {"loop", "trailer"} \/ (dpc' = "error" /\ ~Intact)
  <2>1. dpc' \in {"loop", "trailer"} \/ (dpc' = "error" /\ file # cipher)
    BY <1>1, ScannedOutcome
  <2>2. file # cipher => ~Intact
    BY DEF Intact
  <2> QED
    BY <2>1, <2>2
<1> QED
  BY <1>3, <1>7, <1>10, <1>11, <1>12, CopyExtends

LEMMA CopyNothingLeft ==
  ASSUME RTIInv, DecryptNothingLeft, UNCHANGED encVars
  PROVE  Copy!Extend
<1>1. dpc = "loop" /\ dpc' = "error" /\ UNCHANGED <<file, partial, out>>
  BY DEF DecryptNothingLeft
<1>2. PICK m : m = To(rpos)
  OBVIOUS
<1>3. out = SubSeq(plain, 1, m)
  BY <1>1, <1>2 DEF RTIInv, Between
<1>4. m \in Nat /\ m <= Len(plain)
  <2>1. Written
    BY DEF RTIInv
  <2>2. rpos \in 0..Len(blocks)
    <3>1. dpc # "off"
      BY <1>1
    <3>2. rpos \in Nat /\ Len(blocks) \in Nat
      BY <2>1, Numbers DEF RTIInv, DecTypeOK
    <3>3. rpos = 0 \/ ~NearEnd(rpos)
      BY <1>1 DEF RTIInv, Between
    <3> QED
      BY <3>1, <3>2, <3>3, FarFromEnd
  <2> QED
    BY <1>2, <2>1, <2>2, StartBeforeTo, Numbers
<1>5. PICK d : d = out
  OBVIOUS
<1>6. /\ d \in Seq(Byte) /\ Len(d) = m
      /\ \E i \in 0..Len(d) :
           /\ i <= Len(plain) /\ SubSeq(d, 1, i) = SubSeq(plain, 1, i)
           /\ Len(d) - i <= BlockSize - 1
           /\ \A j \in (i + 1)..Len(d) : d[j] = 0
  BY <1>3, <1>4, <1>5, StartShows
<1>7. IsPrefix(d, d)
  BY <1>4, <1>6, PrefixByElements
<1>8. out' = d
  BY <1>1, <1>5
<1>9. Copy!Shows(out')
  BY <1>6, <1>8 DEF Copy!Shows
<1> QED
  BY <1>1, <1>5, <1>7, <1>8, <1>9, NothingLeftShort, CopyExtends

LEMMA CopyTrailer ==
  ASSUME RTIInv, DecryptTrailer, UNCHANGED <<encVars, blocks>>
  PROVE  Copy!Extend
<1>1. PICK n : n = rpos
  OBVIOUS
<1>2. Written
  BY DEF RTIInv
<1>3. dpc = "trailer" /\ UNCHANGED <<file, partial>>
  BY DEF DecryptTrailer
<1>4. n \in 1..Len(blocks) /\ out = SubSeq(plain, 1, blocks[n].from)
  BY <1>1, <1>3 DEF RTIInv, Decrypted
<1>5. PICK f : f = blocks[n].from
  OBVIOUS
<1>6. f \in Nat /\ f <= Len(plain)
  <2>1. blocks[n].from \in Nat /\ blocks[n].to \in Nat /\ blocks[n].from < blocks[n].to /\ blocks[n].to <= pos
    BY <1>2, <1>4, BlockFacts DEF WellCut
  <2> QED
    BY <1>2, <1>5, <2>1, Numbers
<1>7. PICK d : d = out'
  OBVIOUS
<1>8. CASE dpc' = "error" /\ out' = out /\ ~Intact
  <2>1. d = SubSeq(plain, 1, f)
    BY <1>4, <1>5, <1>7, <1>8
  <2>2. /\ d \in Seq(Byte) /\ Len(d) = f /\ \A j \in 1..f : d[j] = plain[j]
        /\ \E i \in 0..Len(d) :
             /\ i <= Len(plain) /\ SubSeq(d, 1, i) = SubSeq(plain, 1, i)
             /\ Len(d) - i <= BlockSize - 1
             /\ \A j \in (i + 1)..Len(d) : d[j] = 0
    BY <1>6, <2>1, StartShows
  <2>3. IsPrefix(out, d)
    <3>1. blocks[n].from <= Len(d) /\ \A j \in 1..blocks[n].from : d[j] = plain[j]
      BY <1>5, <1>6, <2>2
    <3> QED
      BY <1>4, <2>2, <3>1, OutGrows
  <2>4. Copy!Shows(out')
    BY <1>7, <2>2 DEF Copy!Shows
  <2> QED
    BY <1>3, <1>7, <1>8, <2>3, <2>4, CopyExtends
<1>9. CASE dpc' = "done"
  <2>1. PICK k \in 1..BlockSize : out' = Given(n, k)
    BY <1>1, <1>9, TrailerOutcome
  <2>2. d = Given(n, k) /\ k \in 0..BlockSize /\ k \in Nat
    BY <1>7, <2>1, BlockParams
  <2>3. /\ d \in Seq(Byte) /\ Len(d) = blocks[n].from + k
        /\ \A j \in 1..blocks[n].from : d[j] = plain[j]
    BY <1>2, <1>4, <2>2, GivesBack
  <2>4. IsPrefix(out, d)
    <3>1. blocks[n].from <= Len(d)
      BY <1>5, <1>6, <2>2, <2>3
    <3> QED
      BY <1>4, <2>3, <3>1, OutGrows
  <2>5. \E m \in 0..Len(d) :
          /\ m <= Len(plain) /\ SubSeq(d, 1, m) = SubSeq(plain, 1, m)
          /\ Len(d) - m <= BlockSize - 1
          /\ \A j \in (m + 1)..Len(d) : d[j] = 0
    BY <1>4, <2>2, GivenShows
  <2>6. Copy!Shows(out')
    BY <1>7, <2>5 DEF Copy!Shows
  <2>7. Intact => IsPrefix(plain, out')
    <3>1. Verdict'
      BY TrailerStep DEF RTIInv
    <3>2. Intact => Intact'
      BY <1>3, <1>9 DEF Intact, encVars
    <3>3. plain' = plain
      BY DEF encVars
    <3> QED
      BY <1>9, <3>1, <3>2, <3>3 DEF Verdict, Restored
  <2> QED
    BY <1>3, <1>7, <1>9, <2>4, <2>6, <2>7, CopyExtends
<1> QED
  BY <1>1, <1>8, <1>9, TrailerOutcome

LEMMA CopyStep == RTIInv /\ [RTNext]_rtVars => [Copy!CopyNext]_(Copy!copyVars)
<1> SUFFICES ASSUME RTIInv, [RTNext]_rtVars PROVE [Copy!CopyNext]_(Copy!copyVars)
  OBVIOUS
<1>1. CASE Encrypt
  <2>1. dpc = "off" /\ dpc' = "off" /\ plain' = plain /\ out' = out
    BY <1>1, EncryptFirst DEF decVars
  <2> QED
    BY <2>1 DEF Copy!copyVars
<1>2. CASE Deliver
  BY <1>2, CopyArrives DEF Copy!CopyNext
<1>3. CASE Decrypt
  <2>1. UNCHANGED <<encVars, blocks>> /\ UNCHANGED encVars
    BY <1>3 DEF Decrypt
  <2>2. CASE ReadBlock \/ ScanByte
    <3>1. /\ dpc \in {"loop", "scan"} /\ dpc' \in {"loop", "scan"}
          /\ out' = out /\ file' = file /\ partial' = partial /\ plain' = plain /\ cipher' = cipher
      BY <2>1, <2>2 DEF ReadBlock, ScanByte, encVars
    <3>2. (dpc = "off" \/ Intact)' = (dpc = "off" \/ Intact)
      BY <3>1 DEF Intact
    <3> QED
      BY <3>1, <3>2 DEF Copy!copyVars
  <2>3. CASE BlockScanned \/ DecryptNothingLeft \/ DecryptTrailer
    BY <2>1, <2>3, CopyScanned, CopyNothingLeft, CopyTrailer DEF Copy!CopyNext
  <2> QED
    BY <1>3, <2>2, <2>3 DEF Decrypt, DecNext
<1>4. CASE UNCHANGED rtVars
  <2>1. /\ dpc' = dpc /\ out' = out /\ file' = file /\ partial' = partial /\ plain' = plain /\ cipher' = cipher
    BY <1>4 DEF rtVars, encVars, decVars
  <2>2. (dpc = "off" \/ Intact)' = (dpc = "off" \/ Intact)
    BY <2>1 DEF Intact
  <2> QED
    BY <2>1, <2>2 DEF Copy!copyVars
<1> QED
  BY <1>1, <1>2, <1>3, <1>4 DEF RTNext, Rest

\* The user of rsyncrypto is promised FaithfulCopy, and gets it: also of a file
\* cut short nothing but plain text reaches gunzip, with less than a block of
\* zeros behind it, and only a damaged file is refused.
THEOREM CopyIsFaithful == RTSpec => IsFaithfulCopy
<1>1. RTInit => Copy!CopyInit
  BY CopyInitHolds
<1>2. RTIInv /\ [RTNext]_rtVars => [Copy!CopyNext]_(Copy!copyVars)
  BY CopyStep
<1> QED
  BY <1>1, <1>2, RTInvariant, PTL DEF RTSpec, IsFaithfulCopy, Copy!CopySpec
=============================================================================
