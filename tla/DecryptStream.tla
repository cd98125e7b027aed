---------------------------- MODULE DecryptStream ----------------------------
(***************************************************************************)
(* decrypt_file (crypto.cpp): the file is decrypted a block at a time and  *)
(* fed to gunzip; the block after the last one tells how much of that one  *)
(* counts.  A turn of the loop is the read, the scan for the end of the    *)
(* chunk a byte at a time, and what is made of it.                         *)
(***************************************************************************)
EXTENDS RollingKey

VARIABLES
  file,      \* the cipher blocks after the header, as the file has them now
  partial,   \* bytes follow the last whole block, fewer than a block
  rpos,      \* whole blocks read (currpos)
  dnew,      \* new_block
  droll,     \* the ptbuf_* members of the key
  dcbc,      \* cbc_base of the key
  dblk,      \* buffer: the last block decrypted
  di,        \* i: bytes of it that the scan has taken in
  out,       \* the bytes written to the pipe to gunzip
  dpc        \* "off", "loop", "scan", "trailer", "done" or "error" (an exception)

decVars == <<file, partial, rpos, dnew, droll, dcbc, dblk, di, out, dpc>>

DecTypeOK ==
  /\ file \in Seq(Seq(Block) \ {<<>>})
  /\ partial \in BOOLEAN
  /\ rpos \in 0..Len(file)
  /\ dnew \in BOOLEAN
  /\ droll \in RollState
  /\ dcbc \in Seq(Block)
  /\ dblk \in Block
  /\ di \in 0..BlockSize
  /\ out \in Seq(Byte)
  /\ dpc \in {"off", "loop", "scan", "trailer", "done", "error"}

\* A key of its own; buffer and plaintext_buffer are fresh memory, of which
\* the code reads nothing it has not written.
DecInit ==
  /\ file = <<>>
  /\ partial = FALSE
  /\ rpos = 0
  /\ dnew = TRUE
  /\ \E w \in Window : droll = FreshRoll(w)
  /\ dcbc = <<>>
  /\ dblk = PadBlock(<<>>)
  /\ di = 0
  /\ out = <<>>
  /\ dpc = "off"

\* A turn of the loop reads and decrypts a whole block.
ReadBlock ==
  /\ dpc = "loop" /\ rpos < Len(file)
  /\ dblk' \in Decryptions(file[rpos + 1], ChunkBase(dnew, dcbc))
  /\ dcbc' = file[rpos + 1]
  /\ droll' = ChunkRoll(dnew, droll) /\ dnew' = FALSE
  /\ rpos' = rpos + 1 /\ di' = 0 /\ dpc' = "scan"
  /\ UNCHANGED <<file, partial, out>>

\* Bug: the scan does not stop at the end of a chunk.
BugScansOn == di < BlockSize

\* for( i=0; i<block_size && !new_block; ++i )
Scans == di < BlockSize /\ ~dnew

ScanByte ==
  /\ dpc = "scan" /\ Scans
  /\ droll' = CalcBoundry(droll, dblk[di + 1])
  /\ dnew' = AtBoundry(droll')
  /\ di' = di + 1
  /\ UNCHANGED <<file, partial, rpos, dcbc, dblk, out, dpc>>

\* currpos>=st_size-block_size, and the same with >, in blocks.
NearEnd(pos) == pos >= (IF partial THEN Len(file) ELSE Len(file) - 1)
PastEnd(pos) == pos >= Len(file)

\* The block goes to gunzip, or is kept for the trailer; the bytes after the
\* end of a chunk have to be zero.
BlockScanned ==
  /\ dpc = "scan" /\ ~Scans
  /\ out' = IF NearEnd(rpos) THEN out ELSE out \o SubSeq(dblk, 1, di)
  /\ dpc' = IF (NearEnd(rpos) /\ PastEnd(rpos)) \/ \E j \in (di + 1)..BlockSize : dblk[j] # 0
               THEN "error"
               ELSE IF NearEnd(rpos) THEN "trailer" ELSE "loop"
  /\ UNCHANGED <<file, partial, rpos, dnew, droll, dcbc, dblk, di>>

\* Bug: a short read is tried again.
BugReadsAgain ==
  /\ dpc = "loop" /\ rpos = Len(file)
  /\ dpc' = IF partial THEN "loop" ELSE "error"
  /\ UNCHANGED <<file, partial, rpos, dnew, droll, dcbc, dblk, di, out>>

\* No whole block left in the loop: "Unexpected file end", or the loop ends
\* and the trailer cannot be read.
DecryptNothingLeft ==
  /\ dpc = "loop" /\ rpos = Len(file)
  /\ dpc' = "error"
  /\ UNCHANGED <<file, partial, rpos, dnew, droll, dcbc, dblk, di, out>>

\* Bug: a trailer of zero is not taken to mean a full block.
BugZeroIsZero(block) == block[1]

\* if( buffer2[0]==0 ) buffer2[0]=block_size;
TrailerLen(block) == IF block[1] = 0 THEN BlockSize ELSE block[1]

\* The block after the last one, decrypted from the IV into buffer2.
DecryptTrailer ==
  /\ dpc = "trailer"
  /\ \E block \in Decryptions(file[rpos + 1], <<>>) :
       IF block[1] >= BlockSize \/ \E j \in 2..BlockSize : block[j] # 0
         THEN dpc' = "error" /\ UNCHANGED out
         ELSE /\ out' = out \o SubSeq(dblk, 1, TrailerLen(block))
              /\ dpc' = "done"
  /\ rpos' = rpos + 1
  /\ dcbc' = file[rpos + 1]
  /\ droll' = InitRoll(droll)
  /\ UNCHANGED <<file, partial, dnew, dblk, di>>

DecNext == ReadBlock \/ ScanByte \/ BlockScanned \/ DecryptNothingLeft \/ DecryptTrailer
=============================================================================
