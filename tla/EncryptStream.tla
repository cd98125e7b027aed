---------------------------- MODULE EncryptStream ----------------------------
(***************************************************************************)
(* encrypt_file (crypto.cpp): the output of gzip is cut into chunks, every *)
(* chunk is encrypted from the IV, and a trailer block says how much of    *)
(* the last block counts.  One action is one turn of the loop.             *)
(***************************************************************************)
EXTENDS RollingKey

CONSTANT Plains    \* the outputs of gzip considered

ASSUME PlainsAreBytes == Plains \subseteq Seq(Byte)

VARIABLES
  plain,     \* what gzip writes to the pipe
  pos,       \* bytes of it read so far
  newBlock,  \* new_block: the next byte starts a chunk
  buf,       \* buffer[0..i-1]
  roll,      \* the ptbuf_* members of the key
  cbc,       \* cbc_base of the key
  cipher,    \* the blocks written after the header
  epc,       \* "loop" or "done"
  sums,      \* history: sums[n + 1] is the sum of the first n bytes read
  cuts       \* history: where the chunks start, in bytes read and in blocks

encVars == <<plain, pos, newBlock, buf, roll, cbc, cipher, epc, sums, cuts>>

Cut == [at : Nat, block : Nat]

EncTypeOK ==
  /\ plain \in Plains
  /\ pos \in 0..Len(plain)
  /\ newBlock \in BOOLEAN
  /\ buf \in Seq(Byte) /\ Len(buf) < BlockSize
  /\ roll \in RollState
  /\ cbc \in Seq(Block)
  /\ cipher \in Seq(Seq(Block))
  /\ epc \in {"loop", "done"}
  /\ sums \in Seq(Nat) /\ Len(sums) = pos + 1
  /\ cuts \in Seq(Cut) /\ cuts # <<>>

\* The members of a fresh key are uninitialised until init_encrypt; only the
\* window could be read before it is written, so only it is left arbitrary.
EncInit ==
  /\ plain \in Plains
  /\ pos = 0
  /\ newBlock = TRUE
  /\ buf = <<>>
  /\ \E w \in Window : roll = FreshRoll(w)
  /\ cbc = <<>>
  /\ cipher = <<>>
  /\ epc = "loop"
  /\ sums = <<0>>
  /\ cuts = <<[at |-> 0, block |-> 0]>>

\* Bug: the buffer is flushed one byte late.
BugFlushLate(block, r) == Len(block) > BlockSize \/ AtBoundry(r)

\* if( i>=block_size || new_block )
BlockDone(block, r) == Len(block) >= BlockSize \/ AtBoundry(r)

\* while( (numread=readfd->read(buffer.get()+i, 1))!=0 )
EncryptByte ==
  /\ epc = "loop" /\ pos < Len(plain)
  /\ LET byte  == plain[pos + 1]
         r     == CalcBoundry(ChunkRoll(newBlock, roll), byte)
         base  == ChunkBase(newBlock, cbc)
         block == Append(buf, byte)
     IN  /\ pos' = pos + 1
         /\ roll' = r
         /\ newBlock' = AtBoundry(r)
         /\ IF BlockDone(block, r)
              THEN /\ cbc' = Append(base, PadBlock(block))
                   /\ cipher' = Append(cipher, cbc')
                   /\ buf' = <<>>
              ELSE /\ cbc' = base
                   /\ buf' = block
                   /\ UNCHANGED cipher
         /\ sums' = Append(sums, sums[pos + 1] + byte)
         /\ cuts' = IF AtBoundry(r)
                      THEN Append(cuts, [at |-> pos + 1, block |-> Len(cipher) + 1])
                      ELSE cuts
  /\ UNCHANGED <<plain, epc>>

\* Bug: the trailer always claims a full last block.
BugTrailerSaysFull(i) == PadBlock(<<0>>)

\* bzero( buffer ); buffer[0]=i;
Trailer(i) == PadBlock(<<i>>)

\* End of gzip's output: the leftover bytes, then the trailer from the IV.
EncryptTail ==
  /\ epc = "loop" /\ pos = Len(plain)
  /\ LET leftover == IF buf = <<>> THEN <<>> ELSE <<Append(cbc, PadBlock(buf))>>
     IN  cipher' = (cipher \o leftover) \o <<<<Trailer(Len(buf))>>>>
  /\ cbc' = <<Trailer(Len(buf))>>
  /\ roll' = InitRoll(roll)
  /\ epc' = "done"
  /\ UNCHANGED <<plain, pos, newBlock, buf, sums, cuts>>

EncNext == EncryptByte \/ EncryptTail

EncSpec == EncInit /\ [][EncNext]_encVars

-----------------------------------------------------------------------------
ChunkStart == cuts[Len(cuts)].at

\* The sum of the bytes in a window that ends after byte p of a chunk that
\* starts after byte s: at most SumSpan of them, and none before the chunk.
WindowTotal(s, p) ==
  sums[p + 1] - sums[(IF p - s > SumSpan THEN p - SumSpan ELSE s) + 1]

\* Whether content puts a boundary after byte p of a chunk that starts after s.
ContentBoundary(s, p) ==
  p - s > SumMinDist /\ WindowTotal(s, p) % SumMod = 0

\* Within a chunk the rolling sum is the total of its last SumSpan bytes and of
\* nothing else: not of bytes of an earlier chunk still in plaintext_buffer, nor
\* of what the fresh buffer held.
WindowSum ==
  (epc = "loop" /\ ~newBlock) => roll.sum = WindowTotal(ChunkStart, pos)

\* Chunks end where the content says and nowhere else: after the first byte
\* past SumMinDist at which the window total is divisible by SumMod.  A chunk
\* boundary therefore depends on the bytes of its chunk alone, which is what
\* lets rsync find the unchanged part of an edited file again.
CutsByContent ==
  \A k \in 1..Len(cuts) : \A p \in (cuts[k].at + 1)..pos :
    (k = Len(cuts) \/ p <= cuts[k + 1].at) =>
      (ContentBoundary(cuts[k].at, p)
         <=> (k < Len(cuts) /\ p = cuts[k + 1].at))

-----------------------------------------------------------------------------
(* The inductive invariant behind WindowSum and CutsByContent. *)

HistoryOK ==
  /\ sums[1] = 0
  /\ \A n \in 1..pos : sums[n + 1] = sums[n] + plain[n]
  /\ \A k \in 1..Len(cuts) : cuts[k].at <= pos
  /\ newBlock => ChunkStart = pos

\* Key state r after the bytes of a chunk from s to p: the window is a ring
\* that holds the last of them, byte p just before position loc.
Tracks(r, s, p) ==
  /\ r.count = p - s
  /\ r.may <=> p - s > SumMinDist
  /\ r.sum = WindowTotal(s, p)
  /\ IF r.sub THEN p - s >= SumSpan ELSE p - s = r.loc
  /\ \A l \in 0..(SumSpan - 1) :
       /\ l < r.loc => r.win[l] = plain[p - r.loc + l + 1]
       /\ (r.sub /\ l >= r.loc) => r.win[l] = plain[p - r.loc - SumSpan + l + 1]

EncIInv ==
  /\ EncTypeOK
  /\ HistoryOK
  /\ (epc = "loop" /\ ~newBlock) => Tracks(roll, ChunkStart, pos)
  /\ CutsByContent
=============================================================================
