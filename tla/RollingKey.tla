----------------------------- MODULE RollingKey -----------------------------
(***************************************************************************)
(* The symmetric key object of crypt_key.cpp and aes_crypt.cpp, as far as  *)
(* the byte stream is concerned: the rolling sum that decides where the    *)
(* cipher reverts to its IV, and AES-CBC.                                  *)
(*                                                                         *)
(* AES-CBC is symbolic.  Under one key a cipher block is determined by the *)
(* plain blocks since the last IV reset, and determines them, so it IS     *)
(* that sequence; <<>> stands for the IV.                                  *)
(***************************************************************************)
EXTENDS Integers, Sequences

CONSTANTS
  SumSpan,     \* header.sum_span: bytes in the rolling window
  SumMod,      \* header.sum_mod: a sum divisible by it is a boundary
  SumMinDist,  \* header.sum_min_dist: bytes passed over before a boundary
  BlockSize,   \* AES_BLOCK_SIZE
  Byte         \* the values of a byte

\* --roll-win=0 and --roll-sensitivity=0 are not accounted for by the code
\* (an index outside the window, a division by zero): positive here.
ASSUME RollParams ==
  /\ SumSpan \in Nat \ {0}
  /\ SumMod \in Nat \ {0}
  /\ SumMinDist \in Nat

\* The trailer stores a length below BlockSize in one byte.
ASSUME BlockParams ==
  /\ BlockSize \in Nat \ {0}
  /\ Byte \subseteq Nat
  /\ 0..(BlockSize - 1) \subseteq Byte

Window == [0..(SumSpan - 1) -> Byte]
Block  == [1..BlockSize -> Byte]

\* The ptbuf_* members of a key.  win is plaintext_buffer, which no
\* constructor initialises and init_encrypt leaves as it is.
RollState ==
  [loc : 0..(SumSpan - 1), count : Nat, sum : Int,
   sub : BOOLEAN, may : BOOLEAN, win : Window]

\* A fresh key: all but the window is written before it is read.
FreshRoll(w) ==
  [loc |-> 0, count |-> 0, sum |-> 0, sub |-> FALSE, may |-> FALSE, win |-> w]

InitRoll(r) == FreshRoll(r.win)

\* Bug: the order of ++ptbuf_count and its test is swapped.
BugMinDistEarly(r) == r.may \/ r.count + 1 = SumMinDist

\* if( (ptbuf_count++)==header.sum_min_dist ) ptbuf_may_rotate=true;
MayRotate(r) == r.may \/ r.count = SumMinDist

\* The byte that leaves the window, once it is full (ptbuf_sub).
Leaving(r) == IF r.sub THEN r.win[r.loc] ELSE 0

\* One byte through calc_boundry, up to its decision.
CalcBoundry(r, data) ==
  LET wraps == r.loc + 1 = SumSpan
  IN  [loc   |-> IF wraps THEN 0 ELSE r.loc + 1,
       count |-> r.count + 1,
       sum   |-> r.sum + data - Leaving(r),
       sub   |-> r.sub \/ wraps,
       may   |-> MayRotate(r),
       win   |-> [r.win EXCEPT ![r.loc] = data]]

\* What calc_boundry returns for the byte it has just taken in.
AtBoundry(r) == r.may /\ r.sum % SumMod = 0

\* if( new_block ) init_encrypt(): the rolling sum ...
ChunkRoll(newBlock, r) == IF newBlock THEN InitRoll(r) ELSE r

\* Bug: cbc_base is not set back to the IV.
BugChainsOn(newBlock, cbc) == cbc

\* ... and the CBC chain.
ChunkBase(newBlock, cbc) == IF newBlock THEN <<>> ELSE cbc

\* encrypt_block of up to a block of data: the rest of the block is zero.
PadBlock(data) ==
  [j \in 1..BlockSize |-> IF j <= Len(data) THEN data[j] ELSE 0]

\* The plain blocks that decrypting cipher block c against cbc_base = base may
\* give: the encrypted one when base is the chain c was made on, else noise.
Decryptions(c, base) ==
  IF c # <<>> /\ base = SubSeq(c, 1, Len(c) - 1) THEN {c[Len(c)]} ELSE Block
=============================================================================
