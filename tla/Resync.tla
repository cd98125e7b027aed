------------------------------- MODULE Resync -------------------------------
(***************************************************************************)
(* Why rsync is efficient on encrypted files: a file is encrypted, edited, *)
(* and encrypted again with the same key (file_encrypt reads the key file  *)
(* of the first time).                                                     *)
(***************************************************************************)
EXTENDS EncryptStream

VARIABLE past    \* <<>>, then what the first encryption left behind

rsVars == <<encVars, past>>

\* One byte of gzip's output replaced, removed or put in.
Edits(p) ==
  LET Before(n) == SubSeq(p, 1, n)
      After(n)  == SubSeq(p, n + 1, Len(p))
  IN  {Before(n - 1) \o <<b>> \o After(n) : n \in 1..Len(p), b \in Byte}
        \cup {Before(n - 1) \o After(n) : n \in 1..Len(p)}
        \cup {Before(n) \o <<b>> \o After(n) : n \in 0..Len(p), b \in Byte}

RsInit == EncInit /\ past = <<>>

\* The edited file goes through encrypt_file from the start, in a process whose
\* key object has a buffer of its own.
EncryptAgain ==
  /\ epc = "done" /\ past = <<>>
  /\ past' = <<[plain |-> plain, cipher |-> cipher, cuts |-> cuts]>>
  /\ plain' \in Edits(plain) \cap Plains
  /\ pos' = 0 /\ newBlock' = TRUE /\ buf' = <<>>
  /\ \E w \in Window : roll' = FreshRoll(w)
  /\ cbc' = <<>> /\ cipher' = <<>> /\ epc' = "loop"
  /\ sums' = <<0>> /\ cuts' = <<[at |-> 0, block |-> 0]>>

RsNext == (EncNext /\ UNCHANGED past) \/ EncryptAgain

RsSpec == RsInit /\ [][RsNext]_rsVars

-----------------------------------------------------------------------------
Both == epc = "done" /\ past # <<>>

\* Where a chunk starts in both files with the same plain text left, the rest
\* of the encrypted files is the same, wherever the block is in its file.
SameTail ==
  \A i \in 1..Len(past[1].cuts), k \in 1..Len(cuts) :
    SubSeq(past[1].plain, past[1].cuts[i].at + 1, Len(past[1].plain))
      = SubSeq(plain, cuts[k].at + 1, Len(plain))
    => SubSeq(past[1].cipher, past[1].cuts[i].block + 1, Len(past[1].cipher))
         = SubSeq(cipher, cuts[k].block + 1, Len(cipher))

\* A chunk before the edit ends where it ended, with the blocks it had.
SameHead ==
  \A i \in 1..Len(past[1].cuts) :
    LET c == past[1].cuts[i]
    IN  (c.at <= Len(plain) /\ SubSeq(past[1].plain, 1, c.at) = SubSeq(plain, 1, c.at))
        => /\ i <= Len(cuts) /\ cuts[i] = c
           /\ SubSeq(past[1].cipher, 1, c.block) = SubSeq(cipher, 1, c.block)

\* The rsync friendliness of the name: an edit changes the encrypted file from
\* the chunk it is in to the first place where both files start a chunk with the
\* same text left, and there only, block by block and with the trailer
\* (init_encrypt and calc_boundry of key, the loop of encrypt_file).
RsyncFriendly == Both => SameHead /\ SameTail
=============================================================================
