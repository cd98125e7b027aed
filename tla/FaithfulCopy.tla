---------------------------- MODULE FaithfulCopy ----------------------------
(***************************************************************************)
(* What a user of rsyncrypto is promised about one file: what decryption   *)
(* hands to gunzip is the start of what gzip produced, followed by at most *)
(* a few zero bytes that gunzip ignores; all of it when the encrypted file *)
(* is intact, and only a damaged file is ever refused.                     *)
(***************************************************************************)
EXTENDS Naturals, SequencesExt

CONSTANT MaxPad    \* most zero bytes that may follow

VARIABLES src, dst, intact, phase

copyVars == <<src, dst, intact, phase>>

Shows(d) ==
  \E n \in 0..Len(d) :
    /\ n <= Len(src) /\ SubSeq(d, 1, n) = SubSeq(src, 1, n)
    /\ Len(d) - n <= MaxPad
    /\ \A j \in (n + 1)..Len(d) : d[j] = 0

CopyInit ==
  /\ dst = <<>>
  /\ intact = TRUE
  /\ phase = "away"

Arrive ==
  /\ phase = "away" /\ phase' = "copying"
  /\ intact' \in BOOLEAN
  /\ UNCHANGED <<src, dst>>

Extend ==
  /\ phase = "copying" /\ IsPrefix(dst, dst') /\ Shows(dst')
  /\ \/ phase' = "copying"
     \/ phase' = "finished" /\ (intact => IsPrefix(src, dst'))
     \/ phase' = "refused" /\ ~intact
  /\ UNCHANGED <<src, intact>>

CopyNext == Arrive \/ Extend

CopySpec == CopyInit /\ [][CopyNext]_copyVars
=============================================================================
