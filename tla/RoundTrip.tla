------------------------------ MODULE RoundTrip ------------------------------
(***************************************************************************)
(* A file is encrypted, reaches the decryptor whole or cut short, and is   *)
(* decrypted with a fresh key object.                                      *)
(***************************************************************************)
EXTENDS EncryptStream, DecryptStream, SequencesExt

\* gzip never writes an empty stream, not even for an empty file.
ASSUME PlainsNotEmpty == <<>> \notin Plains

\* History: for each block before the trailer, the bytes of plain it holds and
\* where their chunk starts, all in bytes read before.
VARIABLE blocks

rtVars == <<encVars, decVars, blocks>>

Held == [start : Nat, from : Nat, to : Nat]

RTTypeOK == EncTypeOK /\ DecTypeOK /\ blocks \in Seq(Held)

RTInit == EncInit /\ DecInit /\ blocks = <<>>

\* A turn of encrypt_file's loop writes a block if it empties the buffer; what
\* is left over is written if there is any.
BlockWritten == IF epc' = "done" THEN buf # <<>> ELSE buf' = <<>>

Encrypt ==
  /\ EncNext
  /\ blocks' = IF BlockWritten
                 THEN Append(blocks, [start |-> ChunkStart, from |-> pos - Len(buf), to |-> pos'])
                 ELSE blocks
  /\ UNCHANGED decVars

\* The file as it is when decryption opens it.  --risky-writes, a full disk or
\* an interrupted transfer leave a file that ends early, in a block or not.
Deliver ==
  /\ epc = "done" /\ dpc = "off"
  /\ \E n \in 0..Len(cipher) :
       /\ file' = SubSeq(cipher, 1, n)
       /\ partial' \in {p \in BOOLEAN : p => n < Len(cipher)}
  /\ dpc' = "loop"
  /\ UNCHANGED <<rpos, dnew, droll, dcbc, dblk, di, out>>
  /\ UNCHANGED <<encVars, blocks>>

Decrypt == DecNext /\ UNCHANGED <<encVars, blocks>>

\* Both programs have returned.
Rest == dpc \in {"done", "error"} /\ UNCHANGED rtVars

RTNext == Encrypt \/ Deliver \/ Decrypt \/ Rest

\* Both are sequential programs that keep running; the user does decrypt.
RTSpec == RTInit /\ [][RTNext]_rtVars
            /\ WF_rtVars(Encrypt \/ Deliver \/ Decrypt)

-----------------------------------------------------------------------------
Intact == dpc # "off" /\ file = cipher /\ ~partial

\* The last byte closes a chunk inside a block: buffer is empty after the loop,
\* although its last block is not full.
EndsInsideBlock ==
  buf = <<>> /\ blocks[Len(blocks)].to - blocks[Len(blocks)].from < BlockSize

\* An intact file is accepted, and gives the plain text back to the byte, but
\* for the padding of its last block when that is where a chunk ends.
IntactRestored ==
  Intact =>
    /\ dpc # "error"
    /\ dpc = "done" =>
         /\ IsPrefix(plain, out)
         /\ ~EndsInsideBlock => out = plain

\* Every file, whole or cut short, is either restored or refused: the loop
\* that stops "near the end" cannot run past it.
ReachesVerdict == <>(dpc \in {"done", "error"})

\* RoundTrip implements the promise made to the user: also of a file cut short
\* nothing but plain text reaches gunzip, even when the block that stands where
\* the trailer should be happens to look like one.
Copy == INSTANCE FaithfulCopy WITH
          MaxPad <- BlockSize - 1, src <- plain, dst <- out,
          intact <- (dpc = "off" \/ Intact),
          phase  <- CASE dpc = "off" -> "away"
                      [] dpc \in {"loop", "scan", "trailer"} -> "copying"
                      [] dpc = "done" -> "finished"
                      [] dpc = "error" -> "refused"

IsFaithfulCopy == Copy!CopySpec
=============================================================================
