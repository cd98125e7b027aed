------------------------------- MODULE BufferFd -------------------------------
(***************************************************************************)
(* read_bufferfd and write_bufferfd: descriptors with a buffer.  Objects   *)
(* do here what the program does with them: a writer's descriptor is given *)
(* away (redir_fd(tofd)) only before anything is written through it, and   *)
(* after an exception an object is destroyed and not used.                 *)
(***************************************************************************)
EXTENDS AutoFd, Sequences, SequencesExt

CONSTANTS
  Written,   \* the files that are written
  Piped,     \* the pipes that are read, byte by byte; the rest is read by blocks
  BufSize,   \* DEFAULT_BUF_SIZE
  Block,     \* block_size
  Counts,    \* counts of bytes write may be called with
  MaxGiven,  \* bytes handed to the writers of one file (bound)
  FileLen,   \* bytes of a file that is read
  MayFall    \* whether write(2) may write less than it was asked to

ASSUME BufferParams ==
  /\ Written \subseteq Files /\ Piped \subseteq Files \ Written
  /\ {BufSize, Block, MaxGiven, FileLen} \subseteq Nat \ {0} /\ BufSize % Block = 0
  /\ Counts \subseteq Nat \ {0} /\ MayFall \in BOOLEAN

VARIABLES
  kind,      \* which class an object is of
  made,      \* history: the file a writer or reader was made for
  buf,       \* the part of an object's buffer that is in use
  err,       \* a writer's error
  disk,      \* what is in the file, or the pipe: bytes written so far
  given,     \* history: how many bytes write was called with
  told,      \* the files for which an exception was thrown
  pos,       \* the kernel's position in a file that is read
  got,       \* what read has returned so far
  aborted    \* std::terminate was called

bfdVars == <<obj, table, opened, kind, made, buf, err, disk, given, told, pos, got, aborted>>
ours == <<kind, made, buf, err, disk, given, told, pos, got, aborted>>

Junk == 0   \* a byte nobody handed to this file
Byte(f, i) == <<f, i>>
Bytes(f, a, b) == [i \in 1..(b - a + 1) |-> Byte(f, a + i - 1)]

\* Every variable is in its domain and no buffer holds more than it has room
\* for (buffill, startpos and endpos of bufferfd.h).
BfdTypeOK ==
  /\ FdTypeOK
  /\ kind \in [Objects -> {"fd", "writer", "reader"}]
  /\ \A h \in Objects : Len(buf[h]) <= BufSize /\ (kind[h] = "fd" => buf[h] = <<>>)
  /\ err \in [Objects -> BOOLEAN] /\ told \subseteq Files
  /\ given \in [Files -> 0..MaxGiven] /\ pos \in [Files -> 0..FileLen]

BfdInit ==
  /\ FdInit
  /\ kind = [h \in Objects |-> "fd"] /\ made = [h \in Objects |-> Closed]
  /\ buf = [h \in Objects |-> <<>>] /\ err = [h \in Objects |-> FALSE]
  /\ disk = [f \in Files |-> <<>>] /\ given = [f \in Files |-> 0]
  /\ told = {} /\ aborted = FALSE
  /\ pos = [f \in Files |-> 0] /\ got = [f \in Files |-> <<>>]

\* The constructors from an autofd.
Make(h, k, c) ==
  /\ kind[k] = "fd" /\ Copy(h, k)
  /\ (c = "writer") = (table[obj[k].num] \in Written)
  /\ kind' = [kind EXCEPT ![h] = c] /\ made' = [made EXCEPT ![h] = table[obj[k].num]]
  /\ UNCHANGED <<buf, err, disk, given, told, pos, got, aborted>>

\* Bug: redirection copies the number, and both objects own it.
BugLendsCopy(h, k) ==
  /\ buf[k] = <<>> /\ ~obj[h].live /\ obj[k].live
  /\ obj' = [obj EXCEPT ![h] = obj[k]] /\ UNCHANGED <<table, opened>> /\ UNCHANGED ours

\* redir_fd(fd): the descriptor goes, the buffer stays.
Lend(h, k) == buf[k] = <<>> /\ Copy(h, k) /\ UNCHANGED ours

Plain(h) == kind[h] = "fd"

-----------------------------------------------------------------------------
(* write_bufferfd *)

LeastOf(a, b) == IF a < b THEN a ELSE b

Usable(h, c) == kind[h] = c /\ obj[h].live /\ obj[h].owner /\ made[h] \notin told

To(h) == table[obj[h].num]
Land(h, s, n) == IF n = 0 THEN disk ELSE [disk EXCEPT ![To(h)] = @ \o SubSeq(s, 1, n)]

\* autofd::write of s: how much is written, where nothing is an exception.
Results(h, s) ==
  IF obj[h].num = NoFd THEN {0} ELSE {0, Len(s)} \cup (IF MayFall THEN 1..(Len(s) - 1) ELSE {})

\* What flush leaves of the buffer.  It moves up the end of the buffer by as
\* much as is left to write, not by what has been written.
Left(b, n) ==
  LET diff == Len(b) - n IN
  [i \in 1..diff |-> IF i + diff <= Len(b) THEN b[i + diff] ELSE Junk]

\* flush of a buffer that holds full, with next in it once it has not thrown.
FlushOf(h, full, n, next) ==
  /\ disk' = Land(h, full, n)
  /\ buf' = [buf EXCEPT ![h] = IF n = 0 THEN full ELSE next]
  /\ told' = IF n = 0 THEN told \cup {made[h]} ELSE told
  /\ err' = [err EXCEPT ![h] = IF n = 0 THEN TRUE ELSE n < Len(full) /\ @]

Flush(h) ==
  /\ Usable(h, "writer") /\ buf[h] # <<>>
  /\ \E n \in Results(h, buf[h]) : FlushOf(h, buf[h], n, Left(buf[h], n))
  /\ UNCHANGED <<obj, table, opened, kind, made, given, pos, got, aborted>>

\* write_bufferfd::clear: flush, then close.
ClearWriter(h) ==
  /\ Usable(h, "writer")
  /\ \/ buf[h] = <<>> /\ Clear(h) /\ UNCHANGED <<disk, buf, told, err>>
     \/ /\ buf[h] # <<>>
        /\ \E n \in Results(h, buf[h]) :
             /\ FlushOf(h, buf[h], n, Left(buf[h], n))
             /\ IF n = 0 THEN UNCHANGED <<obj, table, opened>> ELSE Clear(h)
  /\ UNCHANGED <<kind, made, given, pos, got, aborted>>

\* Bug: all that is written goes through the buffer.
BugAlwaysFits(h, c) == TRUE

\* Whether write takes so much into the buffer, flushed at most once.
Fits(h, c) == c <= BufSize - Len(buf[h]) + BufSize

\* Bug: the bytes that filled the buffer are copied once more after the flush.
BugCopiesAll(data, fill) == data

\* What write copies to the buffer after it flushed it.
Remaining(data, fill) == SubSeq(data, fill + 1, Len(data))

Data(h, c) == Bytes(made[h], given[made[h]] + 1, given[made[h]] + c)

Give(h, c) ==
  /\ Usable(h, "writer") /\ given[made[h]] + c <= MaxGiven
  /\ given' = [given EXCEPT ![made[h]] = @ + c]
  /\ UNCHANGED <<obj, table, opened, kind, made, pos, got, aborted>>

Write(h, c) ==
  LET free == BufSize - Len(buf[h])
      full == buf[h] \o SubSeq(Data(h, c), 1, LeastOf(free, c))
  IN
  /\ Give(h, c) /\ Fits(h, c)
  /\ \/ c <= free /\ buf' = [buf EXCEPT ![h] = full] /\ UNCHANGED <<disk, told, err>>
     \/ /\ c > free
        /\ \E n \in Results(h, full) : FlushOf(h, full, n, Remaining(Data(h, c), free))

\* write of more than that: flush, and past the buffer.  Nobody looks at how
\* much of it was written.
WriteThrough(h, c) ==
  /\ Give(h, c) /\ ~Fits(h, c)
  /\ \E n \in Results(h, buf[h]), m \in Results(h, Data(h, c)) :
       IF n = 0 /\ buf[h] # <<>> THEN FlushOf(h, buf[h], 0, <<>>)
       ELSE /\ disk' = [disk EXCEPT ![To(h)] = @ \o SubSeq(buf[h], 1, n) \o SubSeq(Data(h, c), 1, m)]
            /\ buf' = [buf EXCEPT ![h] = Left(@, n)]
            /\ told' = IF m = 0 THEN told \cup {made[h]} ELSE told
            /\ err' = [err EXCEPT ![h] = n < Len(buf[h]) /\ @]

\* Whether the destructor of a writer flushes.
FlushesLast(h) == kind[h] = "writer" /\ buf[h] # <<>> /\ ~err[h]

Forget(h) ==
  /\ kind' = [kind EXCEPT ![h] = "fd"] /\ made' = [made EXCEPT ![h] = Closed]
  /\ buf' = [buf EXCEPT ![h] = <<>>] /\ err' = [err EXCEPT ![h] = FALSE]
  /\ UNCHANGED <<given, pos, got>>

DestroyQuietly(h) ==
  /\ ~FlushesLast(h) /\ Destroy(h) /\ Forget(h) /\ UNCHANGED <<disk, told, aborted>>

\* The destructor flushes what is left.  What it throws ends the process; that
\* less was written than asked for, nobody is told.
DestroyFlushing(h) ==
  /\ FlushesLast(h) /\ Destroy(h) /\ Forget(h)
  /\ \E n \in Results(h, buf[h]) :
       /\ disk' = Land(h, buf[h], n)
       /\ aborted' = (n = 0)
  /\ UNCHANGED told

\* Something else throws while a writer is in use (gzip fails).
Fail(h) ==
  /\ Usable(h, "writer") /\ told' = told \cup {made[h]}
  /\ UNCHANGED <<obj, table, opened, kind, made, buf, err, disk, given, pos, got, aborted>>

-----------------------------------------------------------------------------
(* read_bufferfd *)

Count(h) == IF made[h] \in Piped THEN 1 ELSE Block

\* Bug: the buffer is filled up to its last byte but one.
BugOddBuffer(f) ==
  LET most == LeastOf(BufSize - 1, FileLen - pos[f]) IN
  IF f \in Piped /\ most > 0 THEN 1..most ELSE {most}

\* autofd::read into the buffer: a pipe gives what there is in it.
Supply(f) ==
  LET most == LeastOf(BufSize, FileLen - pos[f]) IN IF f \in Piped /\ most > 0 THEN 1..most ELSE {most}

\* buffer_copy: what stays in the buffer.
Rest(b, c) == SubSeq(b, LeastOf(Len(b), c) + 1, Len(b))

\* read: from the buffer, which is filled only when there is nothing in it.
Read(h) ==
  LET f == made[h] IN
  /\ Usable(h, "reader")
  /\ \E n \in IF buf[h] # <<>> THEN {0} ELSE Supply(f) :
       LET full == buf[h] \o Bytes(f, pos[f] + 1, pos[f] + n) IN
       /\ pos' = [pos EXCEPT ![f] = @ + n]
       /\ buf' = [buf EXCEPT ![h] = Rest(full, Count(h))]
       /\ got' = [got EXCEPT ![f] = @ \o SubSeq(full, 1, LeastOf(Len(full), Count(h)))]
  /\ UNCHANGED <<obj, table, opened, kind, made, err, disk, given, told, aborted>>

BfdNext ==
  /\ ~aborted
  /\ \E h \in Objects :
       \/ Plain(h) /\ (Default(h) \/ Clear(h)) /\ UNCHANGED ours
       \/ \E f \in Files : Open(h, f) /\ UNCHANGED ours
       \/ \E k \in Objects : Plain(h) /\ Plain(k) /\ Assign(h, k) /\ UNCHANGED ours
       \/ \E k \in Objects : Lend(h, k) \/ Make(h, k, "writer") \/ Make(h, k, "reader")
       \/ Flush(h) \/ ClearWriter(h) \/ DestroyQuietly(h) \/ DestroyFlushing(h) \/ Fail(h) \/ Read(h)
       \/ \E c \in Counts : Write(h, c) \/ WriteThrough(h, c)

BfdSpec == BfdInit /\ [][BfdNext]_bfdVars

-----------------------------------------------------------------------------
(* Properties *)

\* Whatever was handed to the writers of a file is in it, in order, or is still
\* in a buffer, or an exception said that it is not; and no byte is in a file it
\* was not written to (write, flush and the destructor of write_bufferfd).
\* This is so where MayFall is FALSE.
Delivered ==
  \A f \in Files :
    /\ IsPrefix(disk[f], Bytes(f, 1, given[f]))
    /\ f \notin told /\ ~aborted =>
         \/ disk[f] = Bytes(f, 1, given[f])
         \/ \E h \in Objects : made[h] = f /\ obj[h].owner /\ disk[f] \o buf[h] = Bytes(f, 1, given[f])

\* A read returns the next bytes of its file, and from a file less than a block
\* only at its end, however the reads and the blocks divide it: decrypt_file
\* takes anything else for a damaged file (read, buffer_copy of read_bufferfd).
ReadsInOrder ==
  [][\A f \in Files \ Written :
       got'[f] = got[f] \/ /\ got'[f] = Bytes(f, 1, Len(got'[f]))
                           /\ \/ f \in Piped \/ Len(got'[f]) = FileLen
                              \/ Len(got'[f]) - Len(got[f]) = Block]_bfdVars

\* bufferfd.cpp:100, in flush: "If the write was partial, shift the buffer": the
\* file goes on with the bytes that have not been written.
PartialWriteKept == \A f \in Files : IsPrefix(disk[f], Bytes(f, 1, given[f]))
=============================================================================
