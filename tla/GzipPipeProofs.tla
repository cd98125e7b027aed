--------------------------- MODULE GzipPipeProofs ---------------------------
(***************************************************************************)
(* The safety of the pipes between rsyncrypto and gzip, for any number of  *)
(* files, sizes, pipe capacity and processes.  Types hold always; the rest *)
(* holds as long as gzip can be started, which once false stays false.     *)
(***************************************************************************)
EXTENDS GzipPipe, TLAPS

\* Every pipe end a process has open.
Has(k) == proc[k].fds \cup proc[k].std

\* At work on a file, with a child of its own.
WithChild == {"forked", "read", "tail", "write", "wait"}

\* Files are taken one by one, and a file under way is one of the directory.
Counted ==
  \A p \in Proc :
    /\ proc[p].at \notin {"none", "next", "dead", "reaped"} => proc[p].file <= run.files
    /\ proc[p].at \in WithChild \cup {"spin"} => proc[p].child \in Proc

Typed == GpTypeOK /\ Counted

\* There is one rsyncrypto, and the others are gzips, or about to be.
Shape ==
  /\ proc[Main].prog = "rsyncrypto" /\ proc[Main].std = {}
  /\ proc[Main].at \in WithChild \cup {"next", "spin", "dead"}
  /\ IF Encrypting THEN proc[Main].at # "write" ELSE proc[Main].at \notin {"read", "tail"}
  /\ \A q \in Proc \ {Main} :
       /\ proc[q].at \in {"none", "child", "exec", "run", "dead", "reaped"}
       /\ proc[q].at \in {"child", "exec"} => proc[q].prog = "rsyncrypto"
       /\ proc[q].at \in {"run", "dead", "reaped"} => proc[q].prog = "gzip"
  /\ proc[Main].at \in WithChild =>
       proc[Main].child # Main /\ proc[proc[Main].child].at \in {"child", "exec", "run", "dead"}

\* Of a pipe that is not made, or not any more, nobody has an end; a child has
\* the end it needs, and not the other one.
ChildEnds ==
  \A q \in Proc :
    /\ proc[q].at \in {"none", "reaped"} => \A k \in Proc : R(q) \notin Has(k) /\ W(q) \notin Has(k)
    /\ (Encrypting /\ proc[q].at \in {"child", "exec", "run"}) => W(q) \in Has(q)
    /\ (~Encrypting /\ proc[q].at \in {"exec", "run"}) => W(q) \notin Has(q)

\* Of the pipe in use nobody but rsyncrypto and the child has an end.
MainEnds ==
  proc[Main].at \in WithChild =>
    LET c == proc[Main].child
    IN  \A k \in Proc :
          /\ R(c) \in Has(k) => \/ k = c
                                \/ k = Main /\ proc[k].at \in {"forked", "read"}
          /\ W(c) \in Has(k) => \/ k = c
                                \/ k = Main /\ proc[k].at \in {"forked", "write"}

\* What has gone through the pipe of a gzip that says it has done its work.
AllThrough ==
  /\ \A q \in Proc \ {Main} :
       (proc[q].at = "dead" /\ proc[q].status = "ok") =>
         IF Encrypting THEN pipe[q].sent = pipe[q].size ELSE pipe[q].rcvd = pipe[q].size
  /\ (Encrypting /\ proc[Main].at \in {"tail", "wait"}) =>
       proc[proc[Main].child].at = "dead" /\ Filled(proc[Main].child) = 0
  /\ \A i \in 1..MaxFiles : made[i] # "cut"

Sound == GzipStarts => Shape /\ ChildEnds /\ MainEnds /\ AllThrough
-----------------------------------------------------------------------------
(* Types. *)

\* A record that a process may have.
Fit(r) ==
  /\ r \in Process
  /\ r.at \in {"none", "dead", "reaped"} => r.fds = {} /\ r.std = {}
  /\ r.at \notin {"none", "next", "dead", "reaped"} => r.file <= run.files
  /\ r.at \in WithChild \cup {"spin"} => r.child \in Proc

Pipes ==
  /\ pipe \in [Proc -> Buffers]
  /\ \A q \in Proc : pipe[q].sent - pipe[q].rcvd \in 0..Capacity

LEMMA Fits ==
  Typed <=> /\ run \in [op : {"enc", "dec"}, dir : BOOLEAN, files : 1..MaxFiles]
            /\ proc \in [Proc -> Process] /\ \A p \in Proc : Fit(proc[p])
            /\ Pipes
            /\ made \in [1..MaxFiles -> {"none", "whole", "cut"}]
BY DEF Typed, GpTypeOK, Counted, Fit, Over, Pipes

\* Records of processes that begin, end, or take the next file.
LEMMA NewRecords ==
  ASSUME Typed, NEW p \in Proc
  PROVE  /\ Fit(NoProc)
         /\ \A status \in {"ok", "error", "signal"} :
              Fit(Dead(p, status)) /\ Dead(p, status).at = "dead"
         /\ Fit(Reaped(p)) /\ Reaped(p).at = "reaped"
         /\ (proc[p].file <= run.files) =>
              /\ Fit(FileFailed(p)) /\ FileFailed(p).at \in {"next", "dead"}
              /\ Fit(NextFile(p)) /\ NextFile(p).at = "next"
<1> USE GzipPipeParams
<1>1. NoProc \in Process /\ NoProc.fds = {} /\ NoProc.std = {} /\ NoProc.at = "none"
  BY DEF NoProc, Process, End
<1>2. proc[p] \in Process /\ proc[p].file \in 1..(MaxFiles + 1) /\ run.files \in 1..MaxFiles
      /\ proc[p].prog \in {"rsyncrypto", "gzip"}
  BY DEF Typed, GpTypeOK, Process
<1>3. ASSUME NEW status \in {"ok", "error", "signal"}
      PROVE  Fit(Dead(p, status)) /\ Dead(p, status).at = "dead"
  <2>1. Dead(p, status) \in Process
    BY <1>1, <1>2 DEF Dead, Process
  <2>2. Dead(p, status).at = "dead" /\ Dead(p, status).fds = {} /\ Dead(p, status).std = {}
    BY DEF Dead, NoProc
  <2> QED
    BY <2>1, <2>2 DEF Fit, WithChild
<1>4. Fit(Reaped(p)) /\ Reaped(p).at = "reaped"
  <2>1. Reaped(p) \in Process
    BY <1>1, <1>2 DEF Reaped, Process
  <2>2. Reaped(p).at = "reaped" /\ Reaped(p).fds = {} /\ Reaped(p).std = {}
    BY DEF Reaped, NoProc
  <2> QED
    BY <2>1, <2>2 DEF Fit, WithChild
<1>5. ASSUME proc[p].file <= run.files
      PROVE  Fit(NextFile(p)) /\ NextFile(p).at = "next"
  <2>1. PICK n \in 1..(MaxFiles + 1) : n = proc[p].file + 1
    BY <1>2, <1>5
  <2> DEFINE r == [proc[p] EXCEPT !.at = "next", !.file = n, !.child = 0]
  <2>2. r \in Process
    <3>1. 0 \in 0..LastProc
      OBVIOUS
    <3> QED
      BY <1>2, <3>1 DEF Process
  <2>3. r.at = "next"
    BY <1>2 DEF Process
  <2>4. NextFile(p) = r
    BY <2>1 DEF NextFile
  <2> QED
    BY <2>2, <2>3, <2>4 DEF Fit, WithChild
<1> QED
  BY <1>1, <1>3, <1>4, <1>5 DEF Fit, FileFailed, WithChild

LEMMA TypedInitially == GpInit => Typed
<1> SUFFICES ASSUME GpInit PROVE Typed
  OBVIOUS
<1> USE GzipPipeParams DEF GpInit
<1>1. NoProc \in Process /\ [NoProc EXCEPT !.at = "next"] \in Process
  BY DEF NoProc, Process, End
<1>2. ASSUME NEW p \in Proc PROVE proc[p] \in Process /\ Fit(proc[p])
  BY <1>1, <1>2 DEF Fit, NoProc, WithChild
<1>3. Pipes
  BY DEF Pipes, Buffers
<1> QED
  BY <1>2, <1>3, Fits

LEMMA TypedStep == Typed /\ [GpNext]_gpVars => Typed'
<1> SUFFICES ASSUME Typed, [GpNext]_gpVars PROVE Typed'
  OBVIOUS
<1> USE GzipPipeParams
<1>0. /\ run \in [op : {"enc", "dec"}, dir : BOOLEAN, files : 1..MaxFiles]
      /\ proc \in [Proc -> Process] /\ Pipes /\ made \in [1..MaxFiles -> {"none", "whole", "cut"}]
      /\ \A p \in Proc : Fit(proc[p]) /\ proc[p] \in Process
  BY Fits
<1>1. ASSUME run' = run, proc' \in [Proc -> Process], \A k \in Proc : Fit(proc'[k]),
             Pipes', made' \in [1..MaxFiles -> {"none", "whole", "cut"}]
      PROVE  Typed'
  BY <1>0, <1>1 DEF Typed, GpTypeOK, Counted, Fit, Over, Pipes
\* One process changes.
<1>2. ASSUME NEW p \in Proc, NEW r, Fit(r), proc' = [proc EXCEPT ![p] = r],
             UNCHANGED <<run, pipe, made>>
      PROVE  Typed'
  <2>1. proc' \in [Proc -> Process] /\ \A k \in Proc : Fit(proc'[k])
    BY <1>0, <1>2 DEF Fit
  <2>2. Pipes'
    BY <1>0, <1>2 DEF Pipes
  <2> QED
    BY <1>0, <1>1, <1>2, <2>1, <2>2
\* A buffer is written or read.
<1>3. ASSUME NEW q \in Proc, UNCHANGED <<run, proc, made>>,
             \/ Filled(q) > 0 /\ pipe' = [pipe EXCEPT ![q].rcvd = @ + 1]
             \/ Filled(q) < Capacity /\ pipe[q].sent < pipe[q].size
                /\ pipe' = [pipe EXCEPT ![q].sent = @ + 1]
      PROVE  Typed'
  <2>1. /\ pipe[q] \in Buffers /\ pipe[q].size \in 0..MaxSize /\ pipe[q].sent \in 0..MaxSize
        /\ pipe[q].rcvd \in 0..MaxSize /\ pipe[q].sent - pipe[q].rcvd \in 0..Capacity
    BY <1>0 DEF Pipes, Buffers
  <2>2. PICK b \in Buffers : pipe' = [pipe EXCEPT ![q] = b] /\ b.sent - b.rcvd \in 0..Capacity
    <3>1. CASE Filled(q) > 0 /\ pipe' = [pipe EXCEPT ![q].rcvd = @ + 1]
      <4>1. PICK n \in 0..MaxSize : n = pipe[q].rcvd + 1 /\ pipe[q].sent - n \in 0..Capacity
        <5>1. pipe[q].rcvd + 1 \in 0..MaxSize /\ pipe[q].sent - (pipe[q].rcvd + 1) \in 0..Capacity
          BY <2>1, <3>1 DEF Filled
        <5> QED
          BY <5>1
      <4>2. [pipe[q] EXCEPT !.rcvd = n] \in Buffers
        BY <2>1 DEF Buffers
      <4> QED
        BY <1>0, <2>1, <3>1, <4>1, <4>2 DEF Buffers, Pipes
    <3>2. CASE Filled(q) < Capacity /\ pipe[q].sent < pipe[q].size
               /\ pipe' = [pipe EXCEPT ![q].sent = @ + 1]
      <4>1. PICK n \in 0..MaxSize : n = pipe[q].sent + 1 /\ n - pipe[q].rcvd \in 0..Capacity
        <5>1. pipe[q].sent + 1 \in 0..MaxSize /\ (pipe[q].sent + 1) - pipe[q].rcvd \in 0..Capacity
          BY <2>1, <3>2 DEF Filled
        <5> QED
          BY <5>1
      <4>2. [pipe[q] EXCEPT !.sent = n] \in Buffers
        BY <2>1 DEF Buffers
      <4> QED
        BY <1>0, <2>1, <3>2, <4>1, <4>2 DEF Buffers, Pipes
    <3> QED
      BY <1>3, <3>1, <3>2
  <2>3. Pipes'
    BY <1>0, <2>2 DEF Pipes
  <2>4. \A k \in Proc : Fit(proc'[k])
    BY <1>0, <1>3
  <2> QED
    BY <1>0, <1>1, <1>3, <2>3, <2>4
<1>4. ASSUME NEW p \in Proc, proc[p].file <= run.files, Throw(p) PROVE Typed'
  BY <1>2, <1>4, NewRecords DEF Throw
<1>5. ASSUME NEW p \in Proc, Exit(p) PROVE Typed'
  BY <1>2, <1>5, NewRecords DEF Exit
<1>6. ASSUME NEW p \in Proc, Fork(p) PROVE Typed'
  <2>1. PICK q \in Proc, n \in 1..MaxSize :
          /\ proc[q].at = "none" /\ pipe' = [pipe EXCEPT ![q].size = n]
          /\ LET all == proc[p].fds \cup {R(q), W(q)}
             IN  proc' = [proc EXCEPT
                   ![p] = [@ EXCEPT !.at = "forked", !.child = q, !.fds = all],
                   ![q] = [proc[p] EXCEPT !.at = "child", !.child = 0, !.fds = all]]
    BY <1>6 DEF Fork
  <2> DEFINE all == proc[p].fds \cup {R(q), W(q)}
             f == [proc[p] EXCEPT !.at = "forked", !.child = q, !.fds = all]
             c == [proc[p] EXCEPT !.at = "child", !.child = 0, !.fds = all]
  <2>2. p # q /\ proc[p].file <= run.files /\ proc[p] \in Process
    BY <1>0, <1>6, <2>1 DEF Fork, FilesLeft
  <2>3. all \in SUBSET End
    BY <2>2 DEF Process, R, W, End
  <2>4. q \in 0..LastProc /\ 0 \in 0..LastProc
    BY DEF Proc
  <2>5. f \in Process /\ f.at = "forked" /\ f.child = q /\ f.file = proc[p].file
    <3> HIDE DEF all
    <3> QED
      BY <2>2, <2>3, <2>4 DEF Process
  <2>6. c \in Process /\ c.at = "child" /\ c.file = proc[p].file
    <3> HIDE DEF all
    <3> QED
      BY <2>2, <2>3, <2>4 DEF Process
  <2>7. Fit(f) /\ Fit(c)
    <3> HIDE DEF f, c
    <3> QED
      BY <2>2, <2>5, <2>6 DEF Fit, WithChild
  <2>8. proc' = [proc EXCEPT ![p] = f, ![q] = c]
    BY <2>1
  <2>9. proc' \in [Proc -> Process] /\ \A k \in Proc : Fit(proc'[k])
    <3> HIDE DEF f, c
    <3> QED
      BY <1>0, <2>5, <2>6, <2>7, <2>8
  <2>10. Pipes'
    <3> DEFINE b == [pipe[q] EXCEPT !.size = n]
    <3>1. b \in Buffers /\ b.sent = pipe[q].sent /\ b.rcvd = pipe[q].rcvd
      <4>1. pipe[q] \in Buffers /\ n \in 0..MaxSize
        BY <1>0 DEF Pipes
      <4> QED
        BY <4>1 DEF Buffers
    <3>2. pipe' = [pipe EXCEPT ![q] = b]
      BY <1>0, <2>1
    <3> HIDE DEF b
    <3> QED
      BY <1>0, <3>1, <3>2 DEF Pipes
  <2> QED
    BY <1>0, <1>1, <1>6, <2>9, <2>10 DEF Fork
<1>7. ASSUME NEW p \in Proc, Wait(p) \/ WaitSpins(p) PROVE Typed'
  <2> DEFINE q == proc[p].child
             s == NextFile(p)
             t == [proc[p] EXCEPT !.at = "spin"]
  <2>1. q \in Proc /\ p # q /\ proc[p].file <= run.files /\ proc[p].at = "wait"
    BY <1>0, <1>7 DEF Wait, WaitSpins, Fit, WithChild
  <2>2. Fit(Reaped(q)) /\ Fit(s) /\ Fit(FileFailed(p))
    BY <2>1, NewRecords
  <2>3. Fit(t)
    BY <1>0, <2>1, ZenonT(60) DEF Fit, Process, WithChild
  <2>4. PICK r \in {s, t, FileFailed(p)} : proc' = [proc EXCEPT ![q] = Reaped(q), ![p] = r]
    <3>1. CASE Wait(p)
      BY <3>1 DEF Wait
    <3>2. CASE WaitSpins(p)
      <4>1. proc' = [proc EXCEPT ![q] = Reaped(q), ![p] = t]
        BY <1>0, <2>1, <3>2 DEF WaitSpins
      <4> QED
        BY <4>1
    <3> QED
      BY <1>7, <3>1, <3>2
  <2>5. proc' \in [Proc -> Process] /\ \A k \in Proc : Fit(proc'[k])
    <3> HIDE DEF q, s, t
    <3> QED
      BY <1>0, <2>1, <2>2, <2>3, <2>4 DEF Fit
  <2>6. run' = run /\ Pipes'
    BY <1>0, <1>7 DEF Wait, WaitSpins, Pipes
  <2>7. made' \in [1..MaxFiles -> {"none", "whole", "cut"}]
    BY <1>0, <1>7 DEF Wait, WaitSpins
  <2> QED
    BY <1>1, <2>5, <2>6, <2>7
\* rsyncrypto goes on with a file, and closes something.
<1>16. ASSUME NEW p \in Proc, proc[p].at \in WithChild, NEW a \in {"read", "write", "tail", "wait"},
              NEW F \in SUBSET End, proc' = [proc EXCEPT ![p] = [@ EXCEPT !.at = a, !.fds = F]],
              UNCHANGED <<run, pipe, made>>
       PROVE  Typed'
  <2> DEFINE r == [proc[p] EXCEPT !.at = a, !.fds = F]
  <2>1. r \in Process /\ r.at = a /\ r.file = proc[p].file /\ r.child = proc[p].child
    BY <1>0, ZenonT(60) DEF Process
  <2>2. Fit(r)
    <3> HIDE DEF r
    <3> QED
      BY <1>0, <1>16, <2>1 DEF Fit, WithChild
  <2>3. proc' = [proc EXCEPT ![p] = r]
    BY <1>0, <1>16
  <2> HIDE DEF r
  <2> QED
    BY <1>2, <1>16, <2>2, <2>3
<1>8. ASSUME NEW p \in Proc,
             ParentRedirect(p) \/ ReadEnd(p) \/ WriteTail(p) \/ WriteEnd(p)
      PROVE  Typed'
  <2>1. proc[p].at \in WithChild /\ UNCHANGED <<run, pipe, made>> /\ proc[p].fds \in SUBSET End
    BY <1>0, <1>8 DEF ParentRedirect, ReadEnd, WriteTail, WriteEnd, WithChild, Process
  <2>2. CASE ParentRedirect(p)
    <3> DEFINE F == proc[p].fds \ ParentCloses(proc[p].child)
    <3>1. F \in SUBSET End
      BY <2>1
    <3>2. PICK a \in {"read", "write"} : proc' = [proc EXCEPT ![p] = [@ EXCEPT !.at = a, !.fds = F]]
      BY <1>0, <2>2 DEF ParentRedirect
    <3> HIDE DEF F
    <3> QED
      BY <1>16, <2>1, <3>1, <3>2
  <2>3. CASE ReadEnd(p)
    <3> DEFINE F == proc[p].fds \ ReaderCloses(proc[p].child)
    <3>1. F \in SUBSET End
      BY <2>1
    <3>2. proc' = [proc EXCEPT ![p] = [@ EXCEPT !.at = "tail", !.fds = F]]
      BY <1>0, <2>3 DEF ReadEnd
    <3> HIDE DEF F
    <3> QED
      BY <1>16, <2>1, <3>1, <3>2
  <2>4. CASE WriteTail(p)
    <3>1. proc' = [proc EXCEPT ![p] = [@ EXCEPT !.at = "wait", !.fds = proc[p].fds]]
      BY <1>0, <2>4, ZenonT(60) DEF WriteTail, Process
    <3> QED
      BY <1>16, <2>1, <3>1
  <2>5. CASE WriteEnd(p)
    <3> DEFINE F == proc[p].fds \ WriterCloses(proc[p].child)
    <3>1. F \in SUBSET End
      BY <2>1
    <3>2. proc' = [proc EXCEPT ![p] = [@ EXCEPT !.at = "wait", !.fds = F]]
      BY <1>0, <2>5 DEF WriteEnd
    <3> HIDE DEF F
    <3> QED
      BY <1>16, <2>1, <3>1, <3>2
  <2> QED
    BY <1>8, <2>2, <2>3, <2>4, <2>5
<1>14. ASSUME NEW p \in Proc, ChildRedirect(p) PROVE Typed'
  <2> DEFINE F == proc[p].fds \ ChildCloses(p)
             S == {IF Encrypting THEN W(p) ELSE R(p)}
             r == [proc[p] EXCEPT !.at = "exec", !.fds = F, !.std = S]
  <2>1. proc' = [proc EXCEPT ![p] = r] /\ proc[p].at = "child" /\ UNCHANGED <<run, pipe, made>>
    BY <1>0, <1>14 DEF ChildRedirect
  <2>2. F \in SUBSET End /\ S \in SUBSET End
    BY <1>0 DEF Process, R, W, End
  <2>3. r \in Process /\ r.at = "exec" /\ r.file = proc[p].file
    <3> HIDE DEF F, S
    <3> QED
      BY <1>0, <2>2, ZenonT(60) DEF Process
  <2> HIDE DEF r
  <2>4. Fit(r)
    BY <1>0, <2>1, <2>3 DEF Fit, WithChild
  <2> QED
    BY <1>2, <2>1, <2>4
<1>15. ASSUME NEW p \in Proc, Exec(p) \/ ExecFails(p) PROVE Typed'
  <2>1. PICK r \in {[proc[p] EXCEPT !.at = "run", !.prog = "gzip"], [proc[p] EXCEPT !.at = "lost"]} :
          proc' = [proc EXCEPT ![p] = r]
    BY <1>0, <1>15 DEF Exec, ExecFails
  <2>2. r \in Process /\ r.at \in {"run", "lost"} /\ r.file = proc[p].file
    BY <1>0, <2>1, ZenonT(60) DEF Process
  <2>3. Fit(r)
    BY <1>0, <1>15, <2>2 DEF Exec, ExecFails, Fit, WithChild
  <2> QED
    BY <1>2, <1>15, <2>1, <2>3 DEF Exec, ExecFails
<1>9. ASSUME NEW p \in Proc,
             Exit(p) \/ GzipDone(p) \/ GunzipEnd(p) \/ GzipFails(p) \/ GzipKilled(p)
      PROVE  Typed'
  <2>1. PICK s \in {"ok", "error", "signal"} : proc' = [proc EXCEPT ![p] = Dead(p, s)]
    BY <1>9 DEF Exit, GzipDone, GunzipEnd, GzipFails, GzipKilled, GzipEnds
  <2>2. UNCHANGED <<run, pipe, made>>
    BY <1>9 DEF Exit, GzipDone, GunzipEnd, GzipFails, GzipKilled, GzipEnds
  <2> QED
    BY <1>2, <2>1, <2>2, NewRecords
<1>10. ASSUME NEW p \in Proc, ForkFails(p) \/ DiskFull(p) \/ BadBlock(p) \/ Lost(p)
       PROVE  Typed'
  <2>1. Throw(p) /\ proc[p].file <= run.files
    BY <1>0, <1>10 DEF ForkFails, DiskFull, BadBlock, Lost, FilesLeft, Fit
  <2> QED
    BY <1>4, <2>1
<1>11. ASSUME NEW p \in Proc, Read(p) \/ GunzipReads(p) PROVE Typed'
  <2>1. PICK q \in Proc : Filled(q) > 0 /\ pipe' = [pipe EXCEPT ![q].rcvd = @ + 1]
    BY <1>0, <1>11 DEF Read, GunzipReads, Fit, WithChild
  <2> QED
    BY <1>3, <1>11, <2>1 DEF Read, GunzipReads
<1>12. ASSUME NEW p \in Proc, Write(p) \/ GzipWrites(p) PROVE Typed'
  <2>1. PICK q \in Proc :
          \/ /\ Filled(q) < Capacity /\ pipe[q].sent < pipe[q].size
             /\ pipe' = [pipe EXCEPT ![q].sent = @ + 1] /\ UNCHANGED <<run, proc, made>>
          \/ proc' = [proc EXCEPT ![p] = Dead(p, "signal")] /\ UNCHANGED <<run, pipe, made>>
    BY <1>0, <1>12 DEF Write, GzipWrites, GzipEnds, Fit, WithChild
  <2> QED
    BY <1>2, <1>3, <2>1, NewRecords
<1>13. CASE UNCHANGED gpVars
  <2>1. Pipes' /\ UNCHANGED <<run, proc, made>>
    BY <1>0, <1>13 DEF gpVars, Pipes
  <2> QED
    BY <1>0, <1>1, <2>1
<1> QED
  BY <1>6, <1>7, <1>8, <1>9, <1>10, <1>11, <1>12, <1>13, <1>14, <1>15 DEF GpNext, Step, Failure

-----------------------------------------------------------------------------
(* As long as gzip can be started. *)

Healthy == Shape /\ ChildEnds /\ MainEnds /\ AllThrough

LEMMA EndsDiffer ==
  \A x, y \in Proc : /\ R(x) = R(y) => x = y
                     /\ W(x) = W(y) => x = y
                     /\ R(x) # W(y)
BY DEF R, W

\* A stray child stays one: what is assumed of a state holds in those before it.
LEMMA StrayStays ==
  ASSUME Typed, [GpNext]_gpVars, GzipStarts'
  PROVE  GzipStarts
<1> SUFFICES ASSUME NEW q \in Proc, Stray(q) PROVE Stray(q)'
  BY DEF GzipStarts
<1>1. /\ q # Main /\ proc[q].prog = "rsyncrypto" /\ proc[q].at \notin {"none", "child", "exec"}
      /\ proc \in [Proc -> Process]
  BY DEF Stray, Typed, GpTypeOK
<1>2. ASSUME proc'[q].prog = "rsyncrypto", proc'[q].at \notin {"none", "child", "exec"}
      PROVE  Stray(q)'
  BY <1>1, <1>2 DEF Stray
<1>3. ASSUME NEW p \in Proc, NEW r, r.prog = proc[p].prog, r.at \notin {"none", "child", "exec"},
             proc' = [proc EXCEPT ![p] = r]
      PROVE  Stray(q)'
  BY <1>1, <1>2, <1>3
<1>4. ASSUME NEW p \in Proc
      PROVE  /\ \A s : Dead(p, s).prog = proc[p].prog /\ Dead(p, s).at = "dead"
             /\ Reaped(p).prog = proc[p].prog /\ Reaped(p).at = "reaped"
             /\ NextFile(p).prog = proc[p].prog /\ NextFile(p).at = "next"
             /\ FileFailed(p).prog = proc[p].prog /\ FileFailed(p).at \in {"next", "dead"}
  BY <1>1 DEF Dead, Reaped, NextFile, FileFailed, NoProc, Process
<1>5. ASSUME proc' = proc PROVE Stray(q)'
  BY <1>1, <1>2, <1>5
<1>6. ASSUME NEW p \in Proc, Throw(p) PROVE Stray(q)'
  BY <1>3, <1>4, <1>6 DEF Throw
<1>7. ASSUME NEW p \in Proc, \/ Exit(p) \/ ForkFails(p) \/ DiskFull(p) \/ BadBlock(p) \/ Lost(p)
                             \/ GzipDone(p) \/ GunzipEnd(p) \/ GzipFails(p) \/ GzipKilled(p)
      PROVE  Stray(q)'
  <2>1. Throw(p) \/ \E s : proc' = [proc EXCEPT ![p] = Dead(p, s)]
    BY <1>7 DEF Exit, ForkFails, DiskFull, BadBlock, Lost, GzipDone, GunzipEnd, GzipFails, GzipKilled,
                GzipEnds
  <2> QED
    BY <1>3, <1>4, <1>6, <2>1
<1>8. ASSUME NEW p \in Proc, Write(p) \/ GzipWrites(p) \/ Read(p) \/ GunzipReads(p) PROVE Stray(q)'
  <2>1. proc' = proc \/ proc' = [proc EXCEPT ![p] = Dead(p, "signal")]
    BY <1>8 DEF Write, GzipWrites, GzipEnds, Read, GunzipReads
  <2> QED
    BY <1>3, <1>4, <1>5, <2>1
<1>9. ASSUME NEW p \in Proc, \/ ParentRedirect(p) \/ ReadEnd(p) \/ WriteTail(p) \/ WriteEnd(p)
                             \/ ChildRedirect(p) \/ Exec(p) \/ ExecFails(p)
      PROVE  Stray(q)'
  <2>1. proc[p].at \in WithChild \cup {"child", "exec"}
    BY <1>9 DEF ParentRedirect, ReadEnd, WriteTail, WriteEnd, ChildRedirect, Exec, ExecFails, WithChild
  <2>2. CASE p # q
    <3>1. proc'[q] = proc[q]
      BY <1>1, <1>9, <2>2
         DEF ParentRedirect, ReadEnd, WriteTail, WriteEnd, ChildRedirect, Exec, ExecFails
    <3> QED
      BY <1>1, <1>2, <3>1
  <2>3. CASE p = q
    <3>1. ParentRedirect(q) \/ ReadEnd(q) \/ WriteTail(q) \/ WriteEnd(q)
      BY <1>1, <1>9, <2>3 DEF ChildRedirect, Exec, ExecFails
    <3>2. proc'[q].prog = proc[q].prog /\ proc'[q].at \in {"read", "write", "tail", "wait"}
      BY <1>1, <3>1 DEF ParentRedirect, ReadEnd, WriteTail, WriteEnd, Process
    <3> QED
      BY <1>1, <1>2, <3>2
  <2> QED
    BY <2>2, <2>3
<1>10. ASSUME NEW p \in Proc, Fork(p) PROVE Stray(q)'
  <2>1. PICK c \in Proc :
          /\ proc[c].at = "none"
          /\ LET all == proc[p].fds \cup {R(c), W(c)}
             IN  proc' = [proc EXCEPT
                   ![p] = [@ EXCEPT !.at = "forked", !.child = c, !.fds = all],
                   ![c] = [proc[p] EXCEPT !.at = "child", !.child = 0, !.fds = all]]
    BY <1>10 DEF Fork
  <2>2. proc'[q].prog = proc[q].prog /\ proc'[q].at \in {proc[q].at, "forked"}
    BY <1>1, <2>1 DEF Process
  <2> QED
    BY <1>1, <1>2, <2>2
<1>11. ASSUME NEW p \in Proc, Wait(p) \/ WaitSpins(p) PROVE Stray(q)'
  <2> DEFINE c == proc[p].child
             t == [proc[p] EXCEPT !.at = "spin"]
  <2>1. c \in Proc /\ p # c /\ proc[p].at = "wait"
    BY <1>11 DEF Typed, Counted, Wait, WaitSpins, WithChild
  <2>2. PICK r : /\ proc' = [proc EXCEPT ![c] = Reaped(c), ![p] = r]
                 /\ r.prog = proc[p].prog /\ r.at \in {"next", "dead", "spin"}
    <3>1. CASE Wait(p)
      BY <1>4, <3>1 DEF Wait
    <3>2. CASE WaitSpins(p)
      <4>1. proc' = [proc EXCEPT ![c] = Reaped(c), ![p] = t]
        BY <1>1, <2>1, <3>2 DEF WaitSpins
      <4>2. t.prog = proc[p].prog /\ t.at = "spin"
        BY <1>1 DEF Process
      <4> QED
        BY <4>1, <4>2
    <3> QED
      BY <1>11, <3>1, <3>2
  <2>3. proc'[q].prog = proc[q].prog /\ proc'[q].at \in {proc[q].at, "reaped", "next", "dead", "spin"}
    <3> HIDE DEF c
    <3> QED
      BY <1>1, <1>4, <2>1, <2>2
  <2> QED
    BY <1>1, <1>2, <2>3
<1>12. CASE UNCHANGED gpVars
  BY <1>5, <1>12 DEF gpVars
<1> QED
  BY <1>6, <1>7, <1>8, <1>9, <1>10, <1>11, <1>12 DEF GpNext, Step, Failure

LEMMA MainIsProc == Main \in Proc
BY GzipPipeParams DEF Main, Proc

LEMMA SoundInitially == GpInit => Sound
<1> SUFFICES ASSUME GpInit PROVE Healthy
  BY DEF Sound, Healthy
<1> USE MainIsProc
<1>1. /\ proc[Main].at = "next" /\ proc[Main].prog = "rsyncrypto" /\ proc[Main].fds = {}
      /\ proc[Main].std = {} /\ \A q \in Proc \ {Main} : proc[q] = NoProc
  BY DEF GpInit, NoProc
<1>2. NoProc.at = "none" /\ NoProc.fds = {} /\ NoProc.std = {}
  BY DEF NoProc
<1>3. Shape
  BY <1>1, <1>2 DEF Shape, WithChild
<1>4. ChildEnds
  BY <1>1, <1>2 DEF ChildEnds, Has
<1>5. MainEnds
  BY <1>1 DEF MainEnds, WithChild
<1>6. AllThrough
  BY <1>1, <1>2 DEF AllThrough, GpInit
<1> QED
  BY <1>3, <1>4, <1>5, <1>6 DEF Healthy

\* rsyncrypto does something that concerns no one else: it closes pipe ends, and
\* goes on or gives up.
LEMMA MainAlone ==
  ASSUME Typed, Healthy, NEW r, proc' = [proc EXCEPT ![Main] = r], UNCHANGED <<run, pipe, made>>,
         r.prog = "rsyncrypto", r.std = {}, r.fds \subseteq proc[Main].fds,
         \/ r.at \in {"next", "dead"}
         \/ /\ proc[Main].at \in WithChild /\ r.child = proc[Main].child
            /\ r.at \in IF Encrypting THEN {"read", "tail", "wait"} ELSE {"write", "wait"}
            /\ R(r.child) \in r.fds => r.at = "read"
            /\ W(r.child) \in r.fds => r.at = "write"
            /\ r.at # "write" => W(r.child) \notin r.fds
            /\ (Encrypting /\ r.at \in {"tail", "wait"}) =>
                 proc[r.child].at = "dead" /\ Filled(r.child) = 0
  PROVE  Healthy'
<1> USE MainIsProc
<1>1. /\ proc'[Main] = r /\ \A k \in Proc \ {Main} : proc'[k] = proc[k]
      /\ proc[Main].at \notin {"none", "child", "exec", "run", "reaped"}
      /\ \A k \in Proc : Has(k)' \subseteq Has(k)
      /\ \A k \in Proc \ {Main} : Has(k)' = Has(k)
      /\ Encrypting' = Encrypting
  BY DEF Typed, GpTypeOK, Healthy, Shape, WithChild, Has, Encrypting
<1>2. Shape'
  BY <1>1 DEF Healthy, Shape, WithChild
<1>3. ChildEnds'
  BY <1>1 DEF Healthy, ChildEnds, Shape, WithChild
<1>4. MainEnds'
  <2>1. Has(Main)' = r.fds
    BY <1>1 DEF Has
  <2> QED
    BY <1>1, <2>1 DEF Healthy, MainEnds, Shape, WithChild
<1>5. AllThrough'
  BY <1>1 DEF Healthy, AllThrough, Shape, WithChild, Filled
<1> QED
  BY <1>2, <1>3, <1>4, <1>5 DEF Healthy

\* A buffer goes into a pipe or out of it.
LEMMA BufferMoves ==
  ASSUME Typed, Healthy, UNCHANGED <<run, proc, made>>, NEW q \in Proc, NEW b,
         pipe' = [pipe EXCEPT ![q] = b], b.size = pipe[q].size,
         IF Encrypting THEN b.sent = pipe[q].sent \/ proc[q].at = "run"
                       ELSE b.rcvd = pipe[q].rcvd \/ proc[q].at = "run",
         Encrypting => (proc[Main].at = "read" \/ proc[q].at = "run")
  PROVE  Healthy'
<1> USE MainIsProc
<1>1. Encrypting' = Encrypting /\ \A k \in Proc : Has(k)' = Has(k)
  BY DEF Encrypting, Has
<1>2. Shape' /\ ChildEnds' /\ MainEnds'
  BY <1>1 DEF Healthy, Shape, ChildEnds, MainEnds
<1>3. AllThrough'
  BY <1>1 DEF Typed, GpTypeOK, Healthy, AllThrough, Shape, WithChild, Filled
<1> QED
  BY <1>2, <1>3 DEF Healthy

\* A gzip ends, and if it says that all is well it has worked through its pipe.
LEMMA GzipEnded ==
  ASSUME Typed, Healthy, NEW q \in Proc, NEW status \in {"ok", "error", "signal"},
         GzipRuns(q), GzipEnds(q, status),
         status = "ok" => IF Encrypting THEN pipe[q].sent = pipe[q].size
                                        ELSE pipe[q].rcvd = pipe[q].size
  PROVE  Healthy'
<1> USE MainIsProc
<1> DEFINE r == Dead(q, status)
<1>1. /\ q # Main /\ proc[q].at = "run" /\ proc[q].prog = "gzip"
      /\ proc' = [proc EXCEPT ![q] = r] /\ UNCHANGED <<run, pipe, made>>
  BY DEF GzipRuns, GzipEnds, Healthy, Shape
<1>2. r.at = "dead" /\ r.status = status /\ r.prog = "gzip" /\ r.fds = {} /\ r.std = {}
  BY <1>1 DEF Dead, NoProc
<1> HIDE DEF r
<1>3. /\ proc'[q] = r /\ \A k \in Proc \ {q} : proc'[k] = proc[k]
      /\ Has(q)' = {} /\ \A k \in Proc \ {q} : Has(k)' = Has(k)
      /\ Encrypting' = Encrypting
  BY <1>1, <1>2 DEF Typed, GpTypeOK, Has, Encrypting
<1>4. Shape'
  BY <1>1, <1>2, <1>3 DEF Healthy, Shape, WithChild
<1>5. ChildEnds'
  BY <1>1, <1>2, <1>3 DEF Healthy, ChildEnds
<1>6. MainEnds'
  BY <1>1, <1>2, <1>3 DEF Healthy, MainEnds
<1>7. AllThrough'
  BY <1>1, <1>2, <1>3 DEF Healthy, AllThrough, Filled, Shape, WithChild
<1> QED
  BY <1>4, <1>5, <1>6, <1>7 DEF Healthy

\* The child puts its end of the pipe where gzip expects it, or becomes gzip.
LEMMA ChildGoesOn ==
  ASSUME Typed, Healthy, NEW q \in Proc, ChildRedirect(q) \/ Exec(q)
  PROVE  Healthy'
<1> USE MainIsProc, EndsDiffer
<1>1. proc \in [Proc -> Process] /\ q # Main /\ UNCHANGED <<run, pipe, made>>
  BY DEF Typed, GpTypeOK, Healthy, Shape, WithChild, ChildRedirect, Exec
<1>2. /\ proc[q].at = "child" => ChildRedirect(q)
      /\ proc[q].at = "exec" => Exec(q)
      /\ proc[q].at \in {"child", "exec"}
  BY DEF ChildRedirect, Exec
<1>3. /\ proc'[q].at = IF proc[q].at = "child" THEN "exec" ELSE "run"
      /\ proc'[q].prog = IF proc[q].at = "child" THEN proc[q].prog ELSE "gzip"
      /\ \A k \in Proc \ {q} : proc'[k] = proc[k]
  BY <1>1, <1>2 DEF ChildRedirect, Exec, Process
<1>4. /\ \A k \in Proc \ {q} : Has(k)' = Has(k)
      /\ Encrypting' = Encrypting
  BY <1>1, <1>3 DEF Has, Encrypting
<1>5. /\ proc[q].at = "exec" => Has(q)' = Has(q)
      /\ proc[q].at = "child" =>
           Has(q)' = (proc[q].fds \ ChildCloses(q)) \cup {IF Encrypting THEN W(q) ELSE R(q)}
  BY <1>1, <1>2 DEF ChildRedirect, Exec, Process, Has
<1>6. /\ \A x \in Proc : /\ R(x) \in Has(q)' => R(x) \in Has(q) \/ x = q
                         /\ W(x) \in Has(q)' => W(x) \in Has(q) \/ x = q
      /\ (proc[q].at = "child" /\ Encrypting) => W(q) \in Has(q)'
      /\ (proc[q].at = "child" /\ ~Encrypting) => W(q) \notin Has(q)'
  BY <1>2, <1>5 DEF Has, ChildCloses
<1>7. Shape'
  <2>1. /\ proc'[q].at \in {"exec", "run"} /\ proc'[q].at = "exec" => proc'[q].prog = "rsyncrypto"
        /\ proc'[q].at = "run" => proc'[q].prog = "gzip"
    BY <1>1, <1>2, <1>3 DEF Healthy, Shape
  <2>2. proc'[Main] = proc[Main]
    BY <1>1, <1>3
  <2>3. proc[Main].at \in WithChild => proc[Main].child \in Proc
    BY DEF Typed, Counted
  <2> QED
    BY <1>1, <1>3, <1>4, <2>1, <2>2, <2>3 DEF Healthy, Shape
<1>8. ChildEnds'
  BY <1>1, <1>2, <1>3, <1>4, <1>5, <1>6 DEF Healthy, ChildEnds
<1>9. MainEnds'
  <2> SUFFICES ASSUME proc[Main].at \in WithChild,
                      NEW k \in Proc
               PROVE  LET c == proc[Main].child
                      IN  /\ R(c) \in Has(k)' => k = c \/ (k = Main /\ proc'[k].at \in {"forked", "read"})
                          /\ W(c) \in Has(k)' => k = c \/ (k = Main /\ proc'[k].at \in {"forked", "write"})
    BY <1>1, <1>3 DEF MainEnds
  <2>1. proc[Main].child \in Proc
    BY DEF Typed, Counted
  <2> QED
    BY <1>1, <1>3, <1>4, <1>6, <2>1 DEF Healthy, MainEnds
<1>10. AllThrough'
  <2>1. proc'[q].at # "dead" /\ proc'[Main] = proc[Main] /\ pipe' = pipe /\ made' = made
    BY <1>1, <1>3
  <2>2. proc[Main].at \in {"tail", "wait"} => proc[Main].child \in Proc
    BY DEF Typed, Counted, WithChild
  <2> QED
    BY <1>2, <1>3, <1>4, <2>1, <2>2 DEF Healthy, AllThrough, Filled
<1> QED
  BY <1>7, <1>8, <1>9, <1>10 DEF Healthy

LEMMA MainForks ==
  ASSUME Typed, Healthy, Fork(Main)
  PROVE  Healthy'
<1> USE MainIsProc, EndsDiffer
<1>1. PICK q \in Proc, n \in 1..MaxSize :
        /\ proc[q].at = "none" /\ pipe' = [pipe EXCEPT ![q].size = n]
        /\ LET all == proc[Main].fds \cup {R(q), W(q)}
           IN  proc' = [proc EXCEPT
                 ![Main] = [@ EXCEPT !.at = "forked", !.child = q, !.fds = all],
                 ![q] = [proc[Main] EXCEPT !.at = "child", !.child = 0, !.fds = all]]
  BY DEF Fork
<1> DEFINE all == proc[Main].fds \cup {R(q), W(q)}
           f == [proc[Main] EXCEPT !.at = "forked", !.child = q, !.fds = all]
           c == [proc[Main] EXCEPT !.at = "child", !.child = 0, !.fds = all]
<1>2. /\ proc \in [Proc -> Process] /\ pipe \in [Proc -> Buffers] /\ UNCHANGED <<run, made>>
      /\ q # Main /\ proc[Main].at = "next" /\ proc[Main].prog = "rsyncrypto" /\ proc[Main].std = {}
      /\ Encrypting' = Encrypting
  BY <1>1 DEF Typed, GpTypeOK, Fork, Healthy, Shape, Encrypting
<1>3. proc'[Main] = f /\ proc'[q] = c /\ \A k \in Proc \ {Main, q} : proc'[k] = proc[k]
  <2>1. proc' = [proc EXCEPT ![Main] = f, ![q] = c]
    BY <1>1
  <2> HIDE DEF f, c
  <2> QED
    BY <1>2, <2>1
<1>4. /\ proc'[Main].at = "forked" /\ proc'[Main].child = q /\ proc'[Main].prog = "rsyncrypto"
      /\ proc'[Main].std = {} /\ proc'[Main].fds = all
      /\ proc'[q].at = "child" /\ proc'[q].prog = "rsyncrypto" /\ proc'[q].std = {}
      /\ proc'[q].fds = all
  <2> HIDE DEF all
  <2> QED
    BY <1>2, <1>3 DEF Process
<1> HIDE DEF f, c
<1>5. /\ Has(Main)' = Has(Main) \cup {R(q), W(q)} /\ Has(q)' = Has(Main) \cup {R(q), W(q)}
      /\ \A k \in Proc \ {Main, q} : Has(k)' = Has(k)
  BY <1>2, <1>3, <1>4 DEF Has
<1>6. \A k \in Proc : R(q) \notin Has(k) /\ W(q) \notin Has(k)
  BY <1>1 DEF Healthy, ChildEnds
<1> HIDE DEF all
<1>7. Shape'
  BY <1>2, <1>3, <1>4 DEF Healthy, Shape, WithChild
<1>8. ChildEnds'
  BY <1>2, <1>3, <1>4, <1>5 DEF Healthy, ChildEnds
<1>9. MainEnds'
  BY <1>4, <1>5, <1>6 DEF MainEnds
<1>10. AllThrough'
  <2>1. \A k \in Proc \ {q} : pipe'[k] = pipe[k]
    BY <1>1, <1>2
  <2> QED
    BY <1>2, <1>3, <1>4, <2>1 DEF Healthy, AllThrough
<1> QED
  BY <1>7, <1>8, <1>9, <1>10 DEF Healthy

LEMMA MainWaits ==
  ASSUME Typed, Healthy, Wait(Main) \/ WaitSpins(Main)
  PROVE  Healthy'
<1> USE MainIsProc, EndsDiffer
<1>0. PICK q \in Proc : q = proc[Main].child
  BY DEF Wait, WaitSpins, WithChild, Typed, Counted
<1> DEFINE t == [proc[Main] EXCEPT !.at = "spin"]
<1>1. /\ proc \in [Proc -> Process] /\ q # Main /\ proc[Main].at = "wait"
      /\ proc[q].at = "dead" /\ proc[q].prog = "gzip" /\ proc[q].fds = {} /\ proc[q].std = {}
      /\ run' = run /\ pipe' = pipe /\ Encrypting' = Encrypting
      /\ proc[Main].prog = "rsyncrypto" /\ proc[Main].std = {}
  BY <1>0 DEF Typed, GpTypeOK, Over, Counted, Wait, WaitSpins, Healthy, Shape, WithChild, Encrypting
<1>2. PICK r : /\ proc' = [proc EXCEPT ![q] = Reaped(q), ![Main] = r]
               /\ r.prog = "rsyncrypto" /\ r.at \in {"next", "dead", "spin"} /\ r.std = {}
               /\ r.fds \subseteq proc[Main].fds
  <2> DEFINE Fits1(r) == /\ r.prog = "rsyncrypto" /\ r.at \in {"next", "dead", "spin"} /\ r.std = {}
                          /\ r.fds \subseteq proc[Main].fds
  <2>4. Fits1(t)
    BY <1>1 DEF Process
  <2>5. Fits1(NextFile(Main))
    BY <1>1 DEF NextFile, Process
  <2>6. Fits1(Dead(Main, "error"))
    BY <1>1 DEF Dead, NoProc
  <2>1. \A r \in {t, NextFile(Main), FileFailed(Main)} : Fits1(r)
    BY <2>4, <2>5, <2>6 DEF FileFailed
  <2>2. CASE Wait(Main)
    BY <1>0, <2>1, <2>2 DEF Wait
  <2>3. CASE WaitSpins(Main)
    <3>1. proc' = [proc EXCEPT ![q] = Reaped(q), ![Main] = t]
      BY <1>0, <1>1, <2>3 DEF WaitSpins
    <3> QED
      BY <2>1, <3>1
  <2> QED
    BY <2>2, <2>3
<1>3. Reaped(q).prog = "gzip" /\ Reaped(q).at = "reaped" /\ Reaped(q).fds = {} /\ Reaped(q).std = {}
  BY <1>1 DEF Reaped, NoProc
<1>4. /\ proc'[Main] = r /\ proc'[q] = Reaped(q)
      /\ \A k \in Proc \ {Main, q} : proc'[k] = proc[k]
  BY <1>1, <1>2
<1>5. \A k \in Proc : R(q) \notin Has(k) /\ W(q) \notin Has(k)
  <2>1. Has(q) = {}
    BY <1>1 DEF Has
  <2> QED
    BY <1>0, <1>1, <2>1 DEF Healthy, MainEnds, WithChild
<1> HIDE DEF t
<1>6. /\ Has(q)' = {} /\ Has(Main)' \subseteq Has(Main)
      /\ \A k \in Proc \ {Main, q} : Has(k)' = Has(k)
  <2>1. \A k \in Proc \ {Main, q} : Has(k)' = Has(k)
    BY <1>4 DEF Has
  <2>2. Has(q)' = {}
    BY <1>3, <1>4 DEF Has
  <2>3. Has(Main)' \subseteq Has(Main)
    BY <1>2, <1>4 DEF Has
  <2> QED
    BY <2>1, <2>2, <2>3
<1>7. Shape'
  BY <1>1, <1>2, <1>3, <1>4 DEF Healthy, Shape, WithChild
<1>8. ChildEnds'
  BY <1>1, <1>2, <1>3, <1>4, <1>5, <1>6 DEF Healthy, ChildEnds
<1>9. MainEnds'
  BY <1>2, <1>4 DEF MainEnds, WithChild
<1>10. AllThrough'
  <2>1. \A i \in 1..MaxFiles : made'[i] # "cut"
    <3>1. CASE Wait(Main)
      <4>1. proc[q].status = "ok" => Whole(q)
        <5>1. pipe[q].sent \in Int /\ pipe[q].rcvd \in Int
          BY <1>1 DEF Typed, GpTypeOK, Buffers
        <5> QED
          BY <1>0, <1>1, <5>1 DEF Whole, Healthy, AllThrough, Filled
      <4> QED
        BY <1>0, <3>1, <4>1 DEF Wait, Succeeded, Healthy, AllThrough, Typed, GpTypeOK
    <3>2. CASE WaitSpins(Main)
      BY <3>2 DEF WaitSpins, Healthy, AllThrough
    <3> QED
      BY <3>1, <3>2
  <2> QED
    BY <1>1, <1>2, <1>3, <1>4, <2>1 DEF Healthy, AllThrough
<1> QED
  BY <1>7, <1>8, <1>9, <1>10 DEF Healthy

LEMMA SoundStep == Typed /\ Sound /\ [GpNext]_gpVars => Sound'
<1> SUFFICES ASSUME Typed, Sound, [GpNext]_gpVars, GzipStarts' PROVE Healthy'
  BY DEF Sound, Healthy
<1> USE MainIsProc
<1>1. GzipStarts /\ Healthy /\ proc \in [Proc -> Process] /\ pipe \in [Proc -> Buffers]
  BY StrayStays DEF Sound, Healthy, Typed, GpTypeOK
<1>2. /\ proc[Main].prog = "rsyncrypto" /\ proc[Main].std = {} /\ proc[Main].fds \subseteq End
      /\ proc[Main].at \in WithChild => proc[Main].child \in Proc
      /\ proc[Main].at \in WithChild \cup {"next", "spin", "dead"}
      /\ \A q \in Proc \ {Main} :
           /\ proc[q].at \in {"none", "child", "exec", "run", "dead", "reaped"}
           /\ proc[q].at = "exec" => proc[q].prog = "rsyncrypto"
  BY <1>1 DEF Healthy, Shape, Process, Typed, Counted
<1>3. \A s : Dead(Main, s).at = "dead" /\ Dead(Main, s).prog = "rsyncrypto" /\ Dead(Main, s).std = {}
             /\ Dead(Main, s).fds = {}
  BY <1>2 DEF Dead, NoProc
<1>4. ASSUME Exit(Main) \/ Throw(Main)
             \/ (proc' = [proc EXCEPT ![Main] = Dead(Main, "signal")] /\ UNCHANGED <<run, pipe, made>>)
      PROVE  Healthy'
  <2>1. PICK r \in {Dead(Main, "ok"), Dead(Main, "error"), Dead(Main, "signal"), NextFile(Main)} :
          proc' = [proc EXCEPT ![Main] = r] /\ UNCHANGED <<run, pipe, made>>
    BY <1>4 DEF Exit, Throw, FileFailed
  <2>2. /\ NextFile(Main).at = "next" /\ NextFile(Main).prog = "rsyncrypto"
        /\ NextFile(Main).std = {} /\ NextFile(Main).fds \subseteq proc[Main].fds
    BY <1>1, <1>2 DEF NextFile, Process
  <2> QED
    BY <1>1, <1>3, <2>1, <2>2, MainAlone
<1>5. ASSUME ParentRedirect(Main) \/ ReadEnd(Main) \/ WriteTail(Main) \/ WriteEnd(Main)
      PROVE  Healthy'
  <2>1. PICK c \in Proc : c = proc[Main].child
    BY <1>2, <1>5 DEF ParentRedirect, ReadEnd, WriteTail, WriteEnd, WithChild
  <2>2. /\ R(c) \in proc[Main].fds => proc[Main].at \in {"forked", "read"}
        /\ W(c) \in proc[Main].fds => proc[Main].at \in {"forked", "write"}
        /\ IF Encrypting THEN proc[Main].at # "write" ELSE proc[Main].at \notin {"read", "tail"}
        /\ c # Main /\ proc[Main].at \in WithChild /\ UNCHANGED <<run, pipe, made>>
        /\ R(c) # W(c)
        /\ Encrypting /\ proc[Main].at = "tail" => proc[c].at = "dead" /\ Filled(c) = 0
    BY <1>1, <1>5, <2>1, EndsDiffer
       DEF Healthy, MainEnds, Shape, AllThrough, Has, ParentRedirect, ReadEnd, WriteTail, WriteEnd, WithChild
  <2>3. ASSUME NEW a, NEW F \in SUBSET proc[Main].fds,
               proc' = [proc EXCEPT ![Main] = [@ EXCEPT !.at = a, !.fds = F]],
               a \in IF Encrypting THEN {"read", "tail", "wait"} ELSE {"write", "wait"},
               R(c) \in F => a = "read", W(c) \in F => a = "write",
               (Encrypting /\ a \in {"tail", "wait"}) => proc[c].at = "dead" /\ Filled(c) = 0
        PROVE  Healthy'
    <3> DEFINE r == [proc[Main] EXCEPT !.at = a, !.fds = F]
    <3>1. r.at = a /\ r.fds = F /\ r.child = c /\ r.prog = "rsyncrypto" /\ r.std = {}
      BY <1>1, <1>2, <2>1 DEF Process
    <3>2. proc' = [proc EXCEPT ![Main] = r]
      BY <1>1, <2>3
    <3> HIDE DEF r
    <3> QED
      BY <1>1, <2>1, <2>2, <2>3, <3>1, <3>2, MainAlone
  <2>4. CASE ParentRedirect(Main)
    <3> DEFINE F == proc[Main].fds \ ParentCloses(c)
    <3>1. proc' = [proc EXCEPT ![Main] = [@ EXCEPT !.at = IF Encrypting THEN "read" ELSE "write",
                                                   !.fds = F]]
      BY <1>1, <2>1, <2>4 DEF ParentRedirect
    <3>2. IF Encrypting THEN W(c) \notin F ELSE R(c) \notin F
      BY DEF ParentCloses
    <3> HIDE DEF F
    <3>3. F \in SUBSET proc[Main].fds
      BY DEF F
    <3>4. CASE Encrypting
      <4>1. proc' = [proc EXCEPT ![Main] = [@ EXCEPT !.at = "read", !.fds = F]]
        BY <3>1, <3>4
      <4> QED
        BY <2>3, <3>2, <3>3, <3>4, <4>1
    <3>5. CASE ~Encrypting
      <4>1. proc' = [proc EXCEPT ![Main] = [@ EXCEPT !.at = "write", !.fds = F]]
        BY <3>1, <3>5
      <4> QED
        BY <2>3, <3>2, <3>3, <3>5, <4>1
    <3> QED
      BY <3>4, <3>5
  \* At the end of the file the child, which has its own end until then, is gone.
  <2>5. CASE ReadEnd(Main)
    <3> DEFINE F == proc[Main].fds \ ReaderCloses(c)
    <3>1. proc' = [proc EXCEPT ![Main] = [@ EXCEPT !.at = "tail", !.fds = F]]
      BY <1>1, <2>1, <2>5 DEF ReadEnd
    <3>2. R(c) \notin F /\ W(c) \notin F
      BY <2>2, <2>5 DEF ReadEnd, ReaderCloses
    <3>3. Encrypting /\ proc[c].at = "dead" /\ Filled(c) = 0
      <4>1. Encrypting /\ Filled(c) = 0 /\ ~Open(W(c))
        BY <2>1, <2>2, <2>5 DEF ReadEnd
      <4>2. proc[c].at \in {"child", "exec", "run", "dead"}
        BY <1>1, <2>1, <2>2 DEF Healthy, Shape
      <4> QED
        BY <1>1, <4>1, <4>2 DEF Healthy, ChildEnds, Open, Has
    <3>4. F \in SUBSET proc[Main].fds
      OBVIOUS
    <3> HIDE DEF F
    <3> QED
      BY <2>3, <3>1, <3>2, <3>3, <3>4
  <2>6. CASE WriteTail(Main)
    <3>1. proc' = [proc EXCEPT ![Main] = [@ EXCEPT !.at = "wait", !.fds = proc[Main].fds]]
      BY <1>1, <2>6 DEF WriteTail, Process
    <3>2. R(c) \notin proc[Main].fds /\ W(c) \notin proc[Main].fds /\ Encrypting
          /\ proc[c].at = "dead" /\ Filled(c) = 0
      BY <2>2, <2>6 DEF WriteTail
    <3> QED
      BY <2>3, <3>1, <3>2
  <2>7. CASE WriteEnd(Main)
    <3> DEFINE F == proc[Main].fds \ WriterCloses(c)
    <3>1. proc' = [proc EXCEPT ![Main] = [@ EXCEPT !.at = "wait", !.fds = F]]
      BY <1>1, <2>1, <2>7 DEF WriteEnd
    <3>2. R(c) \notin F /\ W(c) \notin F /\ ~Encrypting
      BY <2>2, <2>7 DEF WriteEnd, WriterCloses
    <3>3. F \in SUBSET proc[Main].fds
      OBVIOUS
    <3> HIDE DEF F
    <3> QED
      BY <2>3, <3>1, <3>2, <3>3
  <2> QED
    BY <1>5, <2>4, <2>5, <2>6, <2>7
<1>6. ASSUME NEW q \in Proc, UNCHANGED <<run, proc, made>>,
             \/ /\ pipe' = [pipe EXCEPT ![q].rcvd = @ + 1]
                /\ IF Encrypting THEN proc[Main].at = "read" ELSE proc[q].at = "run"
             \/ /\ pipe' = [pipe EXCEPT ![q].sent = @ + 1]
                /\ Encrypting => proc[q].at = "run"
      PROVE  Healthy'
  <2>1. PICK b : /\ pipe' = [pipe EXCEPT ![q] = b] /\ b.size = pipe[q].size
                 /\ \/ b.sent = pipe[q].sent
                       /\ IF Encrypting THEN proc[Main].at = "read" ELSE proc[q].at = "run"
                    \/ b.rcvd = pipe[q].rcvd /\ (Encrypting => proc[q].at = "run")
    <3>1. CASE pipe' = [pipe EXCEPT ![q].rcvd = @ + 1]
                /\ IF Encrypting THEN proc[Main].at = "read" ELSE proc[q].at = "run"
      <4> DEFINE b == [pipe[q] EXCEPT !.rcvd = pipe[q].rcvd + 1]
      <4>1. pipe' = [pipe EXCEPT ![q] = b]
        BY <1>1, <3>1
      <4>2. b.size = pipe[q].size /\ b.sent = pipe[q].sent
        BY <1>1 DEF Buffers
      <4> HIDE DEF b
      <4> QED
        BY <3>1, <4>1, <4>2
    <3>2. CASE pipe' = [pipe EXCEPT ![q].sent = @ + 1] /\ (Encrypting => proc[q].at = "run")
      <4> DEFINE b == [pipe[q] EXCEPT !.sent = pipe[q].sent + 1]
      <4>1. pipe' = [pipe EXCEPT ![q] = b]
        BY <1>1, <3>2
      <4>2. b.size = pipe[q].size /\ b.rcvd = pipe[q].rcvd
        BY <1>1 DEF Buffers
      <4> HIDE DEF b
      <4> QED
        BY <3>2, <4>1, <4>2
    <3> QED
      BY <1>6, <3>1, <3>2
  <2> QED
    BY <1>1, <1>6, <2>1, BufferMoves
<1>7. ASSUME NEW p \in Proc, Read(p) \/ GunzipReads(p) \/ Write(p) \/ GzipWrites(p)
      PROVE  Healthy'
  <2>1. CASE Read(p)
    <3>1. p = Main /\ Encrypting
      BY <1>1, <1>2, <2>1 DEF Read, Healthy, Shape
    <3> QED
      BY <1>2, <1>6, <2>1, <3>1 DEF Read, WithChild
  <2>2. CASE GunzipReads(p)
    BY <1>6, <2>2 DEF GunzipReads, GzipRuns
  <2>3. CASE Write(p)
    <3>1. p = Main /\ ~Encrypting
      BY <1>1, <1>2, <2>3 DEF Write, Healthy, Shape
    <3> QED
      BY <1>2, <1>4, <1>6, <2>3, <3>1 DEF Write, WithChild
  <2>4. CASE GzipWrites(p)
    <3>1. CASE Open(R(p))
      BY <1>6, <2>4, <3>1 DEF GzipWrites, GzipRuns
    <3>2. CASE ~Open(R(p))
      BY <1>1, <2>4, <3>2, GzipEnded DEF GzipWrites
    <3> QED
      BY <3>1, <3>2
  <2> QED
    BY <1>7, <2>1, <2>2, <2>3, <2>4
<1>8. ASSUME NEW p \in Proc, GzipDone(p) \/ GunzipEnd(p) \/ GzipFails(p) \/ GzipKilled(p)
      PROVE  Healthy'
  <2>1. PICK s \in {"ok", "error", "signal"} :
          /\ GzipRuns(p) /\ GzipEnds(p, s)
          /\ s = "ok" => IF Encrypting THEN pipe[p].sent = pipe[p].size ELSE pipe[p].rcvd = pipe[p].size
    BY <1>8 DEF GzipDone, GunzipEnd, GzipFails, GzipKilled
  <2> QED
    BY <1>1, <2>1, GzipEnded
\* What would make a stray child, or would be done by one, did not happen.
<1>9. ASSUME NEW p \in Proc, ExecFails(p) \/ Lost(p) PROVE FALSE
  <2>1. p # Main
    BY <1>2, <1>9 DEF ExecFails, Lost, WithChild
  <2>2. CASE ExecFails(p)
    <3>1. proc'[p].at = "lost" /\ proc'[p].prog = "rsyncrypto"
      BY <1>1, <1>2, <2>1, <2>2 DEF ExecFails, Process
    <3> QED
      BY <2>1, <3>1 DEF GzipStarts, Stray
  <2>3. CASE Lost(p)
    BY <1>2, <2>1, <2>3 DEF Lost
  <2> QED
    BY <1>9, <2>2, <2>3
<1>10. ASSUME NEW p \in Proc,
              \/ Exit(p) \/ ForkFails(p) \/ DiskFull(p) \/ BadBlock(p) \/ Fork(p) \/ Wait(p) \/ WaitSpins(p)
              \/ ParentRedirect(p) \/ ReadEnd(p) \/ WriteTail(p) \/ WriteEnd(p)
       PROVE  Healthy'
  <2>1. p = Main
    BY <1>2, <1>10 DEF Exit, ForkFails, DiskFull, BadBlock, Fork, Wait, WaitSpins, ParentRedirect,
                       ReadEnd, WriteTail, WriteEnd
  <2> QED
    BY <1>1, <1>4, <1>5, <1>10, <2>1, MainForks, MainWaits DEF ForkFails, DiskFull, BadBlock
<1>11. ASSUME NEW p \in Proc, ChildRedirect(p) \/ Exec(p) PROVE Healthy'
  BY <1>1, <1>11, ChildGoesOn
<1>12. CASE UNCHANGED gpVars
  BY <1>1, <1>12 DEF gpVars, Healthy, Shape, ChildEnds, MainEnds, AllThrough, Has, Encrypting, Filled
<1> QED
  BY <1>7, <1>8, <1>9, <1>10, <1>11, <1>12 DEF GpNext, Step, Failure

-----------------------------------------------------------------------------
(* The theorems. *)

LEMMA AlwaysSound == GpSpec => [](Typed /\ Sound)
<1>1. GpInit => Typed /\ Sound
  BY TypedInitially, SoundInitially
<1>2. Typed /\ Sound /\ [GpNext]_gpVars => (Typed /\ Sound)'
  BY TypedStep, SoundStep
<1> QED
  BY <1>1, <1>2, PTL DEF GpSpec

\* Every process, descriptor set and counter is what the model says; a pipe
\* never holds more than its capacity, nor less than nothing.
THEOREM TypesHold == GpSpec => []GpTypeOK
BY AlwaysSound, PTL DEF Typed

\* No encrypted file that lacks a part of what gzip made, and no decrypted one
\* that gunzip had only a part of, is put in place: whatever fails, and whenever.
THEOREM NothingCutIsKept == GpSpec => []OnlyWhole
<1>1. Sound => OnlyWhole
  BY DEF Sound, AllThrough, OnlyWhole
<1> QED
  BY <1>1, AlwaysSound, PTL

\* The end that a reader waits for to be closed is open in its writer only.
THEOREM EndsAreOwn == GpSpec => []OwnEnds
<1>1. ASSUME Typed, Sound PROVE OwnEnds
  <2> SUFFICES ASSUME GzipStarts, NEW p \in Proc, NEW k \in Proc,
                      proc[p].at \in {"read", "write", "wait"}, W(proc[p].child) \in Has(k)
               PROVE  IF Encrypting THEN k = proc[p].child
                      ELSE \/ k = p /\ proc[p].at = "write"
                           \/ k = proc[p].child /\ proc[proc[p].child].at = "child"
    BY DEF OwnEnds, Has
  <2>1. p = Main /\ proc[p].child \in Proc
    BY <1>1 DEF Sound, Shape, Typed, Counted, WithChild
  <2>2. IF Encrypting THEN proc[p].at # "write" ELSE proc[p].at # "read"
    BY <1>1, <2>1 DEF Sound, Shape
  <2>3. k = proc[p].child \/ (k = p /\ proc[p].at = "write")
    BY <1>1, <2>1 DEF Sound, MainEnds, WithChild
  <2>4. (~Encrypting /\ k = proc[p].child) => proc[k].at = "child"
    <3>1. proc[k].at = "dead" => Has(k) = {}
      BY <1>1 DEF Typed, GpTypeOK, Over, Has
    <3>2. k = proc[p].child => proc[k].at \in {"child", "exec", "run", "dead"}
      BY <1>1, <2>1 DEF Sound, Shape, WithChild
    <3> QED
      BY <1>1, <3>1, <3>2 DEF Sound, ChildEnds
  <2> QED
    BY <2>2, <2>3, <2>4
<1> QED
  BY <1>1, AlwaysSound, PTL

\* When a child has been waited for, nobody has an end of its pipe.
THEOREM ReapedLeavesNothing == GpSpec => []ReapedIsClosed
<1>1. Sound => ReapedIsClosed
  BY DEF Sound, ChildEnds, ReapedIsClosed, Open, Has
<1> QED
  BY <1>1, AlwaysSound, PTL
=============================================================================
