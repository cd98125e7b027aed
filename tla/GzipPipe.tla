------------------------------ MODULE GzipPipe ------------------------------
(***************************************************************************)
(* rsyncrypto and the gzip it runs for every file (process.cpp, redir.cpp, *)
(* autopipe.h, and the parts of encrypt_file and decrypt_file that deal    *)
(* with them): fork, redirection, exec, a pipe of limited capacity, end of *)
(* file, and wait.  A pipe end is open as long as some process has it;     *)
(* fork copies descriptors, exec keeps them.                               *)
(*                                                                         *)
(* A pipe has the name of the process it was made for.  What goes through  *)
(* it is counted in buffers.                                               *)
(***************************************************************************)
EXTENDS Integers, FiniteSets

CONSTANTS
  MaxFiles,    \* files in the directory of a recursive run (bound)
  MaxSize,     \* buffers a file is compressed to (bound)
  Capacity,    \* buffers the pipe holds
  LastProc     \* processes that are ever needed (bound)

ASSUME GzipPipeParams ==
  /\ MaxFiles \in Nat \ {0} /\ MaxSize \in Nat \ {0}
  /\ Capacity \in Nat \ {0} /\ LastProc \in Nat \ {0}

Proc == 1..LastProc

VARIABLES
  run,     \* the command line: what is done, to a directory or to one file
  proc,    \* the processes
  pipe,    \* the pipes: buffers to go through, written and read
  made     \* for every file, what the last copy put in place was made of

gpVars == <<run, proc, pipe, made>>

Main == 1

End == [pipe : Proc, end : {"r", "w"}]

R(q) == [pipe |-> q, end |-> "r"]
W(q) == [pipe |-> q, end |-> "w"]

Over(p) == proc[p].at \in {"none", "dead", "reaped"}

\* fds: the pipe ends in descriptors of their own; std: the one in standard
\* input (decryption) or output (encryption).
Process ==
  [prog : {"rsyncrypto", "gzip"}, file : 1..(MaxFiles + 1),
   at : {"none", "next", "forked", "read", "tail", "write", "wait", "spin",
         "child", "exec", "lost", "run", "dead", "reaped"},
   child : 0..LastProc, status : {"ok", "error", "signal"},
   fds : SUBSET End, std : SUBSET End]

Buffers == [size : 0..MaxSize, sent : 0..MaxSize, rcvd : 0..MaxSize]

GpTypeOK ==
  /\ run \in [op : {"enc", "dec"}, dir : BOOLEAN, files : 1..MaxFiles]
  /\ proc \in [Proc -> Process]
  /\ pipe \in [Proc -> Buffers]
  /\ \A q \in Proc : pipe[q].sent - pipe[q].rcvd \in 0..Capacity
  /\ made \in [1..MaxFiles -> {"none", "whole", "cut"}]
  /\ \A p \in Proc : Over(p) => proc[p].fds = {} /\ proc[p].std = {}

NoProc == [prog |-> "rsyncrypto", file |-> 1, at |-> "none", child |-> 0,
           status |-> "ok", fds |-> {}, std |-> {}]

GpInit ==
  /\ run \in [op : {"enc", "dec"}, dir : BOOLEAN, files : 1..MaxFiles]
  /\ ~run.dir => run.files = 1
  /\ proc = [p \in Proc |-> IF p = Main THEN [NoProc EXCEPT !.at = "next"] ELSE NoProc]
  /\ pipe = [q \in Proc |-> [size |-> 0, sent |-> 0, rcvd |-> 0]]
  /\ made = [i \in 1..MaxFiles |-> "none"]

Encrypting == run.op = "enc"

Open(e) == \E p \in Proc : e \in proc[p].fds \cup proc[p].std

Filled(q) == pipe[q].sent - pipe[q].rcvd

\* A process ends: its variables are gone, and the system closes what it has open.
Dead(p, status) == [NoProc EXCEPT !.prog = proc[p].prog, !.at = "dead", !.status = status]

-----------------------------------------------------------------------------
(* rsyncrypto: the scan, and what it does around gzip. *)

NextFile(p) == [proc[p] EXCEPT !.at = "next", !.file = @ + 1, !.child = 0]

\* recurse_dir_enc reports the error of a file and takes the next; main, given
\* one file, returns 1.
FileFailed(p) ==
  IF run.dir THEN NextFile(p) ELSE Dead(p, "error")

Throw(p) ==
  /\ proc' = [proc EXCEPT ![p] = FileFailed(p)]
  /\ UNCHANGED <<run, pipe, made>>

\* Bug: the scan goes on for one entry too many.
BugOneMore(p) == proc[p].file <= run.files + 1

FilesLeft(p) == proc[p].file <= run.files

\* The scan is over.  The exit status tells of entries it could not look at, of
\* which there are none here, and not of files that failed.
Exit(p) ==
  /\ proc[p].at = "next" /\ ~FilesLeft(p)
  /\ proc' = [proc EXCEPT ![p] = Dead(p, "ok")]
  /\ UNCHANGED <<run, pipe, made>>

\* pipe and fork: the child has a copy of every descriptor.
Fork(p) ==
  /\ proc[p].at = "next" /\ FilesLeft(p)
  /\ \E q \in Proc, n \in 1..MaxSize :
       /\ proc[q].at = "none" /\ \A k \in 1..(q - 1) : proc[k].at # "none"
       /\ LET all == proc[p].fds \cup {R(q), W(q)}
          IN  proc' = [proc EXCEPT
                ![p] = [@ EXCEPT !.at = "forked", !.child = q, !.fds = all],
                ![q] = [proc[p] EXCEPT !.at = "child", !.child = 0, !.fds = all]]
       /\ pipe' = [pipe EXCEPT ![q].size = n]
  /\ UNCHANGED <<run, made>>

\* Neither is left open when the constructors throw.
ForkFails(p) ==
  /\ proc[p].at = "next" /\ FilesLeft(p)
  /\ Throw(p)

\* redir_pipe::parent_redirect
ParentCloses(q) == IF Encrypting THEN {W(q)} ELSE {R(q)}

ParentRedirect(p) ==
  /\ proc[p].at = "forked"
  /\ proc' = [proc EXCEPT ![p].at = IF Encrypting THEN "read" ELSE "write",
                          ![p].fds = @ \ ParentCloses(proc[p].child)]
  /\ UNCHANGED <<run, pipe, made>>

\* encrypt_file reads what gzip has written.
Read(p) ==
  LET q == proc[p].child
  IN  /\ proc[p].at = "read" /\ Filled(q) > 0
      /\ pipe' = [pipe EXCEPT ![q].rcvd = @ + 1]
      /\ UNCHANGED <<run, proc, made>>

\* Bug: readfd is not deleted.
BugKeepsReader(q) == {}

\* delete readfd
ReaderCloses(q) == {R(q)}

\* End of file.
ReadEnd(p) ==
  LET q == proc[p].child
  IN  /\ proc[p].at = "read" /\ Filled(q) = 0 /\ ~Open(W(q))
      /\ proc' = [proc EXCEPT ![p].at = "tail", ![p].fds = @ \ ReaderCloses(q)]
      /\ UNCHANGED <<run, pipe, made>>

\* The leftover and the trailer are written.
WriteTail(p) ==
  /\ proc[p].at = "tail"
  /\ proc' = [proc EXCEPT ![p].at = "wait"]
  /\ UNCHANGED <<run, pipe, made>>

\* tofd.write or flush throws: readfd, if it is there, is never deleted.
DiskFull(p) == proc[p].at \in {"read", "tail"} /\ Throw(p)

\* decrypt_file writes to gunzip.
Write(p) ==
  LET q == proc[p].child
  IN  /\ proc[p].at = "write" /\ pipe[q].sent < pipe[q].size
      /\ IF Open(R(q))
           THEN /\ Filled(q) < Capacity
                /\ pipe' = [pipe EXCEPT ![q].sent = @ + 1]
                /\ UNCHANGED proc
           ELSE \* SIGPIPE, which rsyncrypto neither handles nor ignores
                /\ proc' = [proc EXCEPT ![p] = Dead(p, "signal")]
                /\ UNCHANGED pipe
      /\ UNCHANGED <<run, made>>

\* Bug: writefd is deleted after the wait.
BugDeletesLate(q) == {}

\* flush, delete writefd and opipe.clear
WriterCloses(q) == {W(q)}

WriteEnd(p) ==
  LET q == proc[p].child
  IN  /\ proc[p].at = "write" /\ pipe[q].sent = pipe[q].size
      /\ proc' = [proc EXCEPT ![p].at = "wait", ![p].fds = @ \ WriterCloses(q)]
      /\ UNCHANGED <<run, pipe, made>>

\* A damaged file, or one some of whose blocks another process has read off the
\* descriptor they share: decrypt_file throws, and writefd is never deleted.
BadBlock(p) == proc[p].at = "write" /\ Throw(p)

\* Bug: the child's status is not looked at.
BugIgnoresStatus(status) == TRUE

\* childstatus==0
Succeeded(status) == status = "ok"

Whole(q) == proc[q].prog = "gzip" /\ pipe[q].rcvd = pipe[q].size

Reaped(q) == [NoProc EXCEPT !.prog = proc[q].prog, !.at = "reaped"]

\* process_ctl::wait, for a child that has exited, and then the header or an
\* exception.
Wait(p) ==
  LET q == proc[p].child
  IN  /\ proc[p].at = "wait" /\ proc[q].at = "dead" /\ proc[q].status # "signal"
      /\ IF Succeeded(proc[q].status)
           THEN /\ proc' = [proc EXCEPT ![q] = Reaped(q), ![p] = NextFile(p)]
                /\ made' = [made EXCEPT ![proc[p].file] = IF Whole(q) THEN "whole" ELSE "cut"]
           ELSE /\ proc' = [proc EXCEPT ![q] = Reaped(q), ![p] = FileFailed(p)]
                /\ UNCHANGED made
      /\ UNCHANGED <<run, pipe>>

\* A child that was killed is no more after the first waitpid: the next ones
\* fail, childstatus stays as it is, and the loop never ends.
WaitSpins(p) ==
  LET q == proc[p].child
  IN  /\ proc[p].at = "wait" /\ proc[q].at = "dead" /\ proc[q].status = "signal"
      /\ proc' = [proc EXCEPT ![q] = Reaped(q), ![p].at = "spin"]
      /\ UNCHANGED <<run, pipe, made>>

-----------------------------------------------------------------------------
(* The child: rsyncrypto until exec. *)

\* Bug: the child does not close its copy of the pipe.
BugChildKeeps(q) == {}

\* redir_pipe::child_redirect, clear()
ChildCloses(q) == {R(q), W(q)}

\* dup2 closes what standard input or output was before.
ChildRedirect(q) ==
  /\ proc[q].at = "child"
  /\ proc' = [proc EXCEPT ![q].at = "exec", ![q].fds = @ \ ChildCloses(q),
                          ![q].std = {IF Encrypting THEN W(q) ELSE R(q)}]
  /\ UNCHANGED <<run, pipe, made>>

Exec(q) ==
  /\ proc[q].at = "exec"
  /\ proc' = [proc EXCEPT ![q].at = "run", ![q].prog = "gzip"]
  /\ UNCHANGED <<run, pipe, made>>

\* execvp returns, and so does the constructor: the child is one more rsyncrypto.
ExecFails(q) ==
  /\ proc[q].at = "exec"
  /\ proc' = [proc EXCEPT ![q].at = "lost"]
  /\ UNCHANGED <<run, pipe, made>>

\* It owns no end of the pipe any more: release throws where it takes its own for
\* a buffered descriptor.
Lost(q) == proc[q].at = "lost" /\ Throw(q)

-----------------------------------------------------------------------------
(* gzip, on the other side of the pipe. *)

GzipRuns(q) == proc[q].prog = "gzip" /\ proc[q].at = "run"

GzipEnds(q, status) ==
  /\ proc' = [proc EXCEPT ![q] = Dead(q, status)]
  /\ UNCHANGED <<run, pipe, made>>

GzipWrites(q) ==
  /\ GzipRuns(q) /\ Encrypting /\ pipe[q].sent < pipe[q].size
  /\ IF Open(R(q))
       THEN /\ Filled(q) < Capacity
            /\ pipe' = [pipe EXCEPT ![q].sent = @ + 1]
            /\ UNCHANGED <<run, proc, made>>
       ELSE GzipEnds(q, "signal")

GzipDone(q) ==
  /\ GzipRuns(q) /\ Encrypting /\ pipe[q].sent = pipe[q].size
  /\ GzipEnds(q, "ok")

GunzipReads(q) ==
  /\ GzipRuns(q) /\ ~Encrypting /\ Filled(q) > 0
  /\ pipe' = [pipe EXCEPT ![q].rcvd = @ + 1]
  /\ UNCHANGED <<run, proc, made>>

\* At the end of the file gunzip can tell whether it has all of it.
GunzipEnd(q) ==
  /\ GzipRuns(q) /\ ~Encrypting /\ Filled(q) = 0 /\ ~Open(W(q))
  /\ GzipEnds(q, IF pipe[q].rcvd = pipe[q].size THEN "ok" ELSE "error")

\* A source that cannot be read, data that is no compressed file, a full disk.
GzipFails(q) == GzipRuns(q) /\ GzipEnds(q, "error")

GzipKilled(q) == GzipRuns(q) /\ GzipEnds(q, "signal")

-----------------------------------------------------------------------------
\* What a process does unless something fails.
Step(p) ==
  \/ Exit(p) \/ Fork(p) \/ ParentRedirect(p) \/ Read(p) \/ ReadEnd(p) \/ WriteTail(p)
  \/ Write(p) \/ WriteEnd(p) \/ Wait(p) \/ WaitSpins(p)
  \/ ChildRedirect(p) \/ Exec(p) \/ Lost(p)
  \/ GzipWrites(p) \/ GzipDone(p) \/ GunzipReads(p) \/ GunzipEnd(p)

Failure(p) ==
  \/ ForkFails(p) \/ DiskFull(p) \/ BadBlock(p) \/ ExecFails(p)
  \/ GzipFails(p) \/ GzipKilled(p)

GpNext == \E p \in Proc : Step(p) \/ Failure(p)

\* The system runs every process that can run.
GpSpec == GpInit /\ [][GpNext]_gpVars /\ \A p \in Proc : WF_gpVars(Step(p))

-----------------------------------------------------------------------------
\* gzip could not be started, and the child lives on as rsyncrypto.
Stray(q) == q # Main /\ proc[q].prog = "rsyncrypto"
              /\ proc[q].at \notin {"none", "child", "exec"}

GzipStarts == \A q \in Proc : ~Stray(q)

\* As long as gzip can be started, a copy is put in place only if all that gzip
\* made of the file is in it, or gunzip has had all of it: whatever failed on
\* either side, at any time.
OnlyWhole == GzipStarts => \A i \in 1..MaxFiles : made[i] # "cut"

\* No one but its writer can keep a reader from the end of its file: nobody else
\* has the other end open, also with gzips of failed files around.
OwnEnds ==
  GzipStarts => \A p, k \in Proc :
    LET q == proc[p].child
    IN  (proc[p].at \in {"read", "write", "wait"} /\ W(q) \in proc[k].fds \cup proc[k].std)
        => IF Encrypting THEN k = q
                         ELSE (k = p /\ proc[p].at = "write") \/ (k = q /\ proc[q].at = "child")

\* Descriptors leak together with the gzip that was not waited for, and only
\* then: of a child that was, nobody has an end open.
ReapedIsClosed ==
  GzipStarts => \A q \in Proc : proc[q].at = "reaped" => ~Open(R(q)) /\ ~Open(W(q))

\* Everything ends: the run, and then every gzip, the abandoned ones too;
\* unless a gzip was killed and wait loops.
EverythingEnds ==
  <>(\E p \in Proc : proc[p].at = "spin") \/ <>(\A p \in Proc : Over(p))

-----------------------------------------------------------------------------
\* "gzip was successful - write out the header, encrypted" (crypto.cpp:236)
GzipSucceeded == \A i \in 1..MaxFiles : made[i] # "cut"
=============================================================================
