----------------------------- MODULE BackupFile -----------------------------
(***************************************************************************)
(* The files behind one backed up file, run after run: the source a user   *)
(* edits, its key file, its encrypted copy, and the file it is restored    *)
(* to.  file_encrypt and file_decrypt (file.cpp) are taken a system call   *)
(* at a time, so that a run can be killed in between, and the source can   *)
(* change between its lstat and its reading.  Runs do not overlap.         *)
(*                                                                         *)
(* A file's content is the version each of its two halves was read from.   *)
(***************************************************************************)
EXTENDS Integers, Sequences

CONSTANTS
  Params,       \* values of --keybits and the --roll-* options
  Opts,         \* the option sets runs are started with
  MaxVersion,   \* versions of the source a user makes (bound)
  MaxTime,      \* latest modification time given to the source (bound)
  MaxKey,       \* keys told apart: more than are ever around at once (bound)
  MaxFaults,    \* runs killed, gzip failures, key files lost (bound)
  ModWin,       \* --modify-window
  Granularity   \* of the modification times the file system keeps

Key == [id : 0..MaxKey, par : Params]
Opt == [changed : BOOLEAN, force : BOOLEAN, risky : BOOLEAN, par : Params]

ASSUME BackupParams ==
  /\ Opts \subseteq Opt /\ Opts # {}
  /\ MaxVersion \in Nat \ {0} /\ MaxTime \in Nat /\ MaxFaults \in Nat
  /\ MaxKey \in Nat /\ MaxKey > 3
  /\ ModWin \in Nat /\ Granularity \in Nat \ {0}

VARIABLES
  src,      \* the source: its version, its mtime, and the mtimes it has had
  kf,       \* the key file
  dst,      \* the encrypted file
  tmp,      \* the same with CREATE_SUFFIX
  rest,     \* the restored file
  rtmp,     \* the same with CREATE_SUFFIX
  run,      \* the run in progress, or how the last one ended
  faults,   \* faults so far
  had       \* history: what makes the promises weaker

bfVars == <<src, kf, dst, tmp, rest, rtmp, run, faults, had>>

\* What stands where there is nothing to say.
AnyKey == CHOOSE k \in Key : k.id = 0

AnyOpt == CHOOSE o \in Opts : TRUE

\* body: the versions it was made from; key: what it is encrypted with;
\* hdr: the header is written.
NoFile == [there |-> FALSE, body |-> <<>>, key |-> AnyKey, hdr |-> FALSE, mtime |-> 0]

\* The present: later than the edits so far, as -c and the file system tell times.
Now == MaxTime + ModWin + Granularity

\* utimes, on a file system that keeps times of some granularity only.
Stored(t) == t - (t % Granularity)

\* The points of a run between its system calls, and those of write_header.
InKeyFile == {"kextend", "kclear", "kheader", "ksecret"}

Points == InKeyFile \cup {"idle", "scan", "key", "open", "first", "second", "header",
                        "kcreate", "meta", "rename"}

\* No file has more in it than the two halves of one reading.
Bodies == UNION {[1..n -> 1..MaxVersion] : n \in 0..2}

Files == [there : BOOLEAN, body : Bodies, key : Key, hdr : BOOLEAN, mtime : 0..Now]

Source == [ver : 1..MaxVersion, mtime : 0..MaxTime, past : SUBSET (0..MaxTime)]

KeyFile == [st : {"none", "empty", "nomagic", "key"}, key : Key]

\* known: head holds a key; write: it has to be written to the key file;
\* stat: the mtime of the file read, and seen its version, at the lstat.
Run == [op : {"enc", "dec"}, opt : Opts, at : Points, stat : 0..Now, seen : 1..MaxVersion,
        head : Key, known : BOOLEAN, write : BOOLEAN,
        result : {"none", "ok", "skipped", "error", "gzip", "killed"}]

BfTypeOK ==
  /\ src \in Source /\ kf \in KeyFile
  /\ {dst, tmp, rest, rtmp} \subseteq Files
  /\ run \in Run
  /\ faults \in 0..MaxFaults
  /\ had \subseteq {"new key", "cut key", "cut write"}

BfInit ==
  /\ \E t \in 0..MaxTime : src = [ver |-> 1, mtime |-> t, past |-> {t}]
  /\ kf = [st |-> "none", key |-> AnyKey]
  /\ dst = NoFile /\ tmp = NoFile /\ rest = NoFile /\ rtmp = NoFile
  /\ run = [op |-> "enc", opt |-> AnyOpt, at |-> "idle", stat |-> 0, seen |-> 1,
            head |-> AnyKey, known |-> FALSE, write |-> FALSE, result |-> "none"]
  /\ faults = 0 /\ had = {}

-----------------------------------------------------------------------------
(* The environment. *)

Gap(s, t) == IF s > t THEN s - t ELSE t - s

\* An edit is told by its time, earlier or later than those the file has had:
\* -c trusts that no edit falls within the window and the granularity.
Edit ==
  /\ src.ver < MaxVersion
  /\ \E t \in 0..MaxTime :
       /\ \A u \in src.past : Gap(t, u) > ModWin + Granularity - 1
       /\ src' = [ver |-> src.ver + 1, mtime |-> t, past |-> src.past \cup {t}]
  /\ UNCHANGED <<kf, dst, tmp, rest, rtmp, run, faults, had>>

\* The key directory is lost between runs.
LoseKey ==
  /\ run.at = "idle" /\ kf.st # "none" /\ faults < MaxFaults
  /\ kf' = [st |-> "none", key |-> AnyKey]
  /\ faults' = faults + 1 /\ had' = had \cup {"new key"}
  /\ UNCHANGED <<src, dst, tmp, rest, rtmp, run>>

\* --risky-writes
InPlace == run.opt.risky

\* A run that ends now leaves a file it has not finished under its final name.
CutWrite ==
  IF InPlace /\ run.at \notin {"idle", "scan", "key", "open"} THEN {"cut write"} ELSE {}

\* The run is over, and its variables are gone.
Ended(result) ==
  [op |-> run.op, opt |-> AnyOpt, at |-> "idle", stat |-> 0, seen |-> run.seen,
   head |-> AnyKey, known |-> FALSE, write |-> FALSE, result |-> result]

\* The process is killed: what it wrote stays.
Kill ==
  /\ run.at # "idle" /\ faults < MaxFaults
  /\ run' = Ended("killed")
  /\ had' = had \cup CutWrite \cup (IF run.at \in InKeyFile THEN {"cut key"} ELSE {})
  /\ faults' = faults + 1
  /\ UNCHANGED <<src, kf, dst, tmp, rest, rtmp>>

-----------------------------------------------------------------------------
(* What encryption and decryption share. *)

Start(op) ==
  /\ run.at = "idle"
  /\ op = "dec" => dst.there
  /\ \E o \in Opts :
       /\ op = "dec" => ~o.force
       /\ run' = [run EXCEPT !.op = op, !.opt = o, !.at = "scan", !.result = "none"]
       /\ had' = had \cup (IF o.force THEN {"new key"} ELSE {})
  /\ UNCHANGED <<src, kf, dst, tmp, rest, rtmp, faults>>

\* Bug: a file is skipped when its copy is not older.
BugSkipsNewer(target, t) ==
  run.opt.changed /\ target.there /\ target.mtime + ModWin >= t

\* -c: !EXISTS(changed) || !statsuccess || abs(...)>VAL(mod_win), negated
Unchanged(target, t) ==
  run.opt.changed /\ target.there /\ Gap(target.mtime, t) <= ModWin

\* recurse_dir_enc: lstat of both files.
Scan ==
  /\ run.at = "scan"
  /\ LET target == IF run.op = "enc" THEN dst ELSE rest
         t      == IF run.op = "enc" THEN src.mtime ELSE dst.mtime
     IN  run' = IF Unchanged(target, t)
                  THEN [Ended("skipped") EXCEPT !.seen = src.ver]
                  ELSE [run EXCEPT !.at = "key", !.stat = t, !.seen = src.ver]
  /\ UNCHANGED <<src, kf, dst, tmp, rest, rtmp, faults, had>>

\* A run that throws, or dies of a bad pointer: caught and reported by the
\* scan in the first case.
Fail == run' = Ended("error")

\* Bug: a key file is only used when it has the options' parameters.
BugAlwaysForces(key) == key.par # run.opt.par

\* --fr and --fk
Forced(key) == run.opt.force /\ key.par # run.opt.par

\* The key file is there, but read_key finds no version magic, or autommap
\* maps nothing of an empty file and read_key reads from there.
ReadBadKey ==
  /\ run.at = "key" /\ kf.st \in {"empty", "nomagic"}
  /\ Fail
  /\ UNCHANGED <<src, kf, dst, tmp, rest, rtmp, faults, had>>

ReadKey ==
  /\ run.at = "key" /\ kf.st = "key" /\ (run.op = "enc" => ~Forced(kf.key))
  /\ run' = [run EXCEPT !.at = "open", !.head = kf.key, !.known = TRUE, !.write = FALSE]
  /\ UNCHANGED <<src, kf, dst, tmp, rest, rtmp, faults, had>>

\* The random generator: a key unlike any in a file.
FreshId == CHOOSE n \in 1..MaxKey : n \notin {kf.key.id, dst.key.id, tmp.key.id}

\* file_encrypt makes a key when there is none to use.
NewKey ==
  /\ run.at = "key" /\ run.op = "enc"
  /\ kf.st = "none" \/ (kf.st = "key" /\ Forced(kf.key))
  /\ run' = [run EXCEPT !.at = "open", !.known = TRUE, !.write = TRUE,
                        !.head = [id |-> FreshId, par |-> run.opt.par]]
  /\ UNCHANGED <<src, kf, dst, tmp, rest, rtmp, faults, had>>

\* file_decrypt leaves it to decrypt_file to find the key in the header.
NoKey ==
  /\ run.at = "key" /\ run.op = "dec" /\ kf.st = "none"
  /\ run' = [run EXCEPT !.at = "open", !.known = FALSE, !.write = TRUE]
  /\ UNCHANGED <<src, kf, dst, tmp, rest, rtmp, faults, had>>

\* The file being written, and what is said of it.
Writing == IF run.op = "enc" THEN (IF InPlace THEN dst ELSE tmp)
                             ELSE (IF InPlace THEN rest ELSE rtmp)

Put(f) ==
  /\ dst'  = IF run.op = "enc" /\ InPlace  THEN f ELSE dst
  /\ tmp'  = IF run.op = "enc" /\ ~InPlace THEN f ELSE tmp
  /\ rest' = IF run.op = "dec" /\ InPlace  THEN f ELSE rest
  /\ rtmp' = IF run.op = "dec" /\ ~InPlace THEN f ELSE rtmp

\* Bug: no O_TRUNC, so what a killed run left behind stays in the file.
BugNoTruncate(f) == [f EXCEPT !.there = TRUE]

\* open with O_CREAT|O_TRUNC
Truncated(f) == [NoFile EXCEPT !.there = TRUE]

\* A file has the time of its last write until utimes.  That is the present, or
\* the second of an edit just made; under a temporary name no one will tell.
Touched(f) ==
  {[f EXCEPT !.mtime = t] : t \in {Now} \cup (IF InPlace THEN {src.mtime} ELSE {})}

OpenOutput ==
  /\ run.at = "open"
  /\ \E f \in Touched(Truncated(Writing)) : Put(f)
  /\ run' = [run EXCEPT !.at = "first"]
  /\ UNCHANGED <<src, kf, faults, had>>

\* encrypt_file: gzip reads the source half by half, the blocks are written.
EncryptHalf ==
  /\ run.op = "enc" /\ run.at \in {"first", "second"}
  /\ \E f \in Touched([Writing EXCEPT !.body = Append(@, src.ver), !.key = run.head]) : Put(f)
  /\ run' = [run EXCEPT !.at = IF run.at = "first" THEN "second" ELSE "header"]
  /\ UNCHANGED <<src, kf, faults, had>>

\* A key that was made, or found in the header, goes to the key file first.
AfterFile == IF run.write THEN "kcreate" ELSE "meta"

\* gzip has returned 0: the header is written over the hole left for it.
EncryptHeader ==
  /\ run.op = "enc" /\ run.at = "header"
  /\ Put([Writing EXCEPT !.hdr = TRUE])
  /\ run' = [run EXCEPT !.at = AfterFile]
  /\ UNCHANGED <<src, kf, faults, had>>

\* gzip was started and has not: encrypt_file throws, and nothing is renamed.
\* (GzipPipe has the gzip that cannot be started.)
GzipFails ==
  /\ run.op = "enc" /\ run.at = "header" /\ faults < MaxFaults
  /\ run' = Ended("gzip")
  /\ faults' = faults + 1 /\ had' = had \cup CutWrite
  /\ UNCHANGED <<src, kf, dst, tmp, rest, rtmp>>

\* decrypt_file needs the key, from the key file or else from the header.
Opens == IF run.known THEN run.head = dst.key ELSE dst.hdr

DecryptFile ==
  /\ run.op = "dec" /\ run.at = "first"
  /\ Opens /\ Len(dst.body) = 2
  /\ Put([Writing EXCEPT !.body = dst.body])
  /\ run' = [run EXCEPT !.at = AfterFile, !.head = dst.key, !.known = TRUE]
  /\ UNCHANGED <<src, kf, faults, had>>

\* "Error in encrypted stream", gunzip failing, ...
DecryptFails ==
  /\ run.op = "dec" /\ run.at = "first"
  /\ ~(Opens /\ Len(dst.body) = 2)
  /\ Fail
  /\ had' = had \cup CutWrite
  /\ UNCHANGED <<src, kf, dst, tmp, rest, rtmp, faults>>

-----------------------------------------------------------------------------
(* write_header: the key file is written in place. *)

KeyStep(from, to, file) ==
  /\ run.at = from
  /\ kf' = file
  /\ run' = [run EXCEPT !.at = to]
  /\ UNCHANGED <<src, dst, tmp, rest, rtmp, faults, had>>

\* A key file with the magic of one, and bytes of no key that was ever made.
Spoilt(key) == [st |-> "key", key |-> [key EXCEPT !.id = 0]]

\* open with O_CREAT, without O_TRUNC
CreateKeyFile ==
  KeyStep("kcreate", "kextend", IF kf.st = "none" THEN [kf EXCEPT !.st = "empty"] ELSE kf)

\* A byte is written at the end of the length to be: past the end of the file,
\* or over a byte of the key that was there.
ExtendKeyFile ==
  IF kf.st = "empty"
    THEN KeyStep("kextend", "kclear", [kf EXCEPT !.st = "nomagic"])
    ELSE \E file \in {kf, Spoilt(kf.key)} : KeyStep("kextend", "kclear", file)

\* export_key, through the mapping: the header is zeroed, filled, and followed
\* by the IV and the secret.
ClearKeyFile == KeyStep("kclear", "kheader", [kf EXCEPT !.st = "nomagic"])

FillKeyHeader == KeyStep("kheader", "ksecret", Spoilt(run.head))

FillKeySecret == KeyStep("ksecret", "meta", [st |-> "key", key |-> run.head])

-----------------------------------------------------------------------------
\* Bug: the time is taken from the source when the copy is finished.
BugStatsLate == IF run.op = "enc" THEN src.mtime ELSE run.stat

SourceTime == run.stat

\* copy_metadata, of what the source was when it was found.
CopyMetadata ==
  /\ run.at = "meta"
  /\ Put([Writing EXCEPT !.mtime = Stored(SourceTime)])
  /\ run' = [run EXCEPT !.at = "rename"]
  /\ UNCHANGED <<src, kf, faults, had>>

\* autofd::mv, unless the file was written in place
Rename ==
  /\ run.at = "rename"
  /\ IF InPlace THEN UNCHANGED <<dst, tmp, rest, rtmp>>
     ELSE IF run.op = "enc"
       THEN dst' = tmp /\ tmp' = NoFile /\ UNCHANGED <<rest, rtmp>>
       ELSE rest' = rtmp /\ rtmp' = NoFile /\ UNCHANGED <<dst, tmp>>
  /\ run' = Ended("ok")
  /\ UNCHANGED <<src, kf, faults, had>>

WriteHeader ==
  CreateKeyFile \/ ExtendKeyFile \/ ClearKeyFile \/ FillKeyHeader \/ FillKeySecret

\* What a run does of itself.
Proceed ==
  \/ Scan \/ ReadBadKey \/ ReadKey \/ NewKey \/ NoKey \/ OpenOutput
  \/ EncryptHalf \/ EncryptHeader \/ DecryptFile \/ DecryptFails
  \/ WriteHeader \/ CopyMetadata \/ Rename

BfNext ==
  \/ Edit \/ LoseKey \/ Kill \/ GzipFails
  \/ Start("enc") \/ Start("dec") \/ Proceed

\* A run that is not killed goes on, and backups are made again and again,
\* as by cron, restores or no restores in between.
BfSpec == BfInit /\ [][BfNext]_bfVars
            /\ WF_bfVars(Proceed) /\ SF_bfVars(Start("enc"))

-----------------------------------------------------------------------------
Whole(f) == Len(f.body) = 2 /\ f.hdr

\* No file is being written under its final name, or was left unfinished there:
\* always so without --risky-writes.
Settled == "cut write" \notin had /\ (InPlace => run.at = "idle")

\* "preventing a partial file from being present (and in case of an update, by
\* keeping the old backup)" (rsyncrypto.man, --risky-writes): under its final
\* name a file is always complete, wherever the runs before were interrupted.
NeverPartial ==
  Settled => /\ dst.there => Whole(dst)
             /\ rest.there => Len(rest.body) = 2

\* What -c relies on: a copy that has the source's modification time, as far as
\* the window and the file system tell, has the source's content - also when
\* the source changed while it was read.  Copies are the encrypted file and what
\* is restored from it.
MtimeMeansContent ==
  Settled =>
    \A f \in {dst, rest} :
      (f.there /\ Gap(f.mtime, src.mtime) <= ModWin) => f.body = <<src.ver, src.ver>>

\* A backup run that ends well, also by skipping the file, leaves a backup made
\* from nothing older than the source was when the run found it.
SuccessIsRecent ==
  (Settled /\ run.op = "enc" /\ run.result \in {"ok", "skipped"}) =>
    Whole(dst) /\ \A h \in 1..2 : dst.body[h] >= run.seen

\* The key stays: unless someone loses the key file or asks for a new key, or a
\* run is killed in write_header, the key file is the key of the encrypted file.
\* It is what makes the next version rsync well with this one,
\* and what a restore needs.
KeyOpensDst ==
  (had = {} /\ Settled /\ dst.there) => kf.st = "key" /\ kf.key = dst.key

UpToDate == dst.there /\ dst.body = <<src.ver, src.ver>>

\* Every run ends, and once the user stops editing, the backup becomes and stays
\* up to date, even if runs were killed, gzip failed or the key file was lost on
\* the way; but for a run killed in write_header, after which none may succeed,
\* or cut short while it wrote in place, which -c may not see.
BackupConverges ==
  \/ <>(had \cap {"cut key", "cut write"} # {})
  \/ []<>(run.at = "idle") /\ <>[](Settled => UpToDate)
=============================================================================
