------------------------------- MODULE DirScan -------------------------------
(***************************************************************************)
(* A run over directories, -r or --filelist, without name encryption: the  *)
(* scan of the plain tree, --trim, and the scan of the encrypted tree that *)
(* --delete makes (file.cpp).  What one file's encryption does inside is   *)
(* BackupFile's; here it succeeds or fails, and leaves what it leaves.     *)
(***************************************************************************)
EXTENDS Integers, FiniteSets, SequencesExt

CONSTANTS
  Sources,      \* paths of plain files and directories: sequences of names
  Roots,        \* directories that are the argument of -r
  Lines,        \* lines --filelist may have: see Line
  Opts,         \* option sets of the runs
  Trim,         \* --trim
  MaxMishaps    \* changes the user makes to the plain tree, and system calls that
                \* fail for reasons of their own, together (bound)

Above(p) == Prefixes(p) \ {p}

\* A line: a path, and whether it ends in a separator.
Line == [path : Sources, slash : BOOLEAN]

ASSUME ScanParams ==
  /\ \A s \in Sources : /\ s \in Seq(Range(s)) /\ s # <<>>
                        /\ Above(s) \subseteq Sources \cup {<<>>}
  /\ Roots \subseteq Sources /\ Lines \subseteq Line
  /\ Opts \subseteq [del : BOOLEAN, delkey : BOOLEAN]
  /\ Trim \in Nat /\ MaxMishaps \in Nat

Drop(s, n) == SubSeq(s, n + 1, Len(s))

\* Every path under dstdir and keydir there may be.
Rels == UNION {{Drop(s, n) : n \in 0..Len(s)} : s \in Sources}

VARIABLES
  windows,   \* the build: with win32/autofd.cpp, or with autofd.h
  plain,     \* the plain tree: "none", "file", "dir" or "link", one to nothing
  enc,       \* the encrypted tree
  key,       \* the tree of key files
  from,      \* history: the plain file each encrypted file was made from
  run,       \* the run in progress
  mishaps,
  twice      \* history: a directory was trimmed a second time

dsVars == <<windows, plain, enc, key, from, run, mishaps, twice>>

\* In a tree, what has something below it is a directory.
IsTree(t) ==
  \A p \in DOMAIN t : t[p] # "none" => \A q \in Above(p) : q # <<>> => t[q] = "dir"

\* A level of the recursion: what readdir has left, and whether an entry threw.
Level == [dir : Sources \cup Rels, todo : SUBSET (Sources \cup Rels), err : BOOLEAN]

\* The entry whose lstat was made, and what that said it is.
Entry == [path : Sources \cup Rels \cup {<<>>}, as : {"none", "file", "dir"}]
Nothing == [path |-> <<>>, as |-> "none"]

\* A run's options, the lines it has yet to read, the line and the entry in hand,
\* the directories it is in.  For the properties: what it scanned and tried to
\* encrypt, what the user changed meanwhile, and since the last lstat; the
\* entries it could not read (unread), those readdir kept from it (unlisted),
\* and those a deletion it says nothing of left where they are (stuck).
Run == [at : {"idle", "next", "scan", "delete"}, opt : [del : BOOLEAN, delkey : BOOLEAN],
        items : SUBSET Lines, line : SUBSET Lines, now : Entry, err : BOOLEAN,
        stack : Seq(Level), root : Sources \cup {<<>>}, cut : Nat,
        scanned : SUBSET [root : Sources, cut : Nat], tried : SUBSET Sources,
        moved : SUBSET Sources, since : SUBSET Sources, unread : SUBSET Sources,
        unlisted : SUBSET Sources, stuck : SUBSET Rels]

\* Every variable is in its domain, and the three trees are trees whatever the
\* runs and the user did to them (mkpath, rmdir and unlink in file.cpp).
DsTypeOK ==
  /\ windows \in BOOLEAN
  /\ plain \in [Sources -> {"none", "file", "dir", "link"}] /\ IsTree(plain)
  /\ enc \in [Rels -> {"none", "file", "dir"}] /\ IsTree(enc)
  /\ key \in [Rels -> {"none", "file", "dir"}] /\ IsTree(key)
  /\ from \in [Rels -> Sources \cup {<<>>}]
  /\ run \in Run
  /\ mishaps \in 0..MaxMishaps /\ twice \in BOOLEAN

Empty == [p \in Rels |-> IF p = <<>> THEN "dir" ELSE "none"]

Fresh(o) == [at |-> "next", opt |-> o, items |-> {}, line |-> {}, now |-> Nothing,
             err |-> FALSE, stack |-> <<>>, root |-> <<>>, cut |-> 0, scanned |-> {},
             tried |-> {}, moved |-> {}, since |-> {}, unread |-> {}, unlisted |-> {},
             stuck |-> {}]
NoRun == [Fresh([del |-> FALSE, delkey |-> FALSE]) EXCEPT !.at = "idle"]

DsInit ==
  /\ windows \in BOOLEAN
  /\ plain \in {t \in [Sources -> {"none", "file", "dir"}] : IsTree(t)}
  /\ enc = Empty /\ key = Empty /\ from = [p \in Rels |-> <<>>]
  /\ run = NoRun
  /\ mishaps = 0 /\ twice = FALSE

Below(p) == {q \in Sources : q # p /\ IsPrefix(p, q)}

Mishap == mishaps < MaxMishaps /\ mishaps' = mishaps + 1

Seen(s) == [run EXCEPT !.moved = @ \cup {s} \cup Below(s),
                       !.since = IF run.now = Nothing THEN @ ELSE @ \cup {s} \cup Below(s)]

\* The user puts something else in a place, at any time.
Change ==
  /\ Mishap
  /\ \E s \in Sources, k \in {"none", "file", "dir", "link"} :
       /\ k # plain[s] /\ (k = "link" => ~windows) /\ \A q \in Above(s) : q # <<>> => plain[q] = "dir"
       /\ plain' = [q \in Sources |-> IF q = s THEN k
                                      ELSE IF q \in Below(s) THEN "none" ELSE plain[q]]
       /\ run' = IF run.at = "idle" THEN run ELSE Seen(s)
  /\ UNCHANGED <<windows, enc, key, from, twice>>

-----------------------------------------------------------------------------
(* One file: file_encrypt, whole. *)

\* mkpath takes whatever is there for a directory; below a file it fails.
MkPathFails(t, d) == \E q \in Above(d) : t[q] = "file"
MkPath(t, d) == [q \in Rels |-> IF q \in Prefixes(d) /\ t[q] = "none" THEN "dir" ELSE t[q]]

BelowFile(t, p) == \E q \in Above(p) : t[q] = "file"

\* Bug: what mkpath says of the key's directories is not looked at.
BugKeysAnyway(p) == FALSE

\* A call throws: because of what is there, or, of a bounded number, for reasons
\* of its own (permissions, the number of open files, the disk).
Throws(cause) == IF cause THEN UNCHANGED mishaps ELSE Mishap

\* Why the encryption of s to p fails: opening the key; opening the source; the
\* stream, of a directory that was opened; the key file; the rename.
KeyUnreadable(p) == key[p] = "dir" \/ (~windows /\ BelowFile(key, p))
Unopened(s) == plain[s] \in {"none", "link"} \/ (windows /\ plain[s] = "dir")
NoStream(s) == plain[s] # "file"
NoKeyFile(p) == BelowFile(key, p)
NoRename(p) == enc[p] = "dir"

NoDirs(s, p) == KeyUnreadable(p) \/ Unopened(s) \/ BelowFile(enc, p)
NoHeader(s, p) == NoStream(s) \/ NoKeyFile(p)

WithDirs(p) == MkPath(enc, Front(p))
WithKey(p) == [MkPath(key, Front(p)) EXCEPT ![p] = "file"]

\* It throws before the directories of its place are made, before the key file is
\* written, or after that.
EncryptFails(s, p) ==
  /\ \/ Throws(NoDirs(s, p)) /\ UNCHANGED <<enc, key>>
     \/ /\ ~NoDirs(s, p) /\ Throws(NoHeader(s, p))
        /\ enc' = WithDirs(p) /\ UNCHANGED key
     \/ /\ ~NoDirs(s, p) /\ ~NoHeader(s, p) /\ Throws(NoRename(p))
        /\ enc' = WithDirs(p) /\ key' = WithKey(p)
  /\ UNCHANGED from

EncryptFile(s, p) ==
  /\ ~NoDirs(s, p) /\ ~NoHeader(s, p) /\ ~NoRename(p)
  /\ enc' = [WithDirs(p) EXCEPT ![p] = "file"] /\ key' = WithKey(p)
  /\ from' = [from EXCEPT ![p] = s]
  /\ UNCHANGED mishaps

-----------------------------------------------------------------------------
(* The run *)

Children(t, d) == {p \in DOMAIN t : p # <<>> /\ Front(p) = d /\ t[p] # "none"}

Frame(t, d) == [dir |-> d, todo |-> Children(t, d), err |-> FALSE]

\* calc_trim, of a path by its components.  NoTrim is its exception.
NoTrim == -1
CalcTrim(path) ==
  IF path # <<>> /\ Trim <= Len(path) THEN Trim ELSE NoTrim

\* real_dir_encrypt trims what filelist_encrypt passes it, which is what that
\* has left of the line.
SecondTrim(l) == CalcTrim(Drop(l.path, Trim))

\* A directory, r a run about to scan it: its place under dstdir and keydir is
\* made, and it is opened.
BeginDir(r, s, cut) ==
  LET p == Drop(s, cut) IN
  /\ ~MkPathFails(enc, p) /\ ~MkPathFails(key, p) /\ plain[s] = "dir"
  /\ enc' = MkPath(enc, p) /\ key' = MkPath(key, p)
  /\ run' = [r EXCEPT !.at = "scan", !.root = s, !.cut = cut, !.stack = <<Frame(plain, s)>>,
                      !.scanned = @ \cup {[root |-> s, cut |-> cut]}]
  /\ UNCHANGED <<windows, plain, from, mishaps>>

\* Either mkpath throws, or opendir, and the directory is not scanned.
NoDir(r, s, cut) ==
  LET p == Drop(s, cut) IN
  /\ \/ Throws(MkPathFails(enc, p)) /\ UNCHANGED <<enc, key>>
     \/ /\ ~MkPathFails(enc, p) /\ Throws(MkPathFails(key, p))
        /\ enc' = MkPath(enc, p) /\ UNCHANGED key
     \/ /\ ~MkPathFails(enc, p) /\ ~MkPathFails(key, p) /\ Throws(plain[s] # "dir")
        /\ enc' = MkPath(enc, p) /\ key' = MkPath(key, p)
  /\ run' = [r EXCEPT !.at = "next", !.err = TRUE]
  /\ UNCHANGED <<windows, plain, from>>

StartRecurse ==
  /\ run.at = "idle"
  /\ \E s \in Roots, o \in Opts :
       IF CalcTrim(s) = NoTrim
         THEN /\ run' = [Fresh(o) EXCEPT !.err = TRUE]
              /\ UNCHANGED <<windows, plain, enc, key, from, mishaps>>
         ELSE BeginDir(Fresh(o), s, Trim) \/ NoDir(Fresh(o), s, Trim)
  /\ UNCHANGED twice

StartList ==
  /\ run.at = "idle"
  /\ \E ls \in SUBSET Lines \ {{}}, o \in Opts : run' = [Fresh(o) EXCEPT !.items = ls]
  /\ UNCHANGED <<windows, plain, enc, key, from, mishaps, twice>>

Reading(l) == run.at = "next" /\ run.line = {} /\ l \in run.items

\* stat throws, or calc_trim, the first time or the second: the line is passed over.
ListRefused(l) ==
  /\ Reading(l)
  /\ Throws(\/ CalcTrim(l.path) = NoTrim \/ plain[l.path] \in {"none", "link"}
            \/ l.slash /\ (plain[l.path] # "dir" \/ SecondTrim(l) = NoTrim))
  /\ run' = [run EXCEPT !.items = @ \ {l}, !.err = TRUE]
  /\ UNCHANGED <<windows, plain, enc, key, from, twice>>

\* stat finds something; what it is, the line's last character says.
ListLine(l) ==
  /\ Reading(l) /\ CalcTrim(l.path) # NoTrim /\ (l.slash => SecondTrim(l) # NoTrim)
  /\ plain[l.path] \in IF l.slash THEN {"dir"} ELSE {"file", "dir"}
  /\ run' = [run EXCEPT !.items = @ \ {l}, !.line = {l}]
  /\ UNCHANGED <<windows, plain, enc, key, from, mishaps, twice>>

Read(l) == run.at = "next" /\ run.line = {l}
Rest == [run EXCEPT !.line = {}]

\* A line without a separator at its end is a file, whatever is there.
ListFile(l) ==
  /\ Read(l) /\ ~l.slash
  /\ LET p == Drop(l.path, Trim) IN
     \/ EncryptFile(l.path, p) /\ run' = [Rest EXCEPT !.tried = @ \cup {l.path}]
     \/ /\ EncryptFails(l.path, p)
        /\ run' = [Rest EXCEPT !.err = TRUE, !.tried = @ \cup {l.path}]
  /\ UNCHANGED <<windows, plain, twice>>

ListDir(l) ==
  /\ Read(l) /\ l.slash
  /\ LET cut == Trim + SecondTrim(l) IN
     /\ BeginDir(Rest, l.path, cut) \/ NoDir(Rest, l.path, cut)
     /\ twice' = (twice \/ cut > Trim)

\* No line is left.
Ending == run.at = "next" /\ run.items = {} /\ run.line = {}

Done ==
  /\ Ending /\ run' = NoRun
  /\ UNCHANGED <<windows, plain, enc, key, from, mishaps, twice>>

-----------------------------------------------------------------------------
(* recurse_dir_enc over the plain tree *)

Top == run.stack[Len(run.stack)]

\* Bug: an error ends the directory.
BugStopsAtError(p, e) ==
  [run EXCEPT !.now = Nothing, !.since = {},
              !.stack[Len(run.stack)] =
                 [Top EXCEPT !.todo = IF e THEN {} ELSE @ \ {p}, !.err = @ \/ e]]

\* The entry is off the list; e: it threw something that is not the operation's.
Passed(p, e) ==
  [run EXCEPT !.now = Nothing, !.since = {},
              !.stack[Len(run.stack)] = [Top EXCEPT !.todo = @ \ {p}, !.err = @ \/ e]]

\* readdir gives the entry.
Scanning(where, p) ==
  run.at = where /\ run.now = Nothing /\ run.stack # <<>> /\ p \in Top.todo

\* The entry in hand, by what its lstat said.
InHand(where, p, k) ==
  run.at = where /\ run.now = [path |-> p, as |-> k] /\ run.stack # <<>> /\ p \in Top.todo

\* readdir does not come to the entry, which has gone.
Unlisted(s) ==
  /\ Scanning("scan", s) /\ plain[s] = "none"
  /\ run' = Passed(s, FALSE)
  /\ UNCHANGED <<windows, plain, enc, key, from, mishaps, twice>>

\* lstat fails, because the entry has gone or for reasons of its own.
Vanished(s) ==
  /\ Scanning("scan", s) /\ Throws(plain[s] = "none")
  /\ run' = [Passed(s, TRUE) EXCEPT !.unread = @ \cup {s}]
  /\ UNCHANGED <<windows, plain, enc, key, from, twice>>

Skip(s) ==
  /\ Scanning("scan", s) /\ plain[s] = "link"
  /\ run' = Passed(s, FALSE)
  /\ UNCHANGED <<windows, plain, enc, key, from, mishaps, twice>>

\* lstat: from here on the entry is taken for what it is now.
LookAt(s) ==
  /\ Scanning("scan", s) /\ plain[s] \in {"file", "dir"}
  /\ run' = [run EXCEPT !.now = [path |-> s, as |-> plain[s]]]
  /\ UNCHANGED <<windows, plain, enc, key, from, mishaps, twice>>

\* What is thrown while a regular file is encrypted is only reported.
VisitFile(s) ==
  /\ InHand("scan", s, "file")
  /\ EncryptFile(s, Drop(s, run.cut)) \/ EncryptFails(s, Drop(s, run.cut))
  /\ run' = [Passed(s, FALSE) EXCEPT !.tried = @ \cup {s}]
  /\ UNCHANGED <<windows, plain, twice>>

VisitDir(s) ==
  /\ InHand("scan", s, "dir") /\ plain[s] = "dir"
  /\ run' = [Passed(s, FALSE) EXCEPT !.stack = Append(@, Frame(plain, s))]
  /\ UNCHANGED <<windows, plain, enc, key, from, mishaps, twice>>

\* opendir throws: the directory that has it goes on with its next entry.
DirUnread(s) ==
  /\ InHand("scan", s, "dir") /\ Throws(plain[s] # "dir")
  /\ run' = [Passed(s, TRUE) EXCEPT !.unread = @ \cup {s}]
  /\ UNCHANGED <<windows, plain, enc, key, from, twice>>

Ended(e) == [run EXCEPT !.stack[Len(run.stack)] = [Top EXCEPT !.todo = {}, !.err = @ \/ e]]
Missed(where) == IF run.at = where THEN Top.todo ELSE {}

\* readdir fails.  On Windows that throws; on POSIX it is taken for the end of
\* the directory.
ReadFails ==
  /\ run.at \in {"scan", "delete"} /\ run.now = Nothing /\ run.stack # <<>> /\ Top.todo # {}
  /\ Throws(FALSE)
  /\ run' = IF windows THEN [Ended(TRUE) EXCEPT !.unread = @ \cup Missed("scan")]
            ELSE [Ended(FALSE) EXCEPT !.unlisted = @ \cup Missed("scan"),
                                      !.stuck = @ \cup Missed("delete")]
  /\ UNCHANGED <<windows, plain, enc, key, from, twice>>

\* The stack after its top frame threw delayed_error, or did not.
Popped == LET below == Front(run.stack) IN
  IF below = <<>> \/ ~Top.err THEN below ELSE [below EXCEPT ![Len(below)].err = TRUE]

LeaveDir ==
  /\ run.at = "scan" /\ Len(run.stack) > 1 /\ Top.todo = {}
  /\ run' = [run EXCEPT !.stack = Popped]
  /\ UNCHANGED <<windows, plain, enc, key, from, mishaps, twice>>

Deletes(err) == run.opt.del /\ ~err

\* The scan of the plain directory is over.  An error ends the item; otherwise
\* --delete opens the directory's place in the encrypted tree.
ScanDone ==
  /\ run.at = "scan" /\ Len(run.stack) = 1 /\ Top.todo = {}
  /\ LET p == Drop(run.root, run.cut) IN
     \/ /\ ~Deletes(Top.err) /\ UNCHANGED mishaps
        /\ run' = [run EXCEPT !.at = "next", !.stack = <<>>, !.err = @ \/ Top.err]
     \/ /\ Deletes(Top.err) /\ enc[p] = "dir" /\ UNCHANGED mishaps
        /\ run' = [run EXCEPT !.at = "delete", !.stack = <<Frame(enc, p)>>]
     \/ /\ Deletes(Top.err) /\ Throws(enc[p] # "dir")
        /\ run' = [run EXCEPT !.at = "next", !.stack = <<>>, !.err = TRUE]
  /\ UNCHANGED <<windows, plain, enc, key, from, twice>>

-----------------------------------------------------------------------------
(* recurse_dir_enc over the encrypted tree, with file_delete *)

\* Bug: the place of an encrypted file is looked up from the top.
BugForgetsPrefix(p) == p

\* The plain file an encrypted one would be made from in this run.
SourceOf(p) == SubSeq(run.root, 1, run.cut) \o p

PlainAt(s) == IF s \in Sources THEN plain[s] ELSE "none"
Cut(s) == \E q \in Above(s) : q # <<>> /\ PlainAt(q) = "file"

\* lstat: ENOENT, or, on POSIX, ENOTDIR where a directory has become a file.
Gone(p) == PlainAt(SourceOf(p)) = "none" /\ (Cut(SourceOf(p)) => windows)
Unknown(p) == PlainAt(SourceOf(p)) = "none" /\ Cut(SourceOf(p)) /\ ~windows

\* lstat of the entry fails, or opendir.
EntryFails(p) ==
  /\ Scanning("delete", p) /\ Throws(FALSE)
  /\ run' = Passed(p, TRUE)
  /\ UNCHANGED <<windows, plain, enc, key, from, twice>>

StaysFile(p) ==
  /\ Scanning("delete", p) /\ enc[p] = "file" /\ PlainAt(SourceOf(p)) # "none"
  /\ run' = Passed(p, FALSE)
  /\ UNCHANGED <<windows, plain, enc, key, from, mishaps, twice>>

\* The lookup fails otherwise than with ENOENT; the scan swallows what
\* file_delete throws at a file, and says nothing of it.
LookupFails(p) ==
  /\ Scanning("delete", p) /\ enc[p] = "file" /\ Throws(Unknown(p))
  /\ run' = [Passed(p, FALSE) EXCEPT !.stuck = @ \cup {p}]
  /\ UNCHANGED <<windows, plain, enc, key, from, twice>>

\* The lookup says ENOENT: from here on the plain file is gone, whatever is there.
LookupGone(p) ==
  /\ Scanning("delete", p) /\ enc[p] = "file" /\ Gone(p)
  /\ run' = [run EXCEPT !.now = [path |-> p, as |-> "file"]]
  /\ UNCHANGED <<windows, plain, enc, key, from, mishaps, twice>>

Unkeyed(p, k) == IF run.opt.delkey /\ key[p] = k THEN [key EXCEPT ![p] = "none"] ELSE key

\* A key that is a directory cannot be unlinked, or the key file cannot; the scan
\* swallows that too.
DeleteFile(p) ==
  /\ InHand("delete", p, "file") /\ windows
  /\ enc' = [enc EXCEPT ![p] = "none"] /\ from' = [from EXCEPT ![p] = <<>>]
  /\ \/ key' = Unkeyed(p, "file") /\ UNCHANGED mishaps
     \/ run.opt.delkey /\ Throws(FALSE) /\ UNCHANGED key
  /\ run' = Passed(p, FALSE)
  /\ UNCHANGED <<windows, plain, twice>>

\* The file cannot be unlinked.
DeleteFails(p) ==
  /\ InHand("delete", p, "file") /\ windows /\ Throws(FALSE)
  /\ run' = [Passed(p, FALSE) EXCEPT !.stuck = @ \cup {p}]
  /\ UNCHANGED <<windows, plain, enc, key, from, twice>>

\* On POSIX autofd::unlink calls itself until the stack is used up.
UnlinkRecurses(p) ==
  /\ InHand("delete", p, "file") /\ ~windows
  /\ run' = NoRun
  /\ UNCHANGED <<windows, plain, enc, key, from, mishaps, twice>>

EnterDir(p) ==
  /\ Scanning("delete", p) /\ enc[p] = "dir"
  /\ run' = [Passed(p, FALSE) EXCEPT !.stack = Append(@, Frame(enc, p))]
  /\ UNCHANGED <<windows, plain, enc, key, from, mishaps, twice>>

\* Bug: directories are scanned and never passed to file_delete.
BugOnlyFiles == TRUE

\* file_delete on a directory, once what is in it has been seen to: it is
\* removed only if it is empty, then its place among the keys likewise.
DirKept == Top.err \/ ~(Gone(Top.dir) \/ Unknown(Top.dir))
DirFails == Unknown(Top.dir) \/ Children(enc, Top.dir) # {}
KeyDirFails ==
  \/ key[Top.dir] = "file" \/ Children(key, Top.dir) # {}
  \/ ~windows /\ BelowFile(key, Top.dir)

\* The enclosing directory goes on, and remembers what was thrown.
Left(e) == [run EXCEPT !.stack = [Popped EXCEPT ![Len(Popped)].err = @ \/ e]]

\* What file_delete throws at a directory is an error of the enclosing one.
FinishDir ==
  /\ run.at = "delete" /\ Len(run.stack) > 1 /\ Top.todo = {}
  /\ \/ DirKept /\ UNCHANGED <<enc, key, mishaps>> /\ run' = Left(FALSE)
     \/ /\ ~Top.err /\ Throws(~DirKept /\ DirFails)
        /\ UNCHANGED <<enc, key>> /\ run' = Left(TRUE)
     \/ /\ ~DirKept /\ ~DirFails /\ run.opt.delkey /\ Throws(KeyDirFails)
        /\ enc' = [enc EXCEPT ![Top.dir] = "none"] /\ UNCHANGED key /\ run' = Left(TRUE)
     \/ /\ ~DirKept /\ ~DirFails /\ (run.opt.delkey => ~KeyDirFails)
        /\ enc' = [enc EXCEPT ![Top.dir] = "none"] /\ key' = Unkeyed(Top.dir, "dir")
        /\ UNCHANGED mishaps /\ run' = Left(FALSE)
  /\ UNCHANGED <<windows, plain, from, twice>>

DeleteDone ==
  /\ run.at = "delete" /\ Len(run.stack) = 1 /\ Top.todo = {}
  /\ run' = [run EXCEPT !.at = "next", !.stack = <<>>, !.err = @ \/ Top.err]
  /\ UNCHANGED <<windows, plain, enc, key, from, mishaps, twice>>

DsNext ==
  \/ Change \/ StartRecurse \/ StartList \/ Done
  \/ ReadFails \/ LeaveDir \/ ScanDone \/ FinishDir \/ DeleteDone
  \/ \E l \in Lines : ListRefused(l) \/ ListLine(l) \/ ListFile(l) \/ ListDir(l)
  \/ \E s \in Sources : \/ Unlisted(s) \/ Vanished(s) \/ Skip(s) \/ LookAt(s)
                       \/ VisitFile(s) \/ VisitDir(s) \/ DirUnread(s)
  \/ \E p \in Rels : \/ EntryFails(p) \/ StaysFile(p) \/ LookupFails(p) \/ LookupGone(p)
                    \/ DeleteFile(p) \/ DeleteFails(p) \/ UnlinkRecurses(p) \/ EnterDir(p)

DsSpec == DsInit /\ [][DsNext]_dsVars

-----------------------------------------------------------------------------
(* Properties *)

\* The path, or a directory above it, is one of the paths in set.
Reaches(set, p) == \E q \in Prefixes(p) : q \in set

\* Whatever fails or vanishes meanwhile, a run comes to every regular file below
\* the directories it scanned that the user left alone, but for what is below an
\* entry it could not read, and then it reports an error (recurse_dir_enc and
\* filelist_encrypt go on after an error).  Entries that a failing readdir keeps
\* from it are the exception: on POSIX nothing reports those.
EachTried ==
  Ending => \A d \in run.scanned : \A s \in Below(d.root) :
              plain[s] = "file" /\ s \notin run.moved =>
                \/ s \in run.tried \/ Reaches(run.unlisted, s)
                \/ run.err /\ Reaches(run.unread, s)

\* A run with --delete that reports no error leaves nothing in the place of a
\* directory it scanned that the plain tree does not have, except what the user
\* removed meanwhile and what a failure left that the scan of the encrypted tree
\* swallows: of a file's lookup or its unlink, or of readdir on POSIX
\* (real_dir_encrypt, recurse_dir_enc, file_delete).
DeleteExact ==
  Ending /\ run.opt.del /\ ~run.err /\ ~twice =>
    \A d \in run.scanned : \A s \in Below(d.root) :
      plain[s] = "none" /\ s \notin run.moved =>
        enc[Drop(s, d.cut)] = "none" \/ Reaches(run.stuck, Drop(s, d.cut))

\* What --trim cuts off is the same for all sources, so that no two of them are
\* backed up to one place.
OneTop ==
  \A s, t \in Sources :
    Trim <= Len(s) /\ Trim <= Len(t) => SubSeq(s, 1, Trim) = SubSeq(t, 1, Trim)

\* --delete removes no encrypted file while the plain file it was made from is
\* there, unless the user put that back between file_delete's lookup of it and
\* the unlink (real_dir_encrypt rebuilds its name from what was cut off).  This
\* is so where OneTop is TRUE.
DeleteKeepsBacked ==
  [][\A p \in Rels : enc[p] = "file" /\ enc'[p] = "none" /\ ~twice =>
       plain[from[p]] = "none" \/ from[p] \in run.since]_dsVars
=============================================================================
