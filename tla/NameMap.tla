------------------------------- MODULE NameMap -------------------------------
(***************************************************************************)
(* File names under --name-encrypt: the translation file, its encrypted    *)
(* copy "filemap", and the encrypted files it names, from run to run       *)
(* (filemap.cpp, and the parts of main.cpp and file.cpp that drive it).    *)
(* The tree is taken flat: a plain name is a path.  Runs do not overlap.   *)
(***************************************************************************)
EXTENDS Naturals, FiniteSets, Functions

CONSTANTS
  Plain,        \* paths of plain files
  Cipher,       \* random names
  None,         \* no file
  Opts,         \* option sets of the encryption runs
  MaxChanges,   \* files created and removed by the user (bound)
  MaxFaults     \* runs killed and operations that fail (bound)

ASSUME NameParams ==
  /\ None \notin Plain \cup Cipher
  /\ Opts \subseteq [del : BOOLEAN, delkey : BOOLEAN]
  /\ MaxChanges \in Nat /\ MaxFaults \in Nat

VARIABLES
  windows,   \* the build: with win32/autofd.cpp, or with autofd.h
  tree,      \* the plain files there are
  enc,       \* which plain file each encrypted file was made from
  rest,      \* which plain file each restored file was made from
  mapFile,   \* the translation file
  encMap,    \* what the file "filemap" in the encrypted directory holds
  names,     \* namemap: entries by plain name (encrypting)
  reverse,   \* reversemap, or, decrypting, namemap: plain names by cipher name
  run,       \* the run in progress, or how the last one ended
  changes, faults,
  unclean    \* history: some encryption run did not end well

nmVars == <<windows, tree, enc, rest, mapFile, encMap, names, reverse, run, changes, faults, unclean>>

\* A record of the file map; its dirsep is that of the build.
Entry == [plain : Plain, cipher : Cipher]

\* What a map file holds: records, and perhaps a record that was cut short.
NoMap == [there |-> FALSE, recs |-> {}, torn |-> FALSE]

NewEntry(p, n) == [plain |-> p, cipher |-> n]

\* namemap[] of a name it does not have: a default constructed record.
Dummy == [plain |-> None, cipher |-> None]

\* A run: how far it is, what is left to do, whether an entry of the scan could
\* not be looked at (err), and, for the properties, whether nothing changed
\* under it (calm), no operation failed (all), and what the map was at first.
Run == [op : {"enc", "dec"}, opt : Opts,
        at : {"idle", "visit", "delete", "write", "copy", "unname"},
        todo : SUBSET (Plain \cup Cipher), err : BOOLEAN, calm : BOOLEAN, all : BOOLEAN,
        result : {"none", "ok", "error", "killed"}, start : SUBSET Entry]

MapFile == [there : BOOLEAN, recs : SUBSET Entry, torn : BOOLEAN]

\* Every variable is in its domain; no map, and no file, holds a dummy record.
NmTypeOK ==
  /\ windows \in BOOLEAN /\ tree \subseteq Plain
  /\ enc \in [Cipher -> Plain \cup {None}]
  /\ rest \in [Plain -> Plain \cup {None}]
  /\ {mapFile, encMap} \subseteq MapFile
  /\ DOMAIN names \subseteq Plain /\ names \in [DOMAIN names -> Entry]
  /\ DOMAIN reverse \subseteq Cipher /\ reverse \in [DOMAIN reverse -> Plain]
  /\ run \in Run
  /\ changes \in 0..MaxChanges /\ faults \in 0..MaxFaults /\ unclean \in BOOLEAN

Empty == [x \in {} |-> None]

NmInit ==
  /\ windows \in BOOLEAN
  /\ tree \in SUBSET Plain
  /\ enc = [n \in Cipher |-> None]
  /\ rest = [p \in Plain |-> None]
  /\ mapFile = NoMap
  /\ encMap = NoMap
  /\ names = Empty /\ reverse = Empty
  /\ \E o \in Opts :
       run = [op |-> "enc", opt |-> o, at |-> "idle", todo |-> {}, err |-> FALSE,
              calm |-> TRUE, all |-> TRUE, result |-> "none", start |-> mapFile.recs]
  /\ changes = 0 /\ faults = 0 /\ unclean = FALSE

-----------------------------------------------------------------------------
(* The user. *)

\* A file is created or removed; a scan in progress has read its directory
\* entry already, or not yet.
Change ==
  /\ changes < MaxChanges
  /\ \E p \in Plain, seen \in BOOLEAN :
       /\ seen => run.at = "visit"
       /\ tree' = IF p \in tree THEN tree \ {p} ELSE tree \cup {p}
       /\ run' = [run EXCEPT !.calm = FALSE,
                             !.todo = IF ~seen THEN @
                                      ELSE IF p \in tree THEN @ \ {p} ELSE @ \cup {p}]
  /\ changes' = changes + 1
  /\ UNCHANGED <<windows, enc, rest, mapFile, encMap, names, reverse, faults, unclean>>

\* The process is gone, and its maps with it.
Exit(result) ==
  /\ run' = [run EXCEPT !.at = "idle", !.todo = {}, !.result = result]
  /\ names' = Empty /\ reverse' = Empty
  /\ unclean' = (unclean \/ (run.op = "enc" /\ result # "ok"))

\* The process is killed, write_map perhaps in the middle of a record.
Kill ==
  /\ run.at # "idle" /\ faults < MaxFaults
  /\ Exit("killed")
  /\ \E cut \in BOOLEAN :
       /\ cut => run.at = "write" /\ run.todo # {}
       /\ mapFile' = [mapFile EXCEPT !.torn = cut]
  /\ faults' = faults + 1
  /\ UNCHANGED <<windows, tree, enc, rest, encMap, changes>>

-----------------------------------------------------------------------------
(* fill_map *)

\* No record is cut short, empty, or a second one for a name.
Readable(m) ==
  /\ ~m.torn
  /\ \A e \in m.recs : e.plain # None
  /\ \A e, f \in m.recs : e # f => e.plain # f.plain /\ e.cipher # f.cipher

EntryOf(m, p) == CHOOSE e \in m.recs : e.plain = p

\* The file names of a map, by cipher name.
PlainNames(m) == [n \in {e.cipher : e \in m.recs} |->
                    (CHOOSE e \in m.recs : e.cipher = n).plain]

Started(op, opt, at, todo) ==
  [op |-> op, opt |-> opt, at |-> at, todo |-> todo, err |-> FALSE, calm |-> TRUE,
   all |-> TRUE, result |-> "none", start |-> mapFile.recs]

StartEncrypt ==
  /\ run.at = "idle" /\ Readable(mapFile)
  /\ \E o \in Opts : run' = Started("enc", o, "visit", tree)
  /\ names' = [p \in {e.plain : e \in mapFile.recs} |-> EntryOf(mapFile, p)]
  /\ reverse' = PlainNames(mapFile)
  /\ UNCHANGED <<windows, tree, enc, rest, mapFile, encMap, changes, faults, unclean>>

\* "Corrupt filemap"
MapRefused ==
  /\ run.at = "idle" /\ ~Readable(mapFile)
  /\ \E o \in Opts :
       run' = [Started("enc", o, "idle", {}) EXCEPT !.result = "error"]
  /\ unclean' = TRUE
  /\ UNCHANGED <<windows, tree, enc, rest, mapFile, encMap, names, reverse, changes, faults>>

-----------------------------------------------------------------------------
(* namecat_encrypt, called by recurse_dir_enc for every file found. *)

\* The random generator gives a name of the map, or one that was never given.
Drawn == DOMAIN reverse \cup
  {n \in Cipher : /\ enc[n] = None
                  /\ n \notin {e.cipher : e \in mapFile.recs \cup encMap.recs}}

\* Bug: the name drawn is not looked up in reversemap.
BugTakesAny(n) == TRUE

\* while( reversemap.find(encodedfile)!=reversemap.end() && ... )
Unused(n) == n \notin DOMAIN reverse

Named(p, n) ==
  /\ names' = [q \in DOMAIN names \cup {p} |-> IF q = p THEN NewEntry(p, n) ELSE names[q]]
  /\ reverse' = [c \in DOMAIN reverse \cup {n} |-> IF c = n THEN p ELSE reverse[c]]

\* The cipher names file p may be given in this step, naming it if need be.
NameFor(p, n) ==
  IF p \in DOMAIN names
    THEN n = names[p].cipher /\ UNCHANGED <<names, reverse>>
    ELSE n \in Drawn /\ Unused(n) /\ Named(p, n)

\* The file is encrypted, or its operation fails, which the scan swallows.
Visit(p) ==
  /\ run.op = "enc" /\ run.at = "visit" /\ p \in run.todo /\ p \in tree
  /\ \E n \in Cipher :
       /\ NameFor(p, n)
       /\ \/ /\ enc' = [enc EXCEPT ![n] = p]
             /\ run' = [run EXCEPT !.todo = @ \ {p}]
             /\ UNCHANGED faults
          \/ /\ faults < MaxFaults /\ faults' = faults + 1
             /\ run' = [run EXCEPT !.todo = @ \ {p}, !.all = FALSE]
             /\ UNCHANGED enc
  /\ UNCHANGED <<windows, tree, rest, mapFile, encMap, changes, unclean>>

\* The file was removed after readdir found it: lstat throws, the scan goes on,
\* and will end in delayed_error.
Vanished(p) ==
  /\ run.op = "enc" /\ run.at = "visit" /\ p \in run.todo /\ p \notin tree
  /\ run' = [run EXCEPT !.todo = @ \ {p}, !.err = TRUE]
  /\ UNCHANGED <<windows, tree, enc, rest, mapFile, encMap, names, reverse, changes, faults, unclean>>

\* No entropy for a name, or five names in a row that were in use.  (Not a
\* fault if the bounded set of names is used up.)
NoNameFound(p) ==
  /\ run.op = "enc" /\ run.at = "visit" /\ p \in run.todo \cap tree
  /\ p \notin DOMAIN names
  /\ IF \E n \in Drawn : Unused(n)
       THEN faults < MaxFaults /\ faults' = faults + 1
       ELSE UNCHANGED faults
  /\ run' = [run EXCEPT !.todo = @ \ {p}, !.err = TRUE]
  /\ UNCHANGED <<windows, tree, enc, rest, mapFile, encMap, names, reverse, changes, unclean>>

\* delayed_error leaves main's try block: no deletion, and no write_map.
ScanFailed ==
  /\ run.op = "enc" /\ run.at = "visit" /\ run.todo = {} /\ run.err
  /\ Exit("error")
  /\ UNCHANGED <<windows, tree, enc, rest, mapFile, encMap, changes, faults>>

\* Bug: the end of virt_recurse_dir_enc's range is one short.
BugLeavesLast == LET all == DOMAIN names
                 IN  IF all = {} THEN {} ELSE all \ {CHOOSE p \in all : TRUE}

\* What virt_recurse_dir_enc goes through.
InMap == DOMAIN names

\* write_map opens the file with O_TRUNC, and goes through reversemap.
BeginWrite(cipherNames) ==
  /\ run' = [run EXCEPT !.at = "write", !.todo = cipherNames]
  /\ mapFile' = [there |-> TRUE, recs |-> {}, torn |-> FALSE]

ScanDone ==
  /\ run.op = "enc" /\ run.at = "visit" /\ run.todo = {} /\ ~run.err
  /\ IF run.opt.del
       THEN run' = [run EXCEPT !.at = "delete", !.todo = InMap] /\ UNCHANGED mapFile
       ELSE BeginWrite(DOMAIN reverse)
  /\ UNCHANGED <<windows, tree, enc, rest, encMap, names, reverse, changes, faults, unclean>>

-----------------------------------------------------------------------------
(* enc_file_delete, for every record of the map. *)

\* Bug: the name stays in reversemap.
BugKeepsReverse(p) ==
  names' = Restrict(names, DOMAIN names \ {p}) /\ UNCHANGED reverse

Erased(p) ==
  /\ names' = Restrict(names, DOMAIN names \ {p})
  /\ reverse' = Restrict(reverse, DOMAIN reverse \ {names[p].cipher})

\* Bug: --delete erases the record, as --delete-keys should.
BugErasesAlways == TRUE

ErasesName == run.opt.delkey

\* The loop goes on to the next name.
Over(p) == run' = [run EXCEPT !.todo = @ \ {p}]

StillThere(p) ==
  /\ run.at = "delete" /\ p \in run.todo \cap tree
  /\ Over(p)
  /\ UNCHANGED <<windows, tree, enc, rest, mapFile, encMap, names, reverse, changes, faults, unclean>>

Delete(p) ==
  /\ windows /\ run.at = "delete" /\ p \in run.todo \ tree
  /\ enc' = [enc EXCEPT ![names[p].cipher] = None]
  /\ IF ErasesName THEN Erased(p) ELSE UNCHANGED <<names, reverse>>
  /\ Over(p)
  /\ UNCHANGED <<windows, tree, rest, mapFile, encMap, changes, faults, unclean>>

\* unlink of the file fails, or of its key: nothing catches it before main.
DeleteFails(p) ==
  /\ windows /\ run.at = "delete" /\ p \in run.todo \ tree /\ faults < MaxFaults
  /\ enc' \in {enc, [enc EXCEPT ![names[p].cipher] = None]}
  /\ Exit("error")
  /\ faults' = faults + 1
  /\ UNCHANGED <<windows, tree, rest, mapFile, encMap, changes>>

\* autofd.h: inside the class, unlink is autofd::unlink, which calls itself
\* until the stack is used up.
UnlinkRecurses(p) ==
  /\ ~windows /\ run.at = "delete" /\ p \in run.todo \ tree
  /\ Exit("killed")
  /\ UNCHANGED <<windows, tree, enc, rest, mapFile, encMap, changes, faults>>

DeleteDone ==
  /\ run.at = "delete" /\ run.todo = {}
  /\ BeginWrite(DOMAIN reverse)
  /\ UNCHANGED <<windows, tree, enc, rest, encMap, names, reverse, changes, faults, unclean>>

-----------------------------------------------------------------------------
(* write_map, and the encryption of the map. *)

\* namemap[reversemap's name for n], which adds a record where there is none.
RecordOf(n) == IF reverse[n] \in DOMAIN names THEN names[reverse[n]] ELSE Dummy

WriteEntry(n) ==
  /\ run.at = "write" /\ n \in run.todo
  /\ mapFile' = [mapFile EXCEPT !.recs = @ \cup {RecordOf(n)}]
  /\ names' = [p \in DOMAIN names \cup {reverse[n]} |->
                 IF p \in DOMAIN names THEN names[p] ELSE Dummy]
  /\ Over(n)
  /\ UNCHANGED <<windows, tree, enc, rest, encMap, reverse, changes, faults, unclean>>

\* The disk is full, in the middle of a record or between two.
WriteFails ==
  /\ run.at = "write" /\ run.todo # {} /\ faults < MaxFaults
  /\ \E cut \in BOOLEAN : mapFile' = [mapFile EXCEPT !.torn = cut]
  /\ Exit("error")
  /\ faults' = faults + 1
  /\ UNCHANGED <<windows, tree, enc, rest, encMap, changes>>

WriteDone ==
  /\ run.at = "write" /\ run.todo = {}
  /\ run' = [run EXCEPT !.at = "copy"]
  /\ UNCHANGED <<windows, tree, enc, rest, mapFile, encMap, names, reverse, changes, faults, unclean>>

\* Bug: the map is encrypted before it is written.
BugCopiesOld == [there |-> TRUE, recs |-> run.start, torn |-> FALSE]

\* file_encrypt's source is the translation file.
MapToCopy == mapFile

\* file_encrypt puts the copy in place whole, or not at all.
EncryptMap ==
  /\ run.at = "copy"
  /\ \/ encMap' = MapToCopy /\ Exit("ok") /\ UNCHANGED faults
     \/ /\ faults < MaxFaults /\ faults' = faults + 1
        /\ Exit("error") /\ UNCHANGED encMap
  /\ UNCHANGED <<windows, tree, enc, rest, mapFile, changes>>

-----------------------------------------------------------------------------
(* A recursive decryption. *)

\* fill_map when decrypting: only cipher names are keys.
ReadableByCipher(m) ==
  /\ ~m.torn
  /\ \A e \in m.recs : e.plain # None
  /\ \A e, f \in m.recs : e # f => e.cipher # f.cipher

\* "filemap" is decrypted over the translation file, which is then read.
StartDecrypt ==
  /\ run.at = "idle" /\ encMap.there
  /\ mapFile' = encMap
  /\ IF ReadableByCipher(encMap)
       THEN /\ reverse' = PlainNames(encMap)
            /\ run' = Started("dec", run.opt, "unname", {n \in Cipher : enc[n] # None})
       ELSE /\ run' = [Started("dec", run.opt, "idle", {}) EXCEPT !.result = "error"]
            /\ UNCHANGED reverse
  /\ UNCHANGED <<windows, tree, enc, rest, encMap, names, changes, faults, unclean>>

\* There is no "filemap".
NothingToDecrypt ==
  /\ run.at = "idle" /\ ~encMap.there
  /\ run' = [Started("dec", run.opt, "idle", {}) EXCEPT !.result = "error"]
  /\ UNCHANGED <<windows, tree, enc, rest, mapFile, encMap, names, reverse, changes, faults, unclean>>

\* namecat_decrypt finds the name, and the file is decrypted, or is not, which
\* the scan swallows.
Unname(n) ==
  /\ run.at = "unname" /\ n \in run.todo /\ n \in DOMAIN reverse
  /\ \/ /\ rest' = [rest EXCEPT ![reverse[n]] = enc[n]]
        /\ Over(n) /\ UNCHANGED faults
     \/ /\ faults < MaxFaults /\ faults' = faults + 1
        /\ run' = [run EXCEPT !.todo = @ \ {n}, !.all = FALSE]
        /\ UNCHANGED rest
  /\ UNCHANGED <<windows, tree, enc, mapFile, encMap, names, reverse, changes, unclean>>

\* "Filename translation not found"
NoTranslation(n) ==
  /\ run.at = "unname" /\ n \in run.todo \ DOMAIN reverse
  /\ run' = [run EXCEPT !.todo = @ \ {n}, !.err = TRUE]
  /\ UNCHANGED <<windows, tree, enc, rest, mapFile, encMap, names, reverse, changes, faults, unclean>>

UnnameDone ==
  /\ run.at = "unname" /\ run.todo = {}
  /\ Exit(IF run.err THEN "error" ELSE "ok")
  /\ UNCHANGED <<windows, tree, enc, rest, mapFile, encMap, changes, faults>>

NmNext ==
  \/ Change \/ Kill
  \/ StartEncrypt \/ MapRefused \/ ScanFailed \/ ScanDone \/ DeleteDone
  \/ WriteFails \/ WriteDone \/ EncryptMap
  \/ StartDecrypt \/ NothingToDecrypt \/ UnnameDone
  \/ \E p \in Plain : \/ Visit(p) \/ Vanished(p) \/ NoNameFound(p)
                      \/ StillThere(p) \/ Delete(p) \/ DeleteFails(p) \/ UnlinkRecurses(p)
  \/ \E n \in Cipher : WriteEntry(n) \/ Unname(n) \/ NoTranslation(n)

NmSpec == NmInit /\ [][NmNext]_nmVars

-----------------------------------------------------------------------------
(* Properties *)

Files(e) == Range(e) \ {None}

\* namemap and reversemap are each other's inverse for as long as an
\* encryption runs.  A name that is in one only is written as a dummy record:
\* "rsyncrypto (since 1.07) would leave a corrupt filemap behind" (ChangeLog).
MapsMirror ==
  run.op = "enc" =>
    /\ \A n \in DOMAIN reverse : /\ reverse[n] \in DOMAIN names
                               /\ names[reverse[n]].cipher = n
    /\ \A p \in DOMAIN names : /\ names[p].cipher \in DOMAIN reverse
                             /\ reverse[names[p].cipher] = p

\* Whatever happened to the runs before, the next run can read both maps,
\* unless the end of write_map cut a record in two; and "filemap" is never torn.
MapsReadable ==
  /\ ~encMap.torn /\ Readable(encMap)
  /\ ~mapFile.torn => Readable(mapFile)

\* A cipher name in a map never stands for another file than the map says,
\* killed runs, lost names and deleted names included, so nothing is ever
\* restored under the name of another file.
NamesNeverMixed ==
  /\ \A e \in mapFile.recs \cup encMap.recs :
       enc[e.cipher] \in {None, e.plain}
  /\ \A p \in Plain : rest[p] \in {None, p}

\* As long as every encryption ended well, decryptions in between included,
\* both maps know the name of every encrypted file.
FilesNamed ==
  (~unclean /\ run.at = "idle") =>
    \A n \in Cipher : enc[n] # None =>
      \A m \in {mapFile, encMap} : \E e \in m.recs : e.cipher = n /\ e.plain = enc[n]

\* Without --delete-keys "the symmetric key and file mapping are kept, so that
\* if the file is recreated, it will be rsyncable with the original file".
NamesKept ==
  (run.op = "enc" /\ run.result = "ok" /\ ~run.opt.delkey) =>
    \A e \in run.start : \E f \in mapFile.recs : f.plain = e.plain /\ f.cipher = e.cipher

\* After a run with --delete in which no operation failed and nothing changed
\* under it, the encrypted files are those of the tree, each there once.
DeleteExact ==
  (run.op = "enc" /\ run.result = "ok" /\ run.opt.del /\ run.calm /\ run.all /\ ~unclean) =>
    /\ Files(enc) = tree
    /\ \A m, n \in Cipher : (m # n /\ enc[m] # None) => enc[m] # enc[n]

\* As long as every encryption ended well, a decryption finds every name and
\* restores every file whose own decryption does not fail.
DecryptComplete ==
  (run.op = "dec" /\ ~unclean /\ run.at = "idle" /\ encMap.there) =>
    /\ run.result # "error"
    /\ (run.result = "ok" /\ run.all) => \A p \in Files(enc) : rest[p] = p

-----------------------------------------------------------------------------
(* What the documents say and the code does not do. *)

\* rsyncrypto.man:182: a file is encrypted "by changing the name of the
\* encrypted file to a random string of characters, and storing the translation
\* in the file given as parameter": when no run is in progress, it is there.
NamesStored ==
  run.at = "idle" =>
    \A n \in Cipher : enc[n] # None => \E e \in mapFile.recs : e.cipher = n
=============================================================================
