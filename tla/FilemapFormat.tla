---------------------------- MODULE FilemapFormat ----------------------------
(***************************************************************************)
(* The bytes of the translation file: what write_map writes, what fill_map *)
(* accepts, on either platform, and what rsyncrypto_recover rescues        *)
(* (filemap.cpp, recover.cpp).  NameMap has the file as a set of records.  *)
(***************************************************************************)
EXTENDS Naturals, FiniteSets, SequencesExt

CONSTANTS
  DirsepC,      \* DIRSEP_C of this build
  Hex,          \* hexadecimal digits
  CipherLen,    \* digits of a random name: 32
  Found,        \* what the file may hold at first, damaged or not
  Paths,        \* paths of files still to be named (bound: each once)
  MaxCuts,      \* runs that die in write_map (bound)
  MaxNest       \* largest --ne-nesting

Nul == "NUL"
Space == " "
Separators == {"/", "\\"}

\* The documentation gives no limit for --ne-nesting; past the length of the
\* name nest_name would read what follows it in memory.
ASSUME FormatParams ==
  /\ DirsepC \in Separators
  /\ Hex \cap (Separators \cup {Space, Nul}) = {}
  /\ CipherLen \in Nat \ {0} /\ MaxCuts \in Nat
  /\ MaxNest \in 0..CipherLen

\* Characters are strings, and the system has no path with a NUL in it.
ASSUME FormatBytes ==
  /\ Found \subseteq Seq(STRING) /\ Hex \subseteq STRING
  /\ Paths \subseteq Seq(STRING) /\ \A p \in Paths : Nul \notin ToSet(p)

Ciphers == [1..CipherLen -> Hex]

VARIABLES
  file,     \* the bytes of the translation file
  offset,   \* how many of them the reader is past
  state,    \* recover: the state of its parser
  record,   \* recover: the record being put together
  out,      \* recover: its standard output
  names,    \* rsyncrypto: namemap
  meant,    \* history: the records write_map last set out to write, {} at first
  by,       \* history: what the file comes from
  cuts,
  pc        \* "idle", "recover", fill_map "encrypt" or "decrypt", "filled", or
            \* why fill_map refused

ffVars == <<file, offset, state, record, out, names, meant, by, cuts, pc>>

NoRecord == [dirsep |-> Nul, cipher |-> <<>>, plain |-> <<>>]

Refusals == {"corrupt", "duplicate", "untranslatable"}

\* Every variable is in its domain.  No cipher name ever runs over its 32 bytes.
FfTypeOK ==
  /\ offset \in 0..Len(file)
  /\ state \in {"DIRSEP", "CIPHERNAME", "SPACE", "PLAINNAME", "INVALID", "RSYNC107_INVALID"}
  /\ Len(record.cipher) <= CipherLen
  /\ state \in {"SPACE", "PLAINNAME"} => record.cipher \in Ciphers
  /\ \A r \in names \cup meant : r.dirsep \notin {Space, Nul}
  /\ by \in {"found", "recover", "write", "cut"} /\ cuts \in 0..MaxCuts
  /\ pc \in {"idle", "recover", "encrypt", "decrypt", "filled"} \cup Refusals

FfInit ==
  /\ file \in Found
  /\ offset = 0 /\ state = "DIRSEP" /\ record = NoRecord /\ out = <<>>
  /\ names = {} /\ meant = {} /\ by = "found" /\ cuts = 0 /\ pc = "idle"

\* A process is over, and its memory is gone.
Ended(how) ==
  /\ offset' = 0 /\ state' = "DIRSEP" /\ record' = NoRecord /\ out' = <<>> /\ names' = {}
  /\ pc' = how

-----------------------------------------------------------------------------
(* rsyncrypto_recover *)

StartRecover ==
  /\ pc \in {"idle"} \cup Refusals
  /\ pc' = "recover"
  /\ UNCHANGED <<file, offset, state, record, out, names, meant, by, cuts>>

\* One turn of the loop: every byte is read in exactly one state.
Turn(s, ch, next) ==
  /\ pc = "recover" /\ offset < Len(file)
  /\ state = s /\ file[offset + 1] = ch
  \* A NUL ends whatever is wrong.
  /\ state' = IF next = "INVALID" /\ ch = Nul THEN "DIRSEP" ELSE next
  /\ offset' = offset + 1
  /\ UNCHANGED <<file, names, meant, by, cuts, pc>>

\* A NUL, and a space in front of a NUL, are what release 1.07 left of a record.
ReadDirsep(ch) ==
  /\ Turn("DIRSEP", ch, CASE ch \in Separators -> "CIPHERNAME"
                          [] ch = Nul          -> "DIRSEP"
                          [] ch = Space        -> "RSYNC107_INVALID"
                          [] OTHER             -> "INVALID")
  /\ record' = [NoRecord EXCEPT !.dirsep = ch]
  /\ UNCHANGED out

Read107(ch) ==
  /\ Turn("RSYNC107_INVALID", ch, IF ch = Nul THEN "DIRSEP" ELSE "INVALID")
  /\ UNCHANGED <<record, out>>

\* Bug: a digit too many.
BugOneMore(digits) == digits > CipherLen

Complete(digits) == digits = CipherLen

ReadCipher(ch) ==
  /\ Turn("CIPHERNAME", ch, IF ch \notin Hex THEN "INVALID"
                            ELSE IF Complete(Len(record.cipher) + 1) THEN "SPACE"
                            ELSE "CIPHERNAME")
  /\ record' = IF ch \in Hex THEN [record EXCEPT !.cipher = Append(@, ch)] ELSE record
  /\ UNCHANGED out

ReadSpace(ch) ==
  /\ Turn("SPACE", ch, IF ch = Space THEN "PLAINNAME" ELSE "INVALID")
  /\ UNCHANGED <<record, out>>

\* Bug: the NUL is left out.
BugNoNul(r) == <<r.dirsep>> \o r.cipher \o <<Space>> \o r.plain

\* Bytes of a record, as recover and write_map both write them.
Bytes(r) == <<r.dirsep>> \o r.cipher \o <<Space>> \o r.plain \o <<Nul>>

\* Bug: a record with an empty name is printed as well.
BugPrintsEmpty(r) == TRUE

Printed(r) == r.plain # <<>>

ReadPlain(ch) ==
  /\ Turn("PLAINNAME", ch, IF ch = Nul THEN "DIRSEP" ELSE "PLAINNAME")
  /\ IF ch = Nul
       THEN /\ out' = IF Printed(record) THEN out \o Bytes(record) ELSE out
            /\ UNCHANGED record
       ELSE /\ record' = [record EXCEPT !.plain = Append(@, ch)]
            /\ UNCHANGED out

ReadInvalid(ch) ==
  /\ Turn("INVALID", ch, "INVALID")
  /\ UNCHANGED <<record, out>>

RecoverByte ==
  \E ch \in ToSet(file) : \/ ReadDirsep(ch) \/ Read107(ch) \/ ReadCipher(ch)
                          \/ ReadSpace(ch) \/ ReadPlain(ch) \/ ReadInvalid(ch)

\* A last record without its NUL is dropped; the user puts the output in the
\* place of the file.
RecoverDone ==
  /\ pc = "recover" /\ offset = Len(file)
  /\ file' = out /\ by' = "recover"
  /\ Ended("idle")
  /\ UNCHANGED <<meant, cuts>>

-----------------------------------------------------------------------------
(* rsyncrypto *)

StartFill ==
  /\ pc = "idle"
  /\ pc' \in {"encrypt", "decrypt"}
  /\ UNCHANGED <<file, offset, state, record, out, names, meant, by, cuts>>

Filling == pc \in {"encrypt", "decrypt"}

\* Where the first of some characters is, from a place in the file on, or its end.
From(i, chars) ==
  LET At == {k \in i..Len(file) : file[k] \in chars}
  IN  IF At = {} THEN Len(file) + 1 ELSE CHOOSE k \in At : \A l \in At : k <= l

SpaceAt == From(offset + 2, {Space, Nul})
NulAt == From(SpaceAt + 1, {Nul})

\* Bug: the end of the file ends a name as well as a NUL.
BugEndEndsName == TRUE

NulTerminated == NulAt <= Len(file)

WellFormed ==
  /\ file[offset + 1] \notin {Space, Nul}
  /\ SpaceAt <= Len(file) /\ file[SpaceAt] = Space
  /\ NulTerminated

\* The record at the offset, as it stands in the file.
Entry == [dirsep |-> file[offset + 1],
          cipher |-> SubSeq(file, offset + 2, SpaceAt - 1),
          plain  |-> SubSeq(file, SpaceAt + 1, NulAt - 1)]

Untranslatable(r) == r.dirsep # DirsepC /\ DirsepC \in ToSet(r.plain)

\* replace_dir_sep
Translated(r) == [i \in DOMAIN r.plain |-> IF r.plain[i] = r.dirsep THEN DirsepC ELSE r.plain[i]]

\* fill_map keeps the dirsep of the file.
Kept(r) == [r EXCEPT !.plain = Translated(r)]

\* Encrypting, either name twice is an error; decrypting, only the cipher name is.
Duplicate(r) ==
  \E e \in names : e.cipher = r.cipher \/ (pc = "encrypt" /\ e.plain = Translated(r))

Verdict ==
  CASE ~WellFormed           -> "corrupt"
    [] Untranslatable(Entry) -> "untranslatable"
    [] Duplicate(Entry)      -> "duplicate"
    [] OTHER                 -> "good"

FillEntry ==
  /\ Filling /\ offset < Len(file)
  /\ Verdict = "good"
  /\ names' = names \cup {Kept(Entry)}
  /\ offset' = NulAt
  /\ UNCHANGED <<file, state, record, out, meant, by, cuts, pc>>

\* An exception: the run ends, and leaves the file alone.
FillRefuses ==
  /\ Filling /\ offset < Len(file)
  /\ Verdict # "good" /\ Ended(Verdict)
  /\ UNCHANGED <<file, meant, by, cuts>>

\* A decryption does not write the map.
FillDone ==
  /\ Filling /\ offset >= Len(file)
  /\ IF pc = "encrypt"
       THEN pc' = "filled" /\ UNCHANGED <<offset, state, record, out, names>>
       ELSE Ended("idle")
  /\ UNCHANGED <<file, meant, by, cuts>>

\* namecat_encrypt gives a file it does not know a name.
Name(p, c) ==
  /\ pc = "filled"
  /\ \A e \in names : e.plain # p /\ e.cipher # c
  /\ names' = names \cup {[dirsep |-> DirsepC, cipher |-> c, plain |-> p]}
  /\ UNCHANGED <<file, offset, state, record, out, meant, by, cuts, pc>>

\* The scan failed: main ends without write_map.
ScanFailed ==
  /\ pc = "filled" /\ Ended("idle")
  /\ UNCHANGED <<file, meant, by, cuts>>

\* Record after record, in the order of reversemap.
MapBytes == FlattenSeq([i \in 1..Cardinality(names) |-> Bytes(SetToSeq(names)[i])])

WriteMap ==
  /\ pc = "filled"
  /\ file' = MapBytes /\ meant' = names /\ by' = "write"
  /\ Ended("idle")
  /\ UNCHANGED cuts

\* The run dies, or the disk is full, after any byte of the writing.
WriteCut ==
  /\ pc = "filled" /\ cuts < MaxCuts /\ cuts' = cuts + 1
  /\ \E n \in 0..(Len(MapBytes) - 1) : file' = SubSeq(MapBytes, 1, n)
  /\ meant' = names /\ by' = "cut"
  /\ Ended("idle")

FfNext ==
  \/ StartRecover \/ RecoverByte \/ RecoverDone
  \/ StartFill \/ FillEntry \/ FillRefuses \/ FillDone \/ ScanFailed \/ WriteMap \/ WriteCut
  \/ \E p \in Paths, c \in Ciphers : Name(p, c)

FfSpec == FfInit /\ [][FfNext]_ffVars

-----------------------------------------------------------------------------
(* --ne-nesting *)

\* nest_name: level after level, the shortest prefix of the name outermost.
NestName(c, level) ==
  FlattenSeq([n \in 1..level |-> Append(SubSeq(c, 1, n), DirsepC)]) \o c

\* Bug: the separator is taken for the start of the name.
BugKeepsSeparator(at) == at

Behind(at) == at + 1

\* namecat_decrypt goes from separator to separator; after one it looks at the
\* second character next, which is enough as no directory's name is empty.
FilePart(path) ==
  LET part[at \in (1..(Len(path) + 1)) \X (0..Len(path))] ==
        LET right == at[1]
            skip == at[2]
        IN  IF right + skip > Len(path) THEN SubSeq(path, right, Len(path))
            ELSE IF path[right + skip] = DirsepC THEN part[<<Behind(right + skip), 1>>]
            ELSE part[<<right, skip + 1>>]
  IN  part[<<1, 0>>]

-----------------------------------------------------------------------------
(* Properties *)

Ends(s) == {i \in 1..Len(s) : s[i] = Nul}

\* Where what ends before place e of s starts.
Start(s, e) ==
  1 + (IF \E f \in Ends(s) : f < e
         THEN CHOOSE f \in Ends(s) : f < e /\ \A g \in Ends(s) : g < e => g <= f
         ELSE 0)

Piece(s, e) == SubSeq(s, Start(s, e), e - 1)

Valid(p) ==
  /\ Len(p) > CipherLen + 2
  /\ p[1] \in Separators /\ SubSeq(p, 2, CipherLen + 1) \in Ciphers
  /\ p[CipherLen + 2] = Space

\* The records of a file, as its documents define them: what NULs delimit, one
\* separator, 32 digits, a space and a name.
Whole(s, e) == IF e \in Ends(s) /\ Valid(Piece(s, e)) THEN Append(Piece(s, e), Nul) ELSE <<>>

Delimited(s) == FlattenSeq([e \in 1..Len(s) |-> Whole(s, e)])

\* "rsyncrypto_recover will read in a file map, and output to the standard output
\* only those records that are valid", and all of them, whatever is around them:
\* at every byte, what it printed are the valid records it has passed.
RecoverExact == pc = "recover" => out = Delimited(SubSeq(file, 1, offset))

\* What it printed is never again "Corrupt filemap" to fill_map, and recovering
\* it again would change nothing.
RecoveredReadable ==
  by = "recover" => pc # "corrupt" /\ Delimited(file) = file

\* fill_map reads what write_map set out to write: if the writing was finished
\* and all names are this platform's, every record; if it was cut short, and then
\* perhaps recovered, the file is refused or records are missing, but no file has
\* a name it was not given.
RereadAsMeant ==
  /\ (Filling /\ by # "found" /\ meant # {}) => names \subseteq {Kept(r) : r \in meant}
  /\ (by = "write" /\ \A r \in meant : r.dirsep = DirsepC) =>
       pc \notin Refusals /\ (Filling /\ offset >= Len(file) => names = meant)

\* However deep --ne-nesting puts a file, decryption finds its name again.
NestedFound ==
  \A r \in names : \A level \in 0..MaxNest : r.cipher \in Ciphers =>
     FilePart(NestName(r.cipher, level)) = r.cipher
-----------------------------------------------------------------------------
(* What the documents say and the code does not do. *)

\* filemap.cpp:33: "Each "line" contains a single character indicating the
\* directory seperator", which is what lets a map written on one platform be used
\* on another: a map write_map finished is read again.
MapTravels == by = "write" => pc \notin Refusals
=============================================================================
