---------------------------- MODULE NameMapProofs ----------------------------
(***************************************************************************)
(* The safety of the name maps, for any files, names, options and numbers  *)
(* of changes and faults.  Three layers, each inductive given those below  *)
(* it: what a run holds in memory, what the two map files say, and what is *)
(* true of runs that end well.                                             *)
(***************************************************************************)
EXTENDS NameMap, TLAPS

(* The first layer: types, the phases of a run, and the maps in memory. *)

\* Where a run is says what its maps and its list of things to do are.
Phases ==
  /\ run.at = "idle" => DOMAIN names = {} /\ DOMAIN reverse = {}
  /\ run.at # "idle" => run.result = "none" /\ ~mapFile.torn
  /\ run.at = "visit" => run.todo \subseteq Plain
  /\ run.at = "delete" => run.todo \subseteq DOMAIN names
  /\ run.at = "write" => run.todo \subseteq DOMAIN reverse
  /\ run.at = "unname" => run.todo \subseteq Cipher /\ mapFile = encMap
  /\ IF run.op = "enc" THEN run.at # "unname"
                       ELSE run.at \in {"idle", "unname"} /\ DOMAIN names = {}

\* namemap has each record under the plain name in it.
UnderOwnName == \A p \in DOMAIN names : names[p].plain = p

Core == NmTypeOK /\ Phases /\ UnderOwnName /\ MapsMirror

-----------------------------------------------------------------------------
(* What the operators of the model do. *)

LEMMA EmptyMap == DOMAIN Empty = {} /\ \A S : Empty \in [DOMAIN Empty -> S]
BY DEF Empty

\* What fill_map finds in a map under a plain name and under a cipher name.
LEMMA EntryOfMap ==
  ASSUME NEW m \in MapFile, NEW p \in {e.plain : e \in m.recs}
  PROVE  EntryOf(m, p) \in m.recs /\ EntryOf(m, p).plain = p
BY DEF EntryOf

LEMMA PlainOfMap ==
  ASSUME NEW m \in MapFile
  PROVE  /\ DOMAIN PlainNames(m) = {e.cipher : e \in m.recs}
         /\ PlainNames(m) \in [DOMAIN PlainNames(m) -> Plain]
         /\ \A n \in DOMAIN PlainNames(m) : NewEntry(PlainNames(m)[n], n) \in m.recs
<1>1. DOMAIN PlainNames(m) = {e.cipher : e \in m.recs}
  BY DEF PlainNames
<1>2. ASSUME NEW n \in DOMAIN PlainNames(m)
      PROVE  NewEntry(PlainNames(m)[n], n) \in m.recs /\ PlainNames(m)[n] \in Plain
  <2> DEFINE f == CHOOSE e \in m.recs : e.cipher = n
  <2>1. f \in m.recs /\ f.cipher = n
    BY <1>1, <1>2
  <2>2. f \in Entry /\ PlainNames(m)[n] = f.plain
    BY <1>1, <1>2, <2>1 DEF PlainNames, MapFile
  <2>3. f = NewEntry(f.plain, n)
    BY <2>1, <2>2 DEF Entry, NewEntry
  <2> QED
    BY <2>1, <2>2, <2>3 DEF Entry
<1>3. PlainNames(m) \in [DOMAIN PlainNames(m) -> Plain]
  BY <1>1, <1>2 DEF PlainNames
<1> QED
  BY <1>1, <1>2, <1>3

\* One thing less to do leaves the rest of the run as it is, but for the notes
\* that something went wrong.
Did(r, s, x) ==
  \/ s = [r EXCEPT !.todo = @ \ {x}]
  \/ s = [r EXCEPT !.todo = @ \ {x}, !.all = FALSE]
  \/ s = [r EXCEPT !.todo = @ \ {x}, !.err = TRUE]

LEMMA LessToDo ==
  ASSUME NEW r \in Run, NEW s, NEW x, Did(r, s, x)
  PROVE  /\ s \in Run /\ s.todo = r.todo \ {x}
         /\ s.op = r.op /\ s.opt = r.opt /\ s.at = r.at /\ s.result = r.result
         /\ s.start = r.start /\ s.calm = r.calm
         /\ (s.all => r.all) /\ (r.err => s.err)
<1>1. CASE s = [r EXCEPT !.todo = @ \ {x}]
  BY <1>1 DEF Run
<1>2. CASE s = [r EXCEPT !.todo = @ \ {x}, !.all = FALSE]
  <2>1. PICK S \in SUBSET (Plain \cup Cipher) : S = r.todo \ {x}
    BY DEF Run
  <2>2. s = [r EXCEPT !.todo = S, !.all = FALSE]
    BY <1>2, <2>1
  <2> QED
    BY <2>1, <2>2 DEF Run
<1>3. CASE s = [r EXCEPT !.todo = @ \ {x}, !.err = TRUE]
  <2>1. PICK S \in SUBSET (Plain \cup Cipher) : S = r.todo \ {x}
    BY DEF Run
  <2>2. s = [r EXCEPT !.todo = S, !.err = TRUE]
    BY <1>3, <2>1
  <2> QED
    BY <2>1, <2>2 DEF Run
<1> QED
  BY <1>1, <1>2, <1>3 DEF Did

LEMMA CoreInitially == NmInit => Core
<1> SUFFICES ASSUME NmInit PROVE Core
  OBVIOUS
<1> USE NameParams DEF NmInit
<1>1. DOMAIN names = {} /\ DOMAIN reverse = {} /\ names \in [DOMAIN names -> Entry]
      /\ reverse \in [DOMAIN reverse -> Plain]
  BY EmptyMap
<1>2. mapFile = NoMap /\ encMap = NoMap /\ mapFile.recs = {} /\ ~mapFile.torn /\ ~encMap.torn
      /\ NoMap \in MapFile
  BY DEF NoMap, MapFile
<1>3. run.op = "enc" /\ run.at = "idle" /\ run \in Run
  BY <1>2 DEF Run
<1>4. enc \in [Cipher -> Plain \cup {None}] /\ rest \in [Plain -> Plain \cup {None}]
      /\ tree \subseteq Plain /\ windows \in BOOLEAN /\ unclean \in BOOLEAN
  OBVIOUS
<1>5. changes \in 0..MaxChanges /\ faults \in 0..MaxFaults
  OBVIOUS
<1>6. NmTypeOK
  BY <1>1, <1>2, <1>3, <1>4, <1>5 DEF NmTypeOK
<1> QED
  BY <1>1, <1>2, <1>3, <1>6 DEF Core, Phases, UnderOwnName, MapsMirror

LEMMA CoreStep == Core /\ [NmNext]_nmVars => Core'
<1> SUFFICES ASSUME Core, [NmNext]_nmVars PROVE Core'
  OBVIOUS
<1> USE NameParams DEF Core
<1>1. CASE Change
  <2>1. NmTypeOK'
    <3>1. run' \in Run
      <4>1. PICK p \in Plain, seen \in BOOLEAN :
              run' = [run EXCEPT !.calm = FALSE,
                                 !.todo = IF ~seen THEN @ ELSE IF p \in tree THEN @ \ {p} ELSE @ \cup {p}]
        BY <1>1 DEF Change
      <4>2. PICK S \in SUBSET (Plain \cup Cipher) : run' = [run EXCEPT !.calm = FALSE, !.todo = S]
        BY <4>1 DEF NmTypeOK, Run
      <4> QED
        BY <4>2 DEF NmTypeOK, Run
    <3>2. {mapFile', encMap'} \subseteq MapFile
      BY <1>1, EmptyMap DEF Change, NmTypeOK, MapFile, Phases, MapsMirror
    <3>3. DOMAIN names' \subseteq Plain /\ names' \in [DOMAIN names' -> Entry]
      BY <1>1, EmptyMap DEF Change, NmTypeOK, Entry, Phases, MapsMirror, MapFile
    <3>4. DOMAIN reverse' \subseteq Cipher /\ reverse' \in [DOMAIN reverse' -> Plain]
      BY <1>1, EmptyMap DEF Change, NmTypeOK, Entry, Phases, MapsMirror, MapFile
    <3>5. enc' \in [Cipher -> Plain \cup {None}] /\ rest' \in [Plain -> Plain \cup {None}]
      BY <1>1, EmptyMap DEF Change, NmTypeOK, Phases, Entry
    <3>6. tree' \subseteq Plain /\ windows' \in BOOLEAN /\ unclean' \in BOOLEAN
      BY <1>1, EmptyMap DEF Change, NmTypeOK
    <3>7. changes' \in 0..MaxChanges /\ faults' \in 0..MaxFaults
      BY <1>1, EmptyMap DEF Change, NmTypeOK
    <3> QED
      BY <3>1, <3>2, <3>3, <3>4, <3>5, <3>6, <3>7 DEF NmTypeOK
  <2>2. Phases'
    BY <1>1, EmptyMap DEF Change, NmTypeOK, Phases, Run, MapsMirror, MapFile
  <2>3. UnderOwnName'
    BY <1>1, EmptyMap DEF Change, NmTypeOK, Phases, UnderOwnName
  <2>4. MapsMirror'
    BY <1>1, EmptyMap DEF Change, NmTypeOK, Phases, UnderOwnName, MapsMirror, Run
  <2> QED
    BY <2>1, <2>2, <2>3, <2>4
<1>2. CASE Kill
  <2>1. NmTypeOK'
    <3>1. run' \in Run
      BY <1>2, EmptyMap DEF Kill, Exit, NmTypeOK, Run, Phases, MapFile
    <3>2. {mapFile', encMap'} \subseteq MapFile
      BY <1>2, EmptyMap DEF Kill, Exit, NmTypeOK, MapFile, Phases, MapsMirror
    <3>3. DOMAIN names' \subseteq Plain /\ names' \in [DOMAIN names' -> Entry]
      BY <1>2, EmptyMap DEF Kill, Exit, NmTypeOK, Entry, Phases, MapsMirror, MapFile
    <3>4. DOMAIN reverse' \subseteq Cipher /\ reverse' \in [DOMAIN reverse' -> Plain]
      BY <1>2, EmptyMap DEF Kill, Exit, NmTypeOK, Entry, Phases, MapsMirror, MapFile
    <3>5. enc' \in [Cipher -> Plain \cup {None}] /\ rest' \in [Plain -> Plain \cup {None}]
      BY <1>2, EmptyMap DEF Kill, Exit, NmTypeOK, Phases, Entry
    <3>6. tree' \subseteq Plain /\ windows' \in BOOLEAN /\ unclean' \in BOOLEAN
      BY <1>2, EmptyMap DEF Kill, Exit, NmTypeOK
    <3>7. changes' \in 0..MaxChanges /\ faults' \in 0..MaxFaults
      BY <1>2, EmptyMap DEF Kill, Exit, NmTypeOK
    <3> QED
      BY <3>1, <3>2, <3>3, <3>4, <3>5, <3>6, <3>7 DEF NmTypeOK
  <2>2. Phases'
    BY <1>2, EmptyMap DEF Kill, Exit, NmTypeOK, Phases, Run, MapsMirror, MapFile
  <2>3. UnderOwnName'
    BY <1>2, EmptyMap DEF Kill, Exit, NmTypeOK, Phases, UnderOwnName
  <2>4. MapsMirror'
    BY <1>2, EmptyMap DEF Kill, Exit, NmTypeOK, Phases, UnderOwnName, MapsMirror, Run
  <2> QED
    BY <2>1, <2>2, <2>3, <2>4
<1>3. CASE StartEncrypt
  <2>1. NmTypeOK'
    BY <1>3, EmptyMap DEF StartEncrypt, Started, PlainNames, EntryOf, Readable, NmTypeOK, Run, MapFile, Entry
  <2>2. Phases'
    BY <1>3, EmptyMap DEF StartEncrypt, Started, PlainNames, EntryOf, Readable, NmTypeOK, Phases, Run, MapsMirror, MapFile
  <2>3. UnderOwnName'
    BY <1>3, EmptyMap DEF StartEncrypt, Started, PlainNames, EntryOf, Readable, NmTypeOK, Phases, UnderOwnName
  <2>4. MapsMirror'
    <3>1. mapFile \in MapFile /\ Readable(mapFile)
      BY <1>3 DEF StartEncrypt, NmTypeOK
    <3>2. ASSUME NEW p \in DOMAIN names'
          PROVE  /\ names'[p] \in mapFile.recs /\ names'[p].plain = p
                 /\ names'[p].cipher \in DOMAIN reverse' /\ reverse'[names'[p].cipher] = p
      <4>1. names'[p] \in mapFile.recs /\ names'[p].plain = p
        BY <1>3, <3>1, EntryOfMap DEF StartEncrypt
      <4>2. names'[p].cipher \in DOMAIN reverse'
        <5>1. DOMAIN reverse' = {e.cipher : e \in mapFile.recs}
          BY <1>3, <3>1, PlainOfMap DEF StartEncrypt
        <5> QED
          BY <4>1, <5>1
      <4>3. NewEntry(reverse'[names'[p].cipher], names'[p].cipher) \in mapFile.recs
        BY <1>3, <3>1, <4>2, PlainOfMap DEF StartEncrypt
      <4> QED
        BY <3>1, <4>1, <4>2, <4>3 DEF Readable, NewEntry
    <3>3. ASSUME NEW n \in DOMAIN reverse'
          PROVE  reverse'[n] \in DOMAIN names' /\ names'[reverse'[n]].cipher = n
      <4>1. NewEntry(reverse'[n], n) \in mapFile.recs
        BY <1>3, <3>1, PlainOfMap DEF StartEncrypt
      <4>2. reverse'[n] \in DOMAIN names'
        BY <1>3, <4>1 DEF StartEncrypt, NewEntry
      <4>3. names'[reverse'[n]] \in mapFile.recs /\ names'[reverse'[n]].plain = reverse'[n]
        BY <3>2, <4>2
      <4> QED
        BY <3>1, <4>1, <4>2, <4>3 DEF Readable, NewEntry
    <3> QED
      BY <3>2, <3>3 DEF MapsMirror
  <2> QED
    BY <2>1, <2>2, <2>3, <2>4
<1>4. CASE MapRefused
  <2>1. NmTypeOK'
    <3>1. run' \in Run
      BY <1>4, EmptyMap, ZenonT(60) DEF MapRefused, Started, NmTypeOK, Run, Phases, MapFile
    <3>2. {mapFile', encMap'} \subseteq MapFile
      BY <1>4, EmptyMap DEF MapRefused, Started, NmTypeOK, MapFile, Phases, MapsMirror
    <3>3. DOMAIN names' \subseteq Plain /\ names' \in [DOMAIN names' -> Entry]
      BY <1>4, EmptyMap DEF MapRefused, Started, NmTypeOK, Entry, Phases, MapsMirror, MapFile
    <3>4. DOMAIN reverse' \subseteq Cipher /\ reverse' \in [DOMAIN reverse' -> Plain]
      BY <1>4, EmptyMap DEF MapRefused, Started, NmTypeOK, Entry, Phases, MapsMirror, MapFile
    <3>5. enc' \in [Cipher -> Plain \cup {None}] /\ rest' \in [Plain -> Plain \cup {None}]
      BY <1>4, EmptyMap DEF MapRefused, Started, NmTypeOK, Phases, Entry
    <3>6. tree' \subseteq Plain /\ windows' \in BOOLEAN /\ unclean' \in BOOLEAN
      BY <1>4, EmptyMap DEF MapRefused, Started, NmTypeOK
    <3>7. changes' \in 0..MaxChanges /\ faults' \in 0..MaxFaults
      BY <1>4, EmptyMap DEF MapRefused, Started, NmTypeOK
    <3> QED
      BY <3>1, <3>2, <3>3, <3>4, <3>5, <3>6, <3>7 DEF NmTypeOK
  <2>2. Phases'
    BY <1>4, EmptyMap DEF MapRefused, Started, NmTypeOK, Phases, Run, MapsMirror, MapFile
  <2>3. UnderOwnName'
    BY <1>4, EmptyMap DEF MapRefused, Started, NmTypeOK, Phases, UnderOwnName
  <2>4. MapsMirror'
    BY <1>4, EmptyMap DEF MapRefused, Started, NmTypeOK, Phases, UnderOwnName, MapsMirror, Run
  <2> QED
    BY <2>1, <2>2, <2>3, <2>4
<1>5. CASE ScanFailed
  <2>1. NmTypeOK'
    BY <1>5, EmptyMap DEF ScanFailed, Exit, NmTypeOK, Run, MapFile, Entry
  <2>2. Phases'
    BY <1>5, EmptyMap DEF ScanFailed, Exit, NmTypeOK, Phases, Run, MapsMirror, MapFile
  <2>3. UnderOwnName'
    BY <1>5, EmptyMap DEF ScanFailed, Exit, NmTypeOK, Phases, UnderOwnName
  <2>4. MapsMirror'
    BY <1>5, EmptyMap DEF ScanFailed, Exit, NmTypeOK, Phases, UnderOwnName, MapsMirror, Run
  <2> QED
    BY <2>1, <2>2, <2>3, <2>4
<1>6. CASE ScanDone
  <2>1. NmTypeOK'
    <3>1. run' \in Run
      <4>1. DOMAIN names \subseteq Plain /\ DOMAIN reverse \subseteq Cipher /\ run \in Run
        BY DEF NmTypeOK
      <4>2. run' = [run EXCEPT !.at = "delete", !.todo = DOMAIN names]
              \/ run' = [run EXCEPT !.at = "write", !.todo = DOMAIN reverse]
        BY <1>6 DEF ScanDone, InMap, BeginWrite
      <4> QED
        BY <4>1, <4>2, ZenonT(60) DEF Run
    <3>2. {mapFile', encMap'} \subseteq MapFile
      <4>1. mapFile' = mapFile \/ mapFile' = [there |-> TRUE, recs |-> {}, torn |-> FALSE]
        BY <1>6 DEF ScanDone, BeginWrite
      <4>2. mapFile \in MapFile /\ encMap \in MapFile /\ encMap' = encMap
        BY <1>6 DEF ScanDone, NmTypeOK
      <4>3. [there |-> TRUE, recs |-> {}, torn |-> FALSE] \in MapFile
        BY DEF MapFile
      <4> QED
        BY <4>1, <4>2, <4>3
    <3>3. DOMAIN names' \subseteq Plain /\ names' \in [DOMAIN names' -> Entry]
      BY <1>6, EmptyMap DEF ScanDone, InMap, BeginWrite, NmTypeOK, Entry, Phases, MapsMirror, MapFile
    <3>4. DOMAIN reverse' \subseteq Cipher /\ reverse' \in [DOMAIN reverse' -> Plain]
      BY <1>6, EmptyMap DEF ScanDone, InMap, BeginWrite, NmTypeOK, Entry, Phases, MapsMirror, MapFile
    <3>5. enc' \in [Cipher -> Plain \cup {None}] /\ rest' \in [Plain -> Plain \cup {None}]
      BY <1>6, EmptyMap DEF ScanDone, InMap, BeginWrite, NmTypeOK, Phases, Entry
    <3>6. tree' \subseteq Plain /\ windows' \in BOOLEAN /\ unclean' \in BOOLEAN
      BY <1>6, EmptyMap DEF ScanDone, InMap, BeginWrite, NmTypeOK
    <3>7. changes' \in 0..MaxChanges /\ faults' \in 0..MaxFaults
      BY <1>6, EmptyMap DEF ScanDone, InMap, BeginWrite, NmTypeOK
    <3> QED
      BY <3>1, <3>2, <3>3, <3>4, <3>5, <3>6, <3>7 DEF NmTypeOK
  <2>2. Phases'
    <3>1. CASE run.opt.del
      BY <1>6, <3>1, ZenonT(60) DEF ScanDone, InMap, Phases, NmTypeOK, Run
    <3>2. CASE ~run.opt.del
      <4>1. /\ run' = [run EXCEPT !.at = "write", !.todo = DOMAIN reverse]
            /\ mapFile' = [there |-> TRUE, recs |-> {}, torn |-> FALSE]
            /\ UNCHANGED <<names, reverse, encMap>>
        BY <1>6, <3>2 DEF ScanDone, BeginWrite
      <4>2. run'.at = "write" /\ run'.op = "enc" /\ run'.todo = DOMAIN reverse' /\ run'.result = run.result
        BY <1>6, <4>1 DEF ScanDone, NmTypeOK, Run
      <4> QED
        BY <1>6, <4>1, <4>2 DEF ScanDone, Phases
    <3> QED
      BY <3>1, <3>2
  <2>3. UnderOwnName'
    BY <1>6, EmptyMap DEF ScanDone, InMap, BeginWrite, NmTypeOK, Phases, UnderOwnName
  <2>4. MapsMirror'
    BY <1>6, EmptyMap DEF ScanDone, InMap, BeginWrite, NmTypeOK, Phases, UnderOwnName, MapsMirror, Run
  <2> QED
    BY <2>1, <2>2, <2>3, <2>4
<1>7. CASE DeleteDone
  <2>1. NmTypeOK'
    <3>1. run' \in Run
      BY <1>7, EmptyMap DEF DeleteDone, BeginWrite, NmTypeOK, Run, Phases, MapFile
    <3>2. {mapFile', encMap'} \subseteq MapFile
      BY <1>7, EmptyMap DEF DeleteDone, BeginWrite, NmTypeOK, MapFile, Phases, MapsMirror
    <3>3. DOMAIN names' \subseteq Plain /\ names' \in [DOMAIN names' -> Entry]
      BY <1>7, EmptyMap DEF DeleteDone, BeginWrite, NmTypeOK, Entry, Phases, MapsMirror, MapFile
    <3>4. DOMAIN reverse' \subseteq Cipher /\ reverse' \in [DOMAIN reverse' -> Plain]
      BY <1>7, EmptyMap DEF DeleteDone, BeginWrite, NmTypeOK, Entry, Phases, MapsMirror, MapFile
    <3>5. enc' \in [Cipher -> Plain \cup {None}] /\ rest' \in [Plain -> Plain \cup {None}]
      BY <1>7, EmptyMap DEF DeleteDone, BeginWrite, NmTypeOK, Phases, Entry
    <3>6. tree' \subseteq Plain /\ windows' \in BOOLEAN /\ unclean' \in BOOLEAN
      BY <1>7, EmptyMap DEF DeleteDone, BeginWrite, NmTypeOK
    <3>7. changes' \in 0..MaxChanges /\ faults' \in 0..MaxFaults
      BY <1>7, EmptyMap DEF DeleteDone, BeginWrite, NmTypeOK
    <3> QED
      BY <3>1, <3>2, <3>3, <3>4, <3>5, <3>6, <3>7 DEF NmTypeOK
  <2>2. Phases'
    BY <1>7, EmptyMap DEF DeleteDone, BeginWrite, NmTypeOK, Phases, Run, MapsMirror, MapFile
  <2>3. UnderOwnName'
    BY <1>7, EmptyMap DEF DeleteDone, BeginWrite, NmTypeOK, Phases, UnderOwnName
  <2>4. MapsMirror'
    BY <1>7, EmptyMap DEF DeleteDone, BeginWrite, NmTypeOK, Phases, UnderOwnName, MapsMirror, Run
  <2> QED
    BY <2>1, <2>2, <2>3, <2>4
<1>8. CASE WriteFails
  <2>1. NmTypeOK'
    <3>1. run' \in Run
      BY <1>8, EmptyMap DEF WriteFails, Exit, NmTypeOK, Run, Phases, MapFile
    <3>2. {mapFile', encMap'} \subseteq MapFile
      BY <1>8, EmptyMap DEF WriteFails, Exit, NmTypeOK, MapFile, Phases, MapsMirror
    <3>3. DOMAIN names' \subseteq Plain /\ names' \in [DOMAIN names' -> Entry]
      BY <1>8, EmptyMap DEF WriteFails, Exit, NmTypeOK, Entry, Phases, MapsMirror, MapFile
    <3>4. DOMAIN reverse' \subseteq Cipher /\ reverse' \in [DOMAIN reverse' -> Plain]
      BY <1>8, EmptyMap DEF WriteFails, Exit, NmTypeOK, Entry, Phases, MapsMirror, MapFile
    <3>5. enc' \in [Cipher -> Plain \cup {None}] /\ rest' \in [Plain -> Plain \cup {None}]
      BY <1>8, EmptyMap DEF WriteFails, Exit, NmTypeOK, Phases, Entry
    <3>6. tree' \subseteq Plain /\ windows' \in BOOLEAN /\ unclean' \in BOOLEAN
      BY <1>8, EmptyMap DEF WriteFails, Exit, NmTypeOK
    <3>7. changes' \in 0..MaxChanges /\ faults' \in 0..MaxFaults
      BY <1>8, EmptyMap DEF WriteFails, Exit, NmTypeOK
    <3> QED
      BY <3>1, <3>2, <3>3, <3>4, <3>5, <3>6, <3>7 DEF NmTypeOK
  <2>2. Phases'
    BY <1>8, EmptyMap DEF WriteFails, Exit, NmTypeOK, Phases, Run, MapsMirror, MapFile
  <2>3. UnderOwnName'
    BY <1>8, EmptyMap DEF WriteFails, Exit, NmTypeOK, Phases, UnderOwnName
  <2>4. MapsMirror'
    BY <1>8, EmptyMap DEF WriteFails, Exit, NmTypeOK, Phases, UnderOwnName, MapsMirror, Run
  <2> QED
    BY <2>1, <2>2, <2>3, <2>4
<1>9. CASE WriteDone
  <2>1. NmTypeOK'
    BY <1>9, EmptyMap DEF WriteDone, NmTypeOK, Run, MapFile, Entry
  <2>2. Phases'
    BY <1>9, EmptyMap DEF WriteDone, NmTypeOK, Phases, Run, MapsMirror, MapFile
  <2>3. UnderOwnName'
    BY <1>9, EmptyMap DEF WriteDone, NmTypeOK, Phases, UnderOwnName
  <2>4. MapsMirror'
    BY <1>9, EmptyMap DEF WriteDone, NmTypeOK, Phases, UnderOwnName, MapsMirror, Run
  <2> QED
    BY <2>1, <2>2, <2>3, <2>4
<1>10. CASE EncryptMap
  <2>1. NmTypeOK'
    <3>1. run' \in Run
      BY <1>10, EmptyMap, ZenonT(60) DEF EncryptMap, MapToCopy, Exit, NmTypeOK, Run, Phases, MapFile
    <3>2. {mapFile', encMap'} \subseteq MapFile
      BY <1>10, EmptyMap DEF EncryptMap, MapToCopy, Exit, NmTypeOK, MapFile, Phases, MapsMirror
    <3>3. DOMAIN names' \subseteq Plain /\ names' \in [DOMAIN names' -> Entry]
      BY <1>10, EmptyMap, ZenonT(60) DEF EncryptMap, MapToCopy, Exit, NmTypeOK, Entry, Phases, MapsMirror, MapFile
    <3>4. DOMAIN reverse' \subseteq Cipher /\ reverse' \in [DOMAIN reverse' -> Plain]
      BY <1>10, EmptyMap, ZenonT(60) DEF EncryptMap, MapToCopy, Exit, NmTypeOK, Entry, Phases, MapsMirror, MapFile
    <3>5. enc' \in [Cipher -> Plain \cup {None}] /\ rest' \in [Plain -> Plain \cup {None}]
      BY <1>10, EmptyMap DEF EncryptMap, MapToCopy, Exit, NmTypeOK, Phases, Entry
    <3>6. tree' \subseteq Plain /\ windows' \in BOOLEAN /\ unclean' \in BOOLEAN
      BY <1>10, EmptyMap DEF EncryptMap, MapToCopy, Exit, NmTypeOK
    <3>7. changes' \in 0..MaxChanges /\ faults' \in 0..MaxFaults
      BY <1>10, EmptyMap DEF EncryptMap, MapToCopy, Exit, NmTypeOK
    <3> QED
      BY <3>1, <3>2, <3>3, <3>4, <3>5, <3>6, <3>7 DEF NmTypeOK
  <2>2. Phases'
    BY <1>10, EmptyMap DEF EncryptMap, MapToCopy, Exit, NmTypeOK, Phases, Run, MapsMirror, MapFile
  <2>3. UnderOwnName'
    BY <1>10, EmptyMap DEF EncryptMap, MapToCopy, Exit, NmTypeOK, Phases, UnderOwnName
  <2>4. MapsMirror'
    BY <1>10, EmptyMap DEF EncryptMap, MapToCopy, Exit, NmTypeOK, Phases, UnderOwnName, MapsMirror, Run
  <2> QED
    BY <2>1, <2>2, <2>3, <2>4
<1>11. CASE StartDecrypt
  <2>1. NmTypeOK'
    <3>1. run' \in Run
      <4>1. mapFile.recs \subseteq Entry /\ {n \in Cipher : enc[n] # None} \subseteq Cipher /\ run.opt \in Opts
        BY DEF NmTypeOK, MapFile, Run
      <4>2. \/ run' = Started("dec", run.opt, "unname", {n \in Cipher : enc[n] # None})
            \/ run' = [Started("dec", run.opt, "idle", {}) EXCEPT !.result = "error"]
        BY <1>11 DEF StartDecrypt
      <4> QED
        <5>1. PICK S \in SUBSET Cipher : S = {n \in Cipher : enc[n] # None}
          BY <4>1
        <5>2. CASE run' = Started("dec", run.opt, "unname", S)
          BY <4>1, <5>2 DEF Started, Run
        <5>3. CASE run' = [Started("dec", run.opt, "idle", {}) EXCEPT !.result = "error"]
          BY <4>1, <5>3 DEF Started, Run
        <5> QED
          BY <4>2, <5>1, <5>2, <5>3
    <3>2. {mapFile', encMap'} \subseteq MapFile
      BY <1>11, EmptyMap DEF StartDecrypt, Started, PlainNames, ReadableByCipher, NmTypeOK, MapFile, Phases, MapsMirror
    <3>3. DOMAIN names' \subseteq Plain /\ names' \in [DOMAIN names' -> Entry]
      BY <1>11, EmptyMap DEF StartDecrypt, Started, PlainNames, ReadableByCipher, NmTypeOK, Entry, Phases, MapsMirror, MapFile
    <3>4. DOMAIN reverse' \subseteq Cipher /\ reverse' \in [DOMAIN reverse' -> Plain]
      <4>1. encMap \in MapFile
        BY DEF NmTypeOK
      <4>2. CASE reverse' = PlainNames(encMap)
        <5>1. DOMAIN reverse' = {e.cipher : e \in encMap.recs} /\ reverse' \in [DOMAIN reverse' -> Plain]
          BY <4>1, <4>2, PlainOfMap
        <5> QED
          BY <4>1, <5>1 DEF MapFile, Entry
      <4>3. CASE UNCHANGED reverse
        BY <4>3 DEF NmTypeOK
      <4> QED
        BY <1>11, <4>2, <4>3 DEF StartDecrypt
    <3>5. enc' \in [Cipher -> Plain \cup {None}] /\ rest' \in [Plain -> Plain \cup {None}]
      BY <1>11, EmptyMap DEF StartDecrypt, Started, PlainNames, ReadableByCipher, NmTypeOK, Phases, Entry
    <3>6. tree' \subseteq Plain /\ windows' \in BOOLEAN /\ unclean' \in BOOLEAN
      BY <1>11, EmptyMap DEF StartDecrypt, Started, PlainNames, ReadableByCipher, NmTypeOK
    <3>7. changes' \in 0..MaxChanges /\ faults' \in 0..MaxFaults
      BY <1>11, EmptyMap DEF StartDecrypt, Started, PlainNames, ReadableByCipher, NmTypeOK
    <3> QED
      BY <3>1, <3>2, <3>3, <3>4, <3>5, <3>6, <3>7 DEF NmTypeOK
  <2>2. Phases'
    BY <1>11, EmptyMap DEF StartDecrypt, Started, PlainNames, ReadableByCipher, NmTypeOK, Phases, Run, MapsMirror, MapFile
  <2>3. UnderOwnName'
    BY <1>11, EmptyMap DEF StartDecrypt, Started, PlainNames, ReadableByCipher, NmTypeOK, Phases, UnderOwnName
  <2>4. MapsMirror'
    BY <1>11, EmptyMap DEF StartDecrypt, Started, PlainNames, ReadableByCipher, NmTypeOK, Phases, UnderOwnName, MapsMirror, Run
  <2> QED
    BY <2>1, <2>2, <2>3, <2>4
<1>12. CASE NothingToDecrypt
  <2>1. NmTypeOK'
    BY <1>12, EmptyMap DEF NothingToDecrypt, Started, NmTypeOK, Run, MapFile, Entry
  <2>2. Phases'
    BY <1>12, EmptyMap DEF NothingToDecrypt, Started, NmTypeOK, Phases, Run, MapsMirror, MapFile
  <2>3. UnderOwnName'
    BY <1>12, EmptyMap DEF NothingToDecrypt, Started, NmTypeOK, Phases, UnderOwnName
  <2>4. MapsMirror'
    BY <1>12, EmptyMap DEF NothingToDecrypt, Started, NmTypeOK, Phases, UnderOwnName, MapsMirror, Run
  <2> QED
    BY <2>1, <2>2, <2>3, <2>4
<1>13. CASE UnnameDone
  <2>1. NmTypeOK'
    BY <1>13, EmptyMap DEF UnnameDone, Exit, NmTypeOK, Run, MapFile, Entry
  <2>2. Phases'
    BY <1>13, EmptyMap DEF UnnameDone, Exit, NmTypeOK, Phases, Run, MapsMirror, MapFile
  <2>3. UnderOwnName'
    BY <1>13, EmptyMap DEF UnnameDone, Exit, NmTypeOK, Phases, UnderOwnName
  <2>4. MapsMirror'
    BY <1>13, EmptyMap DEF UnnameDone, Exit, NmTypeOK, Phases, UnderOwnName, MapsMirror, Run
  <2> QED
    BY <2>1, <2>2, <2>3, <2>4
<1>14. ASSUME NEW p \in Plain, Visit(p) PROVE Core'
  <2>1. NmTypeOK'
    <3>1. run' \in Run
      <4>1. run \in Run /\ Did(run, run', p)
        BY <1>14 DEF Visit, Did, NmTypeOK
      <4> QED
        BY <4>1, LessToDo
    <3>2. {mapFile', encMap'} \subseteq MapFile
      BY <1>14, EmptyMap DEF Visit, NameFor, Named, NewEntry, Drawn, Unused, NmTypeOK, MapFile, Phases, MapsMirror
    <3>3. DOMAIN names' \subseteq Plain /\ names' \in [DOMAIN names' -> Entry]
      BY <1>14, EmptyMap DEF Visit, NameFor, Named, NewEntry, Drawn, Unused, NmTypeOK, Entry, Phases, MapsMirror, MapFile
    <3>4. DOMAIN reverse' \subseteq Cipher /\ reverse' \in [DOMAIN reverse' -> Plain]
      <4>1. PICK n \in Cipher : UNCHANGED reverse
              \/ reverse' = [c \in DOMAIN reverse \cup {n} |-> IF c = n THEN p ELSE reverse[c]]
        BY <1>14 DEF Visit, NameFor, Named
      <4> QED
        BY <4>1 DEF NmTypeOK
    <3>5. enc' \in [Cipher -> Plain \cup {None}] /\ rest' \in [Plain -> Plain \cup {None}]
      BY <1>14, EmptyMap DEF Visit, NameFor, Named, NewEntry, Drawn, Unused, NmTypeOK, Phases, Entry
    <3>6. tree' \subseteq Plain /\ windows' \in BOOLEAN /\ unclean' \in BOOLEAN
      BY <1>14, EmptyMap DEF Visit, NameFor, Named, NewEntry, Drawn, Unused, NmTypeOK
    <3>7. changes' \in 0..MaxChanges /\ faults' \in 0..MaxFaults
      BY <1>14, EmptyMap DEF Visit, NameFor, Named, NewEntry, Drawn, Unused, NmTypeOK
    <3> QED
      BY <3>1, <3>2, <3>3, <3>4, <3>5, <3>6, <3>7 DEF NmTypeOK
  <2>2. Phases'
    <3>1. run \in Run /\ Did(run, run', p)
      BY <1>14 DEF Visit, Did, NmTypeOK
    <3>2. run'.at = run.at /\ run'.op = run.op /\ run'.result = run.result /\ run'.todo = run.todo \ {p}
      BY <3>1, LessToDo
    <3> QED
      BY <1>14, <3>2 DEF Visit, Phases
  <2>3. UnderOwnName'
    BY <1>14, EmptyMap DEF Visit, NameFor, Named, NewEntry, Drawn, Unused, NmTypeOK, Phases, UnderOwnName
  <2>4. MapsMirror'
    BY <1>14, EmptyMap DEF Visit, NameFor, Named, NewEntry, Drawn, Unused, NmTypeOK, Phases, UnderOwnName, MapsMirror, Run
  <2> QED
    BY <2>1, <2>2, <2>3, <2>4
<1>15. ASSUME NEW p \in Plain, Vanished(p) PROVE Core'
  <2>1. NmTypeOK'
    BY <1>15, EmptyMap DEF Vanished, NmTypeOK, Run, MapFile, Entry
  <2>2. Phases'
    BY <1>15, EmptyMap DEF Vanished, NmTypeOK, Phases, Run, MapsMirror, MapFile
  <2>3. UnderOwnName'
    BY <1>15, EmptyMap DEF Vanished, NmTypeOK, Phases, UnderOwnName
  <2>4. MapsMirror'
    BY <1>15, EmptyMap DEF Vanished, NmTypeOK, Phases, UnderOwnName, MapsMirror, Run
  <2> QED
    BY <2>1, <2>2, <2>3, <2>4
<1>16. ASSUME NEW p \in Plain, NoNameFound(p) PROVE Core'
  <2>1. NmTypeOK'
    <3>1. run' \in Run
      BY <1>16, EmptyMap DEF NoNameFound, NmTypeOK, Run, Phases, MapFile
    <3>2. {mapFile', encMap'} \subseteq MapFile
      BY <1>16, EmptyMap DEF NoNameFound, NmTypeOK, MapFile, Phases, MapsMirror
    <3>3. DOMAIN names' \subseteq Plain /\ names' \in [DOMAIN names' -> Entry]
      BY <1>16, EmptyMap DEF NoNameFound, NmTypeOK, Entry, Phases, MapsMirror, MapFile
    <3>4. DOMAIN reverse' \subseteq Cipher /\ reverse' \in [DOMAIN reverse' -> Plain]
      BY <1>16, EmptyMap DEF NoNameFound, NmTypeOK, Entry, Phases, MapsMirror, MapFile
    <3>5. enc' \in [Cipher -> Plain \cup {None}] /\ rest' \in [Plain -> Plain \cup {None}]
      BY <1>16, EmptyMap DEF NoNameFound, NmTypeOK, Phases, Entry
    <3>6. tree' \subseteq Plain /\ windows' \in BOOLEAN /\ unclean' \in BOOLEAN
      BY <1>16, EmptyMap DEF NoNameFound, NmTypeOK
    <3>7. changes' \in 0..MaxChanges /\ faults' \in 0..MaxFaults
      BY <1>16, EmptyMap DEF NoNameFound, NmTypeOK
    <3> QED
      BY <3>1, <3>2, <3>3, <3>4, <3>5, <3>6, <3>7 DEF NmTypeOK
  <2>2. Phases'
    BY <1>16, EmptyMap DEF NoNameFound, NmTypeOK, Phases, Run, MapsMirror, MapFile
  <2>3. UnderOwnName'
    BY <1>16, EmptyMap DEF NoNameFound, NmTypeOK, Phases, UnderOwnName
  <2>4. MapsMirror'
    BY <1>16, EmptyMap DEF NoNameFound, NmTypeOK, Phases, UnderOwnName, MapsMirror, Run
  <2> QED
    BY <2>1, <2>2, <2>3, <2>4
<1>17. ASSUME NEW p \in Plain, StillThere(p) PROVE Core'
  <2>1. NmTypeOK'
    BY <1>17, EmptyMap DEF StillThere, Over, NmTypeOK, Run, MapFile, Entry
  <2>2. Phases'
    BY <1>17, EmptyMap DEF StillThere, Over, NmTypeOK, Phases, Run, MapsMirror, MapFile
  <2>3. UnderOwnName'
    BY <1>17, EmptyMap DEF StillThere, Over, NmTypeOK, Phases, UnderOwnName
  <2>4. MapsMirror'
    BY <1>17, EmptyMap DEF StillThere, Over, NmTypeOK, Phases, UnderOwnName, MapsMirror, Run
  <2> QED
    BY <2>1, <2>2, <2>3, <2>4
<1>18. ASSUME NEW p \in Plain, Delete(p) PROVE Core'
  <2>1. NmTypeOK'
    <3>1. run' \in Run
      BY <1>18, EmptyMap DEF Delete, Erased, ErasesName, Over, Restrict, NmTypeOK, Run, Phases, MapFile
    <3>2. {mapFile', encMap'} \subseteq MapFile
      BY <1>18, EmptyMap DEF Delete, Erased, ErasesName, Over, Restrict, NmTypeOK, MapFile, Phases, MapsMirror
    <3>3. DOMAIN names' \subseteq Plain /\ names' \in [DOMAIN names' -> Entry]
      BY <1>18, EmptyMap DEF Delete, Erased, ErasesName, Over, Restrict, NmTypeOK, Entry, Phases, MapsMirror, MapFile
    <3>4. DOMAIN reverse' \subseteq Cipher /\ reverse' \in [DOMAIN reverse' -> Plain]
      BY <1>18, EmptyMap DEF Delete, Erased, ErasesName, Over, Restrict, NmTypeOK, Entry, Phases, MapsMirror, MapFile
    <3>5. enc' \in [Cipher -> Plain \cup {None}] /\ rest' \in [Plain -> Plain \cup {None}]
      BY <1>18, EmptyMap DEF Delete, Erased, ErasesName, Over, Restrict, NmTypeOK, Phases, Entry
    <3>6. tree' \subseteq Plain /\ windows' \in BOOLEAN /\ unclean' \in BOOLEAN
      BY <1>18, EmptyMap DEF Delete, Erased, ErasesName, Over, Restrict, NmTypeOK
    <3>7. changes' \in 0..MaxChanges /\ faults' \in 0..MaxFaults
      BY <1>18, EmptyMap DEF Delete, Erased, ErasesName, Over, Restrict, NmTypeOK
    <3> QED
      BY <3>1, <3>2, <3>3, <3>4, <3>5, <3>6, <3>7 DEF NmTypeOK
  <2>2. Phases'
    BY <1>18, EmptyMap DEF Delete, Erased, ErasesName, Over, Restrict, NmTypeOK, Phases, Run, MapsMirror, MapFile
  <2>3. UnderOwnName'
    BY <1>18, EmptyMap DEF Delete, Erased, ErasesName, Over, Restrict, NmTypeOK, Phases, UnderOwnName
  <2>4. MapsMirror'
    BY <1>18, EmptyMap DEF Delete, Erased, ErasesName, Over, Restrict, NmTypeOK, Phases, UnderOwnName, MapsMirror, Run
  <2> QED
    BY <2>1, <2>2, <2>3, <2>4
<1>19. ASSUME NEW p \in Plain, DeleteFails(p) PROVE Core'
  <2>1. NmTypeOK'
    <3>1. run' \in Run
      BY <1>19, EmptyMap DEF DeleteFails, Exit, NmTypeOK, Run, Phases, MapFile
    <3>2. {mapFile', encMap'} \subseteq MapFile
      BY <1>19, EmptyMap DEF DeleteFails, Exit, NmTypeOK, MapFile, Phases, MapsMirror
    <3>3. DOMAIN names' \subseteq Plain /\ names' \in [DOMAIN names' -> Entry]
      BY <1>19, EmptyMap DEF DeleteFails, Exit, NmTypeOK, Entry, Phases, MapsMirror, MapFile
    <3>4. DOMAIN reverse' \subseteq Cipher /\ reverse' \in [DOMAIN reverse' -> Plain]
      BY <1>19, EmptyMap DEF DeleteFails, Exit, NmTypeOK, Entry, Phases, MapsMirror, MapFile
    <3>5. enc' \in [Cipher -> Plain \cup {None}] /\ rest' \in [Plain -> Plain \cup {None}]
      BY <1>19, EmptyMap DEF DeleteFails, Exit, NmTypeOK, Phases, Entry
    <3>6. tree' \subseteq Plain /\ windows' \in BOOLEAN /\ unclean' \in BOOLEAN
      BY <1>19, EmptyMap DEF DeleteFails, Exit, NmTypeOK
    <3>7. changes' \in 0..MaxChanges /\ faults' \in 0..MaxFaults
      BY <1>19, EmptyMap DEF DeleteFails, Exit, NmTypeOK
    <3> QED
      BY <3>1, <3>2, <3>3, <3>4, <3>5, <3>6, <3>7 DEF NmTypeOK
  <2>2. Phases'
    BY <1>19, EmptyMap DEF DeleteFails, Exit, NmTypeOK, Phases, Run, MapsMirror, MapFile
  <2>3. UnderOwnName'
    BY <1>19, EmptyMap DEF DeleteFails, Exit, NmTypeOK, Phases, UnderOwnName
  <2>4. MapsMirror'
    BY <1>19, EmptyMap DEF DeleteFails, Exit, NmTypeOK, Phases, UnderOwnName, MapsMirror, Run
  <2> QED
    BY <2>1, <2>2, <2>3, <2>4
<1>20. ASSUME NEW p \in Plain, UnlinkRecurses(p) PROVE Core'
  <2>1. NmTypeOK'
    BY <1>20, EmptyMap DEF UnlinkRecurses, Exit, NmTypeOK, Run, MapFile, Entry
  <2>2. Phases'
    BY <1>20, EmptyMap DEF UnlinkRecurses, Exit, NmTypeOK, Phases, Run, MapsMirror, MapFile
  <2>3. UnderOwnName'
    BY <1>20, EmptyMap DEF UnlinkRecurses, Exit, NmTypeOK, Phases, UnderOwnName
  <2>4. MapsMirror'
    BY <1>20, EmptyMap DEF UnlinkRecurses, Exit, NmTypeOK, Phases, UnderOwnName, MapsMirror, Run
  <2> QED
    BY <2>1, <2>2, <2>3, <2>4
<1>21. ASSUME NEW n \in Cipher, WriteEntry(n) PROVE Core'
  <2>1. NmTypeOK'
    <3>1. run' \in Run
      BY <1>21, EmptyMap DEF WriteEntry, Over, RecordOf, Dummy, NmTypeOK, Run, Phases, MapFile
    <3>2. {mapFile', encMap'} \subseteq MapFile
      BY <1>21, EmptyMap DEF WriteEntry, Over, RecordOf, Dummy, NmTypeOK, MapFile, Phases, MapsMirror
    <3>3. DOMAIN names' \subseteq Plain /\ names' \in [DOMAIN names' -> Entry]
      BY <1>21, EmptyMap DEF WriteEntry, Over, RecordOf, Dummy, NmTypeOK, Entry, Phases, MapsMirror, MapFile
    <3>4. DOMAIN reverse' \subseteq Cipher /\ reverse' \in [DOMAIN reverse' -> Plain]
      BY <1>21, EmptyMap DEF WriteEntry, Over, RecordOf, Dummy, NmTypeOK, Entry, Phases, MapsMirror, MapFile
    <3>5. enc' \in [Cipher -> Plain \cup {None}] /\ rest' \in [Plain -> Plain \cup {None}]
      BY <1>21, EmptyMap DEF WriteEntry, Over, RecordOf, Dummy, NmTypeOK, Phases, Entry
    <3>6. tree' \subseteq Plain /\ windows' \in BOOLEAN /\ unclean' \in BOOLEAN
      BY <1>21, EmptyMap DEF WriteEntry, Over, RecordOf, Dummy, NmTypeOK
    <3>7. changes' \in 0..MaxChanges /\ faults' \in 0..MaxFaults
      BY <1>21, EmptyMap DEF WriteEntry, Over, RecordOf, Dummy, NmTypeOK
    <3> QED
      BY <3>1, <3>2, <3>3, <3>4, <3>5, <3>6, <3>7 DEF NmTypeOK
  <2>2. Phases'
    BY <1>21, EmptyMap DEF WriteEntry, Over, RecordOf, Dummy, NmTypeOK, Phases, Run, MapsMirror, MapFile
  <2>3. UnderOwnName'
    <3>1. reverse[n] \in DOMAIN names
      BY <1>21 DEF WriteEntry, Phases, MapsMirror, NmTypeOK, Run
    <3> QED
      BY <1>21, <3>1 DEF WriteEntry, UnderOwnName, NmTypeOK
  <2>4. MapsMirror'
    BY <1>21, EmptyMap DEF WriteEntry, Over, RecordOf, Dummy, NmTypeOK, Phases, UnderOwnName, MapsMirror, Run
  <2> QED
    BY <2>1, <2>2, <2>3, <2>4
<1>22. ASSUME NEW n \in Cipher, Unname(n) PROVE Core'
  <2>1. NmTypeOK'
    <3>1. run' \in Run
      <4>1. run \in Run /\ Did(run, run', n)
        BY <1>22 DEF Unname, Over, Did, NmTypeOK
      <4> QED
        BY <4>1, LessToDo
    <3>2. {mapFile', encMap'} \subseteq MapFile
      BY <1>22, EmptyMap DEF Unname, Over, NmTypeOK, MapFile, Phases, MapsMirror
    <3>3. DOMAIN names' \subseteq Plain /\ names' \in [DOMAIN names' -> Entry]
      BY <1>22, EmptyMap DEF Unname, Over, NmTypeOK, Entry, Phases, MapsMirror, MapFile
    <3>4. DOMAIN reverse' \subseteq Cipher /\ reverse' \in [DOMAIN reverse' -> Plain]
      BY <1>22, EmptyMap DEF Unname, Over, NmTypeOK, Entry, Phases, MapsMirror, MapFile
    <3>5. enc' \in [Cipher -> Plain \cup {None}] /\ rest' \in [Plain -> Plain \cup {None}]
      BY <1>22, EmptyMap DEF Unname, Over, NmTypeOK, Phases, Entry
    <3>6. tree' \subseteq Plain /\ windows' \in BOOLEAN /\ unclean' \in BOOLEAN
      BY <1>22, EmptyMap DEF Unname, Over, NmTypeOK
    <3>7. changes' \in 0..MaxChanges /\ faults' \in 0..MaxFaults
      BY <1>22, EmptyMap DEF Unname, Over, NmTypeOK
    <3> QED
      BY <3>1, <3>2, <3>3, <3>4, <3>5, <3>6, <3>7 DEF NmTypeOK
  <2>2. Phases'
    <3>1. run \in Run /\ Did(run, run', n)
      BY <1>22 DEF Unname, Over, Did, NmTypeOK
    <3>2. run'.at = run.at /\ run'.op = run.op /\ run'.result = run.result /\ run'.todo = run.todo \ {n}
      BY <3>1, LessToDo
    <3> QED
      BY <1>22, <3>2 DEF Unname, Phases
  <2>3. UnderOwnName'
    BY <1>22, EmptyMap DEF Unname, Over, NmTypeOK, Phases, UnderOwnName
  <2>4. MapsMirror'
    BY <1>22, EmptyMap DEF Unname, Over, NmTypeOK, Phases, UnderOwnName, MapsMirror, Run
  <2> QED
    BY <2>1, <2>2, <2>3, <2>4
<1>23. ASSUME NEW n \in Cipher, NoTranslation(n) PROVE Core'
  <2>1. NmTypeOK'
    BY <1>23, EmptyMap DEF NoTranslation, NmTypeOK, Run, MapFile, Entry
  <2>2. Phases'
    BY <1>23, EmptyMap DEF NoTranslation, NmTypeOK, Phases, Run, MapsMirror, MapFile
  <2>3. UnderOwnName'
    BY <1>23, EmptyMap DEF NoTranslation, NmTypeOK, Phases, UnderOwnName
  <2>4. MapsMirror'
    BY <1>23, EmptyMap DEF NoTranslation, NmTypeOK, Phases, UnderOwnName, MapsMirror, Run
  <2> QED
    BY <2>1, <2>2, <2>3, <2>4
<1>24. CASE UNCHANGED nmVars
  BY <1>24 DEF nmVars, NmTypeOK, Phases, UnderOwnName, MapsMirror
<1> QED
  BY <1>1, <1>2, <1>3, <1>4, <1>5, <1>6, <1>7, <1>8, <1>9, <1>10, <1>11, <1>12, <1>13, <1>14, <1>15, <1>16, <1>17, <1>18, <1>19, <1>20, <1>21, <1>22, <1>23, <1>24 DEF NmNext
-----------------------------------------------------------------------------
(* The second layer: what the maps on the disk and the files say. *)

\* Every record that is anywhere, in memory or on the disk.
Known == mapFile.recs \cup encMap.recs \cup Range(names)

\* No two records, of whatever age, give one cipher name to two files, and the
\* file of that name is the one they say.
Agreed == \A e, f \in Known : e.cipher = f.cipher => e.plain = f.plain

NeverMixed ==
  /\ \A e \in Known : enc[e.cipher] \in {None, e.plain}
  /\ \A p \in Plain : rest[p] \in {None, p}

\* How far write_map is, and what it replaces.
Written ==
  /\ (run.op = "enc" /\ run.at \in {"visit", "delete"}) => mapFile.recs = run.start
  /\ run.at \in {"write", "copy"} => mapFile.recs \subseteq Range(names)
  /\ run.at = "write" => \A n \in DOMAIN reverse \ run.todo : names[reverse[n]] \in mapFile.recs
  /\ run.at = "copy" => Range(names) \subseteq mapFile.recs

\* Decrypting, namemap is the map file's.
FromMapFile ==
  run.op = "dec" =>
    /\ \A n \in DOMAIN reverse : NewEntry(reverse[n], n) \in mapFile.recs
    /\ run.at = "unname" => \A e \in mapFile.recs : e.cipher \in DOMAIN reverse

OnDisk == Agreed /\ NeverMixed /\ MapsReadable /\ Written /\ FromMapFile

LEMMA KnownAreEntries == NmTypeOK => Known \subseteq Entry
BY DEF NmTypeOK, Known, MapFile, Range

\* Forgetting records and removing files mixes nothing.
LEMMA Forgotten ==
  ASSUME NmTypeOK, Agreed, NeverMixed,
         Known' \subseteq Known, \A n \in Cipher : enc'[n] \in {enc[n], None}, UNCHANGED rest
  PROVE  Agreed' /\ NeverMixed'
BY KnownAreEntries DEF Agreed, NeverMixed, Entry

\* What write_map takes from a namemap that mirrors reversemap can be read again.
LEMMA MirroredReadable ==
  ASSUME NEW m, ~m.torn, NEW nm, nm \in [DOMAIN nm -> Entry], m.recs \subseteq Range(nm),
         \A p \in DOMAIN nm : nm[p].plain = p,
         \A p, q \in DOMAIN nm : nm[p].cipher = nm[q].cipher => p = q
  PROVE  Readable(m)
BY NameParams DEF Readable, Range, Entry

LEMMA OnDiskInitially == NmInit => OnDisk
<1> SUFFICES ASSUME NmInit PROVE OnDisk
  OBVIOUS
<1>1. mapFile.recs = {} /\ encMap.recs = {} /\ ~mapFile.torn /\ ~encMap.torn /\ Known = {}
  BY EmptyMap DEF NmInit, NoMap, Known, Range
<1>2. run.at = "idle" /\ run.op = "enc" /\ \A p \in Plain : rest[p] = None
  BY DEF NmInit
<1> QED
  BY <1>1, <1>2 DEF OnDisk, Agreed, NeverMixed, MapsReadable, Readable, Written, FromMapFile

LEMMA OnDiskStep == Core /\ Core' /\ OnDisk /\ [NmNext]_nmVars => OnDisk'
<1> SUFFICES ASSUME Core, Core', OnDisk, [NmNext]_nmVars PROVE OnDisk'
  OBVIOUS
<1> USE NameParams DEF Core, OnDisk
<1>1. CASE Change
  <2>1. Agreed' /\ NeverMixed'
    <3>1. Known' \subseteq Known
      BY <1>1, EmptyMap DEF Change, Known, Range, Phases
    <3>2. UNCHANGED rest /\ \A c \in Cipher : enc'[c] \in {enc[c], None}
      BY <1>1, EmptyMap DEF Change, NmTypeOK, Phases
    <3> QED
      BY <3>1, <3>2, Forgotten
  <2>2. MapsReadable'
    BY <1>1, EmptyMap DEF Change, MapsReadable, Readable, Phases, NmTypeOK
  <2>3. Written'
    BY <1>1, EmptyMap DEF Change, Written, Phases, NmTypeOK, Run, MapsMirror, UnderOwnName
  <2>4. FromMapFile'
    BY <1>1, EmptyMap DEF Change, FromMapFile, Phases, NmTypeOK, Run
  <2> QED
    BY <2>1, <2>2, <2>3, <2>4
<1>2. CASE Kill
  <2>1. Agreed' /\ NeverMixed'
    <3>1. Known' \subseteq Known
      BY <1>2, EmptyMap DEF Kill, Exit, Known, Range, Phases
    <3>2. UNCHANGED rest /\ \A c \in Cipher : enc'[c] \in {enc[c], None}
      BY <1>2, EmptyMap DEF Kill, Exit, NmTypeOK, Phases
    <3> QED
      BY <3>1, <3>2, Forgotten
  <2>2. MapsReadable'
    BY <1>2, EmptyMap DEF Kill, Exit, MapsReadable, Readable, Phases, NmTypeOK
  <2>3. Written'
    BY <1>2, EmptyMap DEF Kill, Exit, Written, Phases, NmTypeOK, Run, MapsMirror, UnderOwnName
  <2>4. FromMapFile'
    BY <1>2, EmptyMap DEF Kill, Exit, FromMapFile, Phases, NmTypeOK, Run
  <2> QED
    BY <2>1, <2>2, <2>3, <2>4
<1>3. CASE StartEncrypt
  <2>1. Agreed' /\ NeverMixed'
    <3>1. Known' \subseteq Known
      BY <1>3, EmptyMap DEF StartEncrypt, Started, EntryOf, Known, Range, Phases
    <3>2. UNCHANGED rest /\ \A c \in Cipher : enc'[c] \in {enc[c], None}
      BY <1>3, EmptyMap DEF StartEncrypt, Started, EntryOf, NmTypeOK, Phases
    <3> QED
      BY <3>1, <3>2, Forgotten
  <2>2. MapsReadable'
    BY <1>3, EmptyMap DEF StartEncrypt, Started, EntryOf, MapsReadable, Readable, Phases, NmTypeOK
  <2>3. Written'
    BY <1>3, EmptyMap DEF StartEncrypt, Started, EntryOf, Written, Phases, NmTypeOK, Run, MapsMirror, UnderOwnName
  <2>4. FromMapFile'
    BY <1>3, EmptyMap DEF StartEncrypt, Started, EntryOf, FromMapFile, Phases, NmTypeOK, Run
  <2> QED
    BY <2>1, <2>2, <2>3, <2>4
<1>4. CASE MapRefused
  <2>1. Agreed' /\ NeverMixed'
    <3>1. Known' \subseteq Known
      BY <1>4, EmptyMap DEF MapRefused, Started, Known, Range, Phases
    <3>2. UNCHANGED rest /\ \A c \in Cipher : enc'[c] \in {enc[c], None}
      BY <1>4, EmptyMap DEF MapRefused, Started, NmTypeOK, Phases
    <3> QED
      BY <3>1, <3>2, Forgotten
  <2>2. MapsReadable'
    BY <1>4, EmptyMap DEF MapRefused, Started, MapsReadable, Readable, Phases, NmTypeOK
  <2>3. Written'
    BY <1>4, EmptyMap DEF MapRefused, Started, Written, Phases, NmTypeOK, Run, MapsMirror, UnderOwnName
  <2>4. FromMapFile'
    BY <1>4, EmptyMap DEF MapRefused, Started, FromMapFile, Phases, NmTypeOK, Run
  <2> QED
    BY <2>1, <2>2, <2>3, <2>4
<1>5. CASE ScanFailed
  <2>1. Agreed' /\ NeverMixed'
    <3>1. Known' \subseteq Known
      BY <1>5, EmptyMap DEF ScanFailed, Exit, Known, Range, Phases
    <3>2. UNCHANGED rest /\ \A c \in Cipher : enc'[c] \in {enc[c], None}
      BY <1>5, EmptyMap DEF ScanFailed, Exit, NmTypeOK, Phases
    <3> QED
      BY <3>1, <3>2, Forgotten
  <2>2. MapsReadable'
    BY <1>5, EmptyMap DEF ScanFailed, Exit, MapsReadable, Readable, Phases, NmTypeOK
  <2>3. Written'
    BY <1>5, EmptyMap DEF ScanFailed, Exit, Written, Phases, NmTypeOK, Run, MapsMirror, UnderOwnName
  <2>4. FromMapFile'
    BY <1>5, EmptyMap DEF ScanFailed, Exit, FromMapFile, Phases, NmTypeOK, Run
  <2> QED
    BY <2>1, <2>2, <2>3, <2>4
<1>6. CASE ScanDone
  <2>1. Agreed' /\ NeverMixed'
    <3>1. Known' \subseteq Known
      BY <1>6, EmptyMap DEF ScanDone, InMap, BeginWrite, Known, Range, Phases
    <3>2. UNCHANGED rest /\ \A c \in Cipher : enc'[c] \in {enc[c], None}
      BY <1>6, EmptyMap DEF ScanDone, InMap, BeginWrite, NmTypeOK, Phases
    <3> QED
      BY <3>1, <3>2, Forgotten
  <2>2. MapsReadable'
    BY <1>6, EmptyMap DEF ScanDone, InMap, BeginWrite, MapsReadable, Readable, Phases, NmTypeOK
  <2>3. Written'
    <3>1. CASE run.opt.del
      BY <1>6, <3>1, ZenonT(60) DEF ScanDone, InMap, Written, NmTypeOK, Run
    <3>2. CASE ~run.opt.del
      <4>1. /\ run' = [run EXCEPT !.at = "write", !.todo = DOMAIN reverse]
            /\ mapFile' = [there |-> TRUE, recs |-> {}, torn |-> FALSE]
            /\ UNCHANGED <<names, reverse>>
        BY <1>6, <3>2 DEF ScanDone, BeginWrite
      <4>2. run'.at = "write" /\ run'.todo = DOMAIN reverse' /\ mapFile'.recs = {}
        BY <4>1 DEF NmTypeOK, Run
      <4> QED
        BY <4>2 DEF Written
    <3> QED
      BY <3>1, <3>2
  <2>4. FromMapFile'
    <3>1. run'.op = "enc"
      BY <1>6, ZenonT(60) DEF ScanDone, BeginWrite, NmTypeOK, Run
    <3> QED
      BY <3>1 DEF FromMapFile
  <2> QED
    BY <2>1, <2>2, <2>3, <2>4
<1>7. CASE DeleteDone
  <2>1. Agreed' /\ NeverMixed'
    <3>1. Known' \subseteq Known
      BY <1>7, EmptyMap DEF DeleteDone, BeginWrite, Known, Range, Phases
    <3>2. UNCHANGED rest /\ \A c \in Cipher : enc'[c] \in {enc[c], None}
      BY <1>7, EmptyMap DEF DeleteDone, BeginWrite, NmTypeOK, Phases
    <3> QED
      BY <3>1, <3>2, Forgotten
  <2>2. MapsReadable'
    BY <1>7, EmptyMap DEF DeleteDone, BeginWrite, MapsReadable, Readable, Phases, NmTypeOK
  <2>3. Written'
    BY <1>7, EmptyMap DEF DeleteDone, BeginWrite, Written, Phases, NmTypeOK, Run, MapsMirror, UnderOwnName
  <2>4. FromMapFile'
    BY <1>7, EmptyMap DEF DeleteDone, BeginWrite, FromMapFile, Phases, NmTypeOK, Run
  <2> QED
    BY <2>1, <2>2, <2>3, <2>4
<1>8. CASE WriteFails
  <2>1. Agreed' /\ NeverMixed'
    <3>1. Known' \subseteq Known
      BY <1>8, EmptyMap DEF WriteFails, Exit, Known, Range, Phases
    <3>2. UNCHANGED rest /\ \A c \in Cipher : enc'[c] \in {enc[c], None}
      BY <1>8, EmptyMap DEF WriteFails, Exit, NmTypeOK, Phases
    <3> QED
      BY <3>1, <3>2, Forgotten
  <2>2. MapsReadable'
    BY <1>8, EmptyMap DEF WriteFails, Exit, MapsReadable, Readable, Phases, NmTypeOK
  <2>3. Written'
    BY <1>8, EmptyMap DEF WriteFails, Exit, Written, Phases, NmTypeOK, Run, MapsMirror, UnderOwnName
  <2>4. FromMapFile'
    BY <1>8, EmptyMap DEF WriteFails, Exit, FromMapFile, Phases, NmTypeOK, Run
  <2> QED
    BY <2>1, <2>2, <2>3, <2>4
<1>9. CASE WriteDone
  <2>1. Agreed' /\ NeverMixed'
    <3>1. Known' \subseteq Known
      BY <1>9, EmptyMap DEF WriteDone, Known, Range, Phases
    <3>2. UNCHANGED rest /\ \A c \in Cipher : enc'[c] \in {enc[c], None}
      BY <1>9, EmptyMap DEF WriteDone, NmTypeOK, Phases
    <3> QED
      BY <3>1, <3>2, Forgotten
  <2>2. MapsReadable'
    BY <1>9, EmptyMap DEF WriteDone, MapsReadable, Readable, Phases, NmTypeOK
  <2>3. Written'
    <3>1. run'.at = "copy" /\ UNCHANGED <<mapFile, names>>
      BY <1>9 DEF WriteDone, NmTypeOK, Run
    <3>2. ASSUME NEW p \in DOMAIN names PROVE names[p] \in mapFile.recs
      <4>1. run.op = "enc"
        BY <1>9 DEF WriteDone, Phases, NmTypeOK, Run
      <4>2. names[p].cipher \in DOMAIN reverse /\ reverse[names[p].cipher] = p
        BY <4>1 DEF MapsMirror
      <4> QED
        BY <1>9, <4>2 DEF WriteDone, Written
    <3>3. Range(names) \subseteq mapFile.recs
      BY <3>2 DEF Range
    <3> QED
      BY <1>9, <3>1, <3>3 DEF WriteDone, Written
  <2>4. FromMapFile'
    BY <1>9, EmptyMap DEF WriteDone, FromMapFile, Phases, NmTypeOK, Run
  <2> QED
    BY <2>1, <2>2, <2>3, <2>4
<1>10. CASE EncryptMap
  <2>1. Agreed' /\ NeverMixed'
    <3>1. Known' \subseteq Known
      BY <1>10, EmptyMap DEF EncryptMap, MapToCopy, Exit, Known, Range, Phases
    <3>2. UNCHANGED rest /\ \A c \in Cipher : enc'[c] \in {enc[c], None}
      BY <1>10, EmptyMap DEF EncryptMap, MapToCopy, Exit, NmTypeOK, Phases
    <3> QED
      BY <3>1, <3>2, Forgotten
  <2>2. MapsReadable'
    BY <1>10, EmptyMap DEF EncryptMap, MapToCopy, Exit, MapsReadable, Readable, Phases, NmTypeOK
  <2>3. Written'
    BY <1>10, EmptyMap DEF EncryptMap, MapToCopy, Exit, Written, Phases, NmTypeOK, Run, MapsMirror, UnderOwnName
  <2>4. FromMapFile'
    BY <1>10, EmptyMap DEF EncryptMap, MapToCopy, Exit, FromMapFile, Phases, NmTypeOK, Run
  <2> QED
    BY <2>1, <2>2, <2>3, <2>4
<1>11. CASE StartDecrypt
  <2>1. Agreed' /\ NeverMixed'
    <3>1. Known' \subseteq Known
      BY <1>11, EmptyMap DEF StartDecrypt, Started, Known, Range, Phases
    <3>2. UNCHANGED rest /\ \A c \in Cipher : enc'[c] \in {enc[c], None}
      BY <1>11, EmptyMap DEF StartDecrypt, Started, NmTypeOK, Phases
    <3> QED
      BY <3>1, <3>2, Forgotten
  <2>2. MapsReadable'
    BY <1>11, EmptyMap DEF StartDecrypt, Started, MapsReadable, Readable, Phases, NmTypeOK
  <2>3. Written'
    BY <1>11, EmptyMap DEF StartDecrypt, Started, Written, Phases, NmTypeOK, Run, MapsMirror, UnderOwnName
  <2>4. FromMapFile'
    <3>1. encMap \in MapFile /\ mapFile' = encMap
      BY <1>11 DEF StartDecrypt, NmTypeOK
    <3>2. CASE ReadableByCipher(encMap)
      <4>1. reverse' = PlainNames(encMap)
        BY <1>11, <3>2 DEF StartDecrypt
      <4>2. \A n \in DOMAIN reverse' : NewEntry(reverse'[n], n) \in mapFile'.recs
        BY <3>1, <4>1, PlainOfMap
      <4>3. \A e \in mapFile'.recs : e.cipher \in DOMAIN reverse'
        <5>1. DOMAIN reverse' = {e.cipher : e \in encMap.recs}
          BY <3>1, <4>1, PlainOfMap
        <5> QED
          BY <3>1, <5>1
      <4> QED
        BY <4>2, <4>3 DEF FromMapFile, NewEntry
    <3>3. CASE ~ReadableByCipher(encMap)
      <4>1. run' = [Started("dec", run.opt, "idle", {}) EXCEPT !.result = "error"] /\ UNCHANGED reverse
        BY <1>11, <3>3 DEF StartDecrypt
      <4>2. run'.at = "idle" /\ DOMAIN reverse' = {}
        BY <1>11, <4>1 DEF Started, StartDecrypt, Phases
      <4> QED
        BY <4>2 DEF FromMapFile
    <3> QED
      BY <3>2, <3>3
  <2> QED
    BY <2>1, <2>2, <2>3, <2>4
<1>12. CASE NothingToDecrypt
  <2>1. Agreed' /\ NeverMixed'
    <3>1. Known' \subseteq Known
      BY <1>12, EmptyMap DEF NothingToDecrypt, Started, Known, Range, Phases
    <3>2. UNCHANGED rest /\ \A c \in Cipher : enc'[c] \in {enc[c], None}
      BY <1>12, EmptyMap DEF NothingToDecrypt, Started, NmTypeOK, Phases
    <3> QED
      BY <3>1, <3>2, Forgotten
  <2>2. MapsReadable'
    BY <1>12, EmptyMap DEF NothingToDecrypt, Started, MapsReadable, Readable, Phases, NmTypeOK
  <2>3. Written'
    BY <1>12, EmptyMap DEF NothingToDecrypt, Started, Written, Phases, NmTypeOK, Run, MapsMirror, UnderOwnName
  <2>4. FromMapFile'
    BY <1>12, EmptyMap DEF NothingToDecrypt, Started, FromMapFile, Phases, NmTypeOK, Run
  <2> QED
    BY <2>1, <2>2, <2>3, <2>4
<1>13. CASE UnnameDone
  <2>1. Agreed' /\ NeverMixed'
    <3>1. Known' \subseteq Known
      BY <1>13, EmptyMap DEF UnnameDone, Exit, Known, Range, Phases
    <3>2. UNCHANGED rest /\ \A c \in Cipher : enc'[c] \in {enc[c], None}
      BY <1>13, EmptyMap DEF UnnameDone, Exit, NmTypeOK, Phases
    <3> QED
      BY <3>1, <3>2, Forgotten
  <2>2. MapsReadable'
    BY <1>13, EmptyMap DEF UnnameDone, Exit, MapsReadable, Readable, Phases, NmTypeOK
  <2>3. Written'
    BY <1>13, EmptyMap DEF UnnameDone, Exit, Written, Phases, NmTypeOK, Run, MapsMirror, UnderOwnName
  <2>4. FromMapFile'
    BY <1>13, EmptyMap DEF UnnameDone, Exit, FromMapFile, Phases, NmTypeOK, Run
  <2> QED
    BY <2>1, <2>2, <2>3, <2>4
<1>14. ASSUME NEW p \in Plain, Visit(p) PROVE OnDisk'
  <2>1. Agreed' /\ NeverMixed'
    <3>1. PICK n \in Cipher : NameFor(p, n) /\ (enc' = [enc EXCEPT ![n] = p] \/ UNCHANGED enc)
      BY <1>14 DEF Visit
    <3>2. UNCHANGED <<mapFile, encMap, rest>> /\ run.op = "enc" /\ names \in [DOMAIN names -> Entry]
          /\ Known \subseteq Entry
      BY <1>14, KnownAreEntries DEF Visit, NmTypeOK
    \* The record of p, which may be a new one, with a name that is nobody's.
    <3>3. /\ \A e \in Known' : e \in Known \/ e = NewEntry(p, n)
          /\ \A e \in Known : e.cipher = n => e.plain = p
          /\ enc[n] \in {None, p}
      <4>1. CASE p \in DOMAIN names
        <5>1. n = names[p].cipher /\ UNCHANGED names /\ names[p] \in Known
          BY <3>1, <4>1 DEF NameFor, Known, Range
        <5>2. names[p].plain = p
          BY <4>1 DEF UnderOwnName
        <5> QED
          BY <3>2, <5>1, <5>2 DEF Known, Agreed, NeverMixed
      <4>2. CASE p \notin DOMAIN names
        <5>1. n \in Drawn /\ Unused(n) /\ Named(p, n)
          BY <3>1, <4>2 DEF NameFor
        <5>2. enc[n] = None /\ \A e \in mapFile.recs \cup encMap.recs : e.cipher # n
          BY <5>1 DEF Drawn, Unused
        <5>3. \A q \in DOMAIN names : names[q].cipher # n
          BY <3>2, <5>1 DEF Unused, MapsMirror
        <5>4. Range(names') \subseteq Range(names) \cup {NewEntry(p, n)}
          BY <5>1 DEF Named, Range
        <5> QED
          BY <3>2, <5>2, <5>3, <5>4 DEF Known, Range
      <4> QED
        BY <4>1, <4>2
    <3>4. NewEntry(p, n) \in Entry /\ NewEntry(p, n).plain = p /\ NewEntry(p, n).cipher = n
      BY DEF NewEntry, Entry
    <3>5. Agreed'
      BY <3>3, <3>4 DEF Agreed
    <3>6. ASSUME NEW e \in Known' PROVE enc'[e.cipher] \in {None, e.plain}
      <4>1. enc \in [Cipher -> Plain \cup {None}]
        BY DEF NmTypeOK
      <4>2. enc[e.cipher] \in {None, e.plain} /\ (e.cipher = n => e.plain = p) /\ e.cipher \in Cipher
        BY <3>2, <3>3, <3>4 DEF NeverMixed, Entry
      <4> QED
        BY <3>1, <4>1, <4>2
    <3> QED
      BY <3>2, <3>5, <3>6 DEF NeverMixed
  <2>2. MapsReadable'
    BY <1>14, EmptyMap DEF Visit, NameFor, Named, NewEntry, Drawn, Unused, MapsReadable, Readable, Phases, NmTypeOK
  <2>3. Written'
    BY <1>14, EmptyMap DEF Visit, NameFor, Named, NewEntry, Drawn, Unused, Written, Phases, NmTypeOK, Run, MapsMirror, UnderOwnName
  <2>4. FromMapFile'
    BY <1>14, EmptyMap DEF Visit, NameFor, Named, NewEntry, Drawn, Unused, FromMapFile, Phases, NmTypeOK, Run
  <2> QED
    BY <2>1, <2>2, <2>3, <2>4
<1>15. ASSUME NEW p \in Plain, Vanished(p) PROVE OnDisk'
  <2>1. Agreed' /\ NeverMixed'
    <3>1. Known' \subseteq Known
      BY <1>15, EmptyMap DEF Vanished, Known, Range, Phases
    <3>2. UNCHANGED rest /\ \A c \in Cipher : enc'[c] \in {enc[c], None}
      BY <1>15, EmptyMap DEF Vanished, NmTypeOK, Phases
    <3> QED
      BY <3>1, <3>2, Forgotten
  <2>2. MapsReadable'
    BY <1>15, EmptyMap DEF Vanished, MapsReadable, Readable, Phases, NmTypeOK
  <2>3. Written'
    BY <1>15, EmptyMap DEF Vanished, Written, Phases, NmTypeOK, Run, MapsMirror, UnderOwnName
  <2>4. FromMapFile'
    BY <1>15, EmptyMap DEF Vanished, FromMapFile, Phases, NmTypeOK, Run
  <2> QED
    BY <2>1, <2>2, <2>3, <2>4
<1>16. ASSUME NEW p \in Plain, NoNameFound(p) PROVE OnDisk'
  <2>1. Agreed' /\ NeverMixed'
    <3>1. Known' \subseteq Known
      BY <1>16, EmptyMap DEF NoNameFound, Known, Range, Phases
    <3>2. UNCHANGED rest /\ \A c \in Cipher : enc'[c] \in {enc[c], None}
      BY <1>16, EmptyMap DEF NoNameFound, NmTypeOK, Phases
    <3> QED
      BY <3>1, <3>2, Forgotten
  <2>2. MapsReadable'
    BY <1>16, EmptyMap DEF NoNameFound, MapsReadable, Readable, Phases, NmTypeOK
  <2>3. Written'
    BY <1>16, EmptyMap DEF NoNameFound, Written, Phases, NmTypeOK, Run, MapsMirror, UnderOwnName
  <2>4. FromMapFile'
    BY <1>16, EmptyMap DEF NoNameFound, FromMapFile, Phases, NmTypeOK, Run
  <2> QED
    BY <2>1, <2>2, <2>3, <2>4
<1>17. ASSUME NEW p \in Plain, StillThere(p) PROVE OnDisk'
  <2>1. Agreed' /\ NeverMixed'
    <3>1. Known' \subseteq Known
      BY <1>17, EmptyMap DEF StillThere, Over, Known, Range, Phases
    <3>2. UNCHANGED rest /\ \A c \in Cipher : enc'[c] \in {enc[c], None}
      BY <1>17, EmptyMap DEF StillThere, Over, NmTypeOK, Phases
    <3> QED
      BY <3>1, <3>2, Forgotten
  <2>2. MapsReadable'
    BY <1>17, EmptyMap DEF StillThere, Over, MapsReadable, Readable, Phases, NmTypeOK
  <2>3. Written'
    BY <1>17, EmptyMap DEF StillThere, Over, Written, Phases, NmTypeOK, Run, MapsMirror, UnderOwnName
  <2>4. FromMapFile'
    BY <1>17, EmptyMap DEF StillThere, Over, FromMapFile, Phases, NmTypeOK, Run
  <2> QED
    BY <2>1, <2>2, <2>3, <2>4
<1>18. ASSUME NEW p \in Plain, Delete(p) PROVE OnDisk'
  <2>1. Agreed' /\ NeverMixed'
    <3>1. Known' \subseteq Known
      BY <1>18, EmptyMap DEF Delete, Erased, ErasesName, Over, Restrict, Known, Range, Phases
    <3>2. UNCHANGED rest /\ \A c \in Cipher : enc'[c] \in {enc[c], None}
      BY <1>18, EmptyMap DEF Delete, Erased, ErasesName, Over, Restrict, NmTypeOK, Phases
    <3> QED
      BY <3>1, <3>2, Forgotten
  <2>2. MapsReadable'
    BY <1>18, EmptyMap DEF Delete, Erased, ErasesName, Over, Restrict, MapsReadable, Readable, Phases, NmTypeOK
  <2>3. Written'
    BY <1>18, EmptyMap DEF Delete, Erased, ErasesName, Over, Restrict, Written, Phases, NmTypeOK, Run, MapsMirror, UnderOwnName
  <2>4. FromMapFile'
    BY <1>18, EmptyMap DEF Delete, Erased, ErasesName, Over, Restrict, FromMapFile, Phases, NmTypeOK, Run
  <2> QED
    BY <2>1, <2>2, <2>3, <2>4
<1>19. ASSUME NEW p \in Plain, DeleteFails(p) PROVE OnDisk'
  <2>1. Agreed' /\ NeverMixed'
    <3>1. Known' \subseteq Known
      BY <1>19, EmptyMap DEF DeleteFails, Exit, Known, Range, Phases
    <3>2. UNCHANGED rest /\ \A c \in Cipher : enc'[c] \in {enc[c], None}
      BY <1>19, EmptyMap DEF DeleteFails, Exit, NmTypeOK, Phases
    <3> QED
      BY <3>1, <3>2, Forgotten
  <2>2. MapsReadable'
    BY <1>19, EmptyMap DEF DeleteFails, Exit, MapsReadable, Readable, Phases, NmTypeOK
  <2>3. Written'
    BY <1>19, EmptyMap DEF DeleteFails, Exit, Written, Phases, NmTypeOK, Run, MapsMirror, UnderOwnName
  <2>4. FromMapFile'
    BY <1>19, EmptyMap DEF DeleteFails, Exit, FromMapFile, Phases, NmTypeOK, Run
  <2> QED
    BY <2>1, <2>2, <2>3, <2>4
<1>20. ASSUME NEW p \in Plain, UnlinkRecurses(p) PROVE OnDisk'
  <2>1. Agreed' /\ NeverMixed'
    <3>1. Known' \subseteq Known
      BY <1>20, EmptyMap DEF UnlinkRecurses, Exit, Known, Range, Phases
    <3>2. UNCHANGED rest /\ \A c \in Cipher : enc'[c] \in {enc[c], None}
      BY <1>20, EmptyMap DEF UnlinkRecurses, Exit, NmTypeOK, Phases
    <3> QED
      BY <3>1, <3>2, Forgotten
  <2>2. MapsReadable'
    BY <1>20, EmptyMap DEF UnlinkRecurses, Exit, MapsReadable, Readable, Phases, NmTypeOK
  <2>3. Written'
    BY <1>20, EmptyMap DEF UnlinkRecurses, Exit, Written, Phases, NmTypeOK, Run, MapsMirror, UnderOwnName
  <2>4. FromMapFile'
    BY <1>20, EmptyMap DEF UnlinkRecurses, Exit, FromMapFile, Phases, NmTypeOK, Run
  <2> QED
    BY <2>1, <2>2, <2>3, <2>4
<1>21. ASSUME NEW n \in Cipher, WriteEntry(n) PROVE OnDisk'
  <2>1. Agreed' /\ NeverMixed'
    <3>1. run.op = "enc" /\ reverse[n] \in DOMAIN names /\ names \in [DOMAIN names -> Entry]
      BY <1>21 DEF WriteEntry, Phases, MapsMirror, NmTypeOK, Run
    <3>2. names' = names
      BY <1>21, <3>1 DEF WriteEntry
    <3>3. /\ mapFile'.recs = mapFile.recs \cup {names[reverse[n]]}
          /\ mapFile'.torn = mapFile.torn
      BY <1>21, <3>1 DEF WriteEntry, RecordOf, NmTypeOK, MapFile
    <3>4. Known' \subseteq Known
      BY <1>21, <3>1, <3>2, <3>3 DEF WriteEntry, Known, Range
    <3> QED
      BY <1>21, <3>4, Forgotten DEF WriteEntry
  <2>2. MapsReadable'
    <3>1. run.op = "enc" /\ reverse[n] \in DOMAIN names /\ names \in [DOMAIN names -> Entry]
      BY <1>21 DEF WriteEntry, Phases, MapsMirror, NmTypeOK, Run
    <3>2. names' = names
      BY <1>21, <3>1 DEF WriteEntry
    <3>3. /\ mapFile'.recs = mapFile.recs \cup {names[reverse[n]]}
          /\ mapFile'.torn = mapFile.torn
      BY <1>21, <3>1 DEF WriteEntry, RecordOf, NmTypeOK, MapFile
    <3>4. mapFile'.recs \subseteq Range(names) /\ ~mapFile'.torn
      BY <1>21, <3>1, <3>3 DEF WriteEntry, Written, Phases, Range
    <3>5. \A p, q \in DOMAIN names : names[p].cipher = names[q].cipher => p = q
      BY <3>1 DEF MapsMirror
    <3>6. Readable(mapFile')
      BY <3>1, <3>4, <3>5, MirroredReadable DEF UnderOwnName
    <3> QED
      BY <1>21, <3>6 DEF WriteEntry, MapsReadable, Readable
  <2>3. Written'
    <3>1. run.op = "enc" /\ reverse[n] \in DOMAIN names /\ names \in [DOMAIN names -> Entry]
      BY <1>21 DEF WriteEntry, Phases, MapsMirror, NmTypeOK, Run
    <3>2. names' = names
      BY <1>21, <3>1 DEF WriteEntry
    <3>3. /\ mapFile'.recs = mapFile.recs \cup {names[reverse[n]]}
          /\ mapFile'.torn = mapFile.torn
      BY <1>21, <3>1 DEF WriteEntry, RecordOf, NmTypeOK, MapFile
    <3>4. run'.at = "write" /\ run'.todo = run.todo \ {n}
      BY <1>21 DEF WriteEntry, Over, NmTypeOK, Run
    <3>5. run.at = "write" /\ reverse' = reverse
      BY <1>21 DEF WriteEntry
    <3>6. mapFile'.recs \subseteq Range(names')
      BY <3>1, <3>2, <3>3, <3>5 DEF Written, Range
    <3>7. \A c \in DOMAIN reverse' \ run'.todo : names'[reverse'[c]] \in mapFile'.recs
      BY <3>2, <3>3, <3>4, <3>5 DEF Written
    <3> QED
      BY <3>4, <3>6, <3>7 DEF Written
  <2>4. FromMapFile'
    BY <1>21, EmptyMap DEF WriteEntry, Over, RecordOf, Dummy, FromMapFile, Phases, NmTypeOK, Run
  <2> QED
    BY <2>1, <2>2, <2>3, <2>4
<1>22. ASSUME NEW n \in Cipher, Unname(n) PROVE OnDisk'
  <2>1. Agreed' /\ NeverMixed'
    <3>1. Known' = Known /\ UNCHANGED enc
      BY <1>22 DEF Unname, Known
    <3>2. \A q \in Plain : rest'[q] \in {None, q}
      <4>1. NewEntry(reverse[n], n) \in mapFile.recs
        BY <1>22 DEF Unname, FromMapFile, Phases, NmTypeOK, Run
      <4>2. enc[n] \in {None, reverse[n]}
        BY <4>1 DEF NeverMixed, Known, NewEntry
      <4>3. rest' = rest \/ rest' = [rest EXCEPT ![reverse[n]] = enc[n]]
        BY <1>22 DEF Unname
      <4> QED
        BY <4>2, <4>3 DEF NeverMixed, NmTypeOK
    <3> QED
      BY <3>1, <3>2 DEF Agreed, NeverMixed
  <2>2. MapsReadable'
    BY <1>22, EmptyMap DEF Unname, Over, MapsReadable, Readable, Phases, NmTypeOK
  <2>3. Written'
    BY <1>22, EmptyMap DEF Unname, Over, Written, Phases, NmTypeOK, Run, MapsMirror, UnderOwnName
  <2>4. FromMapFile'
    BY <1>22, EmptyMap DEF Unname, Over, FromMapFile, Phases, NmTypeOK, Run
  <2> QED
    BY <2>1, <2>2, <2>3, <2>4
<1>23. ASSUME NEW n \in Cipher, NoTranslation(n) PROVE OnDisk'
  <2>1. Agreed' /\ NeverMixed'
    <3>1. Known' \subseteq Known
      BY <1>23, EmptyMap DEF NoTranslation, Known, Range, Phases
    <3>2. UNCHANGED rest /\ \A c \in Cipher : enc'[c] \in {enc[c], None}
      BY <1>23, EmptyMap DEF NoTranslation, NmTypeOK, Phases
    <3> QED
      BY <3>1, <3>2, Forgotten
  <2>2. MapsReadable'
    BY <1>23, EmptyMap DEF NoTranslation, MapsReadable, Readable, Phases, NmTypeOK
  <2>3. Written'
    BY <1>23, EmptyMap DEF NoTranslation, Written, Phases, NmTypeOK, Run, MapsMirror, UnderOwnName
  <2>4. FromMapFile'
    BY <1>23, EmptyMap DEF NoTranslation, FromMapFile, Phases, NmTypeOK, Run
  <2> QED
    BY <2>1, <2>2, <2>3, <2>4
<1>24. CASE UNCHANGED nmVars
  BY <1>24 DEF nmVars, Agreed, NeverMixed, Known, MapsReadable, Readable, Written, FromMapFile, NewEntry
<1> QED
  BY <1>1, <1>2, <1>3, <1>4, <1>5, <1>6, <1>7, <1>8, <1>9, <1>10, <1>11, <1>12, <1>13, <1>14, <1>15, <1>16, <1>17, <1>18, <1>19, <1>20, <1>21, <1>22, <1>23, <1>24 DEF NmNext
-----------------------------------------------------------------------------
(* The third layer: what is true as long as runs end well. *)

\* Every encrypted file has its record among these.
Recorded(recs) == \A n \in Cipher : enc[n] # None => NewEntry(enc[n], n) \in recs

\* The records are in memory while files are added and removed, and in both map
\* files otherwise.
AllRecorded ==
  ~unclean => IF run.op = "enc" /\ run.at # "idle" THEN Recorded(Range(names))
              ELSE Recorded(mapFile.recs) /\ Recorded(encMap.recs)

\* Nothing but --delete-keys takes a record out of namemap.
Kept ==
  /\ (run.op = "enc" /\ (run.at = "visit" \/ (~run.opt.delkey /\ run.at \in {"delete", "write", "copy"})))
       => run.start \subseteq Range(names)
  /\ NamesKept

Restored(n) == enc[n] # None => rest[enc[n]] = enc[n]

\* How far --delete is with making the encrypted tree that of the plain one.
Exact ==
  (run.op = "enc" /\ run.opt.del /\ run.calm /\ run.all /\ ~unclean) =>
    /\ run.at = "visit" => run.todo \subseteq tree /\ (~run.err => tree \ run.todo \subseteq Files(enc))
    /\ run.at = "delete" => tree \subseteq Files(enc) /\ Files(enc) \subseteq tree \cup run.todo
    /\ (run.at \in {"write", "copy"} \/ run.result = "ok") => Files(enc) = tree

\* How far a decryption is.
Complete ==
  (run.op = "dec" /\ ~unclean) =>
    /\ run.at = "unname" => /\ ~run.err /\ \A n \in run.todo : enc[n] # None
                            /\ run.all => \A n \in Cipher \ run.todo : Restored(n)
    /\ (run.at = "idle" /\ encMap.there) =>
         run.result # "error" /\ ((run.result = "ok" /\ run.all) => \A n \in Cipher : Restored(n))

WhenWell == AllRecorded /\ Kept /\ Exact /\ Complete

\* A record with the name of a file is the record of that file.
LEMMA OneRecord ==
  ASSUME NmTypeOK, UnderOwnName, MapsMirror, run.op = "enc",
         NEW n \in Cipher, enc[n] # None, NewEntry(enc[n], n) \in Range(names)
  PROVE  enc[n] \in DOMAIN names /\ names[enc[n]].cipher = n
<1>1. PICK p \in DOMAIN names : names[p] = NewEntry(enc[n], n)
  BY DEF Range
<1>2. p = enc[n] /\ names[p].cipher = n
  BY <1>1 DEF UnderOwnName, NewEntry
<1> QED
  BY <1>1, <1>2

\* fill_map takes every record of a map that it can read.
LEMMA FilledMap ==
  ASSUME NEW m \in MapFile, Readable(m)
  PROVE  Range([p \in {e.plain : e \in m.recs} |-> EntryOf(m, p)]) = m.recs
<1> DEFINE f == [p \in {e.plain : e \in m.recs} |-> EntryOf(m, p)]
<1>1. \A p \in DOMAIN f : f[p] \in m.recs
  BY EntryOfMap
<1>2. ASSUME NEW e \in m.recs PROVE e.plain \in DOMAIN f /\ f[e.plain] = e
  BY EntryOfMap DEF Readable
<1>3. Range(f) \subseteq m.recs
  BY <1>1 DEF Range
<1>4. m.recs \subseteq Range(f)
  BY <1>2 DEF Range
<1> QED
  BY <1>3, <1>4

\* Once a file is named, the map has its record, and those it had before.
LEMMA GivenName ==
  ASSUME NmTypeOK, UnderOwnName, NEW p \in Plain, NEW n \in Cipher, NameFor(p, n)
  PROVE  NewEntry(p, n) \in Range(names') /\ Range(names) \subseteq Range(names')
<1>1. CASE p \in DOMAIN names
  <2>1. names' = names /\ names[p] \in Entry /\ names[p].plain = p /\ names[p].cipher = n
    BY <1>1 DEF NameFor, UnderOwnName, NmTypeOK
  <2>2. names[p] = NewEntry(p, n)
    BY <2>1 DEF Entry, NewEntry
  <2> QED
    BY <1>1, <2>1, <2>2 DEF Range
<1>2. CASE p \notin DOMAIN names
  <2>1. names' = [q \in DOMAIN names \cup {p} |-> IF q = p THEN NewEntry(p, n) ELSE names[q]]
    BY <1>2 DEF NameFor, Named
  <2> QED
    BY <1>2, <2>1 DEF Range
<1> QED
  BY <1>1, <1>2

\* The name a file is given was free, or the file's own.
LEMMA OwnOrFree ==
  ASSUME NeverMixed, UnderOwnName, NEW p \in Plain, NEW n \in Cipher, NameFor(p, n)
  PROVE  enc[n] \in {None, p}
BY DEF NameFor, NeverMixed, UnderOwnName, Known, Range, Drawn, Unused

LEMMA WhenWellInitially == NmInit => WhenWell
<1> SUFFICES ASSUME NmInit PROVE WhenWell
  OBVIOUS
<1>1. run.op = "enc" /\ run.at = "idle" /\ run.result = "none" /\ \A n \in Cipher : enc[n] = None
  BY DEF NmInit
<1> QED
  BY <1>1 DEF WhenWell, AllRecorded, Recorded, Kept, NamesKept, Exact, Complete

LEMMA WhenWellStep == Core /\ Core' /\ OnDisk /\ OnDisk' /\ WhenWell /\ [NmNext]_nmVars => WhenWell'
<1> SUFFICES ASSUME Core, Core', OnDisk, OnDisk', WhenWell, [NmNext]_nmVars PROVE WhenWell'
  OBVIOUS
<1> USE NameParams DEF Core, OnDisk, WhenWell
<1>1. CASE Change
  <2>1. AllRecorded'
    BY <1>1, EmptyMap DEF Change, AllRecorded, Recorded, Phases, NmTypeOK, Run, Range
  <2>2. Kept'
    BY <1>1, EmptyMap DEF Change, Kept, NamesKept, Phases, NmTypeOK, Run, Range
  <2>3. Exact'
    BY <1>1, EmptyMap DEF Change, Exact, Files, Phases, NmTypeOK, Run
  <2>4. Complete'
    BY <1>1, EmptyMap DEF Change, Complete, Restored, Phases, NmTypeOK, Run
  <2> QED
    BY <2>1, <2>2, <2>3, <2>4
<1>2. CASE Kill
  <2>1. AllRecorded'
    <3>1. CASE run.op = "enc"
      BY <1>2, <3>1 DEF Kill, Exit, AllRecorded
    <3>2. CASE run.op = "dec"
      <4>1. enc' = enc /\ encMap' = encMap /\ mapFile'.recs = mapFile.recs /\ unclean' = unclean
            /\ run'.op = "dec"
        BY <1>2, <3>2 DEF Kill, Exit, NmTypeOK, Run, MapFile
      <4> QED
        BY <3>2, <4>1 DEF AllRecorded, Recorded
    <3> QED
      BY <3>1, <3>2 DEF NmTypeOK, Run
  <2>2. Kept'
    BY <1>2, EmptyMap DEF Kill, Exit, Kept, NamesKept, Phases, NmTypeOK, Run, Range
  <2>3. Exact'
    BY <1>2, EmptyMap DEF Kill, Exit, Exact, Files, Phases, NmTypeOK, Run
  <2>4. Complete'
    BY <1>2, EmptyMap DEF Kill, Exit, Complete, Restored, Phases, NmTypeOK, Run
  <2> QED
    BY <2>1, <2>2, <2>3, <2>4
<1>3. CASE StartEncrypt
  <2>1. AllRecorded'
    <3>1. Range(names') = mapFile.recs
      BY <1>3, FilledMap DEF StartEncrypt, NmTypeOK
    <3>2. run.at = "idle" /\ enc' = enc /\ unclean' = unclean /\ run'.op = "enc" /\ run'.at # "idle"
      BY <1>3 DEF StartEncrypt, Started
    <3> QED
      BY <3>1, <3>2 DEF AllRecorded, Recorded
  <2>2. Kept'
    <3>1. Range(names') = mapFile.recs
      BY <1>3, FilledMap DEF StartEncrypt, NmTypeOK
    <3>2. run'.start = mapFile.recs /\ run'.result = "none"
      BY <1>3 DEF StartEncrypt, Started
    <3> QED
      BY <3>1, <3>2 DEF Kept, NamesKept
  <2>3. Exact'
    BY <1>3, EmptyMap DEF StartEncrypt, Started, EntryOf, Exact, Files, Phases, NmTypeOK, Run
  <2>4. Complete'
    BY <1>3, EmptyMap DEF StartEncrypt, Started, EntryOf, Complete, Restored, Phases, NmTypeOK, Run
  <2> QED
    BY <2>1, <2>2, <2>3, <2>4
<1>4. CASE MapRefused
  <2>1. AllRecorded'
    BY <1>4, EmptyMap DEF MapRefused, Started, AllRecorded, Recorded, Phases, NmTypeOK, Run, Range
  <2>2. Kept'
    BY <1>4, EmptyMap DEF MapRefused, Started, Kept, NamesKept, Phases, NmTypeOK, Run, Range
  <2>3. Exact'
    BY <1>4, EmptyMap DEF MapRefused, Started, Exact, Files, Phases, NmTypeOK, Run
  <2>4. Complete'
    BY <1>4, EmptyMap DEF MapRefused, Started, Complete, Restored, Phases, NmTypeOK, Run
  <2> QED
    BY <2>1, <2>2, <2>3, <2>4
<1>5. CASE ScanFailed
  <2>1. AllRecorded'
    BY <1>5, EmptyMap DEF ScanFailed, Exit, AllRecorded, Recorded, Phases, NmTypeOK, Run, Range
  <2>2. Kept'
    BY <1>5, EmptyMap DEF ScanFailed, Exit, Kept, NamesKept, Phases, NmTypeOK, Run, Range
  <2>3. Exact'
    BY <1>5, EmptyMap DEF ScanFailed, Exit, Exact, Files, Phases, NmTypeOK, Run
  <2>4. Complete'
    BY <1>5, EmptyMap DEF ScanFailed, Exit, Complete, Restored, Phases, NmTypeOK, Run
  <2> QED
    BY <2>1, <2>2, <2>3, <2>4
<1>6. CASE ScanDone
  <2>1. AllRecorded'
    BY <1>6, EmptyMap DEF ScanDone, InMap, BeginWrite, AllRecorded, Recorded, Phases, NmTypeOK, Run, Range
  <2>2. Kept'
    <3>1. run'.op = "enc" /\ run'.opt = run.opt /\ run'.start = run.start /\ run'.result = "none"
          /\ names' = names
      <4>1. \/ run' = [run EXCEPT !.at = "delete", !.todo = DOMAIN names]
            \/ run' = [run EXCEPT !.at = "write", !.todo = DOMAIN reverse]
        BY <1>6 DEF ScanDone, BeginWrite, InMap
      <4> QED
        BY <1>6, <4>1, ZenonT(60) DEF ScanDone, Phases, NmTypeOK, Run
    <3> QED
      BY <1>6, <3>1 DEF ScanDone, Kept, NamesKept
  <2>3. Exact'
    <3>1. CASE ~run.opt.del
      BY <1>6, <3>1, ZenonT(60) DEF ScanDone, BeginWrite, Exact, NmTypeOK, Run
    <3>2. CASE run.opt.del
      <4>1. run' = [run EXCEPT !.at = "delete", !.todo = DOMAIN names]
        BY <1>6, <3>2 DEF ScanDone, InMap
      <4>2. /\ run'.op = "enc" /\ run'.opt = run.opt /\ run'.calm = run.calm /\ run'.all = run.all
            /\ run'.at = "delete" /\ run'.todo = DOMAIN names /\ run'.result = "none"
        BY <1>6, <4>1 DEF ScanDone, Phases, NmTypeOK, Run
      <4>3. /\ enc' = enc /\ tree' = tree /\ unclean' = unclean
            /\ run.op = "enc" /\ run.at = "visit" /\ run.todo = {} /\ ~run.err
        BY <1>6 DEF ScanDone
      <4>4. ASSUME ~unclean, NEW q \in Files(enc) PROVE q \in DOMAIN names
        <5>1. PICK n \in Cipher : enc[n] = q /\ q # None
          BY DEF Files, Range, NmTypeOK
        <5>2. NewEntry(enc[n], n) \in Range(names)
          BY <4>3, <4>4, <5>1 DEF AllRecorded, Recorded
        <5> QED
          BY <4>3, <5>1, <5>2, OneRecord
      <4> QED
        BY <3>2, <4>2, <4>3, <4>4 DEF Exact, Files
    <3> QED
      BY <3>1, <3>2
  <2>4. Complete'
    <3>1. run'.op = "enc"
      BY <1>6, ZenonT(60) DEF ScanDone, BeginWrite, NmTypeOK, Run
    <3> QED
      BY <3>1 DEF Complete
  <2> QED
    BY <2>1, <2>2, <2>3, <2>4
<1>7. CASE DeleteDone
  <2>1. AllRecorded'
    BY <1>7, EmptyMap DEF DeleteDone, BeginWrite, AllRecorded, Recorded, Phases, NmTypeOK, Run, Range
  <2>2. Kept'
    BY <1>7, EmptyMap DEF DeleteDone, BeginWrite, Kept, NamesKept, Phases, NmTypeOK, Run, Range
  <2>3. Exact'
    BY <1>7, EmptyMap DEF DeleteDone, BeginWrite, Exact, Files, Phases, NmTypeOK, Run
  <2>4. Complete'
    BY <1>7, EmptyMap DEF DeleteDone, BeginWrite, Complete, Restored, Phases, NmTypeOK, Run
  <2> QED
    BY <2>1, <2>2, <2>3, <2>4
<1>8. CASE WriteFails
  <2>1. AllRecorded'
    BY <1>8, EmptyMap DEF WriteFails, Exit, AllRecorded, Recorded, Phases, NmTypeOK, Run, Range
  <2>2. Kept'
    BY <1>8, EmptyMap DEF WriteFails, Exit, Kept, NamesKept, Phases, NmTypeOK, Run, Range
  <2>3. Exact'
    BY <1>8, EmptyMap DEF WriteFails, Exit, Exact, Files, Phases, NmTypeOK, Run
  <2>4. Complete'
    BY <1>8, EmptyMap DEF WriteFails, Exit, Complete, Restored, Phases, NmTypeOK, Run
  <2> QED
    BY <2>1, <2>2, <2>3, <2>4
<1>9. CASE WriteDone
  <2>1. AllRecorded'
    BY <1>9, EmptyMap DEF WriteDone, AllRecorded, Recorded, Phases, NmTypeOK, Run, Range
  <2>2. Kept'
    BY <1>9, EmptyMap DEF WriteDone, Kept, NamesKept, Phases, NmTypeOK, Run, Range
  <2>3. Exact'
    BY <1>9, EmptyMap DEF WriteDone, Exact, Files, Phases, NmTypeOK, Run
  <2>4. Complete'
    BY <1>9, EmptyMap DEF WriteDone, Complete, Restored, Phases, NmTypeOK, Run
  <2> QED
    BY <2>1, <2>2, <2>3, <2>4
<1>10. CASE EncryptMap
  <2>1. AllRecorded'
    <3>1. run.op = "enc" /\ Range(names) \subseteq mapFile.recs
      BY <1>10 DEF EncryptMap, Phases, NmTypeOK, Run, Written
    <3>2. CASE encMap' = mapFile
      <4>1. enc' = enc /\ mapFile' = mapFile /\ (unclean => unclean') /\ run'.at = "idle"
        BY <1>10 DEF EncryptMap, Exit, NmTypeOK, Run
      <4>2. ~unclean => Recorded(Range(names))
        BY <1>10, <3>1 DEF EncryptMap, AllRecorded
      <4> QED
        BY <3>1, <3>2, <4>1, <4>2 DEF AllRecorded, Recorded
    <3>3. CASE encMap' = encMap /\ Exit("error")
      BY <3>1, <3>3 DEF Exit, AllRecorded
    <3> QED
      BY <1>10, <3>2, <3>3 DEF EncryptMap, MapToCopy
  <2>2. Kept'
    <3>1. /\ run.op = "enc" /\ run.at = "copy" /\ Range(names) \subseteq mapFile.recs
          /\ mapFile' = mapFile
      BY <1>10 DEF EncryptMap, Phases, NmTypeOK, Run, Written
    <3>2. run'.opt = run.opt /\ run'.start = run.start /\ run'.at = "idle"
      BY <1>10, ZenonT(60) DEF EncryptMap, Exit, NmTypeOK, Run
    <3> QED
      BY <3>1, <3>2 DEF Kept, NamesKept
  <2>3. Exact'
    BY <1>10, EmptyMap, ZenonT(60) DEF EncryptMap, MapToCopy, Exit, Exact, Files, Phases, NmTypeOK, Run
  <2>4. Complete'
    BY <1>10, EmptyMap, ZenonT(60) DEF EncryptMap, MapToCopy, Exit, Complete, Restored, Phases, NmTypeOK, Run
  <2> QED
    BY <2>1, <2>2, <2>3, <2>4
<1>11. CASE StartDecrypt
  <2>1. AllRecorded'
    BY <1>11, EmptyMap DEF StartDecrypt, Started, AllRecorded, Recorded, Phases, NmTypeOK, Run, Range
  <2>2. Kept'
    BY <1>11, EmptyMap DEF StartDecrypt, Started, Kept, NamesKept, Phases, NmTypeOK, Run, Range
  <2>3. Exact'
    BY <1>11, EmptyMap DEF StartDecrypt, Started, Exact, Files, Phases, NmTypeOK, Run
  <2>4. Complete'
    <3>1. ReadableByCipher(encMap)
      BY DEF MapsReadable, Readable, ReadableByCipher
    <3>2. run' = Started("dec", run.opt, "unname", {n \in Cipher : enc[n] # None}) /\ enc' = enc
      BY <1>11, <3>1 DEF StartDecrypt
    <3> QED
      BY <3>2 DEF Complete, Started, Restored
  <2> QED
    BY <2>1, <2>2, <2>3, <2>4
<1>12. CASE NothingToDecrypt
  <2>1. AllRecorded'
    BY <1>12, EmptyMap DEF NothingToDecrypt, Started, AllRecorded, Recorded, Phases, NmTypeOK, Run, Range
  <2>2. Kept'
    BY <1>12, EmptyMap DEF NothingToDecrypt, Started, Kept, NamesKept, Phases, NmTypeOK, Run, Range
  <2>3. Exact'
    BY <1>12, EmptyMap DEF NothingToDecrypt, Started, Exact, Files, Phases, NmTypeOK, Run
  <2>4. Complete'
    BY <1>12, EmptyMap DEF NothingToDecrypt, Started, Complete, Restored, Phases, NmTypeOK, Run
  <2> QED
    BY <2>1, <2>2, <2>3, <2>4
<1>13. CASE UnnameDone
  <2>1. AllRecorded'
    BY <1>13, EmptyMap DEF UnnameDone, Exit, AllRecorded, Recorded, Phases, NmTypeOK, Run, Range
  <2>2. Kept'
    BY <1>13, EmptyMap DEF UnnameDone, Exit, Kept, NamesKept, Phases, NmTypeOK, Run, Range
  <2>3. Exact'
    BY <1>13, EmptyMap DEF UnnameDone, Exit, Exact, Files, Phases, NmTypeOK, Run
  <2>4. Complete'
    BY <1>13, EmptyMap DEF UnnameDone, Exit, Complete, Restored, Phases, NmTypeOK, Run
  <2> QED
    BY <2>1, <2>2, <2>3, <2>4
<1>14. ASSUME NEW p \in Plain, Visit(p) PROVE WhenWell'
  <2>1. AllRecorded'
    <3>1. PICK n \in Cipher : NameFor(p, n) /\ enc' \in {enc, [enc EXCEPT ![n] = p]}
      BY <1>14 DEF Visit
    <3>2. NewEntry(p, n) \in Range(names') /\ Range(names) \subseteq Range(names')
      BY <3>1, GivenName
    <3>3. run.op = "enc" /\ run.at = "visit" /\ run'.op = run.op /\ run'.at = run.at /\ unclean' = unclean
      <4>1. Did(run, run', p) /\ run \in Run
        BY <1>14 DEF Visit, Did, NmTypeOK
      <4> QED
        BY <1>14, <4>1, LessToDo DEF Visit
    <3>4. \A m \in Cipher : enc'[m] = enc[m] \/ (m = n /\ enc'[m] = p)
      BY <3>1 DEF NmTypeOK
    <3> QED
      BY <3>2, <3>3, <3>4 DEF AllRecorded, Recorded
  <2>2. Kept'
    <3>1. Range(names) \subseteq Range(names')
      BY <1>14, GivenName DEF Visit
    <3>2. /\ run.op = "enc" /\ run.at = "visit" /\ run'.start = run.start
          /\ run'.result = run.result /\ run.result = "none"
      <4>1. Did(run, run', p) /\ run \in Run
        BY <1>14 DEF Visit, Did, NmTypeOK
      <4> QED
        BY <1>14, <4>1, LessToDo DEF Visit, Phases
    <3> QED
      BY <3>1, <3>2 DEF Kept, NamesKept
  <2>3. Exact'
    <3>1. PICK n \in Cipher :
            /\ NameFor(p, n)
            /\ \/ enc' = [enc EXCEPT ![n] = p] /\ run' = [run EXCEPT !.todo = @ \ {p}]
               \/ run' = [run EXCEPT !.todo = @ \ {p}, !.all = FALSE]
      BY <1>14 DEF Visit
    <3>2. /\ run.op = "enc" /\ run.at = "visit" /\ run.result = "none"
          /\ tree' = tree /\ unclean' = unclean
      BY <1>14 DEF Visit, Phases
    <3>3. /\ run'.opt = run.opt /\ run'.at = run.at /\ run'.calm = run.calm /\ (run'.all => run.all)
          /\ run'.result = run.result /\ run'.todo = run.todo \ {p} /\ (run.err => run'.err)
      <4>1. Did(run, run', p) /\ run \in Run
        BY <3>1 DEF Did, NmTypeOK
      <4> QED
        BY <4>1, LessToDo
    <3>4. CASE run' = [run EXCEPT !.todo = @ \ {p}, !.all = FALSE]
      <4>1. ~run'.all
        BY <3>4 DEF NmTypeOK, Run
      <4> QED
        BY <4>1 DEF Exact
    <3>5. CASE enc' = [enc EXCEPT ![n] = p]
      <4>1. enc[n] \in {None, p}
        BY <3>1, OwnOrFree
      <4>2. Files(enc) \cup {p} \subseteq Files(enc')
        BY <3>5, <4>1 DEF Files, Range, NmTypeOK
      <4> QED
        BY <3>2, <3>3, <4>2 DEF Exact
    <3> QED
      BY <3>1, <3>4, <3>5
  <2>4. Complete'
    BY <1>14, EmptyMap DEF Visit, NameFor, Named, NewEntry, Drawn, Unused, Complete, Restored, Phases, NmTypeOK, Run
  <2> QED
    BY <2>1, <2>2, <2>3, <2>4
<1>15. ASSUME NEW p \in Plain, Vanished(p) PROVE WhenWell'
  <2>1. AllRecorded'
    BY <1>15, EmptyMap DEF Vanished, AllRecorded, Recorded, Phases, NmTypeOK, Run, Range
  <2>2. Kept'
    BY <1>15, EmptyMap DEF Vanished, Kept, NamesKept, Phases, NmTypeOK, Run, Range
  <2>3. Exact'
    BY <1>15, EmptyMap DEF Vanished, Exact, Files, Phases, NmTypeOK, Run
  <2>4. Complete'
    BY <1>15, EmptyMap DEF Vanished, Complete, Restored, Phases, NmTypeOK, Run
  <2> QED
    BY <2>1, <2>2, <2>3, <2>4
<1>16. ASSUME NEW p \in Plain, NoNameFound(p) PROVE WhenWell'
  <2>1. AllRecorded'
    BY <1>16, EmptyMap DEF NoNameFound, AllRecorded, Recorded, Phases, NmTypeOK, Run, Range
  <2>2. Kept'
    BY <1>16, EmptyMap DEF NoNameFound, Kept, NamesKept, Phases, NmTypeOK, Run, Range
  <2>3. Exact'
    BY <1>16, EmptyMap DEF NoNameFound, Exact, Files, Phases, NmTypeOK, Run
  <2>4. Complete'
    BY <1>16, EmptyMap DEF NoNameFound, Complete, Restored, Phases, NmTypeOK, Run
  <2> QED
    BY <2>1, <2>2, <2>3, <2>4
<1>17. ASSUME NEW p \in Plain, StillThere(p) PROVE WhenWell'
  <2>1. AllRecorded'
    BY <1>17, EmptyMap DEF StillThere, Over, AllRecorded, Recorded, Phases, NmTypeOK, Run, Range
  <2>2. Kept'
    BY <1>17, EmptyMap DEF StillThere, Over, Kept, NamesKept, Phases, NmTypeOK, Run, Range
  <2>3. Exact'
    BY <1>17, EmptyMap DEF StillThere, Over, Exact, Files, Phases, NmTypeOK, Run
  <2>4. Complete'
    BY <1>17, EmptyMap DEF StillThere, Over, Complete, Restored, Phases, NmTypeOK, Run
  <2> QED
    BY <2>1, <2>2, <2>3, <2>4
<1>18. ASSUME NEW p \in Plain, Delete(p) PROVE WhenWell'
  <2>1. AllRecorded'
    <3>1. /\ p \in DOMAIN names /\ run.op = "enc" /\ run.at = "delete" /\ unclean' = unclean
          /\ enc' = [enc EXCEPT ![names[p].cipher] = None]
      BY <1>18 DEF Delete, Phases, NmTypeOK, Run
    <3>2. run'.op = "enc" /\ run'.at = "delete"
      BY <1>18, <3>1, LessToDo DEF Delete, Over, Did, NmTypeOK
    <3>3. \A q \in DOMAIN names \ {p} : q \in DOMAIN names' /\ names'[q] = names[q]
      BY <1>18 DEF Delete, Erased, Restrict
    <3>4. ASSUME ~unclean, NEW n \in Cipher, enc'[n] # None
          PROVE  NewEntry(enc'[n], n) \in Range(names')
      <4>1. n # names[p].cipher /\ enc'[n] = enc[n]
        BY <3>1, <3>4 DEF NmTypeOK
      <4>2. NewEntry(enc[n], n) \in Range(names)
        BY <3>1, <3>4, <4>1 DEF AllRecorded, Recorded
      <4>3. PICK q \in DOMAIN names : names[q] = NewEntry(enc[n], n)
        BY <4>2 DEF Range
      <4>4. q # p
        BY <4>1, <4>3 DEF NewEntry
      <4> QED
        BY <3>3, <4>1, <4>3, <4>4 DEF Range
    <3> QED
      BY <3>1, <3>2, <3>4 DEF AllRecorded, Recorded
  <2>2. Kept'
    BY <1>18, EmptyMap DEF Delete, Erased, ErasesName, Over, Restrict, Kept, NamesKept, Phases, NmTypeOK, Run, Range
  <2>3. Exact'
    <3>1. /\ p \in DOMAIN names /\ run.op = "enc" /\ run.at = "delete" /\ run.result = "none"
          /\ unclean' = unclean /\ tree' = tree /\ p \notin tree
          /\ enc' = [enc EXCEPT ![names[p].cipher] = None]
      BY <1>18 DEF Delete, Phases, NmTypeOK, Run
    <3>2. /\ run'.op = run.op /\ run'.opt = run.opt /\ run'.at = run.at /\ run'.calm = run.calm
          /\ (run'.all => run.all) /\ run'.result = run.result /\ run'.todo = run.todo \ {p}
      <4>1. Did(run, run', p) /\ run \in Run
        BY <1>18 DEF Delete, Over, Did, NmTypeOK
      <4> QED
        BY <4>1, LessToDo
    <3>3. names[p].cipher \in Cipher /\ names[p] \in Known /\ names[p].plain = p
      BY <3>1 DEF NmTypeOK, Entry, Known, Range, UnderOwnName
    <3>4. enc[names[p].cipher] \in {None, p}
      BY <3>3 DEF NeverMixed
    <3>5. ASSUME ~unclean, NEW n \in Cipher, enc[n] = p PROVE n = names[p].cipher
      <4>1. enc[n] # None /\ NewEntry(enc[n], n) \in Range(names)
        BY <3>1, <3>5 DEF AllRecorded, Recorded
      <4> QED
        BY <3>1, <3>5, <4>1, OneRecord
    <3>6. ~unclean => Files(enc') = Files(enc) \ {p}
      <4>1. \A n \in Cipher : enc'[n] = IF n = names[p].cipher THEN None ELSE enc[n]
        BY <3>1 DEF NmTypeOK
      <4>2. DOMAIN enc = Cipher /\ DOMAIN enc' = Cipher
        BY <3>1 DEF NmTypeOK
      <4> QED
        BY <3>3, <3>4, <3>5, <4>1, <4>2 DEF Files, Range
    <3> QED
      BY <3>1, <3>2, <3>6 DEF Exact
  <2>4. Complete'
    BY <1>18, EmptyMap DEF Delete, Erased, ErasesName, Over, Restrict, Complete, Restored, Phases, NmTypeOK, Run
  <2> QED
    BY <2>1, <2>2, <2>3, <2>4
<1>19. ASSUME NEW p \in Plain, DeleteFails(p) PROVE WhenWell'
  <2>1. AllRecorded'
    BY <1>19, EmptyMap DEF DeleteFails, Exit, AllRecorded, Recorded, Phases, NmTypeOK, Run, Range
  <2>2. Kept'
    BY <1>19, EmptyMap DEF DeleteFails, Exit, Kept, NamesKept, Phases, NmTypeOK, Run, Range
  <2>3. Exact'
    BY <1>19, EmptyMap DEF DeleteFails, Exit, Exact, Files, Phases, NmTypeOK, Run
  <2>4. Complete'
    BY <1>19, EmptyMap DEF DeleteFails, Exit, Complete, Restored, Phases, NmTypeOK, Run
  <2> QED
    BY <2>1, <2>2, <2>3, <2>4
<1>20. ASSUME NEW p \in Plain, UnlinkRecurses(p) PROVE WhenWell'
  <2>1. AllRecorded'
    BY <1>20, EmptyMap DEF UnlinkRecurses, Exit, AllRecorded, Recorded, Phases, NmTypeOK, Run, Range
  <2>2. Kept'
    BY <1>20, EmptyMap DEF UnlinkRecurses, Exit, Kept, NamesKept, Phases, NmTypeOK, Run, Range
  <2>3. Exact'
    BY <1>20, EmptyMap DEF UnlinkRecurses, Exit, Exact, Files, Phases, NmTypeOK, Run
  <2>4. Complete'
    BY <1>20, EmptyMap DEF UnlinkRecurses, Exit, Complete, Restored, Phases, NmTypeOK, Run
  <2> QED
    BY <2>1, <2>2, <2>3, <2>4
<1>21. ASSUME NEW n \in Cipher, WriteEntry(n) PROVE WhenWell'
  <2>1. AllRecorded'
    BY <1>21, EmptyMap DEF WriteEntry, Over, RecordOf, Dummy, AllRecorded, Recorded, Phases, NmTypeOK, Run, Range
  <2>2. Kept'
    BY <1>21, EmptyMap DEF WriteEntry, Over, RecordOf, Dummy, Kept, NamesKept, Phases, NmTypeOK, Run, Range
  <2>3. Exact'
    BY <1>21, EmptyMap DEF WriteEntry, Over, RecordOf, Dummy, Exact, Files, Phases, NmTypeOK, Run
  <2>4. Complete'
    BY <1>21, EmptyMap DEF WriteEntry, Over, RecordOf, Dummy, Complete, Restored, Phases, NmTypeOK, Run
  <2> QED
    BY <2>1, <2>2, <2>3, <2>4
<1>22. ASSUME NEW n \in Cipher, Unname(n) PROVE WhenWell'
  <2>1. AllRecorded'
    BY <1>22, EmptyMap DEF Unname, Over, AllRecorded, Recorded, Phases, NmTypeOK, Run, Range
  <2>2. Kept'
    BY <1>22, EmptyMap DEF Unname, Over, Kept, NamesKept, Phases, NmTypeOK, Run, Range
  <2>3. Exact'
    BY <1>22, EmptyMap, ZenonT(60) DEF Unname, Over, Exact, Files, Phases, NmTypeOK, Run
  <2>4. Complete'
    <3>1. /\ run.op = "dec" /\ run.at = "unname" /\ unclean' = unclean /\ enc' = enc
          /\ n \in run.todo /\ n \in DOMAIN reverse
      BY <1>22 DEF Unname, Phases, NmTypeOK, Run
    <3>2. /\ run'.op = run.op /\ run'.at = run.at /\ run'.todo = run.todo \ {n}
          /\ (run'.all => run.all)
      <4>1. Did(run, run', n) /\ run \in Run
        BY <1>22 DEF Unname, Over, Did, NmTypeOK
      <4> QED
        BY <4>1, LessToDo
    <3>3. run'.err = run.err
      BY <1>22 DEF Unname, Over, NmTypeOK, Run
    <3>4. ASSUME ~unclean PROVE enc[n] # None /\ reverse[n] = enc[n]
      <4>1. enc[n] # None /\ NewEntry(enc[n], n) \in Known
        BY <3>1, <3>4 DEF Complete, AllRecorded, Recorded, Known
      <4>2. NewEntry(reverse[n], n) \in Known
        BY <3>1 DEF FromMapFile, Known
      <4> QED
        BY <4>1, <4>2 DEF Agreed, NewEntry
    <3>5. ASSUME ~unclean, run'.all, NEW m \in Cipher \ run'.todo PROVE Restored(m)'
      <4>1. rest' = [rest EXCEPT ![enc[n]] = enc[n]]
        BY <1>22, <3>4, <3>5 DEF Unname, NmTypeOK, Run
      <4>2. m # n => Restored(m)
        BY <3>1, <3>2, <3>5 DEF Complete
      <4>3. enc[m] \in Plain \cup {None}
        BY DEF NmTypeOK
      <4> QED
        BY <3>1, <3>4, <3>5, <4>1, <4>2, <4>3 DEF Restored, NmTypeOK
    <3> QED
      BY <3>1, <3>2, <3>3, <3>5 DEF Complete
  <2> QED
    BY <2>1, <2>2, <2>3, <2>4
<1>23. ASSUME NEW n \in Cipher, NoTranslation(n) PROVE WhenWell'
  <2>1. AllRecorded'
    BY <1>23, EmptyMap DEF NoTranslation, AllRecorded, Recorded, Phases, NmTypeOK, Run, Range
  <2>2. Kept'
    BY <1>23, EmptyMap DEF NoTranslation, Kept, NamesKept, Phases, NmTypeOK, Run, Range
  <2>3. Exact'
    BY <1>23, EmptyMap DEF NoTranslation, Exact, Files, Phases, NmTypeOK, Run
  <2>4. Complete'
    <3>1. run.op = "dec" /\ run.at = "unname" /\ unclean' = unclean
      BY <1>23 DEF NoTranslation, Phases, NmTypeOK, Run
    <3>2. n \in run.todo /\ n \notin DOMAIN reverse
      BY <1>23 DEF NoTranslation
    <3>3. unclean
      <4>1. SUFFICES ASSUME ~unclean PROVE FALSE
        OBVIOUS
      <4>2. NewEntry(enc[n], n) \in mapFile.recs
        BY <3>1, <3>2, <4>1 DEF Complete, AllRecorded, Recorded
      <4> QED
        BY <3>1, <3>2, <4>2 DEF FromMapFile, NewEntry
    <3> QED
      BY <3>1, <3>3 DEF Complete
  <2> QED
    BY <2>1, <2>2, <2>3, <2>4
<1>24. CASE UNCHANGED nmVars
  BY <1>24 DEF nmVars, AllRecorded, Recorded, NewEntry, Kept, NamesKept, Exact, Files, Complete, Restored
<1> QED
  BY <1>1, <1>2, <1>3, <1>4, <1>5, <1>6, <1>7, <1>8, <1>9, <1>10, <1>11, <1>12, <1>13, <1>14, <1>15, <1>16, <1>17, <1>18, <1>19, <1>20, <1>21, <1>22, <1>23, <1>24 DEF NmNext

-----------------------------------------------------------------------------
(* The theorems. *)

LEMMA CoreHolds == NmSpec => []Core
BY CoreInitially, CoreStep, PTL DEF NmSpec

\* A run never holds, in any phase, anything but records of real files and
\* names: no dummy record, which namemap[] makes of a name it does not have
\* (write_map, filemap.cpp), is ever written.
THEOREM TypesHold == NmSpec => []NmTypeOK
<1>1. Core => NmTypeOK
  BY DEF Core
<1> QED
  BY <1>1, CoreHolds, PTL

LEMMA OnDiskHolds == NmSpec => [](Core /\ OnDisk)
<1>1. Core /\ OnDisk /\ Core' /\ [NmNext]_nmVars => OnDisk'
  BY OnDiskStep
<1> QED
  BY <1>1, CoreHolds, OnDiskInitially, PTL DEF NmSpec

LEMMA WhenWellHolds == NmSpec => [](Core /\ OnDisk /\ WhenWell)
<1>1. Core /\ OnDisk /\ WhenWell /\ Core' /\ OnDisk' /\ [NmNext]_nmVars => WhenWell'
  BY WhenWellStep
<1> QED
  BY <1>1, OnDiskHolds, WhenWellInitially, PTL DEF NmSpec

\* namemap and reversemap are each other's inverse whenever an encryption runs,
\* with names added by namecat_encrypt, erased by enc_file_delete and looked up
\* by write_map.
THEOREM MapsAlwaysMirror == NmSpec => []MapsMirror
<1>1. Core => MapsMirror
  BY DEF Core
<1> QED
  BY <1>1, CoreHolds, PTL

\* Killed and failed runs included, fill_map reads whatever the runs before it
\* left, unless write_map was cut off within a record.
THEOREM MapsAlwaysReadable == NmSpec => []MapsReadable
<1>1. OnDisk => MapsReadable
  BY DEF OnDisk
<1> QED
  BY <1>1, OnDiskHolds, PTL

\* namecat_encrypt never gives the name of a file that a map on the disk knows
\* to another one, and namecat_decrypt restores nothing under another's name.
THEOREM NeverAnothersName == NmSpec => []NamesNeverMixed
<1>1. OnDisk => NamesNeverMixed
  BY DEF OnDisk, NeverMixed, NamesNeverMixed, Known
<1> QED
  BY <1>1, OnDiskHolds, PTL

\* When every encryption ended well, write_map's file and its encrypted copy
\* name every encrypted file.
THEOREM EveryFileNamed == NmSpec => []FilesNamed
<1>1. Core /\ OnDisk /\ WhenWell => FilesNamed
  <2> SUFFICES ASSUME WhenWell, ~unclean, run.at = "idle",
                      NEW n \in Cipher, enc[n] # None, NEW m \in {mapFile, encMap}
               PROVE  \E e \in m.recs : e.cipher = n /\ e.plain = enc[n]
    BY DEF FilesNamed
  <2>1. NewEntry(enc[n], n) \in m.recs
    BY DEF WhenWell, AllRecorded, Recorded
  <2> QED
    BY <2>1 DEF NewEntry
<1> QED
  BY <1>1, WhenWellHolds, PTL

\* Without --delete-keys, no record that a run began with is lost by a run that
\* ends well.
THEOREM EveryNameKept == NmSpec => []NamesKept
<1>1. WhenWell => NamesKept
  BY DEF WhenWell, Kept
<1> QED
  BY <1>1, WhenWellHolds, PTL

\* A run with --delete leaves the encrypted files of the tree and no other, and
\* one for each, with virt_recurse_dir_enc going through namemap only.
THEOREM DeletionExact == NmSpec => []DeleteExact
<1>1. Core /\ OnDisk /\ WhenWell => DeleteExact
  <2> SUFFICES ASSUME Core, OnDisk, WhenWell, run.op = "enc", run.result = "ok", run.opt.del,
                      run.calm, run.all, ~unclean
               PROVE  /\ Files(enc) = tree
                      /\ \A m, n \in Cipher : (m # n /\ enc[m] # None) => enc[m] # enc[n]
    BY DEF DeleteExact
  <2>1. Files(enc) = tree
    BY DEF WhenWell, Exact
  <2>2. run.at = "idle"
    BY DEF Core, Phases
  <2>3. ASSUME NEW m \in Cipher, NEW n \in Cipher, m # n, enc[m] # None PROVE enc[m] # enc[n]
    <3>1. SUFFICES ASSUME enc[m] = enc[n] PROVE FALSE
      OBVIOUS
    <3>2. NewEntry(enc[m], m) \in encMap.recs /\ NewEntry(enc[m], n) \in encMap.recs
      BY <2>2, <2>3, <3>1 DEF WhenWell, AllRecorded, Recorded
    <3> QED
      BY <2>3, <3>2 DEF OnDisk, MapsReadable, Readable, NewEntry
  <2> QED
    BY <2>1, <2>3
<1> QED
  BY <1>1, WhenWellHolds, PTL

\* When every encryption ended well, namecat_decrypt finds every name in the
\* decrypted "filemap", and every file comes back as itself.
THEOREM DecryptionComplete == NmSpec => []DecryptComplete
<1>1. Core /\ WhenWell => DecryptComplete
  <2> SUFFICES ASSUME Core, WhenWell, run.op = "dec", ~unclean, run.at = "idle", encMap.there
               PROVE  /\ run.result # "error"
                      /\ (run.result = "ok" /\ run.all) => \A p \in Files(enc) : rest[p] = p
    BY DEF DecryptComplete
  <2>1. run.result # "error" /\ ((run.result = "ok" /\ run.all) => \A n \in Cipher : Restored(n))
    BY DEF WhenWell, Complete
  <2>2. \A p \in Files(enc) : \E n \in Cipher : enc[n] = p /\ p # None
    BY DEF Core, NmTypeOK, Files, Range
  <2> QED
    BY <2>1, <2>2 DEF Restored
<1> QED
  BY <1>1, WhenWellHolds, PTL
=============================================================================
