-------------------------- MODULE BackupFileProofs --------------------------
(***************************************************************************)
(* The safety of one backed up file, for any options, windows, numbers of  *)
(* versions and of faults.  Three layers: how far the run is with the file *)
(* it writes; what that says of the files under their final names; and the *)
(* key file.                                                               *)
(***************************************************************************)
EXTENDS BackupFile, SequenceTheorems, TLAPS

\* The run has opened its output.
Working == run.at \notin {"idle", "scan", "key", "open"}

\* ... which is the final file itself.
Dirty(op) == run.op = op /\ InPlace /\ Working

\* Edits are told by their times.
Times ==
  /\ src.mtime \in src.past
  /\ \A t, u \in src.past : t # u => Gap(t, u) > ModWin + Granularity - 1

\* The time of the source, read before its content, is no later than that.
Found ==
  /\ run.seen <= src.ver
  /\ run.result # "none" => run.at = "idle"
  /\ (run.op = "dec" /\ run.at # "idle") => dst.there
  /\ run.at \notin {"idle", "scan"} =>
       IF run.op = "enc"
         THEN run.stat \in src.past /\ (run.stat = src.mtime => run.seen = src.ver)
         ELSE run.stat = dst.mtime

\* How many halves are written.
HalvesDone == CASE run.at = "first" -> 0 [] run.at = "second" -> 1 [] OTHER -> 2

\* How far the file under way is.
InProgress ==
  Working =>
    /\ Writing.there
    /\ run.op = "enc" =>
         /\ Len(Writing.body) = HalvesDone
         /\ \A h \in 1..Len(Writing.body) : Writing.body[h] \in run.seen..src.ver
         /\ run.at # "first" => Writing.key = run.head
         /\ run.at \notin {"first", "second", "header"} => Writing.hdr
    /\ run.op = "dec" =>
         /\ run.at \notin {"second", "header"}
         /\ run.at # "first" => Writing.body = dst.body /\ Len(dst.body) = 2
    /\ run.at = "rename" => Writing.mtime = Stored(run.stat)

Core == BfTypeOK /\ Times /\ Found /\ InProgress

\* A finished copy has the time of an edit, and the content of the present
\* version if that is the last one.
Timed(f) ==
  \E t \in src.past : f.mtime = Stored(t) /\ (t = src.mtime => f.body = <<src.ver, src.ver>>)

Finished ==
  "cut write" \notin had =>
    /\ (dst.there /\ ~Dirty("enc")) => Whole(dst) /\ Timed(dst)
    /\ (rest.there /\ ~Dirty("dec")) => Len(rest.body) = 2 /\ Timed(rest)

Recent ==
  ("cut write" \notin had /\ run.op = "enc" /\ run.result \in {"ok", "skipped"}) =>
    dst.there /\ Whole(dst) /\ \A h \in 1..2 : dst.body[h] >= run.seen

Copies == Finished /\ Recent

\* The run makes a key, and has not written it all.
KeyUnwritten == run.write /\ run.at \notin {"meta", "rename"}

\* Only a first backup makes a key, and the file is under way before the key
\* file is.
KeyKept ==
  had = {} =>
    /\ run.at # "idle" => ~run.opt.force
    /\ run.at \in InKeyFile \cup {"kcreate"} => run.write
    /\ (dst.there /\ ~Dirty("enc")) => kf.st = "key" /\ kf.key = dst.key
    /\ run.at \notin {"idle", "scan", "key"} =>
         /\ run.write => run.op = "enc" /\ (dst.there => Dirty("enc"))
         /\ (run.op = "enc" /\ ~KeyUnwritten) => kf.st = "key" /\ kf.key = run.head
-----------------------------------------------------------------------------
(* What the operators of the model do. *)

LEMMA Constants == AnyKey \in Key /\ AnyOpt \in Opts /\ NoFile \in Files /\ Len(NoFile.body) = 0
<1> USE BackupParams
<1>1. PICK o \in Opts : o.par \in Params
  BY DEF Opt
<1>2. [id |-> 0, par |-> o.par] \in Key
  BY <1>1 DEF Key
<1>3. AnyKey \in Key
  BY <1>2 DEF AnyKey
<1>4. AnyOpt \in Opts
  BY DEF AnyOpt
<1>5. <<>> \in Bodies
  BY DEF Bodies
<1>6. NoFile \in Files
  BY <1>3, <1>5 DEF NoFile, Files, Now
<1> QED
  BY <1>3, <1>4, <1>6 DEF NoFile

\* The file system rounds down, by less than its granularity, and once.
LEMMA Rounded ==
  ASSUME NEW t \in Nat
  PROVE  /\ Stored(t) \in 0..t /\ Stored(t) > t - Granularity
         /\ Stored(Stored(t)) = Stored(t)
<1>1. Stored(t) \in 0..t /\ Stored(t) > t - Granularity
  BY BackupParams, SMTT(20) DEF Stored
<1>2. Stored(Stored(t)) = Stored(t)
  BY BackupParams, SMTT(20) DEF Stored
<1> QED
  BY <1>1, <1>2

LEMMA BodyIsSeq ==
  ASSUME NEW f \in Files
  PROVE  f.body \in Seq(1..MaxVersion) /\ Len(f.body) \in 0..2
<1>1. PICK n \in 0..2 : f.body \in [1..n -> 1..MaxVersion]
  BY DEF Files, Bodies
<1>2. Seq(1..MaxVersion) = UNION {[1..m -> 1..MaxVersion] : m \in Nat}
  BY SeqDef
<1>3. f.body \in Seq(1..MaxVersion)
  BY <1>1, <1>2
<1>4. Len(f.body) \in Nat /\ 1..Len(f.body) = 1..n
  BY <1>1, <1>3, LenProperties
<1>5. Len(f.body) = n
  <2>1. Len(f.body) \in 1..n \/ Len(f.body) = 0
    BY <1>4
  <2>2. n \in 1..Len(f.body) \/ n = 0
    BY <1>4
  <2> QED
    BY <1>4, <2>1, <2>2
<1> QED
  BY <1>3, <1>5

LEMMA SeqIsBody ==
  ASSUME NEW s \in Seq(1..MaxVersion), Len(s) <= 2
  PROVE  s \in Bodies
<1>1. Len(s) \in Nat /\ s \in [1..Len(s) -> 1..MaxVersion]
  BY LenProperties
<1> QED
  BY <1>1 DEF Bodies

\* What Put writes is the file under way; the one it is made from, and, unless
\* the output is written in place, the final files, stay as they are.
LEMMA PutWrites ==
  ASSUME NEW f, Put(f), run.op \in {"enc", "dec"}, run'.op = run.op, run'.opt = run.opt
  PROVE  /\ Writing' = f
         /\ {dst', tmp', rest', rtmp'} \subseteq {dst, tmp, rest, rtmp, f}
         /\ run.op = "enc" => rest' = rest /\ (~InPlace => dst' = dst)
         /\ run.op = "dec" => dst' = dst /\ (~InPlace => rest' = rest)
BY DEF Put, Writing, InPlace

LEMMA Types ==
  ASSUME BfTypeOK
  PROVE  /\ src.ver \in 1..MaxVersion /\ src.mtime \in 0..MaxTime /\ src.past \subseteq 0..MaxTime
         /\ kf.key \in Key /\ dst \in Files /\ tmp \in Files /\ rest \in Files /\ rtmp \in Files
         /\ \A f \in Files : f.key \in Key /\ f.mtime \in 0..Now
         /\ run \in Run /\ run.op \in {"enc", "dec"} /\ run.opt \in Opts /\ run.opt.par \in Params
         /\ run.stat \in 0..Now /\ run.seen \in 1..MaxVersion /\ run.head \in Key
         /\ 0..MaxTime \subseteq 0..Now /\ Now \in 0..Now
         /\ faults \in 0..MaxFaults /\ (faults < MaxFaults => faults + 1 \in 0..MaxFaults)
<1>1. src \in Source /\ kf \in KeyFile /\ {dst, tmp, rest, rtmp} \subseteq Files /\ run \in Run
  BY DEF BfTypeOK
<1>2. 0..MaxTime \subseteq 0..Now /\ Now \in 0..Now
  BY BackupParams DEF Now
<1>3. src.ver \in 1..MaxVersion /\ src.mtime \in 0..MaxTime /\ src.past \subseteq 0..MaxTime
  BY <1>1 DEF Source
<1>4. kf.key \in Key /\ \A f \in Files : f.key \in Key /\ f.mtime \in 0..Now
  BY <1>1 DEF KeyFile, Files
<1>5. /\ run.op \in {"enc", "dec"} /\ run.opt \in Opts /\ run.stat \in 0..Now
      /\ run.seen \in 1..MaxVersion /\ run.head \in Key
  BY <1>1 DEF Run
<1>6. run.opt.par \in Params
  BY <1>5, BackupParams DEF Opt
<1>7. faults \in 0..MaxFaults
  BY DEF BfTypeOK
<1>8. faults < MaxFaults => faults + 1 \in 0..MaxFaults
  BY <1>7, BackupParams
<1> QED
  BY <1>1, <1>2, <1>3, <1>4, <1>5, <1>6, <1>7, <1>8

LEMMA EndedRun ==
  ASSUME BfTypeOK, NEW r \in {"ok", "skipped", "error", "gzip", "killed"}
  PROVE  /\ Ended(r) \in Run /\ Ended(r).op = run.op /\ Ended(r).at = "idle"
         /\ Ended(r).result = r /\ Ended(r).seen = run.seen
<1>1. run \in Run /\ "idle" \in Points
  BY DEF BfTypeOK, Points
<1>2. 0 \in 0..Now
  BY BackupParams DEF Now
<1>3. run.op \in {"enc", "dec"} /\ run.seen \in 1..MaxVersion
  BY <1>1 DEF Run
<1> QED
  BY <1>1, <1>2, <1>3, Constants DEF Ended, Run

LEMMA CoreInitially == BfInit => Core
<1> SUFFICES ASSUME BfInit PROVE Core
  OBVIOUS
<1> USE BackupParams, Constants DEF BfInit
<1>1. PICK t \in 0..MaxTime : src = [ver |-> 1, mtime |-> t, past |-> {t}]
  OBVIOUS
<1>2. src \in Source /\ kf \in KeyFile
  BY <1>1 DEF Source, KeyFile
<1>3. run \in Run
  <2>1. 0 \in 0..Now /\ "idle" \in Points
    BY DEF Now, Points
  <2> QED
    BY <2>1 DEF Run
<1>4. BfTypeOK
  BY <1>2, <1>3 DEF BfTypeOK
<1>5. Times
  BY <1>1 DEF Times
<1> QED
  BY <1>1, <1>4, <1>5 DEF Core, Found, InProgress, Working

LEMMA CoreStep == Core /\ [BfNext]_bfVars => Core'
<1> SUFFICES ASSUME Core, [BfNext]_bfVars PROVE Core'
  OBVIOUS
<1> USE BackupParams DEF Core
<1>1. CASE Edit
  <2>1. PICK t \in 0..MaxTime :
          /\ \A u \in src.past : Gap(t, u) > ModWin + Granularity - 1
          /\ src' = [ver |-> src.ver + 1, mtime |-> t, past |-> src.past \cup {t}]
    BY <1>1 DEF Edit
  <2>2. /\ src.ver \in 1..MaxVersion /\ src.ver < MaxVersion /\ src.past \subseteq 0..MaxTime
        /\ src'.ver = src.ver + 1 /\ src'.mtime = t /\ src'.past = src.past \cup {t}
    BY <1>1, <2>1 DEF Edit, BfTypeOK, Source
  <2>3. UNCHANGED <<kf, dst, tmp, rest, rtmp, run, faults, had>>
    BY <1>1 DEF Edit
  <2>4. BfTypeOK'
    <3>1. src' \in Source
      BY <2>1, <2>2 DEF Source
    <3> QED
      BY <2>3, <3>1 DEF BfTypeOK
  <2>5. t \notin src.past
    BY <2>1, <2>2 DEF Gap
  <2>6. Times'
    <3>1. \A u \in src.past : Gap(u, t) > ModWin + Granularity - 1
      BY <2>1, <2>2 DEF Gap
    <3> QED
      BY <2>1, <2>2, <3>1 DEF Times
  <2>7. Found'
    <3>1. run.seen <= src.ver + 1
      BY <2>2, Types DEF Found
    <3>2. run.stat \in src.past => run.stat # t
      BY <2>5
    <3> QED
      BY <2>2, <2>3, <3>1, <3>2 DEF Found
  <2>8. InProgress'
    <3>1. \A v \in run.seen..src.ver : v \in run.seen..(src.ver + 1)
      BY <2>2, Types
    <3>2. run' = run /\ HalvesDone' = HalvesDone /\ Writing' = Writing /\ dst' = dst
      BY <2>3 DEF Writing, InPlace, HalvesDone
    <3> QED
      BY <2>2, <3>1, <3>2 DEF InProgress, Working
  <2> QED
    BY <2>4, <2>6, <2>7, <2>8
<1>2. CASE LoseKey
  <2>1. [st |-> "none", key |-> AnyKey] \in KeyFile
    BY Constants DEF KeyFile
  <2>2. BfTypeOK'
    <3>1. faults' \in 0..MaxFaults
      BY <1>2, Types DEF LoseKey
    <3> QED
      BY <1>2, <2>1, <3>1 DEF LoseKey, BfTypeOK
  <2> QED
    BY <1>2, <2>2 DEF LoseKey, Times, Found, InProgress, Working, Writing, InPlace, HalvesDone
<1>3. ASSUME NEW r \in {"killed", "error", "gzip"}, run' = Ended(r),
             faults' \in 0..MaxFaults, had' \subseteq {"new key", "cut key", "cut write"},
             UNCHANGED <<src, kf, dst, tmp, rest, rtmp>>
      PROVE  Core'
  <2>1. run' \in Run /\ run'.at = "idle" /\ run'.seen = run.seen
    BY <1>3, EndedRun
  <2>2. BfTypeOK'
    BY <1>3, <2>1 DEF BfTypeOK
  <2> QED
    BY <1>3, <2>1, <2>2 DEF Times, Found, InProgress, Working
<1>4. CASE Kill \/ GzipFails \/ ReadBadKey \/ DecryptFails
  <2>1. faults' \in 0..MaxFaults /\ had' \subseteq {"new key", "cut key", "cut write"}
    <3>1. faults' = faults \/ (faults < MaxFaults /\ faults' = faults + 1)
      BY <1>4 DEF Kill, GzipFails, ReadBadKey, DecryptFails
    <3>2. faults' \in 0..MaxFaults
      BY <3>1, Types
    <3>3. had' \subseteq had \cup {"cut key", "cut write"}
      BY <1>4 DEF Kill, GzipFails, ReadBadKey, DecryptFails, CutWrite
    <3> QED
      BY <3>2, <3>3 DEF BfTypeOK
  <2> QED
    BY <1>3, <1>4, <2>1 DEF Kill, GzipFails, ReadBadKey, DecryptFails, Fail
<1>5. ASSUME NEW op \in {"enc", "dec"}, Start(op) PROVE Core'
  <2>1. PICK o \in Opts :
          /\ run' = [run EXCEPT !.op = op, !.opt = o, !.at = "scan", !.result = "none"]
          /\ had' = had \cup (IF o.force THEN {"new key"} ELSE {})
    BY <1>5 DEF Start
  <2>2. run' \in Run /\ run'.op = op /\ run'.at = "scan" /\ run'.seen = run.seen
        /\ run'.result = "none"
    BY <2>1 DEF BfTypeOK, Run, Points
  <2>3. BfTypeOK'
    BY <1>5, <2>1, <2>2 DEF Start, BfTypeOK
  <2> QED
    BY <1>5, <2>2, <2>3 DEF Start, Times, Found, InProgress, Working
<1>6. CASE Scan
  <2>1. PICK t \in {src.mtime, dst.mtime} :
          /\ run' \in {[Ended("skipped") EXCEPT !.seen = src.ver],
                       [run EXCEPT !.at = "key", !.stat = t, !.seen = src.ver]}
          /\ t = IF run.op = "enc" THEN src.mtime ELSE dst.mtime
    BY <1>6 DEF Scan
  <2>2. src.ver \in 1..MaxVersion /\ src.mtime \in 0..Now /\ dst.mtime \in 0..Now
    BY Types
  <2>3. CASE run' = [Ended("skipped") EXCEPT !.seen = src.ver]
    <3>1. run' \in Run /\ run'.at = "idle" /\ run'.seen = src.ver
      BY <2>2, <2>3, EndedRun DEF Run
    <3>2. BfTypeOK'
      BY <1>6, <3>1 DEF Scan, BfTypeOK
    <3> QED
      BY <1>6, <2>2, <3>1, <3>2 DEF Scan, Times, Found, InProgress, Working
  <2>4. CASE run' = [run EXCEPT !.at = "key", !.stat = t, !.seen = src.ver]
    <3>1. /\ run' \in Run /\ run'.op = run.op /\ run'.at = "key" /\ run'.seen = src.ver
          /\ run'.stat = t /\ run'.result = run.result
      BY <2>1, <2>2, <2>4 DEF BfTypeOK, Run, Points
    <3>2. BfTypeOK'
      BY <1>6, <3>1 DEF Scan, BfTypeOK
    <3> QED
      BY <1>6, <2>1, <2>2, <3>1, <3>2 DEF Scan, Times, Found, InProgress, Working
  <2> QED
    BY <2>1, <2>3, <2>4
<1>7. CASE ReadKey \/ NewKey \/ NoKey
  <2>1. FreshId \in 1..MaxKey
    <3>1. \E n \in 1..4 : n \notin {kf.key.id, dst.key.id, tmp.key.id}
      OBVIOUS
    <3>2. \E n \in 1..MaxKey : n \notin {kf.key.id, dst.key.id, tmp.key.id}
      BY <3>1
    <3> QED
      BY <3>2 DEF FreshId
  <2>2. [id |-> FreshId, par |-> run.opt.par] \in Key /\ kf.key \in Key
    BY <2>1, Types DEF Key
  <2>3. /\ run' \in Run /\ run'.op = run.op /\ run'.at = "open" /\ run'.seen = run.seen
        /\ run'.stat = run.stat /\ run'.result = run.result
    BY <1>7, <2>2, ZenonT(60) DEF ReadKey, NewKey, NoKey, BfTypeOK, Run, Points
  <2>4. BfTypeOK'
    BY <1>7, <2>3, ZenonT(60) DEF ReadKey, NewKey, NoKey, BfTypeOK
  <2>5. run.at = "key" /\ UNCHANGED <<src, kf, dst, tmp, rest, rtmp, faults, had>>
    BY <1>7 DEF ReadKey, NewKey, NoKey
  <2> QED
    BY <2>3, <2>4, <2>5 DEF Times, Found, InProgress, Working
<1>8. ASSUME NEW f \in Files, Put(f), NEW to \in Points, run' \in Run,
             run'.op = run.op, run'.opt = run.opt, run'.at = to, to \notin {"idle", "scan"}, run'.stat = run.stat,
             run'.seen = run.seen, run'.result = run.result, run.at \notin {"idle", "scan"},
             UNCHANGED <<src, kf, faults, had>>
      PROVE  BfTypeOK' /\ Times' /\ Found' /\ Writing' = f /\ (run.op = "dec" => dst' = dst)
  <2>1. run.op \in {"enc", "dec"}
    BY DEF BfTypeOK, Run
  <2>2. /\ Writing' = f /\ {dst', tmp', rest', rtmp'} \subseteq {dst, tmp, rest, rtmp, f}
        /\ run.op = "dec" => dst' = dst
    BY <1>8, <2>1, PutWrites
  <2>3. BfTypeOK'
    BY <1>8, <2>2 DEF BfTypeOK
  <2>4. Times' /\ Found'
    <3>1. run.op = "dec" => dst.there
      BY <1>8 DEF Found
    <3> QED
      BY <1>8, <2>1, <2>2, <3>1 DEF Times, Found
  <2> QED
    BY <2>2, <2>3, <2>4
<1>9. CASE OpenOutput
  <2>1. PICK f \in Touched(Truncated(Writing)) : Put(f)
    BY <1>9 DEF OpenOutput
  <2>2. f \in Files /\ f.there /\ Len(f.body) = 0
    <3>1. PICK t \in 0..Now : f = [Truncated(Writing) EXCEPT !.mtime = t]
      BY Types DEF Touched
    <3>2. Truncated(Writing) = [NoFile EXCEPT !.there = TRUE] /\ NoFile \in Files
      BY Constants DEF Truncated
    <3> QED
      BY <3>1, <3>2, Constants DEF Files
  <2>3. /\ run' \in Run /\ run'.op = run.op /\ run'.opt = run.opt /\ run'.at = "first"
        /\ run'.stat = run.stat /\ run'.seen = run.seen /\ run'.result = run.result
        /\ run.at = "open"
    BY <1>9 DEF OpenOutput, BfTypeOK, Run, Points
  <2>4. BfTypeOK' /\ Times' /\ Found' /\ Writing' = f
    BY <1>8, <1>9, <2>1, <2>2, <2>3 DEF OpenOutput, Points
  <2> QED
    BY <2>2, <2>3, <2>4 DEF InProgress, HalvesDone
<1>10. CASE EncryptHalf
  <2> DEFINE b == Append(Writing.body, src.ver)
  <2> DEFINE g == [Writing EXCEPT !.body = b, !.key = run.head]
  <2>1. PICK f \in Touched(g) : Put(f)
    BY <1>10 DEF EncryptHalf
  <2>2. /\ run.op = "enc" /\ run.at \in {"first", "second"} /\ Working
        /\ UNCHANGED <<src, kf, faults, had>>
    BY <1>10 DEF EncryptHalf, Working
  <2>3. Writing \in Files /\ Writing.there /\ Len(Writing.body) = HalvesDone
        /\ \A h \in 1..Len(Writing.body) : Writing.body[h] \in run.seen..src.ver
    BY <2>2, Types DEF InProgress, Writing
  <2>4. /\ Writing.body \in Seq(1..MaxVersion) /\ Len(Writing.body) \in 0..2
        /\ src.ver \in 1..MaxVersion
    BY <2>3, Types, BodyIsSeq
  <2>5. Len(b) = HalvesDone + 1 /\ Len(b) \in 1..2
        /\ \A h \in 1..Len(b) : b[h] \in run.seen..src.ver
    <3>1. /\ Len(b) = Len(Writing.body) + 1 /\ b[Len(b)] = src.ver
          /\ \A h \in 1..Len(Writing.body) : b[h] = Writing.body[h]
      BY <2>4, AppendProperties
    <3>2. src.ver \in run.seen..src.ver
      BY Types DEF Found
    <3>3. HalvesDone \in 0..1
      BY <2>2 DEF HalvesDone
    <3> QED
      BY <2>3, <3>1, <3>2, <3>3, SMTT(30)
  <2>6. f \in Files /\ f.there /\ f.body = b /\ f.key = run.head
    <3>1. PICK t \in 0..Now : f = [g EXCEPT !.mtime = t]
      BY Types DEF Touched
    <3>2. b \in Seq(1..MaxVersion)
      BY <2>4, AppendProperties
    <3> HIDE DEF b
    <3>3. b \in Bodies
      BY <2>5, <3>2, SeqIsBody
    <3> QED
      BY <2>3, <3>1, <3>3, Types DEF Files
  <2>7. PICK to \in {"second", "header"} : run' = [run EXCEPT !.at = to]
               /\ to = IF run.at = "first" THEN "second" ELSE "header"
    BY <1>10 DEF EncryptHalf
  <2>8. /\ run' \in Run /\ run'.op = run.op /\ run'.opt = run.opt /\ run'.at = to
        /\ run'.stat = run.stat /\ run'.seen = run.seen /\ run'.result = run.result
        /\ run'.head = run.head
    BY <2>7 DEF BfTypeOK, Run, Points
  <2>9. BfTypeOK' /\ Times' /\ Found' /\ Writing' = f
    BY <1>8, <2>1, <2>2, <2>6, <2>8 DEF Points, Working
  <2>10. Len(f.body) = HalvesDone'
    BY <2>2, <2>5, <2>6, <2>7, <2>8 DEF HalvesDone
  <2> QED
    BY <2>2, <2>5, <2>6, <2>7, <2>8, <2>9, <2>10 DEF InProgress
<1>11. CASE EncryptHeader
  <2> DEFINE f == [Writing EXCEPT !.hdr = TRUE]
  <2>1. Put(f) /\ run.op = "enc" /\ run.at = "header" /\ UNCHANGED <<src, kf, faults, had>>
    BY <1>11 DEF EncryptHeader
  <2>2. Working /\ Writing \in Files
    BY <2>1, Types DEF Working, Writing
  <2>3. /\ f \in Files /\ f.there = Writing.there /\ f.body = Writing.body
        /\ f.key = Writing.key /\ f.hdr
    BY <2>2 DEF Files
  <2>4. PICK to \in {"kcreate", "meta"} : run' = [run EXCEPT !.at = to]
    BY <1>11 DEF EncryptHeader, AfterFile
  <2>5. /\ run' \in Run /\ run'.op = run.op /\ run'.opt = run.opt /\ run'.at = to
        /\ run'.stat = run.stat /\ run'.seen = run.seen /\ run'.result = run.result
        /\ run'.head = run.head
    BY <2>4 DEF BfTypeOK, Run, Points
  <2>6. BfTypeOK' /\ Times' /\ Found' /\ Writing' = f
    <3> HIDE DEF f
    <3> QED
      BY <1>8, <2>1, <2>2, <2>3, <2>5 DEF Points, Working
  <2>7. HalvesDone' = HalvesDone
    BY <2>1, <2>5 DEF HalvesDone
  <2> QED
    BY <2>1, <2>2, <2>3, <2>5, <2>6, <2>7 DEF InProgress
<1>12. CASE DecryptFile
  <2> DEFINE f == [Writing EXCEPT !.body = dst.body]
  <2>1. /\ Put(f) /\ run.op = "dec" /\ run.at = "first" /\ Len(dst.body) = 2
        /\ UNCHANGED <<src, kf, faults, had>>
    BY <1>12 DEF DecryptFile
  <2>2. Working /\ Writing \in Files /\ dst \in Files /\ dst.key \in Key
    BY <2>1, Types DEF Working, Writing
  <2>3. f \in Files /\ f.there = Writing.there /\ f.body = dst.body
    BY <2>2 DEF Files
  <2>4. PICK to \in {"kcreate", "meta"} :
          run' = [run EXCEPT !.at = to, !.head = dst.key, !.known = TRUE]
    BY <1>12 DEF DecryptFile, AfterFile
  <2>5. /\ run' \in Run /\ run'.op = run.op /\ run'.opt = run.opt /\ run'.at = to
        /\ run'.stat = run.stat /\ run'.seen = run.seen /\ run'.result = run.result
    BY <2>2, <2>4 DEF BfTypeOK, Run, Points
  <2>6. BfTypeOK' /\ Times' /\ Found' /\ Writing' = f /\ dst' = dst
    <3> HIDE DEF f
    <3> QED
      BY <1>8, <2>1, <2>2, <2>3, <2>5 DEF Points, Working
  <2> QED
    BY <2>1, <2>2, <2>3, <2>5, <2>6 DEF InProgress
<1>13. CASE WriteHeader
  <2>1. PICK to \in {"kextend", "kclear", "kheader", "ksecret", "meta"} : run' = [run EXCEPT !.at = to]
    BY <1>13 DEF WriteHeader, CreateKeyFile, ExtendKeyFile, ClearKeyFile, FillKeyHeader, FillKeySecret,
                 KeyStep
  <2>2. /\ run.at \in {"kcreate", "kextend", "kclear", "kheader", "ksecret"}
        /\ UNCHANGED <<src, dst, tmp, rest, rtmp, faults, had>>
    BY <1>13 DEF WriteHeader, CreateKeyFile, ExtendKeyFile, ClearKeyFile, FillKeyHeader, FillKeySecret,
                 KeyStep
  <2>3. /\ run' \in Run /\ run'.op = run.op /\ run'.opt = run.opt /\ run'.at = to
        /\ run'.stat = run.stat /\ run'.seen = run.seen /\ run'.result = run.result
        /\ run'.head = run.head
    BY <2>1 DEF BfTypeOK, Run, Points, InKeyFile
  <2>4. kf' \in KeyFile
    <3>1. \A key \in Key : [key EXCEPT !.id = 0] \in Key
      BY DEF Key
    <3>2. kf.key \in Key /\ run.head \in Key /\ kf \in KeyFile
      BY Types DEF BfTypeOK
    <3> QED
      BY <1>13, <3>1, <3>2 DEF WriteHeader, CreateKeyFile, ExtendKeyFile, ClearKeyFile, FillKeyHeader,
                         FillKeySecret, KeyStep, Spoilt, KeyFile
  <2>5. BfTypeOK'
    BY <2>2, <2>3, <2>4 DEF BfTypeOK
  <2>6. Times' /\ Found'
    BY <2>2, <2>3 DEF Times, Found
  <2>7. HalvesDone' = HalvesDone /\ Writing' = Writing /\ Working
    BY <2>2, <2>3 DEF HalvesDone, Writing, InPlace, Working
  <2> QED
    BY <2>2, <2>3, <2>5, <2>6, <2>7 DEF InProgress
<1>14. CASE CopyMetadata
  <2> DEFINE f == [Writing EXCEPT !.mtime = Stored(run.stat)]
  <2>1. Put(f) /\ run.at = "meta" /\ UNCHANGED <<src, kf, faults, had>>
    BY <1>14 DEF CopyMetadata, SourceTime
  <2>2. Working /\ Writing \in Files
    BY <2>1, Types DEF Working, Writing
  <2>3. Stored(run.stat) \in 0..Now
    BY Types, Rounded DEF Now
  <2>4. /\ f \in Files /\ f.there = Writing.there /\ f.body = Writing.body
        /\ f.key = Writing.key /\ f.hdr = Writing.hdr /\ f.mtime = Stored(run.stat)
    BY <2>2, <2>3 DEF Files
  <2>5. /\ run' \in Run /\ run'.op = run.op /\ run'.opt = run.opt /\ run'.at = "rename"
        /\ run'.stat = run.stat /\ run'.seen = run.seen /\ run'.result = run.result
        /\ run'.head = run.head
    BY <1>14 DEF CopyMetadata, BfTypeOK, Run, Points
  <2>6. BfTypeOK' /\ Times' /\ Found' /\ Writing' = f /\ (run.op = "dec" => dst' = dst)
    <3> HIDE DEF f
    <3> QED
      BY <1>8, <2>1, <2>2, <2>4, <2>5 DEF Points, Working
  <2>7. HalvesDone' = HalvesDone
    BY <2>1, <2>5 DEF HalvesDone
  <2> QED
    BY <2>1, <2>2, <2>4, <2>5, <2>6, <2>7, Types DEF InProgress
<1>15. CASE Rename
  <2>1. run' = Ended("ok") /\ run.at = "rename" /\ UNCHANGED <<src, kf, faults, had>>
        /\ {dst', tmp', rest', rtmp'} \subseteq {dst, tmp, rest, rtmp, NoFile}
    BY <1>15 DEF Rename
  <2>2. run' \in Run /\ run'.at = "idle" /\ run'.seen = run.seen
    BY <2>1, EndedRun
  <2>3. BfTypeOK'
    BY <2>1, <2>2, Constants DEF BfTypeOK
  <2> QED
    BY <2>1, <2>2, <2>3 DEF Times, Found, InProgress, Working
<1>16. CASE UNCHANGED bfVars
  BY <1>16 DEF bfVars, BfTypeOK, Times, Found, InProgress, Working, Writing, InPlace, HalvesDone
<1> QED
  BY <1>1, <1>2, <1>4, <1>5, <1>6, <1>7, <1>9, <1>10, <1>11, <1>12, <1>13, <1>14, <1>15, <1>16
  DEF BfNext, Proceed

-----------------------------------------------------------------------------
(* The copies. *)

\* -c's window and the file system's rounding are less than what separates the
\* times of two edits.
LEMMA TimedIsCurrent ==
  ASSUME BfTypeOK, Times, NEW f, Timed(f), Gap(f.mtime, src.mtime) <= ModWin
  PROVE  f.body = <<src.ver, src.ver>>
<1>1. PICK t \in src.past :
        f.mtime = Stored(t) /\ (t = src.mtime => f.body = <<src.ver, src.ver>>)
  BY DEF Timed
<1>2. t \in Nat /\ src.mtime \in Nat
  BY Types
<1>3. Stored(t) \in 0..t /\ Stored(t) > t - Granularity
  BY <1>2, Rounded
<1>4. t # src.mtime => Gap(t, src.mtime) > ModWin + Granularity - 1
  BY DEF Times
<1>5. t = src.mtime
  BY <1>1, <1>2, <1>3, <1>4, BackupParams DEF Gap
<1> QED
  BY <1>1, <1>5

LEMMA TwoHalves ==
  ASSUME NEW b \in Seq(1..MaxVersion), Len(b) = 2, NEW v \in 1..MaxVersion,
         \A h \in 1..2 : b[h] = v
  PROVE  b = <<v, v>>
BY SeqEqual

\* A run that stops without having finished a file in place stops with the
\* copies as they are.
LEMMA StoppedRun ==
  ASSUME Core, Copies, NEW r \in {"killed", "error", "gzip"}, run' = Ended(r),
         UNCHANGED <<src, dst, rest>>, had \subseteq had',
         (InPlace /\ Working) => "cut write" \in had'
  PROVE  Copies'
<1>1. run'.at = "idle" /\ run'.result = r
  BY EndedRun DEF Core
<1>2. Recent'
  BY <1>1 DEF Recent
<1>3. Finished'
  BY <1>1 DEF Copies, Finished, Dirty, Working, Timed, Whole
<1> QED
  BY <1>2, <1>3 DEF Copies

LEMMA CopiesInitially == BfInit => Copies
BY DEF BfInit, Copies, Finished, Recent, NoFile

LEMMA CopiesStep == Core /\ Core' /\ Copies /\ [BfNext]_bfVars => Copies'
<1> SUFFICES ASSUME Core, Core', Copies, [BfNext]_bfVars PROVE Copies'
  OBVIOUS
<1> USE DEF Core, Copies
<1>1. CASE Edit
  <2>1. PICK t \in 0..MaxTime :
          /\ \A u \in src.past : Gap(t, u) > ModWin + Granularity - 1
          /\ src' = [ver |-> src.ver + 1, mtime |-> t, past |-> src.past \cup {t}]
    BY <1>1 DEF Edit
  <2>2. t \notin src.past
    BY <2>1, Types, BackupParams DEF Gap
  <2>3. \A f \in {dst, rest} : Timed(f) => Timed(f)'
    BY <1>1, <2>1, <2>2 DEF Edit, Timed
  <2> QED
    BY <1>1, <2>3 DEF Edit, Finished, Recent, Dirty, InPlace, Working, Whole
<1>2. CASE LoseKey
  BY <1>2 DEF LoseKey, Finished, Recent, Dirty, InPlace, Working, Whole, Timed
<1>3. CASE Kill \/ GzipFails \/ ReadBadKey \/ DecryptFails
  <2>1. PICK r \in {"killed", "error", "gzip"} : run' = Ended(r)
    BY <1>3 DEF Kill, GzipFails, ReadBadKey, DecryptFails, Fail
  <2>2. UNCHANGED <<src, dst, rest>> /\ had \subseteq had'
    BY <1>3 DEF Kill, GzipFails, ReadBadKey, DecryptFails
  <2>3. (InPlace /\ Working) => "cut write" \in had'
    BY <1>3 DEF Kill, GzipFails, ReadBadKey, DecryptFails, CutWrite, Working
  <2> QED
    BY <2>1, <2>2, <2>3, StoppedRun
<1>4. ASSUME NEW op \in {"enc", "dec"}, Start(op) PROVE Copies'
  <2>1. run'.at = "scan" /\ run'.result = "none" /\ run.at = "idle"
    BY <1>4, Types DEF Start, Run
  <2>2. had' \cap {"cut write"} = had \cap {"cut write"} /\ UNCHANGED <<src, dst, rest>>
    BY <1>4 DEF Start
  <2> QED
    BY <2>1, <2>2 DEF Finished, Recent, Dirty, Working, Whole, Timed
<1>5. CASE Scan
  <2>1. UNCHANGED <<src, dst, rest, had>> /\ run.at = "scan"
    BY <1>5 DEF Scan
  <2>2. run'.at \in {"key", "idle"} /\ run'.op = run.op
        /\ run'.result \in {run.result, "skipped"} /\ run.result = "none"
    BY <1>5, Types, EndedRun DEF Scan, Run, Found
  <2>3. Finished'
    BY <2>1, <2>2 DEF Finished, Dirty, Working, Whole, Timed
  <2>4. Recent'
    <3>1. SUFFICES ASSUME "cut write" \notin had, run.op = "enc", run'.result = "skipped"
                   PROVE  dst.there /\ Whole(dst) /\ \A h \in 1..2 : dst.body[h] >= run'.seen
      BY <2>1, <2>2 DEF Recent, Whole
    <3>2. Unchanged(dst, src.mtime)
      BY <1>5, <2>2, <3>1, Types DEF Scan, Run
    <3>3. dst.there /\ Gap(dst.mtime, src.mtime) <= ModWin
      BY <3>2 DEF Unchanged
    <3>4. Whole(dst) /\ Timed(dst)
      BY <2>1, <3>1, <3>3 DEF Finished, Dirty, Working
    <3>5. dst.body = <<src.ver, src.ver>>
      BY <3>3, <3>4, TimedIsCurrent
    <3>6. run'.seen = src.ver
      BY <1>5, <3>1, Types, EndedRun DEF Scan, Run
    <3> QED
      BY <3>3, <3>4, <3>5, <3>6, Types
  <2> QED
    BY <2>3, <2>4
<1>6. CASE ReadKey \/ NewKey \/ NoKey
  <2>1. UNCHANGED <<src, dst, rest, had>> /\ run.at = "key"
    BY <1>6 DEF ReadKey, NewKey, NoKey
  <2>2. run'.at = "open" /\ run'.result = "none"
    BY <1>6, <2>1, Types DEF ReadKey, NewKey, NoKey, Run, Found
  <2> QED
    BY <2>1, <2>2 DEF Finished, Recent, Dirty, Working, Whole, Timed
<1>7. ASSUME NEW f, Put(f), run'.op = run.op, run'.opt = run.opt, run'.result = run.result,
             run.at # "idle", Working', UNCHANGED <<src, had>>
      PROVE  Copies'
  <2>1. run.op \in {"enc", "dec"} /\ run.result = "none"
    BY <1>7, Types DEF Found
  <2>2. /\ run.op = "enc" => rest' = rest /\ (~InPlace => dst' = dst)
        /\ run.op = "dec" => dst' = dst /\ (~InPlace => rest' = rest)
    BY <1>7, <2>1, PutWrites
  <2>3. InPlace' = InPlace
    BY <1>7 DEF InPlace
  <2> QED
    BY <1>7, <2>1, <2>2, <2>3 DEF Finished, Recent, Dirty, Whole, Timed
<1>8. CASE OpenOutput \/ EncryptHalf \/ EncryptHeader \/ DecryptFile \/ CopyMetadata
  <2>1. run.at # "idle" /\ UNCHANGED <<src, had>> /\ \E f : Put(f)
    BY <1>8 DEF OpenOutput, EncryptHalf, EncryptHeader, DecryptFile, CopyMetadata
  <2>2. run'.op = run.op /\ run'.opt = run.opt /\ run'.result = run.result /\ Working'
    BY <1>8, Types DEF OpenOutput, EncryptHalf, EncryptHeader, DecryptFile, CopyMetadata, AfterFile,
                       Run, Working
  <2> QED
    BY <1>7, <2>1, <2>2
<1>9. CASE WriteHeader
  <2>1. PICK to \in {"kextend", "kclear", "kheader", "ksecret", "meta"} : run' = [run EXCEPT !.at = to]
    BY <1>9 DEF WriteHeader, CreateKeyFile, ExtendKeyFile, ClearKeyFile, FillKeyHeader, FillKeySecret,
                KeyStep
  <2>2. UNCHANGED <<src, dst, rest, had>> /\ Working
    BY <1>9 DEF WriteHeader, CreateKeyFile, ExtendKeyFile, ClearKeyFile, FillKeyHeader, FillKeySecret,
                KeyStep, Working
  <2>3. Working' /\ run'.op = run.op /\ run'.opt = run.opt /\ run'.result = run.result
        /\ run'.seen = run.seen
    BY <2>1, Types DEF Run, Working
  <2> QED
    BY <2>2, <2>3 DEF Finished, Recent, Dirty, InPlace, Whole, Timed
<1>10. CASE Rename
  <2>1. UNCHANGED <<src, had>> /\ run.at = "rename" /\ run' = Ended("ok") /\ Working
    BY <1>10 DEF Rename, Working
  <2>2. run'.at = "idle" /\ run'.op = run.op /\ run'.seen = run.seen
    BY <2>1, EndedRun
  <2>3. IF run.op = "enc" THEN dst' = Writing /\ rest' = rest ELSE rest' = Writing /\ dst' = dst
    BY <1>10 DEF Rename, Writing
  <2>4. Writing.there /\ Writing \in Files /\ Writing.mtime = Stored(run.stat)
    BY <2>1, Types DEF InProgress, Writing
  <2>5. CASE run.op = "enc"
    <3>1. Len(Writing.body) = 2 /\ Writing.hdr
          /\ \A h \in 1..2 : Writing.body[h] \in run.seen..src.ver
      BY <2>1, <2>5 DEF InProgress, HalvesDone
    <3>2. run.stat \in src.past /\ (run.stat = src.mtime => run.seen = src.ver)
      BY <2>1, <2>5 DEF Found
    <3>3. run.stat = src.mtime => Writing.body = <<src.ver, src.ver>>
      BY <2>4, <3>1, <3>2, Types, BodyIsSeq, TwoHalves
    <3>4. Timed(Writing)
      BY <2>4, <3>2, <3>3 DEF Timed
    <3>5. dst' = Writing /\ rest' = rest /\ Whole(dst') /\ Timed(dst')
      BY <2>3, <2>5, <3>1, <3>4 DEF Whole, Timed
    <3>6. Timed(dst)' /\ (Timed(rest) => Timed(rest)') /\ Whole(dst)'
      BY <2>1, <3>5 DEF Timed, Whole
    <3>7. \A h \in 1..2 : dst'.body[h] >= run'.seen
      BY <2>2, <3>1, <3>5, Types
    <3>8. Finished'
      BY <2>1, <2>2, <2>5, <3>5, <3>6 DEF Finished, Dirty, Working
    <3>9. Recent'
      BY <2>4, <3>5, <3>6, <3>7 DEF Recent
    <3> QED
      BY <3>8, <3>9
  <2>6. CASE run.op = "dec"
    <3>1. Writing.body = dst.body /\ Len(dst.body) = 2 /\ run.stat = dst.mtime /\ dst.there
      BY <2>1, <2>6 DEF InProgress, Found
    <3>2. dst' = dst /\ rest' = Writing
      BY <2>3, <2>6
    <3>3. ASSUME Timed(dst) PROVE Timed(Writing)
      <4>1. PICK t \in src.past :
              dst.mtime = Stored(t) /\ (t = src.mtime => dst.body = <<src.ver, src.ver>>)
        BY <3>3 DEF Timed
      <4>2. Stored(Stored(t)) = Stored(t)
        BY Types, Rounded
      <4> QED
        BY <2>4, <3>1, <4>1, <4>2 DEF Timed
    <3>4. "cut write" \notin had => Whole(dst) /\ Timed(dst)
      BY <2>6, <3>1 DEF Finished, Dirty
    <3>5. (Timed(dst) => Timed(dst)') /\ (Timed(Writing) => Timed(rest)')
      BY <2>1, <3>2 DEF Timed
    <3>6. Finished'
      BY <2>1, <3>1, <3>2, <3>3, <3>4, <3>5 DEF Finished, Whole
    <3>7. Recent'
      BY <2>2, <2>6 DEF Recent
    <3> QED
      BY <3>6, <3>7
  <2> QED
    BY <2>5, <2>6, Types
<1>11. CASE UNCHANGED bfVars
  BY <1>11 DEF bfVars, Finished, Recent, Dirty, InPlace, Working, Whole, Timed
<1> QED
  BY <1>1, <1>2, <1>3, <1>4, <1>5, <1>6, <1>8, <1>9, <1>10, <1>11 DEF BfNext, Proceed

-----------------------------------------------------------------------------
(* The key. *)

LEMMA KeyInitially == BfInit => KeyKept
BY DEF BfInit, KeyKept, NoFile, InKeyFile

LEMMA KeyStays == Core /\ Core' /\ KeyKept /\ [BfNext]_bfVars => KeyKept'
<1> SUFFICES ASSUME Core, Core', KeyKept, [BfNext]_bfVars, had' = {} PROVE KeyKept'
  BY DEF KeyKept
<1> USE DEF Core, InKeyFile
<1>1. CASE Edit
  BY <1>1 DEF Edit, KeyKept, Dirty, InPlace, Working, KeyUnwritten
<1>2. CASE LoseKey
  BY <1>2 DEF LoseKey
<1>3. CASE Kill \/ GzipFails \/ ReadBadKey \/ DecryptFails
  <2>1. PICK r \in {"killed", "error", "gzip"} : run' = Ended(r)
    BY <1>3 DEF Kill, GzipFails, ReadBadKey, DecryptFails, Fail
  <2>2. UNCHANGED <<kf, dst>> /\ had = {}
    BY <1>3 DEF Kill, GzipFails, ReadBadKey, DecryptFails
  <2>3. ~(InPlace /\ Working)
    BY <1>3 DEF Kill, GzipFails, ReadBadKey, DecryptFails, CutWrite, Working
  <2>4. run'.at = "idle"
    BY <2>1, EndedRun
  <2> QED
    BY <2>2, <2>3, <2>4 DEF KeyKept, Dirty, Working
<1>4. ASSUME NEW op \in {"enc", "dec"}, Start(op) PROVE KeyKept'
  <2>1. PICK o \in Opts :
          /\ run' = [run EXCEPT !.op = op, !.opt = o, !.at = "scan", !.result = "none"]
          /\ had' = had \cup (IF o.force THEN {"new key"} ELSE {})
    BY <1>4 DEF Start
  <2>2. had = {} /\ ~o.force
    BY <2>1
  <2>3. run'.at = "scan" /\ run'.opt = o
    BY <2>1, Types DEF Run
  <2> QED
    BY <1>4, <2>2, <2>3 DEF Start, KeyKept, Dirty, Working
<1>5. CASE Scan
  <2>1. UNCHANGED <<kf, dst, had>> /\ run.at = "scan"
    BY <1>5 DEF Scan
  <2>2. run'.at = "idle" \/ (run'.at = "key" /\ run'.opt = run.opt)
    BY <1>5, Types, EndedRun DEF Scan, Run
  <2> QED
    BY <2>1, <2>2 DEF KeyKept, Dirty, Working
<1>6. CASE ReadKey \/ NewKey \/ NoKey
  <2>1. UNCHANGED <<kf, dst, had>> /\ run.at = "key" /\ had = {}
    BY <1>6 DEF ReadKey, NewKey, NoKey
  <2>2. run'.at = "open" /\ run'.op = run.op /\ run'.opt = run.opt
    BY <1>6, Types DEF ReadKey, NewKey, NoKey, Run
  <2>3. dst.there => kf.st = "key"
    BY <2>1 DEF KeyKept, Dirty, Working
  <2>4. CASE ReadKey
    <3>1. ~run'.write /\ kf.st = "key" /\ run'.head = kf.key
      BY <2>4, Types DEF ReadKey, Run
    <3> QED
      BY <2>1, <2>2, <3>1 DEF KeyKept, Dirty, Working
  <2>5. CASE NewKey
    <3>1. run.op = "enc" /\ kf.st = "none"
      BY <2>1, <2>5 DEF NewKey, Forced, KeyKept
    <3>2. run'.write
      BY <2>5, Types DEF NewKey, Run
    <3> QED
      BY <2>1, <2>2, <2>3, <3>1, <3>2 DEF KeyKept, Dirty, Working, KeyUnwritten
  <2>6. CASE NoKey
    BY <2>3, <2>6 DEF NoKey, Found
  <2> QED
    BY <1>6, <2>4, <2>5, <2>6
<1>7. ASSUME NEW f, Put(f), run'.op = run.op, run'.opt = run.opt, run'.write = run.write,
             run.op = "enc" => run'.head = run.head,
             run.at \in {"open", "first", "second", "header", "meta"}, Working',
             run'.at \in InKeyFile \cup {"kcreate"} => run.write,
             run'.at \in {"meta", "rename"} => run.at = "meta" \/ ~run.write,
             UNCHANGED <<kf, had>>
      PROVE  KeyKept'
  <2>1. /\ run.op = "enc" => (~InPlace => dst' = dst)
        /\ run.op = "dec" => dst' = dst
        /\ run.op \in {"enc", "dec"}
    BY <1>7, Types, PutWrites
  <2>2. InPlace' = InPlace /\ had = {}
    BY <1>7 DEF InPlace
  <2>3. (dst'.there /\ ~Dirty("enc")') => dst' = dst /\ ~Dirty("enc")
    BY <1>7, <2>1, <2>2 DEF Dirty
  <2>4. (dst'.there /\ ~Dirty("enc")') => kf'.st = "key" /\ kf'.key = dst'.key
    BY <1>7, <2>2, <2>3 DEF KeyKept
  <2>5. run'.write => run'.op = "enc" /\ (dst'.there => Dirty("enc")')
    BY <1>7, <2>2, <2>3 DEF KeyKept
  <2>6. (run'.op = "enc" /\ ~KeyUnwritten') => kf'.st = "key" /\ kf'.key = run'.head
    BY <1>7, <2>2 DEF KeyKept, KeyUnwritten
  <2>7. run'.at # "idle" => ~run'.opt.force
    BY <1>7, <2>2 DEF KeyKept
  <2> QED
    BY <1>7, <2>4, <2>5, <2>6, <2>7 DEF KeyKept
<1>8. CASE OpenOutput \/ EncryptHalf \/ EncryptHeader \/ DecryptFile \/ CopyMetadata
  <2>1. /\ run.at \in {"open", "first", "second", "header", "meta"}
        /\ UNCHANGED <<kf, had>> /\ \E f : Put(f)
    BY <1>8 DEF OpenOutput, EncryptHalf, EncryptHeader, DecryptFile, CopyMetadata
  <2>2. PICK to \in Points :
          /\ to \in {"first", "second", "header", "kcreate", "meta", "rename"}
          /\ run' \in {[run EXCEPT !.at = to],
                       [run EXCEPT !.at = to, !.head = dst.key, !.known = TRUE]}
          /\ run.op = "enc" => run' = [run EXCEPT !.at = to]
          /\ to = "kcreate" => run.write
          /\ to \in {"meta", "rename"} => run.at = "meta" \/ ~run.write
    BY <1>8, ZenonT(60) DEF OpenOutput, EncryptHalf, EncryptHeader, DecryptFile, CopyMetadata, AfterFile, Points
  <2>3. run'.op = run.op /\ run'.opt = run.opt /\ run'.write = run.write /\ run'.at = to
        /\ (run.op = "enc" => run'.head = run.head)
    BY <2>2, Types DEF Run
  <2> QED
    BY <1>7, <2>1, <2>2, <2>3 DEF Working
<1>9. CASE WriteHeader
  <2>1. PICK to \in {"kextend", "kclear", "kheader", "ksecret", "meta"} :
          run' = [run EXCEPT !.at = to] /\ (to = "meta" => FillKeySecret)
    BY <1>9 DEF WriteHeader, CreateKeyFile, ExtendKeyFile, ClearKeyFile, FillKeyHeader, FillKeySecret,
                KeyStep
  <2>2. run.at \in InKeyFile \cup {"kcreate"} /\ UNCHANGED <<dst, had>> /\ had = {}
    BY <1>9 DEF WriteHeader, CreateKeyFile, ExtendKeyFile, ClearKeyFile, FillKeyHeader, FillKeySecret,
                KeyStep
  <2>3. run'.op = run.op /\ run'.opt = run.opt /\ run'.write = run.write /\ run'.at = to
        /\ run'.head = run.head
    BY <2>1, Types DEF Run
  <2>4. run.write /\ run.op = "enc" /\ (dst.there => Dirty("enc"))
    BY <2>2 DEF KeyKept
  <2>5. dst'.there => Dirty("enc")'
    BY <2>2, <2>3, <2>4 DEF Dirty, InPlace, Working
  <2>6. ~KeyUnwritten' => kf'.st = "key" /\ kf'.key = run'.head
    <3>1. CASE to = "meta"
      BY <2>1, <2>3, <3>1 DEF FillKeySecret, KeyStep
    <3>2. CASE to # "meta"
      BY <2>3, <2>4, <3>2 DEF KeyUnwritten
    <3> QED
      BY <3>1, <3>2
  <2> QED
    BY <2>2, <2>3, <2>4, <2>5, <2>6 DEF KeyKept
<1>10. CASE Rename
  <2>1. UNCHANGED <<kf, had>> /\ run.at = "rename" /\ run'.at = "idle" /\ had = {} /\ Working
    BY <1>10, EndedRun DEF Rename, Working
  <2>2. IF run.op = "enc" THEN dst' = Writing ELSE dst' = dst
    BY <1>10 DEF Rename, Writing
  <2>3. run.op = "enc" => Writing.key = run.head /\ kf.st = "key" /\ kf.key = run.head
    BY <2>1 DEF InProgress, KeyKept, KeyUnwritten
  <2> QED
    BY <2>1, <2>2, <2>3 DEF KeyKept, Dirty
<1>11. CASE UNCHANGED bfVars
  BY <1>11 DEF bfVars, KeyKept, Dirty, InPlace, Working, KeyUnwritten
<1> QED
  BY <1>1, <1>2, <1>3, <1>4, <1>5, <1>6, <1>8, <1>9, <1>10, <1>11 DEF BfNext, Proceed

-----------------------------------------------------------------------------
(* The theorems. *)

LEMMA CoreHolds == BfSpec => []Core
BY CoreInitially, CoreStep, PTL DEF BfSpec

LEMMA CopiesHold == BfSpec => [](Core /\ Copies)
<1>1. Core /\ Copies /\ Core' /\ [BfNext]_bfVars => Copies'
  BY CopiesStep
<1> QED
  BY <1>1, CoreHolds, CopiesInitially, PTL DEF BfSpec

\* Every file is at most two halves of one reading, in every state of a run,
\* and every key one of the bounded number.
THEOREM TypesHold == BfSpec => []BfTypeOK
<1>1. Core => BfTypeOK
  BY DEF Core
<1> QED
  BY <1>1, CoreHolds, PTL

\* file_encrypt and file_decrypt, killed or failing between any two of their
\* system calls, leave no partial file under a final name.
THEOREM FilesNeverPartial == BfSpec => []NeverPartial
<1>1. Core /\ Copies => NeverPartial
  <2>1. Settled => "cut write" \notin had /\ ~Dirty("enc") /\ ~Dirty("dec")
    BY DEF Settled, Dirty, Working
  <2> QED
    BY <2>1 DEF NeverPartial, Copies, Finished
<1> QED
  BY <1>1, CopiesHold, PTL

\* What the -c of recurse_dir_enc skips by its time is the present version,
\* whatever the window, the granularity and the edits during a run.
THEOREM EqualTimesEqualContent == BfSpec => []MtimeMeansContent
<1>1. Core /\ Copies => MtimeMeansContent
  <2>1. Settled => "cut write" \notin had /\ ~Dirty("enc") /\ ~Dirty("dec")
    BY DEF Settled, Dirty, Working
  <2> QED
    BY <2>1, TimedIsCurrent DEF MtimeMeansContent, Core, Copies, Finished
<1> QED
  BY <1>1, CopiesHold, PTL

\* A backup run that ends well leaves a backup that is no older than what the
\* run found.
THEOREM SuccessLeavesRecent == BfSpec => []SuccessIsRecent
<1>1. Core /\ Copies => SuccessIsRecent
  BY DEF SuccessIsRecent, Settled, Copies, Recent
<1> QED
  BY <1>1, CopiesHold, PTL

\* write_header, run after file_encrypt has renamed nothing yet, never parts the
\* key file from the encrypted file.
THEOREM KeyAlwaysOpens == BfSpec => []KeyOpensDst
<1>1. KeyKept => KeyOpensDst
  BY DEF KeyOpensDst, KeyKept, Settled, Dirty, Working
<1>2. BfSpec => []KeyKept
  <2>1. KeyKept /\ Core /\ Core' /\ [BfNext]_bfVars => KeyKept'
    BY KeyStays
  <2> QED
    BY <2>1, CoreHolds, KeyInitially, PTL DEF BfSpec
<1> QED
  BY <1>1, <1>2, PTL
=============================================================================
