# rsyncrypto in TLA+

rsyncrypto encrypts files so that rsync stays efficient on the encrypted copies:
the cipher reverts to its IV where the *content* says so, and every file keeps
its symmetric key from run to run.  It is a sequential C++ program, run again
and again over the same files.  What is hard in it is therefore not a race of
threads but

* a stream format in which encryptor and decryptor must find the same
  boundaries from data one of them has only just decrypted,
* what a run leaves behind when it is killed, or when one of its steps fails,
  and what the next run makes of it, while the user edits the files,
* two maps of file names, two copies of them on disk, and encrypted files whose
  names nothing else explains.

Line numbers below are those of the files in `src/`.

## 1. Inventory

| Component | State it keeps | Operations | Uses | Hard behaviour | Correct when |
|---|---|---|---|---|---|
| rolling key, AES-CBC (`crypt_key`, `aes_crypt`) | window buffer, its index, count, sum and two flags; `cbc_base` | `init_encrypt`, `calc_boundry`, `encrypt_block`, `decrypt_block`, `export_key`, `read_key`, `new_key` | OpenSSL | the buffer is not cleared between chunks and starts uninitialised | a boundary depends on the bytes of its chunk only |
| stream encryption (`encrypt_file`) | buffer, `new_block` | one byte, leftover, trailer, header | key, buffers, gzip child | last block full, short, or closed by a boundary | what it writes can be decrypted; equal chunks give equal blocks |
| stream decryption (`decrypt_file`) | block, position, `new_block`, `done` | one block, trailer | key, buffers, gunzip child | end of file is guessed from the size | restores intact files, refuses or truncates others, always ends |
| file operations and key files (`file_encrypt`, `file_decrypt`, `write_header`, `copy_metadata`) | files, files with a temporary name, key files, times | open, write, header, key file, times, rename | streams | killed in between; source edited while read; key lost or replaced | never a partial file; `-c` never skips a changed file; the key is the file's |
| name encryption (`filemap.cpp`) | `namemap`, `reversemap`, translation file, `filemap` | `fill_map`, `namecat_*`, `enc_file_delete`, `write_map` | main, scan | run ends before `write_map`, `write_map` is cut short, map and copy differ | no name stands for two files; no name is lost |
| scan and deletion (`recurse_dir_enc`, `real_dir_encrypt`, `file_delete`, `filelist_encrypt`) | a directory stream per level, an error flag | visit an entry, recurse, delete | file operations, names | entries that vanish or change their type, errors that are swallowed or delayed, `--trim` | every file left alone is tried; deletion removes what is gone and nothing else |
| main program (`main.cpp`) | options | order of all of the above | everything | what an exception skips | |
| descriptors (`autofd`, `autopipe`, `redir_fd`) | a number and whether it is owned | open, copy, assign, clear, destroy | system calls | numbers that outlive their ownership | one owner for every open descriptor |
| buffered descriptors (`bufferfd`) | buffer, fill, positions, `error` | `read`, `write`, `flush`, `clear`, destructor | `autofd` | short and failing writes, a flush during unwinding | bytes arrive once and in order, or an exception says otherwise |
| gzip process and pipes (`process`, `redir`, `autopipe`) | pipe ends in two processes, child status | fork, redirect, exec, wait | system calls | end of file needs every copy of an end closed; exec fails; child dies of a signal | both sides end |
| paths (`calc_trim`, `combine_paths`, `dirpart`, `mkpath`, `nest_name`) | - | functions on strings | | separators at the ends, doubled | two files never get one name |
| map recovery (`recover.cpp`) | a parser's state, a record | one pass over a broken map | | records that run into each other, or are cut | it prints the valid records, and all of them |
| platform layer `win32/` | | the same over Win32 calls | | `unlink` differs in kind | |
| `blocksizes.cpp`, tests, build files | | | | | not part of the operation |

Components interact by calls within one process, by the pipe to gzip, and, from
one run to the next, by the files they leave.  `PROJECT.json` lists the
hazards, each at its line, with the properties that watch it.

## 2. Plan

| Step | Module | Abstract specification or property | State |
|---|---|---|---|
| A | `RollingKey`, `EncryptStream`, `DecryptStream`, `RoundTrip`, `Resync` | `FaithfulCopy`; content defined chunks | done |
| B | `EncryptionProofs` | inductive invariant, type correctness, content defined chunks for all parameters | done |
| C | `BackupFile` | whole files only, `-c` is safe, backups converge | done |
| D | `NameMap` | maps mirror each other, names never mixed, nothing unnamed | done |
| E | `GzipPipe` | parent, gzip and the pipe: both end, no byte lost, failures reported | done |
| F | `AutoFd`, `BufferFd`, `BufferFdProofs` | buffered descriptors refine plain ones; one owner each, for all parameters; bytes delivered once | done |
| G | `DirScan` | recursion on trees, `--delete` without names, `--filelist`, `--trim` | done |
| H | `FilemapFormat` | the bytes of the translation file against `fill_map`, `write_map`, `rsyncrypto_recover` | done |
| I | `NameMapProofs`, `GzipPipeProofs`, `BackupFileProofs`, `DirScanProofs`, the bytes in `BufferFdProofs` | every safety property of the five, for all parameters | done |
| J | `RoundTripProofs` | intact files are restored; the refinement of `FaithfulCopy` | done |
| K | `Resync` in `EncryptionProofs` | `RsyncFriendly`, for every file and every edit | done |
| L | `FilemapFormatProofs` | what is recovered and read of the translation file, for any bytes it may hold | done |

Order: A is what the program is for, C and D are where backups are lost, F to H
are what they stand on.

## 3. Modules

**RollingKey** - operators on the key object.  A `RollState` record holds the
`ptbuf_*` members; `CalcBoundry` is one byte through `calc_boundry`,
`AtBoundry` what it returns, `InitRoll` `key::init_encrypt`, which leaves the
window as it is.  Cipher blocks are symbolic: under one key a CBC block *is* the
sequence of plain blocks since the IV, so two blocks are equal exactly when AES
makes them equal, and `Decryptions` gives noise (any block) for a block that is
decrypted on another chain.  `RollParams` excludes `--roll-win=0` and
`--roll-sensitivity=0`, which the code does not check and cannot survive.

**EncryptStream** - `encrypt_file` from gzip's pipe to the trailer.  `pos`,
`newBlock`, `buf`, `roll`, `cbc` are its locals and the key's members, `cipher`
the blocks written after the header.  `EncryptByte` is one turn of the loop with
`init_encrypt`, `calc_boundry` and, when a block is done, `encrypt_block` and
the write; `EncryptTail` is all that follows the loop.  `sums` and `cuts` are
history: prefix sums of the input and the places where chunks start.

**DecryptStream** - `decrypt_file` on a file that may end anywhere.  A turn of
its loop is `ReadBlock` (the read and `decrypt_block`, which starts a chunk if
the last block ended one), `ScanByte` for each byte that `calc_boundry` takes in
(`di` is `i`; the loop stops at a boundary) and `BlockScanned`: the test for the
end of the file, the write to gunzip, the test of the padding, in the code's
order.  `DecryptNothingLeft` is a read that finds no whole block,
`DecryptTrailer` what follows the loop.

**RoundTrip** - both, with the delivery of the file in between: whole or cut
short at any block or inside one.  `blocks` is history: which bytes each block
was made of, and where their chunk starts.  `PlainsNotEmpty` is what gzip does,
which writes a header even for an empty file.  **FaithfulCopy** is the abstract promise:
what comes out is a prefix of what went in, followed by fewer zero bytes than a
block has, everything if the file is intact, and an intact file is not refused.
`RoundTrip!Copy` is the refinement mapping.

**Resync** - encryption, an edit of one byte (replaced, removed, inserted),
encryption with the same key by another process.

**BackupFile** - one file's life.  A file's content is the pair of versions its
two halves were read from, which is enough to tell partial, mixed, old and
current copies apart.  Every system call of `file_encrypt`, `file_decrypt` and
`write_header` after which a kill leaves something different is an action:
`Scan` (the two `lstat` and the `-c` test), `ReadKey`/`NewKey`/`NoKey`/
`ReadBadKey`, `OpenOutput`, `EncryptHalf` twice, `EncryptHeader` or `GzipFails`,
the five steps of `write_header`, `CopyMetadata`, `Rename`.  The environment
edits (with later or earlier times), kills, and loses key files.  Options are
chosen per run.  `had` records what voids a promise.

**NameMap** - a flat tree under `--name-encrypt`.  `names` and `reverse` are
`namemap` and `reversemap`, `mapFile` the translation file, `encMap` what
`filemap` holds, `enc` and `rest` which plain file an encrypted or restored one
was made from.  `windows` is the build.  A run goes through `visit`, `delete`,
`write`, `copy`, one file or record a step, or, decrypting, `unname`.  A record
cut in two is `torn`.  `unclean` is history: an encryption did not end well.

**GzipPipe** - processes, each with its program, the file it is at, and the
pipe ends it has open, in descriptors of their own (`fds`) or as standard input
or output (`std`).  `Fork` copies them, `ParentRedirect` and `ChildRedirect` are
the two sides of `redir_pipe`, `Exec` keeps them all, as nothing is marked
close-on-exec.  A write blocks on a full pipe and raises SIGPIPE on one without
readers; a read blocks on an empty one and ends when nobody can write.  Data are
counted in buffers.  A child whose exec fails is what it is in the code, one more
rsyncrypto in the middle of the same scan, with children of its own.  `BackupFile`
has gzip as the step `GzipFails` and so supposes that it can be started.

**AutoFd** - objects (variables and temporaries) that hold a descriptor number,
owned or not, over the kernel's table, which gives the lowest free number to the
next file.  The actions are the constructors, `clear`, `operator=` (which does
nothing between equal numbers, and clears before `release` can throw) and the
destructor, in any order.  `release` leaves the number behind: such a stale
number may be another file's a moment later.  `FdSpec` is the abstract
specification of the next module as well.

**BufferFd** - `read_bufferfd` and `write_bufferfd` over `AutoFd`.  A writer's
buffer is a sequence of at most `BufSize` bytes, `disk` what has reached the file;
a byte is its file and its place in what was handed to `write`, so a lost,
doubled or misplaced byte is seen.  `write(2)` succeeds, fails, or, where
`MayFall` is TRUE, writes a part.  `Write`, `WriteThrough`, `Flush`,
`ClearWriter` and `DestroyFlushing` are the ways to the disk, `Read` the one from
it.  `told` are the files for which an exception was thrown, `aborted` that one
left a destructor.  After an exception an object is destroyed and not used, as
in `encrypt_file` and `decrypt_file`.  The assignment of one buffered reader to
another (`bufferfd.h:24-32`) is left out: `file_encrypt` assigns a temporary that
has read nothing yet (`file.cpp:400-404`), so that only the descriptor changes hands.

**DirScan** - runs of `-r` and `--filelist` without name encryption over trees
(`plain`, `enc`, `key`: maps from paths to what is there).  `run.stack` is the
recursion of `recurse_dir_enc`: per directory, the entries still to be seen as
`readdir` gives them, and the error flag.  An entry's `lstat` and what is done
on the strength of it are separate steps, and `run.now` is the entry in between:
`LookAt`, then `VisitFile`, `VisitDir` or `DirUnread`; in the scan of the
encrypted tree that `--delete` makes, `LookupGone` (`file_delete`'s `lstat` of the
plain file), then `DeleteFile`, `DeleteFails` or `UnlinkRecurses`.  The user
replaces files, directories and links by each other before, between and after.
Each system call of the scan may also fail for reasons of its own: `opendir`
(`NoDir`, `DirUnread`, `EntryFails`, `ScanDone`), `lstat` (`Vanished`, `EntryFails`,
`LookupFails`, `FinishDir`), `readdir` (`ReadFails`), `mkpath` (`NoDir`), `stat` (`ListRefused`),
`unlink` (`DeleteFails`, `DeleteFile`) and `rmdir` (`FinishDir`); which of these
the code reports, and which it swallows, is in the actions.  `EncryptFile` and
`EncryptFails` are `file_encrypt` as a whole, with the places it can fail at and
what each leaves.  `ListRefused`, `ListLine`, `ListFile` and `ListDir` are the turns of
`filelist_encrypt`, its `stat` a step of its own; `BeginDir` and `NoDir` are
`real_dir_encrypt`; `StaysFile`, `EnterDir` and `FinishDir` the rest of the scan of
the encrypted tree, `windows` the build.  `FinishDir` has the lookup of a
directory and its `rmdir` in one step: `rmdir` takes only what is empty, so that a
directory which comes back in between loses no file.
`OneTop` says that what `--trim` cuts off is the
same for all plain files; where it is not, two of them may share one place in
the encrypted tree, and `--delete` looks for one of them when it finds the other.
`DeleteKeepsBacked` is claimed under `OneTop` only, which holds where all that is
backed up is below one directory.  Files are always encrypted anew (no `-c`):
`BackupFile` has that.

**FilemapFormat** - the translation file as bytes, of which a digit or two and a
name of one or two characters stand for all.  `RecoverByte` is one turn of
`rsyncrypto_recover`'s loop, a disjunct for each state of its parser; `FillEntry`
and `FillRefuses` are a record of `fill_map`, with its tests in the code's order,
and its translation of separators; `WriteMap` and `WriteCut` the writing, whole
or ended at any byte.  `NestName` and `FilePart` are `--ne-nesting` and its
inverse.

The `MC*` modules give the constants their values.  Definitions named `Bug...`
are what a definition must *not* be: putting one in the place of the definition
that follows it violates the property `PROJECT.json` names under `mutants`.

## 4. Runs

| Run | Question | Bounds, and why they are enough |
|---|---|---|
| `Resync` | `EncTypeOK`, `CutsByContent`, `RsyncFriendly` | 3 byte values, streams of up to 6 bytes, window of 3, distance 1, blocks of 2, every content of the fresh window, every edit of every stream: the window wraps in a chunk, chunks end inside and at the end of a block, a later chunk begins with a used window, and there are chunks before, at and behind the edit |
| `RoundTrip` | `RTTypeOK`, `IntactRestored`, `ReachesVerdict`, refinement `IsFaithfulCopy` | 3 byte values, streams of 1 to 4 bytes, every truncation, every value of noise |
| `BackupFile` | `BfTypeOK`, `NeverPartial`, `MtimeMeansContent`, `SuccessIsRecent`, `KeyOpensDst`, `BackupConverges` | 2 versions, first times 0 to 3, window 1, granularity 2, 2 faults, three option sets: a kill, a second kill or lost key, then recovery, with an edit at any point and either direction of time |
| `NameMap` | `NmTypeOK`, `MapsMirror`, `MapsReadable`, `NamesNeverMixed`, `FilesNamed`, `NamesKept`, `DeleteExact`, `DecryptComplete` | 2 files, 3 names, 2 changes of the tree, 2 faults, any number of runs of either kind on either build |
| `NamesStored` | refuted: names without a record | one file vanishes, no fault |
| `GzipPipe` | `GpTypeOK`, `OnlyWhole`, `OwnEnds`, `ReapedIsClosed`, `EverythingEnds` | up to 2 files, streams of 1 or 2 buffers, a pipe that holds 1, so that both sides block; 4 processes are all that 2 files can lead to, strays included; any number of failures |
| `GzipSucceeded` | refuted: gzip that cannot be started | as above |
| `FilemapFormat` | `FfTypeOK`, `RecoverExact`, `RecoveredReadable`, `RereadAsMeant`, `NestedFound` | 2 digits, names of 2 digits; the file is first any 6 bytes of 5, one for every class the parsers tell apart, or up to three records of either platform or of release 1.07, cut at any byte: every pair of states of the recovery, records that begin inside others, maps of both platforms in one file; one file is named and one writing cut |
| `MapTravels` | refuted: a map of the other platform is written back unreadable | as above |
| `DirScan` | `DsTypeOK`, `EachTried`, `DeleteExact`, `DeleteKeepsBacked` | 4 paths in 3 levels with every tree over them, 2 mishaps (changes by the user and failing calls, together) at any point, `--trim=1`, either build, `-r` of the top and every list of a file and a directory: a file becomes a directory and the reverse between runs and within one, entries vanish before their `lstat` and change after it, a plain file goes and comes back around the unlink of its copy, and each call fails at each level, alone or with a change |
| `BufferFd` | `BfdTypeOK`, `OneOwner`, `Delivered`, `ReadsInOrder`, refinement `FdSpec` | 3 objects, 2 descriptor numbers, so that numbers are used again; a buffer of 4 and blocks of 2; writes of 3 and 9, so that a buffer is filled, overflown and passed by; a file of 5, so that the last block is short |
| `PartialWriteKept` | refuted: `flush` after a partial write | as above, with partial writes |

Cipher names are a symmetry set in `NameMap` (no definition singles one out).
Descriptors' objects are one in
`BufferFd`.
`Resync` and the runs of `GzipPipe` and `BufferFd` have deadlock checking off:
the program ends.  That nothing in `GzipPipe` stops short of the end is
`EverythingEnds`.

### What they show

* The uninitialised and uncleared window is harmless: nothing of it reaches a
  sum before it is overwritten, and boundaries are a function of the chunk.
* Intact files round trip through gzip.  Documents and comments are refuted, as
  findings, in four places: names that are never stored when any file of the scan
  fails; a gzip that cannot be started, for which a recursive run replaces good
  files by empty streams and reports nothing but a failed read; a partial write,
  after which `flush` keeps the wrong end of its buffer; and a translation file
  of the other platform, which is read once, written back with the translated
  names under the old separator, and refused by every later run.
* The recovery program prints the valid records of any file and nothing else; a
  cut map loses records but never gives a file another's name.
* The scan comes to every file that is left alone, but for what is below an entry
  it could not read (an `lstat`, `opendir` or, on Windows, `readdir` that fails): the
  run then reports an error, and `--delete` is not done.  On POSIX a `readdir` that fails is taken
  for the end of the directory (`autodir.h:40` does not look at `errno`): the files it
  kept from the scan are not tried, and nothing says so (`unlisted` in `EachTried`).
* `--delete` removes what is gone, with these exceptions (`stuck` in `DeleteExact`):
  what a failing `unlink` or a failing lookup of a single file leaves.  The inner `catch` at
  `file.cpp:207` swallows both without setting `error`, and as `opname` is NULL in
  that scan, line 208 streams a null pointer, so that probably nothing is printed
  either: the encrypted file stays and the exit status is 0.  On POSIX the lookup
  always fails so (ENOTDIR) below a directory that has become a file.  The same goes
  for what a failing `readdir` of the encrypted tree hides on POSIX.
  rsyncrypto.man:203 promises the deletion without such exceptions.
* `--delete` removes no encrypted file whose plain file is there, also while the
  user changes the tree, with one exception: a plain file that comes back between
  `file_delete`'s lookup of it (`file.cpp:254`) and the `unlink` (`file.cpp:295`) is without
  its copy until the next run (`since` in `DeleteKeepsBacked`).
* Where a file and a directory have changed places the
  encrypted tree or the key tree may stand in the way for ever: such a file is
  not backed up, and, as the scan only reports it (`file.cpp:207`), the exit
  status is 0 (`NoDirs`, `NoHeader`, `NoRename` in `DirScan`).
* Descriptors have one owner each, in every order of the operations, although
  `operator=` does nothing when a stale number is equal, which happens once the
  kernel has given the number away again.
* Where no write is partial, what the buffers hold is delivered once and in order, or an exception
  says otherwise; but see the destructor below.
* As long as gzip can be started, the pipe is sound: each end is where it has to
  be, early and late failures of either side are told from success, and what error
  paths abandon (a descriptor and a gzip per failed file) ends with the run.
* Met while modelling and not run: a gunzip that gives up early kills the whole
  run by SIGPIPE (`Write` in `GzipPipe`), although ChangeLog:24 has it continue; the encrypted file of an *empty* compressor
  output is refused (`crypto.cpp:299`; gzip never writes one, so `RoundTrip`
  starts at one byte); a kill between `write_header` and the rename leaves a new
  key with the old file, which `-c` then skips (why `KeyOpensDst` needs that no
  key was lost or renewed); a decryption overwrites an existing translation file
  although rsyncrypto.man:415 has it created if it "does not exist" (`StartDecrypt`,
  the reason `DecryptComplete` and `FilesNamed` need `~unclean`);
  padding zeros come back after a stream whose last byte ends a chunk inside a
  block, as the trailer then says 0 (`crypto.cpp:225`; gunzip ignores them,
  `tests/nullgzip` does not, and `FaithfulCopy` allows them);
  a run killed in `write_header` leaves a key file that makes every later run of
  that file fail, although rsyncrypto.man:132 says a restart repeats what has to be
  repeated (`ReadBadKey`, the reason for "cut key" in `BackupConverges`);
  on POSIX `autofd::unlink` calls itself, so that the first file `--delete` finds
  ends the process (`UnlinkRecurses` in `NameMap` and `DirScan`);
  `wait` loops for ever for a gzip that was killed by a signal (`WaitSpins`, the
  exception in `EverythingEnds`);
  a directory of `--filelist` is trimmed twice, by `filelist_encrypt` and by
  `real_dir_encrypt` (`file.cpp:315`), although rsyncrypto.man:108 says names are
  trimmed as `--trim` says, so that with `--trim=1` the lines `a/b/` and `a/c/`
  share one place (`SecondTrim`; `twice` is why `DeleteExact` and
  `DeleteKeepsBacked` except such runs);
  a `write_bufferfd` destroyed during unwinding flushes, and if that fails too,
  the process is terminated (`bufferfd.h:79`, `aborted` in `BufferFd`).
* `-c` is safe against edits during a run because times come from the `lstat`
  before the reading, and safe after kills because times are set before the
  rename.  With `--risky-writes` a killed run may leave a file whose time is that
  of an edit just made: `Settled` excludes it, as the manual's warning does.

### Fairness

`RoundTrip` assumes that both programs keep running and that the file is
delivered and decrypted (weak fairness of their steps): they are sequential and
every step is enabled until they end.  `BackupFile` assumes weak fairness of a
run's own steps (`Proceed`) and strong fairness of starting an encryption, the
"run it from cron" of the documents; strong, because a user who restores again
and again makes the start not continuously enabled.  Nothing is assumed of
edits, kills, failures, lost keys or restores.  `GzipPipe` assumes weak fairness
of every process's steps: the scheduler runs what can run.  The failures are not
among them.  The others are safety only, `DirScan` among them: that a
run ends is that trees are finite.

## 5. Proofs

`EncryptionProofs` proves with TLAPS, for every block size, byte set, window,
modulus, distance and set of inputs that satisfy `RollParams`, `BlockParams` and
`PlainsAreBytes`:

* `EncTypeCorrect`: `EncSpec => []EncTypeOK`,
* `WindowSumCorrect`: `EncSpec => []WindowSum`,
* `CutsAreContentDefined`: `EncSpec => []CutsByContent`,
* `EncInvariant`: `EncSpec => []EncIInv`,
* `RsInvariant`: `RsSpec => []RsIInv`,
* `ResyncCutsByContent`: `RsSpec => []CutsByContent`,
* `RsyncFriendlyCorrect`: `RsSpec => []RsyncFriendly`.

Neither `WindowSum` nor `CutsByContent` is inductive: that the byte subtracted is
the one that leaves the window must be known of a buffer filled `SumSpan` steps
ago.  `EncIInv` adds `HistoryOK` (prefix sums follow the input) and `Tracks`: the
window is a ring whose cell before `loc` holds the last byte and, once `sub` is
set, the cells from `loc` on the bytes of the round before; `count` and `may`
follow the distance from the chunk's start.  The proof first takes one byte
through `CalcBoundry` from a state that `Tracks`, or from a fresh one, then the
history, then the cuts, then both actions.

`RsyncFriendly` compares two encryptions, of which only the second still takes
steps.  `RsIInv` therefore describes what each has written without mentioning its
key: `Encrypted` has the chunks where the content of the input puts them
(`ByContent`), and the blocks of each as those of its bytes (`IsChunk`).
`LeftBehind` keeps that of the first encryption while the second runs.  The rest
is about two inputs, not about steps: where they have the same bytes they have
the same boundaries (`SameBoundaries`), so that chunks which start together end
together.  `HeadsAgree` and `TailsAgree` take this from chunk to chunk, in front
of the edit and behind it.  The induction theorems of the library take an operator as
a parameter and cannot be used; here and below, induction is by the first number
at which a claim would fail (`WFMin`, `LeastNumber`).

`BufferFdProofs` proves `FdOneOwner`: `FdSpec => [](FdTypeOK /\ OneOwner)`, for any
objects, numbers and files, from `FdParams` and `ClosedIsNoFile`.  `OneOwner` is
`OwnersOpen`, `Unshared` and `NoLeak`; to be inductive it needs `Vacant`, that a place
where no object is constructed owns nothing, as a constructor does not look.  One
lemma per action, with a step per conjunct; the long one is `Assign`, which
clears one object, and releases another or throws.

It then proves that every step of a reader or writer is a step of
`autofd` or none: `BufferedIsFd`, `BfdSpec => FdSpec`, the refinement mapping
being the identity on `obj`, `table` and `opened`.  Hence `BufferedOneOwner`, that
nothing of the buffers, of partial writes or of failures makes a
descriptor leak or be closed twice.  `MayFall` may be either there.

It also proves what is said of bytes.  `BufferTypesHold` holds whether or not
writes may be partial.  Its invariant `BTyped` adds to ownership that a file is
open under one number at most (`EachOnce`), and that an object which owns a
number has the file open that it was made for (`Kinds`): `table` alone does not
say so once numbers are used again.  `WritesArrive` (`Delivered`) is proved where
`MayFall` is FALSE, the hypothesis without which the run `PartialWriteKept`
refutes it.  Its invariant `Flow`: what has arrived is a start of what was given,
and what a buffer holds follows on it without a gap or an overlap, or an
exception was thrown.  `ReadsNeverSkip` (`ReadsInOrder`) needs the same of
readers, `Order`: bytes taken, then bytes in the buffer, then bytes not read.

`NameMapProofs` proves all eight invariants of `NameMap`, for any names, options and
numbers of changes and faults, from `NameParams`: `TypesHold`,
`MapsAlwaysMirror`, `MapsAlwaysReadable`, `NeverAnothersName`, `EveryFileNamed`,
`EveryNameKept`, `DeletionExact`, `DecryptionComplete`.  The invariant has three
layers, each inductive given those below it.  `Core` says what the phase of a run
makes of the maps in memory.  `OnDisk` says that all records anywhere, in memory,
in the translation file (half written, perhaps) and in the copy of it inside the
backup, agree (`Agreed`): no property of one of the three is inductive alone, as
each is written from another.  `WhenWell` is about runs that end well: where the
records of the encrypted files are while neither map file has them all
(`AllRecorded`), and how far `--delete` and a decryption are (`Exact`,
`Complete`).

`BackupFileProofs` proves all five invariants of `BackupFile`, from
`BackupParams`: `TypesHold`, `FilesNeverPartial`, `EqualTimesEqualContent`,
`SuccessLeavesRecent`, `KeyAlwaysOpens`.  `MtimeMeansContent` speaks of two files
at rest and is broken, if at all, many steps earlier, so that the invariant has to
follow the file under its temporary name: `InProgress` says how much of it is
written and from which versions, `Found` that the time was read before the
content, `Finished` that a file under its final name has the time of some edit
and, if that is the last one, its content.  `KeyKept` follows the key file: the
only run that makes a key is one that finds no backup, or overwrites it.

`GzipPipeProofs` proves the four invariants of `GzipPipe`, from `GzipPipeParams`,
for any number of files, processes, sizes and pipe capacity: `TypesHold`,
`NothingCutIsKept`, `EndsAreOwn`, `ReapedLeavesNothing`.  `Typed` holds always,
`Sound` as long as gzip can be started; that it cannot is for ever, so that
nothing has to be known of the strays.  `Sound` has who may be doing what
(`Shape`), which ends a child has (`ChildEnds`), that nobody else has any of the
pipe in use (`MainEnds`), and, which makes `OnlyWhole` follow, that a gzip that
ended well has passed everything on and that a reader that saw the end of file
saw an empty pipe (`AllThrough`).

`DirScanProofs` proves the three invariants and the action property of `DirScan`,
for any set of paths, lists, `--trim`, options, changes and failures, from
`ScanParams`: `TypesHold`, `EveryFileTried`, `GoneIsRemoved`, and `BackedIsKept`,
which assumes `OneTop`.  `Healthy` has the trees as trees and the recursion's
stack as a path down one of them, each level with entries of its directory that
are still to be seen: this is what breaks when a file and a directory change
places under a scan.  It also says that the entry in hand is one of the top level.
The other invariants stand on it:

* `TriedOK`, for `EveryFileTried`.  `AllTried`: a file left alone that was not tried is
  still before the scan (`Before`: an entry of some level of the stack is on the
  way to it), or below an entry that was not read or not listed.  `HandSame`: an
  entry that was not changed since its `lstat` still is what that said.
  `Reported`: where something was not read, the error is in the run or in a level
  of the stack, on its way up.
* `CutsAreTrim`, `InPlace` and `HandGone`, for `BackedIsKept`.  `InPlace`: an encrypted
  file is where `--trim` puts what it was made from.  `HandGone`: while a file is in
  `file_delete`'s hands, its plain file is gone, or was changed since the lookup.
* `Single` and `Cleared`, for `GoneIsRemoved`.  `Cleared`: an encrypted entry without its
  source still awaits the deletion's scan (`Awaits`), or an error was noted, or it is
  below one that a swallowed failure left.  `Single` is why `--filelist` with
  `--trim` is no exception to that: such a directory is trimmed twice.

`RoundTripProofs` proves, for every key parameter and every set of non-empty
inputs (`RollParams`, `BlockParams`, `PlainsAreBytes`, `PlainsNotEmpty`):

* `TypesHold`: `RTSpec => []RTTypeOK`,
* `IntactIsRestored`: `RTSpec => []IntactRestored`,
* `CopyIsFaithful`: `RTSpec => IsFaithfulCopy`, the refinement,
* `RTInvariant`: `RTSpec => []RTIInv`.

The invariant `RTIInv` has an account of what was written (`Written`: `EncIInv`,
and for each block, in `WellCut`, where its bytes and its chunk start, that it is
full, ends a chunk or is the last, and which chain it is encrypted on), and where
the decryptor is in it.  Before a block its key tracks the same chunk as the
encryptor's did there (`Between`); at each byte of the scan it still does
(`Scanning`), so that it meets a boundary where the encryptor did and at no other
byte, although it only has bytes it has just decrypted.  The exception is the
last block, whose padding the scan takes in too: past the end of the plain text
nothing is known of the key, and nothing needs to be, since that block waits for
the trailer, whose key is fresh (`Left`, `AtTrailer`).  The refinement takes each
step to its outcome in `FaithfulCopy`: a block given, which extends a prefix of
the plain text; the trailer, which may be a block that only looks like one, and
gives at most padding; a refusal, which an intact file never meets.

`FilemapFormatProofs` proves all five invariants of `FilemapFormat`, for any
separator, digits, length of names, paths and `--ne-nesting` up to that length, and
whatever bytes the translation file holds at first, from `FormatParams` and
`FormatBytes`:

* `FormatTypeCorrect`: `FfSpec => []FfTypeOK`,
* `RecoveryExact`: `FfSpec => []RecoverExact`,
* `RecoveredIsReadable`: `FfSpec => []RecoveredReadable`,
* `RereadCorrect`: `FfSpec => []RereadAsMeant`,
* `NestedNamesFound`: `FfSpec => []NestedFound`.

The invariant has four layers, each inductive given those below it.  `FfTyped`
has the domains.  `FfReading` says where the parser is (`ParserAt`): its state and its
record are a function of what it has read since the last NUL, and what it printed is
what `Delimited` finds in what it has passed.  That is `RecoverExact`; to have it
after a byte, `DelimNext` gives what one byte more does to `Delimited`.  `FfClean`
is about lines, what lies between one NUL and the next (`IsLine`): every line
recover prints is the bytes of a record, and `ReadsRecord`, which looks for a
space and for a NUL as `fill_map` does, reads that record in it and ends where the line
ends.  `FfMeant` follows records from `write_map` through whatever happens to the
file.  `FromMeant` says that every line of the file, cut or recovered, is the bytes
of a record of the map, and `Written` that a map that was finished is the list
of its records (`WrittenAs`), of which `fill_map` has taken the first `k`
(`Taken`): hence the next line is record `k + 1`, which repeats no name, and at
the end of the file none is missing.  `NestedFound` is no matter of steps:
`FilePartIs` shows that the walk from separator to separator, which looks at the
second character first, ends behind the last one where no two are adjacent.
`FlattenSeq` and the walk of `FilePart` are recursive functions over data; what is
needed of them goes by `LeastNumber`.  `Char` names the characters of the
program's own literals beside STRING, as the provers do not take a literal for
a string.

Every invariant a run checks is thus a theorem, and so are the action properties and
both refinements.  Only model-checked: liveness under fairness, `ReachesVerdict`,
`BackupConverges` and `EverythingEnds`, which is out of this prover's reach.

## 6. Not modelled

* The spelling of paths: doubled, leading and trailing separators, drive letters.
  Paths are sequences of names.
* The assignment of one buffered descriptor to another (`bufferfd.h:24-32`, and the
  writer's at 54-74).  `file.cpp:400-404` assigns a reader that has read nothing, which
  moves a descriptor and an empty buffer; no code assigns a writer.  Memory
  mappings, which are owned the way descriptors are.
* `--ne-nesting` longer than a name, which reads past its end (`filemap.cpp:247`).
* `--changed` in `DirScan`, which `BackupFile` has, and kills there: a run's files
  are independent of each other, and one file under kills is `BackupFile`.  The
  temporary files that failed encryptions leave, which `BackupFile` has as well, are not in
  the trees of `DirScan`.  Failures of the last calls of `file_encrypt`, `utimes` and
  the rename, both leave the key file, perhaps a new one, and no new encrypted file:
  one disjunct of `EncryptFails` is for both.
* Three failures that change nothing a property tells apart.  `filemap` cannot be
  decrypted (`main.cpp:164`; `StartDecrypt` in `NameMap`): the run ends before it
  has decrypted a file, and the translation file is as it was, or cut with
  `--risky-writes`, which `NameMap` does not have.  A record has an empty name: the write
  of 0 bytes throws after the translation file was truncated (`filemap.cpp:264`;
  `WriteMap` in `FilemapFormat` writes the record whole, and `WriteCut` is the file
  that is left).  The header's mapping or the rename fails after gzip ended well
  (`crypto.cpp:237`; `Wait` in `GzipPipe`): no process or pipe depends on it, and
  the files are as after `GzipFails` or a `Kill` in `BackupFile`.
* Of a second rsyncrypto after a failed exec, what it does to files other than
  running gzip on them; entries that cannot be looked at, which would give it the
  exit status 1.
* RSA, AES and random numbers: external, taken as what they promise.
* Two runs at once: there is no locking, and the documents run it one at a time.
* File sizes and offsets beyond blocks, permissions, access times, the change
  log, messages, option parsing.
* `blocksizes.cpp`, an experiment; `pad_area`, which nothing calls.
