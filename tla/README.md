# tapefuse: TLA+ models, checks and proofs

tapefuse keeps an LTFS-like file system on a tape: a daemon (`ltape`) assigns
letters to tape devices, loads a tape's index into a cache file on disk, mounts
the tape with FUSE, and writes the index back when told to. The modules here
model the daemon's commands, the FUSE handlers, the tape they share (two image
files, one per partition, or a SCSI drive) and the way each of them is stored.
All references are to files under `src/`.

## 1. Inventory

| component | state | operations | modelled in |
|---|---|---|---|
| partition image (`internal/tape/partition.go`) | a file of framed records, the offsets of its blocks | create, open (rebuild the offsets), append a record, filemark or end-of-data; read block n; truncate at block n; overwrite a block | `Partition` (cells of the file), `TapeLog` (records) |
| SCSI drive (`internal/tape/scsi*.go`) | head position and what the code believes it to be, table of block types, position of the next write | the same over one tape with two regions; eject, swallow | `SCSITape` |
| tape operations (`fs/tapefs.go`) | the two partitions | format, open, read index, flush index, append a file, read a file, defrag | `TapeStore`, `Defrag`; over a drive `SCSITape` |
| index and disk cache (`internal/ltfs/index.go`) | generation, tree of files with length and extents, available spaces; one XML file per letter | look up, load, save (write `.tmp`, rename) | `Namespace` (the tree), `TapeStore`, `Daemon` (the file) |
| file handles and buffers (`fs/file.go`, `fs/fuse.go`, `fs/buffer.go`) | per handle: path, write buffer, dirty flag, mutex; per mount: index lock `fs.mu`, set of dirty handles | Open, Read, Write, Flush, Release, flush all | `TapeStore` (whole handlers), `FileHandle` (goroutines) |
| directory operations (`fs/dir.go`) | none of their own | Lookup, ReadDirAll, Create, Mkdir, Remove, Rename | `Namespace`; files with their data in `TapeStore` |
| daemon commands (`internal/daemon`) | per letter: partitions, mount, FUSE connection | assign, unassign, init, load, commit, discard, mount, umount, eject, swallow, list, defrag, flushfiles | `TapeStore`, `Defrag` (what they do), `Daemon` (their locks) |
| client, protocol, labels | none | | not modelled |

How they interact: the client sends one command per connection; a command runs
under the daemon's lock `d.mu`, except while `umount` and `eject` wait for the
FUSE server to end and while `flushfiles` works. FUSE requests are served by a
goroutine each. Everything meets in two shared places: the cache file, which
each handler loads, changes and saves as a whole under `fs.mu` (and `commit`
under `d.mu` only), and the data partition, which handlers append to under
`fs.mu`.

What is hard here: three kinds of lock nested in different orders; state read
under one lock and used under another (`Write`, `flushBuffer`); operations of
several tape writes that stop part-way, on a medium that can only be cut at its
tail; two indexes (cache and tape) that must both stay readable while blocks
come and go; crashes between any two of these; positions of a drive's head that are
remembered to save a seek; pointers into slices that are edited meanwhile.
`PROJECT.json` lists the hazards line by line.

What makes each component correct:

* partition and tape operations: a block once written keeps its content as long
  as an index refers to it, whatever appends, successful or not, follow;
* index: used and available blocks are disjoint, lengths and extents agree,
  generations grow;
* handles: no acknowledged write is lost between buffer, flush and tape; reads
  see the writes before them; requests end; no deadlock;
* commands: what the user sees is a map of files that changes one file at a time
  or goes back to what was committed; a mounted letter can always serve;
* directories: each operation changes the paths it names and no other, and no entry
  hides another;
* partition image: what was written is what a later open finds, and a record cut
  short is never taken for something else;
* drive: the code's idea of the head and of the blocks is the tape's, and the two
  regions of the tape do not touch each other;
* daemon: no saved update is undone, no tape closed under a request, no command left
  waiting;
* defrag: files read the same afterwards, no hole is left, a failure costs no
  more than the files being moved.

## 2. Modules

    FileMap             what a letter promises: a map of files and its saved copy
    PathMap             what the directory operations promise: a map of paths
    RecordLog           what a partition image promises
    TwoPartitions       what a drive promises, an index and a data partition, and what
                        one tape leaves of it
    TapeLog             the record log of a partition and what is written to it
      TapeStore         one letter: commands and whole FUSE handlers (implements FileMap)
        Defrag          TapeStore and the defrag command
          DefragProofs  what defrag keeps and leaves (extends TapeStoreProofs too)
      Partition         the cells of an image file (implements RecordLog)
        PartitionProofs its block index, and the refinement of RecordLog
      SCSITape          a drive and the operations on it (implements OneTapeSpec of TwoPartitions)
        SCSITapeProofs  the head, the table of the blocks, and the refinement of OneTapeSpec
      TapeLogProofs     lemmas and theorems about the log
        TapeStoreProofs the inductive invariant of TapeStore, the refinement of FileMap,
                        the action properties, the layout (extends both)
    Namespace           the directory tree and its handlers (implements PathMap)
      NamespaceProofs   the tree stays a tree, its names resolve, the refinement of PathMap
    FileHandle          goroutines and locks inside a mounted letter
      FileHandleProofs  the inductive invariants of FileHandle
    Daemon              commands, mounts and requests around one letter
      DaemonProofs      the inductive invariant of Daemon

and a module `MC...` for TLC's instances of each of the seven that is run.

**TapeLog.** A partition is a sequence of records, a block number an index into
it. `AppendUpTo(log, c, k)` is `AppendFileData` stopped after k of its three
records, `WriteIndexUpTo` the same for `FlushIndex`; the complete operations are
the case k = 3. Failing operations are sets of such prefixes (`FailedAppends`,
`FailedIndexWrites`), so that a failure leaves exactly what the code can leave at
record granularity. A fragment of a record that a failing write may leave in the
image file is below this level (section 7).

**TapeStore.** `idxPart` and `dataPart` are the partitions, `cache` the cache file,
`loaded` is `entry.tapeFS != nil`, `mounted` is `entry.mountPoint != ""`, and
`handle` gives each FUSE handle's path, buffer, dirty flag and whether the kernel
still has it open. Every command and every handler is one action named after it;
what a handler returns an error for before it changes anything is a stuttering
step. A handler that can fail later has failing actions, one per place, switched
by the constant `Faults`: a format stopped anywhere, the data image that cannot be created
included, an index flush cut anywhere, an
append cut anywhere or beyond the end of the medium, a cache that cannot be
saved, and the death of the daemon (`Crash`). A crash in the middle of a handler
is the failing action followed by `Crash`.

Data is abstracted as follows: a file has at most one extent, because
`flushBuffer` writes it as one record (only the uncalled `WriteChunkToFile` makes
more); paths are a flat set; labels carry nothing; an available space is its
block. A write carries one byte at any offset, so that holes, partial overwrites
and preloading occur.

**FileMap** is the abstract specification. `TapeStore` implements it with
`current` = what every file of the cache reads as and `saved` = what every file of
the committed index reads as (`FM` and `FileMapSpec` in `TapeStore`).

**Defrag** adds the command to `TapeStore`: first hole, files to move, staging
limit, staging, truncation, rewriting. The files are moved in the order of their blocks,
where two files that name the same block (a stale cache can) may come either way. The failing actions stop it between any two
tape operations after the truncation, or fail to save the index.

**FileHandle** opens up the handlers that take more than one lock. Each section
under a lock is an action; a lock is held in the variable `lock` when something
inside the section can block (`addHandle` under `h.mu`, `removeHandle` and
`restoreWBuf` under `fs.mu`). File contents are sets of byte positions, one per
write, so that a content tells which acknowledged writes are in it. What the
kernel guarantees is in the guards of the `Start` actions, marked external: one
write at a time per inode, no request after Release, and, for a descriptor no two
threads use (`Shared` says which are), one request at a time. A write that finds
its buffer gone panics with `h.mu` locked; the FUSE server recovers and goes on.

**Namespace** has the tree as the index has it: a directory lists its directories and
its files in two slices, looked up by the first name that matches. A request names
its directory by a path, as a FUSE node does. Each handler is one action, since it
holds `fs.mu` from its load to its save; a handler that fails is a stuttering step.
`Landing` is where the pointer to the new parent leads after Rename has removed an
element from a slice: to the same directory, its next sibling, or nowhere. With the
constant `LaterSibling` FALSE, moves that would shift the new parent are not made.
`PathMap` is the tree as a user thinks of it, a map from paths to entries with
create, remove and move of a whole subtree; `Entries` is the refinement mapping.

**Partition** is the image file cell by cell: type, length, data. A failing write
leaves any prefix of its cells, a failing overwrite any prefix of its bytes. Lengths
are kept modulo `Width`, for the 2^32 of the code. `RecordLog` says what callers may
rely on: while the image is open, the log; after it is opened again, the same log if
the image is *whole*, an error if it is *torn* by one failed write, and nothing at all
once a torn image has been written to. `Image` tells the three apart by what
`rebuildIndex` would find.

**SCSITape** models a drive as a sequence of blocks and a head, and the code as the
table of block types, the next block to write and `tapPos`. Calls of the drive fail
by `Faults`; as each method stops at its first error, a method is an operator from a
state to its possible outcomes (state and success), and `Then` chains them. The
operations are those of `TapeFS`: format, load, append, commit, read, defrag.
`TwoPartitions` is an index and a log of records side by side, as the README of the
code has them. The code implements it only up to the first commit over data (section 5).
`OneTapeSpec` is what remains true: the same, but a commit leaves the new index and an
empty data partition. `Uses` switches on a defrag that moves nothing, `DoubleMarkEnds` a
drive that ends reading at a double mark; with either of them one of the properties fails.

**Daemon** opens up what `TapeStore` takes as one step: a command is lock, index record,
filemarks, open `.tmp`, write, rename, unlock; `umount` and `eject` give `d.mu` back while they
wait; FUSE requests run beside them under the `fs.mu` of their own mount. Savers share
the file `.tmp` by its name and keep the file they opened: `fd` says whether that is by
now `.tmp`, the cache, or a file without a name. The opening or the writing of it can
fail, then the saver answers with an error and leaves the file as it is, empty or with a
part of the index in it (`OpenFails`, `WriteFails`); the rename of a file that another
saver has taken away fails too. An index is the set of requests whose
update it contains, and `Partial` is a file that is none. Three history variables serve the
properties: `saved`, the updates
acknowledged since the last load; `disturbed`, set once a command is given before
the answer to the last one, or a load or commit to a mounted letter; and `crossed`, set once
a write fails while another saver has its file open too. `Given` are the commands each
connection of an instance gives.

The `Slip...` operators are not part of any specification: each is a definition
as a slip of the pen would have left it (a lock forgotten, a guard dropped, a
record counted too early). Putting one in place of the definition that follows it
makes one property fail, which shows that the property watches that line;
`PROJECT.json` pairs them.

## 3. Runs

| run | instance | shows |
|---|---|---|
| `store_faults` | 2 paths, 1 handle, 1-byte files, 8 data blocks, one new generation; faults crash, append, commit, commitsave, format, flushsave | `ExtentsLive`, `BlocksPartitioned`, `MountedHasCache`, `FileMapSpec` |
| `store_handles` | 1 path, 2 handles, 3-byte files, buffer limit 2, 7 data blocks, two new generations; faults crash, append, writesave, commit, commitsave | `TypeOK`, `DataLayout`, `LengthCovers`, `BufferKept`, `GenerationGrows` |
| `defrag` | 2 paths, 1 handle, 2 byte values, 10 blocks; faults initsave, defrag, defragsave | `DefragKeepsFiles`, `DefragSparesPrefix`, `DefragCompacts` |
| `handles_serial` | 2 clients, 2 handles on 2 files, 2 byte positions, failing appends, fair | `TypeOK`, `NoLostWrite`, `ReadYourWrites`, `DirtyRegistered`, `RequestsEnd` |
| `handles_locks` | the same with shared descriptors, 1 byte position and one flushfiles | `NoCircularWait`, `IndexUpdatesKept` |
| `namespace` | 4 directories, 3 names, 1 file; no move into a later sibling | `TypeOK`, `NamesResolve`, `PathMapSpec` |
| `partition` | 9 cells, data of up to 2 bytes of 2 values, records torn anywhere | `TypeOK`, `RecordLogSpec` |
| `scsi` | 11 blocks, 2 contents, 2 indexes; faults position, mark | `TypeOK`, `HeadTracked`, `TableMatches`, `OneTapeSpec` |
| `daemon` | 2 connections, of which one only unmounts and ejects, 1 request, 2 mounts; no mount while an eject waits; fair | `TypeOK`, `CacheWhole`, `UpdatesKept`, `TapeStaysOpen`, `MountedIsOpen`, `CommandsAnswered` |

**Bounds.** The blank data partition has 4 blocks and an append adds 2, so 8 blocks
hold two files beside each other and every partial third append, 7 an append that fails and
another one that succeeds behind what it left, and 10 blocks a
file written twice and another one behind it, the least with a hole and two files
to move. An append without room fails, as on a full medium, so the bound is a
behaviour of the system and not a cut. `MaxGen` bounds commits; a letter can load,
commit, crash and load again within one generation. The three generations of `store_handles`
are two commits behind each other, with failing ones before, between and after them. Byte values only matter where
contents are compared across files (`defrag`); elsewhere contents differ by
length. In `namespace`, three
directories beside the root are the least with a parent, a moved directory and a
sibling behind it, and one file is enough since files do not interact but by name. Nine
cells of `partition` hold a data record, a mark, a torn record and one written behind
it. The format of `scsi` takes six blocks and an append three, of which the next one
removes the last: eleven hold two files, and a third runs into the end of the tape.
Two connections of `daemon` are the least for a command in the window of another. Only
umount and eject have a window, so it is enough that one of the two gives these, and the
other one everything. Two mounts are the least for a request of the old one beside the new
one; savers overlap as a command and a request. What more of each could do is covered by the
theorems of `DaemonProofs`, but for `CommandsAnswered`. Three constraints stop the exploration, never the checking, of
uninteresting repetition: `TornBound` (behind a torn index partition, at most one
file), `AvailBound` (a defrag that keeps failing frees the same blocks again) and
`LiveCache` (a cache whose blocks are gone, after a failed defrag or init, is the
end of a behaviour, so what users do from there with such a cache is not explored).

`BufferKept` is run without the fault `flushsave`: with it it is false, as section 5 says.
`initsave` is only on in `defrag`: after it the cache describes another tape, whose blocks it
may free again and again.

Deadlock is checked in the `TapeStore` runs. In `Namespace`, `Partition` and `SCSITape`
a full instance may stop, and in `Daemon` a system may have nothing to do
(`CHECK_DEADLOCK FALSE`). In `FileHandle` it is not checked either: a system whose handles have all been released has nothing to do, and a goroutine that panicked keeps `h.mu` forever. `NoCircularWait` and
`RequestsEnd` say what matters instead.

**Fairness.** `RequestsEnd` assumes strong fairness of each goroutine's next step
and nothing about new requests. Go runs every runnable goroutine, and its
mutexes go into starvation mode and hand themselves to the longest waiter; a
waiting writer of an `RWMutex` shuts out new readers. Weak fairness would not do:
the lock a goroutine waits for is free only now and then. `CommandsAnswered` assumes
the same of each command and each request once it has begun, for the same reasons,
and weak fairness of the end of a FUSE server whose requests are done
(`commands.go:185-189`). Nothing is assumed of new commands and requests; a umount of
a file system in use fails and is answered.

## 4. What is proved

The modules named `...Proofs` are checked by TLAPS for every
value of the constants: any set of paths and handles, any bounds and faults of
`TapeStore`; any number of connections, requests and mounts of `Daemon`, of goroutines,
handles, files and bytes of `FileHandle`, of directories and names of `Namespace`; any
image of `Partition` and any tape of `SCSITape`. They rest on the assumptions the modules
state about their constants. These say that bounds are numbers, that faults are among the
known ones, that a null value (`None`, `Unknown`, `Broken`) is not one of the values it
stands beside, and that the directories, and the files of an index (`PathsAssumption` of `Defrag`), are
finitely many. A theorem that needs more
says so in its own ASSUME, and the reason is given below.

*The log.* `AppendKeepsData`: an append, or any prefix of one, keeps every data
record at its block. `AppendIsFresh`: the block it reports held no data before and
holds the new content after. Both rest on the end-of-data record never being a
data record, and on truncation cutting that record only.

*The store.* `Consistent` proves `Spec => []IInv`. The properties themselves are
not inductive; `IInv` adds, in this order:

* `DirtyHasData`: a dirty handle has a non-empty buffer. Without it the content
  appended by a flush could be empty and its extent could claim no byte;
* `LabelsThere`: while the letter is loaded the index partition has the three
  blocks before its index, so that what a commit writes lands at block 3, where a
  load looks for it;
* `TapeIndexOK`: the index found on the tape is well-formed against the data
  partition (extents live, blocks disjoint from each other and from the available
  ones, lengths covering), whether or not the letter is loaded. It is what makes
  a load safe, and what `AppendKeepsData` carries over every later append;
* `CacheOK`: the same of the cache while the letter is loaded. Here `AppendIsFresh`
  is needed: the extent a flush adds is disjoint from everything already there.

`TapeIndexOK` and `CacheOK` are under the assumption that `"initsave"` is not among
the faults: init formats the tape and, if it cannot save the cache, leaves the
letter loaded with a cache of the old tape. `Inv(F)` is the invariant where no fault
outside F occurs, `IInv` is `Inv(Faults)`, and `TypeInv`, which is `Inv(AllFaults)`,
holds of every letter.

The theorems `TypeCorrect`, `CacheWhileMounted`, `ExtentsAlwaysLive` and
`BlocksAlwaysPartitioned` follow. `LengthsAlwaysCover` needs no consistent index: `Covers`
says it of the cache and of the tape's index, loaded or not, and every handler keeps it
whatever fails. `store_faults` and `store_handles` check the same five formulas on small
instances.

*The letter as a map of files.* `ImplementsFileMap` proves `Spec => FileMapSpec`, one lemma
per command, handler and failing action (`...Refines`). Each rests on `IInv`: what an append
keeps, every index reads as before, and what it stores reads back (`StoredReadsBack`).
Beside `IInv` only `DataLabelThere` is needed: a letter that is loaded has its data label,
so that a crash and a load find the saved copy. The hypothesis `InitSaves` leaves out the
fault `initsave`, for the reason above; every other fault is in.

*Buffers and generations.* `BuffersAlwaysKept` follows from `IInv` if no save of the index
fails after an append (`"flushsave"`, section 5). `GenerationAlwaysGrows` holds
whatever fails: an index that a commit puts on the tape has a higher generation than the one
before it, or the same one, and this only where the cache is behind the tape. It needs
`GenInv`: the cache of a loaded letter is at most one generation behind its tape, and only
behind it after a commit that failed. So no number is used twice where none fails
(`GenerationNeverReused`, under the hypothesis `CommitsSave`). The layout of the data partition is
`MarksAlwaysInPlace`, whatever fails, and `DataAlwaysLaidOut`, which adds the labels and
needs formats that do not stop half-way.

*Defrag.* The invariant is `DInv`: `TypeInv`, `Covers` and `MarksInPlace`, all of which
hold whatever has failed before. The extents of the cache need not be live, for a defrag
that stopped leaves the cache referring to blocks that are gone. What the command relies on
instead it finds out itself: it has read every file it moves, so each is there in full and
not empty (`StagedIsFile`). The files can be listed by block, each once (`OrderIsComplete`,
by the file of lowest block and a least number of files that could not be), and
`WellWritten(s, n)` says what the rewriting has made after n of them: every record below
the hole is in place, the moved files are read back from where they are now, the others are
as they were, and each data block from the hole on is a moved file's. The delicate part is the
first append: it drops an end-of-data record in front of the hole, which would let the
data fall below it. There is none, because such a record is the last one (`MarksInPlace`)
and a file to move lies behind it. `FilesSurviveDefrag`, `PrefixSurvivesDefrag` and
`DefragLeavesNoHole` are the three properties of the run `defrag`, here without its
constraint `LiveCache`.

*The image file.* `TypeCorrect` of `PartitionProofs` rests on `Laid`: the block index leads
to records that lie in the file one behind the other. It holds of a torn and
of a spoiled image too, which is why truncation and overwriting stay within the file.
`ImplementsRecordLog` needs what a scan of the file finds. `ScanFinds` says that a scan that does
not fail finds adjoining records up to the end of the file, and `AdjoinFrom` that there
is only one such list; so writing, cutting and overwriting records change what a scan
finds by just those records, and a torn record makes it fail. The scan is a
recursive function over offsets, and that it exists (`ScanExists`) is proved from a least
offset at which it would not. The hypothesis `MaxData < Width` says that a record is no
longer than its length field can say; without it TLC violates the property.

*The drive.* Each method of the drive is an operator to its outcomes, so the proof has a
lemma per method and chains them as `Then` does. `Good` holds of every
outcome, whatever fails, and gives `TypeCorrect`: the table is never longer than the tape. Under
the hypothesis `Reliable` a tape is `Whole` between operations, with all its blocks in
the table, and `Cut` after a truncation, with the head behind the last block of the
table. A write to a cut tape makes it whole, because a write ends the tape where it is
made. `TableKept` is the invariant, `HeadAlwaysTracked` and `TableAlwaysMatches` follow.
`Reliable` allows seeks and marks to fail, anywhere and any number of times. It excludes
failing reads and writes, a drive that ends at a double mark, and a truncation that
nothing is written behind: with each of them TLC violates one of the two properties
(section 5).

`ImplementsOneTape`, under `Reliable` alone, reads the data partition off the tape of an
open device as its table shows it: the block where the table says data, else a mark or an
end (`View`). A file's write leaves its first k records behind what was there, for some k,
whatever failed (`Behind`, `FileIsBehind`), which are the outcomes of an append. A format
or a commit rewrites the blocks of the index, and what they write ends the tape there
(`Rewritten`); one that fails before has changed no block (`Unwritten`). So a commit leaves
the index it was given and no data, whatever was on the tape (`CommitRefines`). A closed device
is seen as a reload would find it, where the last mark stands for the end of the data
(`ReloadSeen`). The invariant gets one part more: an open device has an index block
(`Labelled`).

*The directory tree.* `TypeCorrect` of `NamespaceProofs` holds of all moves, those that
put a directory into the wrong one included. The tree in use is described by `Sound` (what
a live directory lists is live) and `Once` (a directory is listed in one place, the root
in none), and a save keeps just what can be reached from the root (`SavedTree`).
Every handler is reduced to an edit of one or two directories (`Without`, `With`,
`Refiled`, `Relisted`, `Renamed`), and `PathFound` says where a path leads.
`NamesAlwaysResolve` adds `Distinct`: a directory has each name once. Its hypothesis
`~LaterSibling` is needed: the handler looks for the new name in the directory it was
asked for, and puts the entry into the one the pointer leads to. With four
directories TLC finds two entries of one name there.

`EveryEditIsOnePath` proves the refinement of `PathMap` under the same hypothesis. The
tree is read as routes: `Leads` says which directory a path ends in, `Held` which files a
directory lists, `Ent` which entry a path names. As no directory is listed twice, a
directory lies on one path, and as each has a name once, a path leads to one directory
(`OneRoute`). `EntriesAreMap` shows that the mapping `Entries`, which lists the tree
level by level, is that map: no path is longer than there are directories. Then each
edit of a slice changes `Ent` at one path: an entry is put there (`EntryPut`), taken
away (`EntryCut`) or moved with all below it (`EntriesMoved`), and a save changes nothing
(`SavedEntries`). `Numbered`, every UID in the tree is one that was given, is the
part the invariant needs besides: a new file's UID is then new.

*The daemon.* The properties come
from `Consistent`, `Spec => []IInv`, whose parts need each other in this order:

* `Calm`: until the system is disturbed, one connection at a time is at work;
* `Serving`: a request's FS has not ended, `fs.mu` lets one request of an FS work at a
  time, and the FS that takes requests is the mounted one;
* `Mounted`: while an eject is between its halves nothing is mounted. `MountedStaysOpen`
  follows without `Calm` if no mount is tried there, and needs it otherwise;
* `Undisturbed`: an FS that ends has a command that waits for it, and nothing is mounted
  before it has ended. So one FS serves at a time, and the tape under it is open:
  `TapeAlwaysOpen`;
* `Updates`: from the parts above, one process at a time is between the load of an index
  and its save (`OneWorks`), although `d.mu` and the `fs.mu` of two mounts are different
  locks. So a saver has `path.tmp` to itself and every update saved before in its index:
  `UpdatesAlwaysKept`. It follows that no write fails beside another saver there, `Uncrossed`:
  `crossed => disturbed`;
* `PartialOwned`: unless savers have crossed, a cache that is not a whole index belongs
  to a saver that has it open and is yet to write it. A rename that takes a file to the name of
  the cache takes the savers that have it open along, and a saver that fails without another
  beside it leaves its part of an index in `path.tmp`, which the next one truncates.

From the last two follows `CacheIsWhole`: a part of an index is left as the cache only by a
write that failed while savers overlapped, which takes two commands at a time or a load or
commit to a mounted letter.

*The goroutines of a mount.* `LockInv` says who holds which lock: the goroutines between
taking and dropping `fs.mu` and `handlesMu` are known by where they are, and `h.mu` is
held only by one that serves `h`. From it follow

* the order of the locks (`LockOrder`): who holds `handlesMu` waits for nothing, who holds
  an `h.mu` at most for `handlesMu`, who holds `fs.mu` for one of the others. So a circle
  of waiting goroutines has no member: `NeverCircular`, whether or not they share handles
  and whether or not appends fail;
* the index in the hands of the one goroutine inside `fs.mu` differs from the saved one
  in its own file's entry at most: `IndexUpdatesAlwaysKept`.

The promises to a client (`NoLostWrite`, `ReadYourWrites`, `DirtyRegistered`) fail when a
`flushfiles` meets a write (section 5), so their theorems have the condition `Serial`: no
flushfiles command, no descriptor used by two goroutines, a file of its own for each
handle. It is the case `handles_serial` checks. `SerialInv` says then that one goroutine
at a time is at a handle (`Exclusive`), and what holds of the handle at each of its steps
(`Busy`) and between requests (`Resting`): the acknowledged writes are in the buffer if
it is dirty, else on tape, or in the hands of the goroutine flushing it. A step of one
goroutine leaves the other handles' part alone (`OthersStay`), which for a save of the
index is `LockInv`.

Only model-checked: liveness (`RequestsEnd`, `CommandsAnswered`), which is out of the
prover's reach and stays with TLC.

## 5. Where the code does not do what is written about it

Each is a run that must end in a violation.

* `bug_lost_write` (`NoLostWrite`): `flushfiles` while a file is being written can
  lose acknowledged bytes. The flush takes the buffer; a write finds none and
  preloads the file as it was; the flush stores the buffer; the write installs its
  stale preload (`fs/file.go:157-195` against `README.mkd:38-40`).
* `bug_rename_dir` (`PathMapSpec`): a directory moved into a sibling listed after it
  disappears with its contents. Rename appends through a pointer into the slice it has
  just removed an element from (`fs/dir.go:232-272` against `README.mkd:17-19`).
* `bug_scsi_commit` (`TwoPartitionsSpec`): a commit to a drive rewrites block 3 of the
  one partition it uses, which ends the tape there: the data is gone
  (`internal/tape/scsi_linux.go:172-186,292` against `README.mkd:253-262,501-504`).

Seen in the models and kept as hazards rather than runs. In the handlers:

* a buffer taken by `flushfiles` between the section of `Write` that prepares it and
  the one that uses it: nil dereference with `h.mu` locked (`fs/file.go:196-201`);
  in `handles_locks` this is the state `panicked`;
* a file renamed while it has buffered data loses that data when it is closed, but
  keeps its length (`fs/file.go:269-273` against `README.mkd:240-241`);
* nodes keep their path when a directory above them is renamed (`fs/dir.go:59`);
* defrag looks files up by UID (`fs/tapefs.go:654`).

In the commands:

* after a crash the surviving cache is overwritten by `load`, and nothing else makes
  the letter usable (`internal/daemon/commands.go:100-107` against `README.mkd:41-43`);
* after a defrag, `discard` and `load` return to an index whose blocks have moved
  (`fs/tapefs.go:664-681` against `README.mkd:182-184`);
* an eject that waits for its mount to end closes the session even if the letter has
  been mounted again meanwhile (`commands.go:243-268`): with `MountInEject` TRUE,
  `MountedIsOpen` fails;
* a commit to a mounted letter can undo an update saved while it runs
  (`commands.go:125-133`): `UpdatesKept` fails without its condition;
* a part of an index can be left as the cache, although `internal/ltfs/index.go:315` says
  that it is written atomically. All savers share the name `path.tmp` and no lock: a
  request truncates the file that a load of the mounted letter has just written, the load
  renames it to the cache, and the request cannot write
  (`internal/ltfs/index.go:321-325`). `CacheWhole` fails without its condition.

In the drive and the image:

* a read that fails with EIO leaves `tapPos` as it was (`scsi_io_linux.go:205`), against
  `scsi_linux.go:47-48`: with the fault `read`, `HeadTracked` fails;
* on a drive that ends reading at a double filemark, as `scsi_linux.go:309-312` says real
  ones do, a scan finds five blocks, and the next append overwrites the data: with
  `DoubleMarkEnds`, `TableMatches` and `OneTapeSpec` fail;
* a truncation that nothing is written behind leaves the table shorter than the tape
  (`scsi_linux.go:183`): with the use `trim` or the fault `write`, `TableMatches` fails;
* a commit that is tried again after a torn write of block 3 keeps the fragment, since
  `TruncateAt` at the number of blocks cuts nothing (`partition.go:155-160`): it reports
  success, and the tape cannot be loaded afterwards. What `store_faults` shows of a
  second commit is therefore about failures between records only;
* a record of `Width` bytes wraps the length in its header (`partition.go:96`): with
  `MaxData` = `Width`, `RecordLogSpec` fails;
* a record longer than 512 KiB cannot be read back from a drive (`scsi_linux.go:26`).

In what is written about them:

* a read while the handle's buffer is being flushed returns the old content
  (`README.mkd:26-27`);
* a handle that became dirty during its own flush is unregistered by it, and
  `flushfiles` misses it (`fs/fuse.go:118`);
* `fs/fuse.go:27-28` and `:46` state a lock order that `flushBuffer` does not keep
  (`removeHandle` and `restoreWBuf` run under `fs.mu`); `NoCircularWait` shows that
  this is harmless, because nothing waits for `fs.mu` under the other two;
* a flush whose save fails does not restore the buffer, so the retry promised at
  `fs/file.go:336-337` has nothing to do;
* a commit whose save fails makes the next commit reuse the generation number
  (`README.mkd:178-180`);
* available space is recorded and never reused (`README.mkd:47-48`), since
  `WriteFileData` has no caller, and `README.mkd:300-303` describes
  `WriteChunkToFile`, which has none either;
* a commit while a file is open stores a length that no extent backs
  (`README.mkd:506-511`).

## 6. Plan

All modules of the plan are written. What is left is to prove more of what the runs
check: that a write outlives a `flushfiles` which does not meet it.

## 7. Not modelled

* Timestamps, XML and extended attributes; Attr, which returns timestamps.
* The table of letters: the models have one letter, so two letters on one device are
  not seen. In `Daemon`, `unassign` is `close`: the entry stays, closed. `list` changes
  nothing; `flushfiles` is in `FileHandle` and `TapeStore`.
* `parseSize`, which multiplies without a check for overflow (`commands.go:420`): one
  expression, with no state.
* Eject and swallow of a drive (single ioctls), and the filemark the kernel's driver
  may write when a device is closed.
* Loss of the page cache: commit syncs only the index partition. The models end with
  the daemon's crash.
* The socket protocol, the abbreviation of commands and the client: one request, one
  answer, no state.
* Functions with no caller: `OpenTape`, `WriteChunkToFile`, `WriteFileData`, `FS.Close`.
