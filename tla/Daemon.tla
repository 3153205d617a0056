------------------------------- MODULE Daemon -------------------------------
(***************************************************************************)
(* The concurrency around one letter of the daemon: connections that       *)
(* serve commands under d.mu, mounts whose goroutines serve FUSE requests  *)
(* under the fs.mu of their own FS, and the two things both sides use with *)
(* no lock in common, the tape session and the index cache file.           *)
(*                                                                         *)
(* umount and eject release d.mu while they wait for the requests of the   *)
(* mount to end, so other commands run in between, a mount included; then  *)
(* there are two FS for one cache file.                                    *)
(*                                                                         *)
(* The cache is saved by writing a file of a fixed name, path.tmp, and     *)
(* renaming it.  A saver that has it open keeps the file it opened: after  *)
(* another's rename that is the cache itself, or a file no name leads to.  *)
(* Opening or writing the file can fail; then the saver answers an error   *)
(* and leaves what it has written.                                         *)
(*                                                                         *)
(* An index is the set of the requests whose update it has.  The requests  *)
(* modelled are those that change it: an update (a flush of a file's       *)
(* buffer; other edits touch the tape not at all) or a write of the flush  *)
(* file.  What the updates are is the subject of TapeStore.                *)
(***************************************************************************)
EXTENDS Naturals, FiniteSets

CONSTANTS
  Clients,      \* connections to the daemon
  Requests,     \* FUSE requests in flight
  Mounts,       \* objects FS
  Given,        \* the commands that each connection gives
  MountInEject, \* whether a mount is tried while an eject waits
  None, Partial \* no file; a file that is not a whole index

ASSUME ProcsAssumption == Clients \cap Requests = {}
ASSUME MountInEjectAssumption == MountInEject \in BOOLEAN

Procs == Clients \cup Requests
Commands == {"init", "load", "commit", "discard", "defrag", "mount", "umount", "eject", "close"}
Indexes == SUBSET Requests
FileContents == Indexes \cup {None, Partial}
Saving == {"truncate", "put", "mark", "open", "write", "rename"}
Labels == {"idle", "lock", "queued", "append", "drain", "relock"} \cup Saving
Threads == [pc : Labels, cmd : Commands \cup {"update", "flush", None},
            at : Mounts \cup {None}, idx : Indexes]

\* A tape on which a filemark stands where the index belongs.
NoIndex == Partial

ASSUME NoneAssumption ==
  /\ None \notin Mounts \cup Clients \cup {"tmp", "cache", "gone"}
  /\ None # Partial
  /\ \A i \in Indexes : i # None /\ i # Partial

VARIABLES
  cache, tmp,   \* the index file and the file it is renamed from
  tape,         \* what is in block 3 of the tape, None if it ends before
  entry,        \* loaded: tapeFS # nil; mount: the FS mounted; waits: fuseDone # nil
  dmu,          \* who holds d.mu from step to step
  fs,           \* of each FS: its state, and whether its tape is still open
  th,           \* each process: where it is, its command, the FS that serves it or
                \* that it waits for, the index it has loaded
  fd,           \* what the file a saver has open is now: "tmp", "cache" or "gone"
  crossed,      \* whether a write of path.tmp has failed while savers overlapped
  disturbed,    \* whether a command was given before another was answered, or a
                \* load or commit to a mounted letter
  saved         \* the updates acknowledged since the cache was last loaded

vars == <<cache, tmp, tape, entry, dmu, fs, th, fd, crossed, disturbed, saved>>
files == <<cache, tmp, fd>>
ghosts == <<crossed, disturbed, saved>>

Served == [state |-> "done", live |-> FALSE]

Idle == [pc |-> "idle", cmd |-> None, at |-> None, idx |-> {}]

Init ==
  /\ cache = None /\ tmp = None /\ tape = None
  /\ entry = [loaded |-> FALSE, mount |-> None, waits |-> FALSE]
  /\ dmu = None
  /\ fs = [m \in Mounts |-> Served]
  /\ th = [p \in Procs |-> Idle]
  /\ fd = [p \in Procs |-> None]
  /\ crossed = FALSE
  /\ disturbed = FALSE
  /\ saved = {}

Goto(p, l) == th' = [th EXCEPT ![p] = IF l = "idle" THEN Idle ELSE [@ EXCEPT !.pc = l]]

GoOn(p, l, i) == th' = [th EXCEPT ![p].pc = l, ![p].idx = i]

Readable(f) == f \notin {None, Partial}

-----------------------------------------------------------------------------
(***************************************************************************)
(* Saving the cache, the same for all: SaveIndexToFile.                    *)
(***************************************************************************)
\* Opening path.tmp truncates the file of that name, whoever has it open.
OpenTmp(p) ==
  /\ th[p].pc = "open"
  /\ tmp' = Partial
  /\ fd' = [fd EXCEPT ![p] = "tmp"]
  /\ Goto(p, "write")
  /\ UNCHANGED <<cache, tape, entry, dmu, fs, ghosts>>

\* Slip: a saver whose file is no longer path.tmp gives up.
SlipGiveUp(p) ==
  /\ th[p].pc = "write"
  /\ tmp' = IF fd[p] = "tmp" THEN th[p].idx ELSE tmp
  /\ Goto(p, "rename")
  /\ UNCHANGED <<cache, tape, entry, dmu, fs, fd, ghosts>>

WriteTmp(p) ==
  /\ th[p].pc = "write"
  /\ cache' = IF fd[p] = "cache" THEN th[p].idx ELSE cache
  /\ tmp' = IF fd[p] = "tmp" THEN th[p].idx ELSE tmp
  /\ Goto(p, "rename")
  /\ UNCHANGED <<tape, entry, dmu, fs, fd, ghosts>>

\* p is the only saver of its file, and no other has one open.
OnlySaver(p) == fd[p] = "tmp" /\ \A q \in Procs \ {p} : fd[q] = None

\* A request answers an error, a command too, and gives back d.mu.
GiveUp(p) ==
  /\ Goto(p, "idle")
  /\ dmu' = IF dmu = p THEN None ELSE dmu

\* os.WriteFile cannot open path.tmp, and leaves it as it is.
OpenFails(p) ==
  /\ th[p].pc = "open"
  /\ GiveUp(p)
  /\ UNCHANGED <<files, tape, entry, fs, ghosts>>

\* os.WriteFile cannot write all of the index: the file it has opened keeps what it
\* holds, or a part of the index is in it.
WriteFails(p) ==
  /\ th[p].pc = "write"
  /\ \/ UNCHANGED <<cache, tmp>>
     \/ /\ cache' = IF fd[p] = "cache" THEN Partial ELSE cache
        /\ tmp' = IF fd[p] = "tmp" THEN Partial ELSE tmp
  /\ fd' = [fd EXCEPT ![p] = None]
  /\ crossed' = (crossed \/ ~OnlySaver(p))
  /\ GiveUp(p)
  /\ UNCHANGED <<tape, entry, fs, disturbed, saved>>

\* The rename fails if another saver has taken the file away; what is then in the
\* cache may still be this saver's.
Renamed(p) ==
  /\ cache' = IF tmp = None THEN cache ELSE tmp
  /\ tmp' = None
  /\ fd' = [q \in Procs |->
              CASE q = p                             -> None
                [] q # p /\ tmp # None /\ fd[q] = "cache" -> "gone"
                [] q # p /\ tmp # None /\ fd[q] = "tmp"   -> "cache"
                [] OTHER                             -> fd[q]]

\* FlushIndex: block 3 is cut off and written again; a block already there stays.
Truncate(p) ==
  /\ th[p].pc = "truncate"
  /\ IF p \in Requests /\ ~fs[th[p].at].live
     THEN Goto(p, "idle") /\ UNCHANGED tape
     ELSE Goto(p, "put") /\ tape' = None
  /\ UNCHANGED <<files, entry, dmu, fs, ghosts>>

PutIndex(p) ==
  /\ th[p].pc = "put"
  /\ tape' = IF tape = None THEN th[p].idx ELSE tape
  /\ Goto(p, "mark")
  /\ UNCHANGED <<files, entry, dmu, fs, ghosts>>

\* The filemarks behind the index; they take its place if it has been cut off since.
PutMarks(p) ==
  /\ th[p].pc = "mark"
  /\ tape' = IF tape = None THEN NoIndex ELSE tape
  /\ Goto(p, "open")
  /\ UNCHANGED <<files, entry, dmu, fs, ghosts>>

-----------------------------------------------------------------------------
(***************************************************************************)
(* Requests.                                                               *)
(***************************************************************************)
Arrive(r, m, k) ==
  /\ th[r] = Idle
  /\ fs[m].state = "up"
  /\ th' = [th EXCEPT ![r] = [pc |-> "queued", cmd |-> k, at |-> m, idx |-> {}]]
  /\ UNCHANGED <<files, tape, entry, dmu, fs, ghosts>>

Busy(m) == {r \in Requests : th[r].at = m /\ th[r].pc # "idle"}

\* fs.mu, and the index loaded under it.
Begin(r) ==
  /\ th[r].pc = "queued"
  /\ \A q \in Busy(th[r].at) : th[q].pc = "queued"
  /\ IF Readable(cache)
     THEN IF th[r].cmd = "flush"
          THEN GoOn(r, "truncate", cache) ELSE GoOn(r, "append", cache \cup {r})
     ELSE Goto(r, "idle")
  /\ UNCHANGED <<files, tape, entry, dmu, fs, ghosts>>

\* AppendFileData fails on a tape that has been closed.
AppendData(r) ==
  /\ th[r].pc = "append"
  /\ Goto(r, IF fs[th[r].at].live THEN "open" ELSE "idle")
  /\ UNCHANGED <<files, tape, entry, dmu, fs, ghosts>>

RequestRename(r) ==
  /\ th[r].pc = "rename"
  /\ Renamed(r)
  /\ Goto(r, "idle")
  /\ saved' = IF tmp = None \/ disturbed THEN saved ELSE saved \cup ({r} \cap th[r].idx)
  /\ UNCHANGED <<tape, entry, dmu, fs, crossed, disturbed>>

\* The connection of an unmounted FS ends when its last request is answered.
ServeEnds(m) ==
  /\ fs[m].state = "draining" /\ Busy(m) = {}
  /\ fs' = [fs EXCEPT ![m] = Served]
  /\ UNCHANGED <<files, tape, entry, dmu, th, ghosts>>

-----------------------------------------------------------------------------
(***************************************************************************)
(* Commands.                                                               *)
(***************************************************************************)
Issue(c, k) ==
  /\ th[c] = Idle /\ k \in Given[c]
  /\ th' = [th EXCEPT ![c].pc = "lock", ![c].cmd = k]
  /\ LET careless == \/ \E d \in Clients : th[d].pc # "idle"
                     \/ k \in {"load", "commit"} /\ entry.mount # None
     IN  /\ disturbed' = (disturbed \/ careless)
         /\ saved' = IF disturbed \/ careless THEN {} ELSE saved
  /\ UNCHANGED <<files, tape, entry, dmu, fs, crossed>>

\* Command k of c has d.mu.
Locked(c, k) == th[c].pc = "lock" /\ th[c].cmd = k /\ dmu = None

\* The answer, an error or not: d.mu is released.
Answer(c) == Goto(c, "idle")

\* closeEntry: the session is closed, under every FS that uses it.
ClosedEntry(e) == [e EXCEPT !.loaded = FALSE, !.waits = FALSE]
ClosedFS == [m \in Mounts |-> [fs[m] EXCEPT !.live = FALSE]]

\* Slip: whether a mount uses the session is not looked at.
SlipNoCheck == TRUE

NotMounted == entry.mount = None

\* unassign; an eject of a letter that is not mounted.
Close(c) ==
  /\ Locked(c, "close") \/ (Locked(c, "eject") /\ entry.mount = None)
  /\ Answer(c)
  /\ IF NotMounted
     THEN entry' = ClosedEntry(entry) /\ fs' = ClosedFS
     ELSE UNCHANGED <<entry, fs>>
  /\ UNCHANGED <<files, tape, dmu, ghosts>>

Discard(c) ==
  /\ Locked(c, "discard")
  /\ Answer(c)
  /\ IF NotMounted
     THEN /\ entry' = ClosedEntry(entry) /\ fs' = ClosedFS
          /\ cache' = None
          /\ fd' = [q \in Procs |-> IF fd[q] = "cache" THEN "gone" ELSE fd[q]]
          /\ saved' = {}
     ELSE UNCHANGED <<entry, fs, cache, fd, saved>>
  /\ UNCHANGED <<tmp, tape, dmu, crossed, disturbed>>

\* A command that goes on to save index i: it keeps d.mu.
Hold(c, l, i) == GoOn(c, l, i) /\ dmu' = c

CmdInit(c) ==
  /\ Locked(c, "init")
  /\ IF NotMounted
     THEN /\ tape' = {}
          /\ entry' = [ClosedEntry(entry) EXCEPT !.loaded = TRUE]
          /\ fs' = ClosedFS
          /\ Hold(c, "open", {})
     ELSE Answer(c) /\ UNCHANGED <<tape, entry, fs, dmu>>
  /\ UNCHANGED <<files, ghosts>>

Load(c) ==
  /\ Locked(c, "load")
  /\ IF Readable(tape) THEN Hold(c, "open", tape) ELSE Answer(c) /\ UNCHANGED dmu
  /\ UNCHANGED <<files, tape, entry, fs, ghosts>>

Commit(c) ==
  /\ Locked(c, "commit")
  /\ IF entry.loaded /\ Readable(cache)
     THEN Hold(c, "truncate", cache)
     ELSE Answer(c) /\ UNCHANGED dmu
  /\ UNCHANGED <<files, tape, entry, fs, ghosts>>

Defrag(c) ==
  /\ Locked(c, "defrag")
  /\ IF entry.loaded /\ NotMounted /\ Readable(cache)
     THEN Hold(c, "open", cache)
     ELSE Answer(c) /\ UNCHANGED dmu
  /\ UNCHANGED <<files, tape, entry, fs, ghosts>>

\* Slip: an answer without giving back d.mu.
SlipKeepLock == UNCHANGED dmu

Unlock == dmu' = None

\* The updates of a cache replaced by the tape's index are gone on purpose.
CommandRename(c) ==
  /\ th[c].pc = "rename"
  /\ Renamed(c)
  /\ Answer(c)
  /\ Unlock
  /\ entry' = IF th[c].cmd = "load" /\ tmp # None THEN [entry EXCEPT !.loaded = TRUE] ELSE entry
  /\ saved' = IF th[c].cmd \in {"init", "load"} THEN saved \cap th[c].idx ELSE saved
  /\ UNCHANGED <<tape, fs, crossed, disturbed>>

Mount(c) ==
  /\ Locked(c, "mount")
  /\ MountInEject \/ \A d \in Clients : th[d].pc \in {"idle", "lock"} \/ th[d].cmd # "eject"
  /\ Answer(c)
  /\ IF entry.mount = None /\ entry.loaded /\ cache # None
     THEN \E m \in Mounts :
            /\ fs[m].state = "done" /\ \A d \in Clients : th[d].pc = "drain" => th[d].at # m
            /\ fs' = [fs EXCEPT ![m] = [state |-> "up", live |-> TRUE]]
            /\ entry' = [entry EXCEPT !.mount = m, !.waits = TRUE]
     ELSE UNCHANGED <<entry, fs>>
  /\ UNCHANGED <<files, tape, dmu, ghosts>>

\* umount, and the first half of eject; it fails while a file is open.  d.mu is
\* released, and fuseDone is waited for if there is one.
Unmount(c) ==
  /\ Locked(c, "umount") \/ (Locked(c, "eject") /\ entry.mount # None)
  /\ \/ Answer(c) /\ UNCHANGED <<entry, fs>>
     \/ /\ entry.mount # None
        /\ th' = [th EXCEPT ![c].pc = "drain",
                           ![c].at = IF entry.waits THEN entry.mount ELSE None]
        /\ fs' = [fs EXCEPT ![entry.mount].state = "draining"]
        /\ entry' = [entry EXCEPT !.mount = None, !.waits = FALSE]
  /\ UNCHANGED <<files, tape, dmu, ghosts>>

\* Slip: nothing waits for the requests.
SlipNoWait(c) == TRUE

FuseDone(c) == th[c].at # None => fs[th[c].at].state = "done"

Drained(c) ==
  /\ th[c].pc = "drain"
  /\ FuseDone(c)
  /\ Goto(c, IF th[c].cmd = "eject" THEN "relock" ELSE "idle")
  /\ UNCHANGED <<files, tape, entry, dmu, fs, ghosts>>

\* The second half of eject, whatever is mounted by now.
Eject(c) ==
  /\ th[c].pc = "relock" /\ dmu = None
  /\ entry' = ClosedEntry(entry)
  /\ fs' = ClosedFS
  /\ Answer(c)
  /\ UNCHANGED <<files, tape, dmu, ghosts>>

-----------------------------------------------------------------------------
Save(p) ==
  \/ Truncate(p) \/ PutIndex(p) \/ PutMarks(p)
  \/ OpenTmp(p) \/ OpenFails(p) \/ WriteTmp(p) \/ WriteFails(p)

RequestStep(r) == Begin(r) \/ AppendData(r) \/ Save(r) \/ RequestRename(r)

CommandStep(c) ==
  \/ CmdInit(c) \/ Load(c) \/ Commit(c) \/ Discard(c) \/ Defrag(c) \/ Close(c)
  \/ Mount(c) \/ Unmount(c) \/ Drained(c) \/ Eject(c)
  \/ Save(c) \/ CommandRename(c)

Next ==
  \/ \E r \in Requests, m \in Mounts, k \in {"update", "flush"} : Arrive(r, m, k)
  \/ \E r \in Requests : RequestStep(r)
  \/ \E m \in Mounts : ServeEnds(m)
  \/ \E c \in Clients, k \in Commands : Issue(c, k)
  \/ \E c \in Clients : CommandStep(c)

\* Goroutines are scheduled, and a mutex is handed over to one that waits for it.
Fairness ==
  /\ \A r \in Requests : SF_vars(RequestStep(r))
  /\ \A c \in Clients : SF_vars(CommandStep(c))
  /\ \A m \in Mounts : WF_vars(ServeEnds(m))

Spec == Init /\ [][Next]_vars /\ Fairness

-----------------------------------------------------------------------------
(***************************************************************************)
(* Properties.                                                             *)
(***************************************************************************)
\* Only a command on its way to save an index keeps d.mu from step to step.
TypeOK ==
  /\ cache \in FileContents /\ tmp \in FileContents
  /\ tape \in Indexes \cup {None, NoIndex}
  /\ entry \in [loaded : BOOLEAN, mount : Mounts \cup {None}, waits : BOOLEAN]
  /\ dmu \in Clients \cup {None}
  /\ fs \in [Mounts -> [state : {"up", "draining", "done"}, live : BOOLEAN]]
  /\ th \in [Procs -> Threads]
  /\ fd \in [Procs -> {"tmp", "cache", "gone", None}]
  /\ crossed \in BOOLEAN /\ disturbed \in BOOLEAN
  /\ saved \in Indexes
  /\ dmu # None => th[dmu].pc \in Saving

NoSaver == \A p \in Procs : fd[p] = None

\* SaveIndexToFile "writes an LTFS index to a disk cache file atomically".  What the
\* shared path.tmp leaves of that: once no one has it open, the cache is a part of an
\* index only if savers have overlapped and one of them has failed to write, so never
\* where each command is given after the answer to the last, and load and commit to a
\* letter not mounted.
CacheWhole == NoSaver /\ cache = Partial => crossed /\ disturbed

\* "This ensures that the index on disk is fully up-to-date before a subsequent commit
\* reads it": if each command is given after the answer to the one before, and load and
\* commit only to a letter not mounted, no update a request has saved is lost.
UpdatesKept ==
  ~disturbed /\ NoSaver /\ saved # {} => Readable(cache) /\ saved \subseteq cache

\* In the same circumstances no request finds the tape closed under it.
TapeStaysOpen == ~disturbed => \A r \in Requests : th[r].pc # "idle" => fs[th[r].at].live

\* A mounted letter has its tape open, and umount can wait for its requests.
MountedIsOpen == entry.mount # None => entry.loaded /\ entry.waits /\ fs[entry.mount].live

\* Every command is answered: a umount or eject that waits for requests does not keep
\* d.mu from others, and no request waits for d.mu.
CommandsAnswered == \A c \in Clients : th[c].pc # "idle" ~> th[c].pc = "idle"

=============================================================================
