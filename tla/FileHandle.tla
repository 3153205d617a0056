----------------------------- MODULE FileHandle -----------------------------
(***************************************************************************)
(* The goroutines inside one mounted letter, at the granularity of its     *)
(* locks: FUSE requests on file handles (Write, Read, Flush, Release of    *)
(* fs/file.go) and the flushfiles command, which walks FS.handles from     *)
(* outside the FUSE connection.                                            *)
(*                                                                         *)
(* Locks: h.mu (one per handle, named by the handle), fs.mu, handlesMu.  A *)
(* section that takes one lock, and nothing inside it can block, is one    *)
(* action guarded by the lock being free (RLock of fs.mu is always one);   *)
(* the others hold the lock in variable lock from action to action.        *)
(*                                                                         *)
(* Data: a file is a set of byte positions.  Write number w writes byte w, *)
(* so a content says which writes are in it and the length of a file is    *)
(* its last byte.  Handles are open from the start and released once; the  *)
(* namespace and the tape itself are in TapeStore.                         *)
(***************************************************************************)
EXTENDS Naturals, FiniteSets

CONSTANTS
  Paths,
  Handles,
  PathOf,       \* the path each handle was opened with
  Clients,      \* goroutines that serve FUSE requests
  Flushers,     \* goroutines that serve the flushfiles command
  Shared,       \* handles whose descriptor several client threads use
  MaxByte,      \* bytes are numbered 1 .. MaxByte
  AppendFails,  \* whether AppendFileData may fail
  None

ASSUME HandleAssumption ==
  /\ PathOf \in [Handles -> Paths]
  /\ Shared \subseteq Handles
  /\ Clients \cap Flushers = {}
  /\ MaxByte \in Nat \ {0}
  /\ AppendFails \in BOOLEAN

Threads == Clients \cup Flushers
BytePositions == 1 .. MaxByte
Contents == SUBSET BytePositions

\* The bytes buffered or stored end at the last one.
LengthOf(c) == IF c = {} THEN 0 ELSE CHOOSE n \in c : \A m \in c : m <= n

Locks == Handles \cup {"fs", "handles"}

Entries == [length : 0 .. MaxByte, data : Contents]
IndexFiles == [Paths -> Entries]

ASSUME NoneAssumption ==
  /\ None \notin Threads \cup Handles
  /\ \A c \in Contents : c # None
  /\ \A f \in IndexFiles : f # None
  /\ {"fs", "handles"} \cap Handles = {}

VARIABLES
  index,    \* the cached index with the data its extents hold
  wbuf,     \* h.wbuf, None for nil
  dirty,    \* h.dirty
  handles,  \* FS.handles
  lock,     \* who holds each lock
  opened,   \* the handles the kernel has not released
  acked,    \* the writes answered with success, by handle
  th        \* each goroutine: where it is and its locals

vars == <<index, wbuf, dirty, handles, lock, opened, acked, th>>

\* Locals: handle, byte to write, buffer taken or content read, loaded index,
\* and what flushfiles has still to do; base is what was acknowledged on the
\* handle when a read began.
Idle == [pc |-> "idle", h |-> None, byte |-> 0, buf |-> {}, idx |-> None,
         todo |-> {}, base |-> {}]

WritePCs == {"check", "preload", "install", "register", "apply", "grow", "growsave"}
FlushPCs == {"take", "lockfs", "append", "save", "remove", "unlock", "restore", "restored"}
ReadPCs == {"readbuf", "readtape", "reply"}

ThreadStates ==
  [pc : {"idle", "next", "panicked"} \cup WritePCs \cup FlushPCs \cup ReadPCs,
   h : Handles \cup {None}, byte : 0 .. MaxByte, buf : Contents,
   idx : IndexFiles \cup {None}, todo : SUBSET Handles, base : Contents]

TypeOK ==
  /\ index \in IndexFiles
  /\ wbuf \in [Handles -> Contents \cup {None}]
  /\ dirty \in [Handles -> BOOLEAN]
  /\ handles \subseteq Handles
  /\ lock \in [Locks -> Threads \cup {None}]
  /\ opened \subseteq Handles
  /\ acked \in [Handles -> Contents]
  /\ th \in [Threads -> ThreadStates]

Init ==
  /\ index = [p \in Paths |-> [length |-> 0, data |-> {}]]
  /\ wbuf = [h \in Handles |-> None]
  /\ dirty = [h \in Handles |-> FALSE]
  /\ handles = {}
  /\ lock = [l \in Locks |-> None]
  /\ opened = Handles
  /\ acked = [h \in Handles |-> {}]
  /\ th = [t \in Threads |-> Idle]

-----------------------------------------------------------------------------
Free(l) == lock[l] = None
Take(l, t) == Free(l) /\ lock' = [lock EXCEPT ![l] = t]
Drop(ls) == lock' = [l \in Locks |-> IF l \in ls THEN None ELSE lock[l]]

At(t, pc) == th[t].pc = pc
Goto(t, pc) == th' = [th EXCEPT ![t].pc = pc]
Return(t) == th' = [th EXCEPT ![t] = Idle]

PathAt(t) == PathOf[th[t].h]

\* A flushfiles goroutine goes on to its next handle.
FlushReturn(t) ==
  IF t \in Flushers THEN th' = [th EXCEPT ![t] = [Idle EXCEPT !.pc = "next", !.todo = th[t].todo]]
                    ELSE Return(t)

-----------------------------------------------------------------------------
(***************************************************************************)
(* What the kernel lets through: no request after the release, one at a    *)
(* time on a descriptor that is not shared, and one write at a time on an  *)
(* inode.  Releasing a handle waits for its requests to end.               *)
(***************************************************************************)
Serving(h) == \E t \in Clients : th[t].h = h /\ ~At(t, "panicked")

Accepts(t, h) == At(t, "idle") /\ h \in opened /\ (h \in Shared \/ ~Serving(h))

WritingOn(p) == \E t \in Clients : th[t].pc \in WritePCs /\ PathAt(t) = p

StartWrite(t, h, w) ==
  /\ Accepts(t, h)
  /\ ~WritingOn(PathOf[h])
  /\ \A g \in Handles : PathOf[g] = PathOf[h] => w \notin acked[g]
  /\ th' = [th EXCEPT ![t] = [Idle EXCEPT !.pc = "check", !.h = h, !.byte = w]]
  /\ UNCHANGED <<index, wbuf, dirty, handles, lock, opened, acked>>

StartRead(t, h) ==
  /\ Accepts(t, h)
  /\ th' = [th EXCEPT ![t] = [Idle EXCEPT !.pc = "readbuf", !.h = h, !.base = acked[h]]]
  /\ UNCHANGED <<index, wbuf, dirty, handles, lock, opened, acked>>

StartFlush(t, h) ==
  /\ Accepts(t, h)
  /\ th' = [th EXCEPT ![t] = [Idle EXCEPT !.pc = "take", !.h = h]]
  /\ UNCHANGED <<index, wbuf, dirty, handles, lock, opened, acked>>

StartRelease(t, h) ==
  /\ At(t, "idle") /\ h \in opened /\ ~Serving(h)
  /\ opened' = opened \ {h}
  /\ th' = [th EXCEPT ![t] = [Idle EXCEPT !.pc = "take", !.h = h]]
  /\ UNCHANGED <<index, wbuf, dirty, handles, lock, acked>>

-----------------------------------------------------------------------------
(***************************************************************************)
(* FileHandle.Write.                                                       *)
(***************************************************************************)
\* needsInit is read under h.mu, which is then let go.
WriteCheck(t) ==
  /\ At(t, "check") /\ Free(th[t].h)
  /\ Goto(t, IF wbuf[th[t].h] = None THEN "preload" ELSE "apply")
  /\ UNCHANGED <<index, wbuf, dirty, handles, lock, opened, acked>>

\* Under RLock: what the file holds now.
WritePreload(t) ==
  /\ At(t, "preload") /\ Free("fs")
  /\ th' = [th EXCEPT ![t].pc = "install", ![t].buf = index[PathAt(t)].data]
  /\ UNCHANGED <<index, wbuf, dirty, handles, lock, opened, acked>>

\* Under h.mu again, which is still held when addHandle takes handlesMu.
WriteInstall(t) ==
  /\ At(t, "install")
  /\ \/ /\ wbuf[th[t].h] = None
        /\ Take(th[t].h, t)
        /\ wbuf' = [wbuf EXCEPT ![th[t].h] = th[t].buf]
        /\ Goto(t, "register")
     \/ /\ wbuf[th[t].h] # None
        /\ Free(th[t].h)
        /\ Goto(t, "apply")
        /\ UNCHANGED <<wbuf, lock>>
  /\ UNCHANGED <<index, dirty, handles, opened, acked>>

\* Slip: the handle is not registered.
SlipNotRegistered(t) ==
  /\ At(t, "register") /\ Free("handles")
  /\ Drop({th[t].h})
  /\ Goto(t, "apply")
  /\ UNCHANGED <<index, wbuf, dirty, handles, opened, acked>>

WriteRegister(t) ==
  /\ At(t, "register") /\ Free("handles")
  /\ handles' = handles \cup {th[t].h}
  /\ Drop({th[t].h})
  /\ Goto(t, "apply")
  /\ UNCHANGED <<index, wbuf, dirty, opened, acked>>

\* Slip: h.mu is kept for the rest of the write.
SlipKeepsMu(t) ==
  /\ At(t, "apply") /\ wbuf[th[t].h] # None
  /\ Take(th[t].h, t)
  /\ wbuf' = [wbuf EXCEPT ![th[t].h] = @ \cup {th[t].byte}]
  /\ dirty' = [dirty EXCEPT ![th[t].h] = TRUE]
  /\ Goto(t, "grow")
  /\ UNCHANGED <<index, handles, opened, acked>>

\* A buffer taken meanwhile is a nil pointer: the goroutine panics holding h.mu.
\* The FUSE library recovers and answers with an error; nobody unlocks h.mu.
WriteApply(t) ==
  /\ At(t, "apply")
  /\ IF wbuf[th[t].h] = None
     THEN /\ Take(th[t].h, t)
          /\ Goto(t, "panicked")
          /\ UNCHANGED <<wbuf, dirty>>
     ELSE /\ Free(th[t].h)
          /\ wbuf' = [wbuf EXCEPT ![th[t].h] = @ \cup {th[t].byte}]
          /\ dirty' = [dirty EXCEPT ![th[t].h] = TRUE]
          /\ Goto(t, "grow")
          /\ UNCHANGED lock
  /\ UNCHANGED <<index, handles, opened, acked>>

\* Slip: the index is loaded and saved under the read lock only.
SlipReadLock(t) ==
  /\ At(t, "grow") /\ Free("fs")
  /\ th' = [th EXCEPT ![t].pc = "growsave", ![t].idx = index]
  /\ UNCHANGED <<index, wbuf, dirty, handles, lock, opened, acked>>

WriteGrow(t) ==
  /\ At(t, "grow") /\ Take("fs", t)
  /\ th' = [th EXCEPT ![t].pc = "growsave", ![t].idx = index]
  /\ UNCHANGED <<index, wbuf, dirty, handles, opened, acked>>

\* Slip: the length grows by the offset written.
SlipAddsLength(t) ==
  /\ At(t, "growsave")
  /\ index' = [th[t].idx EXCEPT ![PathAt(t)].length = @ + th[t].byte]
  /\ Drop({"fs"})
  /\ acked' = [acked EXCEPT ![th[t].h] = @ \cup {th[t].byte}]
  /\ Return(t)
  /\ UNCHANGED <<wbuf, dirty, handles, opened>>

\* The length only grows; then the write is answered.
WriteGrowSave(t) ==
  /\ At(t, "growsave")
  /\ index' = IF th[t].byte > th[t].idx[PathAt(t)].length
              THEN [th[t].idx EXCEPT ![PathAt(t)].length = th[t].byte]
              ELSE index
  /\ Drop({"fs"})
  /\ acked' = [acked EXCEPT ![th[t].h] = @ \cup {th[t].byte}]
  /\ Return(t)
  /\ UNCHANGED <<wbuf, dirty, handles, opened>>

-----------------------------------------------------------------------------
(***************************************************************************)
(* flushBuffer.                                                            *)
(***************************************************************************)
FlushTake(t) ==
  /\ At(t, "take") /\ Free(th[t].h)
  /\ IF ~dirty[th[t].h] \/ wbuf[th[t].h] = None
     THEN FlushReturn(t) /\ UNCHANGED <<wbuf, dirty>>
     ELSE /\ th' = [th EXCEPT ![t].pc = "lockfs", ![t].buf = wbuf[th[t].h]]
          /\ wbuf' = [wbuf EXCEPT ![th[t].h] = None]
          /\ dirty' = [dirty EXCEPT ![th[t].h] = FALSE]
  /\ UNCHANGED <<index, handles, lock, opened, acked>>

FlushLock(t) ==
  /\ At(t, "lockfs") /\ Take("fs", t)
  /\ th' = [th EXCEPT ![t].pc = "append", ![t].idx = index]
  /\ UNCHANGED <<index, wbuf, dirty, handles, opened, acked>>

FlushAppend(t) ==
  /\ At(t, "append")
  /\ \/ th' = [th EXCEPT ![t].pc = "save",
                         ![t].idx[PathAt(t)] =
                           [length |-> LengthOf(th[t].buf), data |-> th[t].buf]]
     \/ AppendFails /\ Goto(t, "restore")
  /\ UNCHANGED <<index, wbuf, dirty, handles, lock, opened, acked>>

FlushSave(t) ==
  /\ At(t, "save")
  /\ index' = th[t].idx
  /\ Goto(t, "remove")
  /\ UNCHANGED <<wbuf, dirty, handles, lock, opened, acked>>

\* removeHandle takes handlesMu while the deferred unlock of fs.mu is pending.
FlushRemove(t) ==
  /\ At(t, "remove") /\ Take("handles", t)
  /\ handles' = handles \ {th[t].h}
  /\ Goto(t, "unlock")
  /\ UNCHANGED <<index, wbuf, dirty, opened, acked>>

FlushUnlock(t) ==
  /\ At(t, "unlock")
  /\ Drop({"handles", "fs"})
  /\ FlushReturn(t)
  /\ UNCHANGED <<index, wbuf, dirty, handles, opened, acked>>

\* restoreWBuf takes h.mu while fs.mu is held.
FlushRestore(t) ==
  /\ At(t, "restore") /\ Take(th[t].h, t)
  /\ Goto(t, "restored")
  /\ UNCHANGED <<index, wbuf, dirty, handles, opened, acked>>

\* Slip: the buffer is always dropped.
SlipAlwaysDrops(t) ==
  /\ At(t, "restored")
  /\ Drop({th[t].h, "fs"})
  /\ FlushReturn(t)
  /\ UNCHANGED <<index, wbuf, dirty, handles, opened, acked>>

\* Slip: the return after a failed append forgets fs.mu.
SlipKeepsFS(t) ==
  /\ At(t, "restored")
  /\ IF dirty[th[t].h] THEN UNCHANGED <<wbuf, dirty>>
     ELSE /\ wbuf' = [wbuf EXCEPT ![th[t].h] = th[t].buf]
          /\ dirty' = [dirty EXCEPT ![th[t].h] = TRUE]
  /\ Drop({th[t].h})
  /\ FlushReturn(t)
  /\ UNCHANGED <<index, handles, opened, acked>>

\* The buffer is dropped if a new one is dirty already.
FlushRestored(t) ==
  /\ At(t, "restored")
  /\ IF dirty[th[t].h] THEN UNCHANGED <<wbuf, dirty>>
     ELSE /\ wbuf' = [wbuf EXCEPT ![th[t].h] = th[t].buf]
          /\ dirty' = [dirty EXCEPT ![th[t].h] = TRUE]
  /\ Drop({th[t].h, "fs"})
  /\ FlushReturn(t)
  /\ UNCHANGED <<index, handles, opened, acked>>

-----------------------------------------------------------------------------
(***************************************************************************)
(* FileHandle.Read.                                                        *)
(***************************************************************************)
\* Slip: reads do not look at the buffer.
SlipReadsTape(t) ==
  /\ At(t, "readbuf") /\ Free(th[t].h)
  /\ Goto(t, "readtape")
  /\ UNCHANGED <<index, wbuf, dirty, handles, lock, opened, acked>>

ReadBuffer(t) ==
  /\ At(t, "readbuf") /\ Free(th[t].h)
  /\ IF dirty[th[t].h] /\ wbuf[th[t].h] # None
     THEN th' = [th EXCEPT ![t].pc = "reply", ![t].buf = wbuf[th[t].h]]
     ELSE Goto(t, "readtape")
  /\ UNCHANGED <<index, wbuf, dirty, handles, lock, opened, acked>>

ReadTape(t) ==
  /\ At(t, "readtape") /\ Free("fs")
  /\ th' = [th EXCEPT ![t].pc = "reply", ![t].buf = index[PathAt(t)].data]
  /\ UNCHANGED <<index, wbuf, dirty, handles, lock, opened, acked>>

ReadReply(t) ==
  /\ At(t, "reply")
  /\ Return(t)
  /\ UNCHANGED <<index, wbuf, dirty, handles, lock, opened, acked>>

-----------------------------------------------------------------------------
(***************************************************************************)
(* FlushAllHandles: a snapshot of FS.handles, then one handle after the    *)
(* other, in any order, whatever each returns.                             *)
(***************************************************************************)
FlushFiles(t) ==
  /\ At(t, "idle") /\ Free("handles")
  /\ th' = [th EXCEPT ![t] = [Idle EXCEPT !.pc = "next", !.todo = handles]]
  /\ UNCHANGED <<index, wbuf, dirty, handles, lock, opened, acked>>

FlushNext(t) ==
  /\ At(t, "next")
  /\ \/ \E h \in th[t].todo :
          th' = [th EXCEPT ![t].pc = "take", ![t].h = h, ![t].todo = @ \ {h}]
     \/ th[t].todo = {} /\ Return(t)
  /\ UNCHANGED <<index, wbuf, dirty, handles, lock, opened, acked>>

-----------------------------------------------------------------------------
Start(t) ==
  \/ /\ t \in Clients
     /\ \E h \in Handles :
          \/ \E w \in BytePositions : StartWrite(t, h, w)
          \/ StartRead(t, h) \/ StartFlush(t, h) \/ StartRelease(t, h)
  \/ t \in Flushers /\ FlushFiles(t)

\* The steps that wait for fs.mu to write.
LockFS(t) == WriteGrow(t) \/ FlushLock(t)

Step(t) ==
  \/ WriteCheck(t) \/ WritePreload(t) \/ WriteInstall(t) \/ WriteRegister(t)
  \/ WriteApply(t) \/ WriteGrowSave(t)
  \/ FlushTake(t) \/ FlushAppend(t) \/ FlushSave(t) \/ FlushRemove(t)
  \/ FlushUnlock(t) \/ FlushRestore(t) \/ FlushRestored(t)
  \/ ReadBuffer(t) \/ ReadTape(t) \/ ReadReply(t)
  \/ FlushNext(t)
  \/ LockFS(t)

Next == \E t \in Threads : Start(t) \/ Step(t)

Spec == Init /\ [][Next]_vars

(***************************************************************************)
(* Go schedules every runnable goroutine, and its mutexes hand themselves  *)
(* to a goroutine that has waited long enough (starvation mode; a waiting  *)
(* writer of an RWMutex shuts out new readers): a goroutine that finds its *)
(* lock free again and again gets it.  Nobody has to send a request.       *)
(***************************************************************************)
Fairness == \A t \in Threads : SF_vars(Step(t))

FairSpec == Spec /\ Fairness

-----------------------------------------------------------------------------
(***************************************************************************)
(* Properties.                                                             *)
(***************************************************************************)
Flushing(t) == th[t].pc \in {"lockfs", "append", "save", "restore", "restored"}

\* Every acknowledged write is on tape, in the handle's buffer, or in the hands
\* of a goroutine that is flushing that buffer: nothing a client was told is
\* written ever disappears between the three.
NoLostWrite ==
  \A h \in Handles :
    acked[h] \subseteq
      index[PathOf[h]].data
      \cup (IF dirty[h] THEN wbuf[h] ELSE {})
      \cup UNION {IF Flushing(t) /\ th[t].h = h THEN th[t].buf ELSE {} : t \in Threads}

\* A read returns every write acknowledged on its handle before it began,
\* buffered or flushed.
ReadYourWrites == \A t \in Threads : At(t, "reply") => th[t].base \subseteq th[t].buf

\* A handle with pending data is in FS.handles, where flushfiles looks.
DirtyRegistered == \A h \in Handles : dirty[h] => h \in handles

\* Loads and saves of the index do not overtake each other: a save changes the
\* entry of its own file and brings back no older entry of another one.
IndexUpdatesKept ==
  [][\A p \in Paths : index'[p] # index[p] =>
       \E t \in Threads : th[t].pc \in {"growsave", "save"} /\ PathAt(t) = p]_vars

\* The lock a goroutine needs for its next step.
Wants(t) ==
  IF th[t].pc \in {"check", "install", "apply", "take", "restore", "readbuf"} THEN th[t].h
  ELSE IF th[t].pc \in {"preload", "grow", "lockfs", "readtape"} THEN "fs"
  ELSE IF th[t].pc \in {"register", "remove"} THEN "handles"
  ELSE None

BlockedBy(t) == IF Wants(t) = None THEN None ELSE lock[Wants(t)]

\* The goroutines never wait for each other in a circle, in whatever order the
\* three kinds of lock are nested.
NoCircularWait ==
  \A S \in (SUBSET Threads) \ {{}} : \E t \in S : BlockedBy(t) \notin S

\* Every request is answered and every flushfiles command ends.
RequestsEnd == \A t \in Threads : ~At(t, "idle") ~> At(t, "idle")

=============================================================================
