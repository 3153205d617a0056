---------------------------- MODULE DaemonProofs ----------------------------
(***************************************************************************)
(* Theorems about the daemon, for any number of connections, requests and  *)
(* mounts: its types, and what its users are promised while commands,      *)
(* requests and savers of the cache file overlap.                          *)
(***************************************************************************)
EXTENDS Daemon, TLAPS

-----------------------------------------------------------------------------
(***************************************************************************)
(* Steps of one process.                                                   *)
(***************************************************************************)
\* p goes on to label l with index i; no other process moves.
Moves(p, l, i) ==
  /\ th' \in [Procs -> Threads]
  /\ \A q \in Procs \ {p} : th'[q] = th[q]
  /\ th'[p].pc = l
  /\ l # "idle" => th'[p].cmd = th[p].cmd /\ th'[p].at = th[p].at /\ th'[p].idx = i

\* Goto keeps the command, the FS and the index of a process that goes on.
LEMMA GotoMoves ==
  ASSUME th \in [Procs -> Threads], NEW p \in Procs, NEW l \in Labels, Goto(p, l)
  PROVE  Moves(p, l, th[p].idx)
<1>1. th[p] \in Threads /\ Idle \in Threads
  BY DEF Threads, Idle, Labels, Indexes
<1>2. CASE l = "idle"
  <2>1. th' = [th EXCEPT ![p] = Idle]
    BY <1>2 DEF Goto
  <2>. QED  BY <1>1, <1>2, <2>1 DEF Moves, Idle
<1>3. CASE l # "idle"
  <2>1. th' = [th EXCEPT ![p] = [th[p] EXCEPT !.pc = l]]
    BY <1>3 DEF Goto
  <2>2. [th[p] EXCEPT !.pc = l] \in Threads
    BY <1>1 DEF Threads
  <2>. QED  BY <1>1, <1>3, <2>1, <2>2 DEF Moves, Threads
<1>. QED  BY <1>2, <1>3

\* GoOn sets the index of a process as well.
LEMMA GoOnMoves ==
  ASSUME th \in [Procs -> Threads], NEW p \in Procs, NEW l \in Labels,
         NEW i \in Indexes, GoOn(p, l, i)
  PROVE  Moves(p, l, i)
<1>1. th[p] \in Threads
  OBVIOUS
<1>2. th' = [th EXCEPT ![p] = [[th[p] EXCEPT !.pc = l] EXCEPT !.idx = i]]
  BY DEF GoOn
<1>3. [[th[p] EXCEPT !.pc = l] EXCEPT !.idx = i] \in Threads
  BY <1>1 DEF Threads
<1>. QED  BY <1>1, <1>2, <1>3 DEF Moves, Threads

\* What each step of a process does to it.
LEMMA SaverMoves ==
  ASSUME TypeOK, NEW p \in Procs
  PROVE  /\ OpenTmp(p) => Moves(p, "write", th[p].idx)
         /\ WriteTmp(p) => Moves(p, "rename", th[p].idx)
         /\ Truncate(p) => \E l \in {"idle", "put"} : Moves(p, l, th[p].idx)
         /\ PutIndex(p) => Moves(p, "mark", th[p].idx)
         /\ PutMarks(p) => Moves(p, "open", th[p].idx)
         /\ (OpenFails(p) \/ WriteFails(p)) => Moves(p, "idle", th[p].idx)
<1>1. th \in [Procs -> Threads]
  BY DEF TypeOK
<1>2. {"idle", "put", "mark", "open", "write", "rename"} \subseteq Labels
  BY DEF Labels, Saving
<1>. QED
  BY <1>1, <1>2, GotoMoves
  DEF OpenTmp, WriteTmp, Truncate, PutIndex, PutMarks, OpenFails, WriteFails, GiveUp

LEMMA RequestMoves ==
  ASSUME TypeOK, NEW r \in Requests
  PROVE  /\ Begin(r) => \/ Moves(r, "idle", th[r].idx)
                        \/ Readable(cache) /\ Moves(r, "truncate", cache)
                        \/ Readable(cache) /\ Moves(r, "append", cache \cup {r})
         /\ AppendData(r) => \E l \in {"idle", "open"} : Moves(r, l, th[r].idx)
         /\ RequestRename(r) => Moves(r, "idle", th[r].idx)
<1>1. th \in [Procs -> Threads] /\ r \in Procs
  BY DEF TypeOK, Procs
<1>2. {"idle", "truncate", "append", "open"} \subseteq Labels
  BY DEF Labels, Saving
<1>3. Readable(cache) => cache \in Indexes /\ cache \cup {r} \in Indexes
  BY DEF Readable, TypeOK, FileContents, Indexes
<1>4. Begin(r) => \/ Moves(r, "idle", th[r].idx)
                  \/ Readable(cache) /\ Moves(r, "truncate", cache)
                  \/ Readable(cache) /\ Moves(r, "append", cache \cup {r})
  BY <1>1, <1>2, <1>3, GotoMoves, GoOnMoves DEF Begin
<1>. QED  BY <1>1, <1>2, <1>4, GotoMoves DEF AppendData, RequestRename

LEMMA CommandMoves ==
  ASSUME TypeOK, NEW c \in Clients
  PROVE  /\ (Close(c) \/ Discard(c) \/ Mount(c) \/ Eject(c) \/ CommandRename(c))
              => Moves(c, "idle", th[c].idx)
         /\ CmdInit(c) => \/ Moves(c, "idle", th[c].idx)
                          \/ NotMounted /\ Moves(c, "open", {})
         /\ Load(c) => \/ Moves(c, "idle", th[c].idx)
                       \/ Readable(tape) /\ Moves(c, "open", tape)
         /\ Commit(c) => \/ Moves(c, "idle", th[c].idx)
                         \/ Readable(cache) /\ Moves(c, "truncate", cache)
         /\ Defrag(c) => \/ Moves(c, "idle", th[c].idx)
                         \/ NotMounted /\ Readable(cache) /\ Moves(c, "open", cache)
         /\ Drained(c) => Moves(c, IF th[c].cmd = "eject" THEN "relock" ELSE "idle", th[c].idx)
<1>1. th \in [Procs -> Threads] /\ c \in Procs
  BY DEF TypeOK, Procs
<1>2. {"idle", "truncate", "relock", "open"} \subseteq Labels
  BY DEF Labels, Saving
<1>3. /\ {} \in Indexes /\ (Readable(cache) => cache \in Indexes)
      /\ Readable(tape) => tape \in Indexes
  BY DEF Readable, TypeOK, FileContents, NoIndex, Indexes
<1>4. (Close(c) \/ Discard(c) \/ Mount(c) \/ Eject(c) \/ CommandRename(c)) => Goto(c, "idle")
  BY DEF Close, Discard, Mount, Eject, CommandRename, Answer
<1>5. /\ CmdInit(c) => Goto(c, "idle") \/ (NotMounted /\ GoOn(c, "open", {}))
      /\ Load(c) => Goto(c, "idle") \/ (Readable(tape) /\ GoOn(c, "open", tape))
      /\ Commit(c) => Goto(c, "idle") \/ (Readable(cache) /\ GoOn(c, "truncate", cache))
      /\ Defrag(c) => Goto(c, "idle") \/ (NotMounted /\ Readable(cache) /\ GoOn(c, "open", cache))
  BY DEF CmdInit, Load, Commit, Defrag, Answer, Hold
<1>6. Drained(c) => Goto(c, IF th[c].cmd = "eject" THEN "relock" ELSE "idle")
  BY DEF Drained
<1>. QED  BY <1>1, <1>2, <1>3, <1>4, <1>5, <1>6, GotoMoves, GoOnMoves

\* p is given command k and FS a.
Enters(p, l, k, a) ==
  /\ th' \in [Procs -> Threads]
  /\ \A q \in Procs \ {p} : th'[q] = th[q]
  /\ th'[p].pc = l /\ th'[p].cmd = k /\ th'[p].at = a

LEMMA ArriveEnters ==
  ASSUME TypeOK, NEW r \in Requests, NEW m \in Mounts, NEW k \in {"update", "flush"},
         Arrive(r, m, k)
  PROVE  Enters(r, "queued", k, m)
<1> DEFINE t == [pc |-> "queued", cmd |-> k, at |-> m, idx |-> {}]
<1>1. t \in Threads /\ th \in [Procs -> Threads] /\ r \in Procs
  BY DEF TypeOK, Threads, Labels, Indexes, Procs
<1>2. th' = [th EXCEPT ![r] = t]
  BY DEF Arrive
<1>. QED  BY <1>1, <1>2 DEF Enters

LEMMA IssueEnters ==
  ASSUME TypeOK, NEW c \in Clients, NEW k \in Commands, Issue(c, k)
  PROVE  Enters(c, "lock", k, None)
<1> DEFINE t == [[th[c] EXCEPT !.pc = "lock"] EXCEPT !.cmd = k]
<1>1. th[c] = Idle /\ th[c] \in Threads /\ th \in [Procs -> Threads] /\ c \in Procs
  BY DEF TypeOK, Procs, Issue
<1>2. th' = [th EXCEPT ![c] = t]
  BY DEF Issue
<1>3. th[c].at = None
  BY <1>1 DEF Idle
<1>4. t \in Threads /\ t.pc = "lock" /\ t.cmd = k /\ t.at = None
  BY <1>1, <1>3 DEF Threads, Labels
<1>. QED  BY <1>1, <1>2, <1>4 DEF Enters

LEMMA UnmountEnters ==
  ASSUME TypeOK, NEW c \in Clients, Unmount(c)
  PROVE  \/ Moves(c, "idle", th[c].idx) /\ UNCHANGED <<entry, fs>>
         \/ /\ entry.mount # None
            /\ Enters(c, "drain", th[c].cmd, IF entry.waits THEN entry.mount ELSE None)
            /\ fs' = [fs EXCEPT ![entry.mount] = [fs[entry.mount] EXCEPT !.state = "draining"]]
            /\ entry' = [[entry EXCEPT !.mount = None] EXCEPT !.waits = FALSE]
<1>1. th \in [Procs -> Threads] /\ c \in Procs /\ "idle" \in Labels /\ "drain" \in Labels
  BY DEF TypeOK, Procs, Labels
<1>2. CASE Answer(c) /\ UNCHANGED <<entry, fs>>
  BY <1>1, <1>2, GotoMoves DEF Answer
<1>3. CASE entry.mount # None /\ ~(Answer(c) /\ UNCHANGED <<entry, fs>>)
  <2> DEFINE a == IF entry.waits THEN entry.mount ELSE None
             t == [[th[c] EXCEPT !.pc = "drain"] EXCEPT !.at = a]
  <2>1. a \in Mounts \cup {None}
    BY DEF TypeOK
  <2>2. th[c] \in Threads
    BY <1>1
  <2>3. th' = [th EXCEPT ![c] = t]
    BY <1>3 DEF Unmount
  <2>4. t \in Threads /\ t.pc = "drain" /\ t.cmd = th[c].cmd /\ t.at = a
    BY <1>1, <2>1, <2>2 DEF Threads
  <2>5. Enters(c, "drain", th[c].cmd, a)
    BY <1>1, <2>3, <2>4 DEF Enters
  <2>. QED  BY <1>3, <2>5 DEF Unmount
<1>. QED  BY <1>2, <1>3 DEF Unmount

-----------------------------------------------------------------------------
(***************************************************************************)
(* Types.                                                                  *)
(***************************************************************************)
\* All of TypeOK but what it says about the holder of d.mu.
FileTypes ==
  cache \in FileContents /\ tmp \in FileContents /\ tape \in Indexes \cup {None, NoIndex}
EntryTypes ==
  /\ entry \in [loaded : BOOLEAN, mount : Mounts \cup {None}, waits : BOOLEAN]
  /\ fs \in [Mounts -> [state : {"up", "draining", "done"}, live : BOOLEAN]]
ThreadTypes == th \in [Procs -> Threads] /\ fd \in [Procs -> {"tmp", "cache", "gone", None}]
GhostTypes == crossed \in BOOLEAN /\ disturbed \in BOOLEAN /\ saved \in Indexes
HolderSaves == dmu \in Clients \cup {None} /\ (dmu # None => th[dmu].pc \in Saving)

\* A step of a process that does not hold d.mu, or goes on saving, leaves the holder.
LEMMA HolderStays ==
  ASSUME TypeOK, UNCHANGED dmu, NEW p \in Procs, \A q \in Procs \ {p} : th'[q] = th[q],
         th[p].pc \notin Saving \/ th'[p].pc \in Saving \/ p \in Requests
  PROVE  HolderSaves'
BY ProcsAssumption DEF TypeOK, HolderSaves, Procs

\* Whatever a rename does to the files.
LEMMA RenamedTypes ==
  ASSUME TypeOK, NEW p \in Procs, Renamed(p)
  PROVE  /\ cache' \in FileContents /\ tmp' \in FileContents
         /\ fd' \in [Procs -> {"tmp", "cache", "gone", None}]
<1>1. cache' \in FileContents /\ tmp' \in FileContents
  BY DEF Renamed, TypeOK, FileContents
<1>2. fd' \in [Procs -> {"tmp", "cache", "gone", None}]
  BY DEF Renamed, TypeOK
<1>. QED  BY <1>1, <1>2

\* closeEntry leaves an entry and FSs, whatever they were.
LEMMA ClosedTypes ==
  ASSUME EntryTypes
  PROVE  /\ ClosedEntry(entry) \in [loaded : BOOLEAN, mount : Mounts \cup {None}, waits : BOOLEAN]
         /\ [ClosedEntry(entry) EXCEPT !.loaded = TRUE]
              \in [loaded : BOOLEAN, mount : Mounts \cup {None}, waits : BOOLEAN]
         /\ ClosedFS \in [Mounts -> [state : {"up", "draining", "done"}, live : BOOLEAN]]
         /\ ClosedEntry(entry).mount = entry.mount
         /\ [ClosedEntry(entry) EXCEPT !.loaded = TRUE].mount = entry.mount
         /\ \A m \in Mounts : ClosedFS[m].state = fs[m].state
BY DEF EntryTypes, ClosedEntry, ClosedFS

LEMMA TypeInit ==
  ASSUME Init
  PROVE  TypeOK
<1>1. FileTypes
  BY DEF Init, FileTypes, FileContents
<1>2. EntryTypes
  BY DEF Init, EntryTypes, Served
<1>3. Idle \in Threads
  BY DEF Idle, Threads, Labels, Indexes
<1>4. ThreadTypes
  BY <1>3 DEF Init, ThreadTypes
<1>5. GhostTypes
  BY DEF Init, GhostTypes, Indexes
<1>6. HolderSaves
  BY DEF Init, HolderSaves
<1>. QED
  BY <1>1, <1>2, <1>4, <1>5, <1>6
  DEF TypeOK, FileTypes, EntryTypes, ThreadTypes, GhostTypes, HolderSaves

LEMMA TypeSaver ==
  ASSUME TypeOK, NEW p \in Procs, Save(p)
  PROVE  TypeOK'
<1>1. th[p].idx \in Indexes
  BY DEF TypeOK, Threads
<1>2. FileTypes'
  BY <1>1
  DEF TypeOK, FileTypes, FileContents, Save, OpenTmp, WriteTmp, Truncate, PutIndex, PutMarks,
      OpenFails, WriteFails, files
<1>3. EntryTypes' /\ GhostTypes'
  BY DEF TypeOK, EntryTypes, GhostTypes, ghosts, Save, OpenTmp, WriteTmp, Truncate, PutIndex,
         PutMarks, OpenFails, WriteFails
<1>4. ThreadTypes'
  <2>1. th' \in [Procs -> Threads]
    BY SaverMoves DEF Moves, Save
  <2>2. fd' \in [Procs -> {"tmp", "cache", "gone", None}]
    BY DEF TypeOK, Save, OpenTmp, WriteTmp, Truncate, PutIndex, PutMarks, OpenFails, WriteFails, files
  <2>. QED  BY <2>1, <2>2 DEF ThreadTypes
<1>5. HolderSaves'
  <2>1. \A q \in Procs \ {p} : th'[q] = th[q]
    BY SaverMoves DEF Moves, Save
  <2>2. CASE OpenFails(p) \/ WriteFails(p)
    <3>1. dmu' = IF dmu = p THEN None ELSE dmu
      BY <2>2 DEF OpenFails, WriteFails, GiveUp
    <3>2. dmu' \in Clients \cup {None} /\ (dmu' # None => dmu' = dmu /\ dmu' \in Procs \ {p})
      BY <3>1 DEF TypeOK, Procs
    <3>. QED  BY <2>1, <3>2 DEF TypeOK, HolderSaves
  <2>3. CASE ~OpenFails(p) /\ ~WriteFails(p)
    <3>1. UNCHANGED dmu
      BY <2>3 DEF Save, OpenTmp, WriteTmp, Truncate, PutIndex, PutMarks
    <3>2. th'[p].pc \in Saving \/ p \in Requests
      <4>1. Truncate(p) => p \in Requests \/ Goto(p, "put")
        BY DEF Truncate
      <4>2. Goto(p, "put") => Moves(p, "put", th[p].idx)
        BY GotoMoves DEF TypeOK, Labels, Saving
      <4>. QED  BY <2>3, <4>1, <4>2, SaverMoves DEF Moves, Save, Saving
    <3>. QED  BY <2>1, <3>1, <3>2, HolderStays
  <2>. QED  BY <2>2, <2>3
<1>. QED
  BY <1>2, <1>3, <1>4, <1>5
  DEF TypeOK, FileTypes, EntryTypes, ThreadTypes, GhostTypes, HolderSaves

LEMMA TypeRequest ==
  ASSUME TypeOK, NEW r \in Requests,
         \/ Begin(r) \/ AppendData(r) \/ RequestRename(r)
         \/ \E m \in Mounts, k \in {"update", "flush"} : Arrive(r, m, k)
  PROVE  TypeOK'
<1>1. r \in Procs
  BY DEF Procs
<1>2. FileTypes'
  BY <1>1, RenamedTypes DEF TypeOK, FileTypes, Begin, AppendData, RequestRename, Arrive, files
<1>3. EntryTypes'
  BY DEF TypeOK, EntryTypes, Begin, AppendData, RequestRename, Arrive
<1>4. GhostTypes'
  BY DEF TypeOK, GhostTypes, ghosts, Indexes, Begin, AppendData, RequestRename, Arrive
<1>5. th' \in [Procs -> Threads] /\ \A q \in Procs \ {r} : th'[q] = th[q]
  BY RequestMoves, ArriveEnters DEF Moves, Enters
<1>6. ThreadTypes'
  BY <1>1, <1>5, RenamedTypes DEF TypeOK, ThreadTypes, Begin, AppendData, RequestRename, Arrive, files
<1>7. HolderSaves'
  <2>1. UNCHANGED dmu
    BY DEF Begin, AppendData, RequestRename, Arrive
  <2>. QED  BY <1>1, <1>5, <2>1, HolderStays
<1>. QED
  BY <1>2, <1>3, <1>4, <1>6, <1>7
  DEF TypeOK, FileTypes, EntryTypes, ThreadTypes, GhostTypes, HolderSaves

LEMMA TypeIdle ==
  ASSUME TypeOK, NEW c \in Clients,
         Close(c) \/ Discard(c) \/ Mount(c) \/ Eject(c) \/ CommandRename(c) \/ Drained(c)
  PROVE  TypeOK'
<1>1. c \in Procs /\ EntryTypes
  BY DEF Procs, TypeOK, EntryTypes
<1>2. FileTypes'
  BY <1>1, RenamedTypes
  DEF TypeOK, FileTypes, FileContents, Close, Discard, Mount, Eject, CommandRename, Drained, files
<1>3. EntryTypes'
  <2>1. CASE Close(c) \/ Discard(c) \/ Eject(c) \/ Drained(c)
    BY <1>1, <2>1, ClosedTypes DEF EntryTypes, Close, Discard, Eject, Drained
  <2>2. CASE Mount(c)
    <3>1. CASE UNCHANGED <<entry, fs>>
      BY <1>1, <3>1 DEF EntryTypes
    <3>2. CASE \E m \in Mounts :
                 /\ fs' = [fs EXCEPT ![m] = [state |-> "up", live |-> TRUE]]
                 /\ entry' = [[entry EXCEPT !.mount = m] EXCEPT !.waits = TRUE]
      <4>1. PICK m \in Mounts :
                 /\ fs' = [fs EXCEPT ![m] = [state |-> "up", live |-> TRUE]]
                 /\ entry' = [[entry EXCEPT !.mount = m] EXCEPT !.waits = TRUE]
        BY <3>2
      <4>2. [state |-> "up", live |-> TRUE] \in [state : {"up", "draining", "done"}, live : BOOLEAN]
        OBVIOUS
      <4>3. fs' \in [Mounts -> [state : {"up", "draining", "done"}, live : BOOLEAN]]
        BY <1>1, <4>1, <4>2 DEF EntryTypes
      <4>4. entry' \in [loaded : BOOLEAN, mount : Mounts \cup {None}, waits : BOOLEAN]
        BY <1>1, <4>1 DEF EntryTypes
      <4>. QED  BY <4>3, <4>4 DEF EntryTypes
    <3>. QED  BY <2>2, <3>1, <3>2 DEF Mount
  <2>3. CASE CommandRename(c)
    BY <1>1, <2>3 DEF EntryTypes, CommandRename
  <2>. QED  BY <2>1, <2>2, <2>3
<1>4. GhostTypes'
  BY DEF TypeOK, GhostTypes, ghosts, Indexes, Close, Discard, Mount, Eject, CommandRename, Drained
<1>5. th' \in [Procs -> Threads] /\ \A q \in Procs \ {c} : th'[q] = th[q]
  BY CommandMoves DEF Moves
<1>6. ThreadTypes'
  BY <1>1, <1>5, RenamedTypes
  DEF TypeOK, ThreadTypes, Close, Discard, Mount, Eject, CommandRename, Drained, files
<1>7. HolderSaves'
  <2>1. CASE CommandRename(c)
    BY <2>1 DEF CommandRename, Unlock, HolderSaves
  <2>2. CASE ~CommandRename(c)
    <3>1. UNCHANGED dmu
      BY <2>2 DEF Close, Discard, Mount, Eject, Drained
    <3>2. th[c].pc \notin Saving
      BY <2>2 DEF Close, Discard, Mount, Eject, Drained, Locked, Saving
    <3>. QED  BY <1>1, <1>5, <3>1, <3>2, HolderStays
  <2>. QED  BY <2>1, <2>2
<1>. QED
  BY <1>2, <1>3, <1>4, <1>6, <1>7
  DEF TypeOK, FileTypes, EntryTypes, ThreadTypes, GhostTypes, HolderSaves

LEMMA TypeHolding ==
  ASSUME TypeOK, NEW c \in Clients, CmdInit(c) \/ Load(c) \/ Commit(c) \/ Defrag(c)
  PROVE  TypeOK'
<1>1. c \in Procs /\ EntryTypes
  BY DEF Procs, TypeOK, EntryTypes
<1>2. FileTypes'
  BY DEF TypeOK, FileTypes, Indexes, CmdInit, Load, Commit, Defrag, files
<1>3. EntryTypes'
  BY <1>1, ClosedTypes DEF EntryTypes, CmdInit, Load, Commit, Defrag
<1>4. GhostTypes'
  BY DEF TypeOK, GhostTypes, ghosts, CmdInit, Load, Commit, Defrag
<1>5. th' \in [Procs -> Threads] /\ \A q \in Procs \ {c} : th'[q] = th[q]
  BY CommandMoves DEF Moves
<1>6. ThreadTypes'
  BY <1>5 DEF TypeOK, ThreadTypes, CmdInit, Load, Commit, Defrag, files
<1>7. HolderSaves'
  <2>1. CASE UNCHANGED dmu
    BY <1>1, <1>5, <2>1, HolderStays DEF CmdInit, Load, Commit, Defrag, Locked, Saving
  <2>2. CASE dmu' = c /\ \E l \in {"open", "truncate"}, i \in Indexes : GoOn(c, l, i)
    <3>1. PICK l \in {"open", "truncate"}, i \in Indexes : GoOn(c, l, i)
      BY <2>2
    <3>2. Moves(c, l, i)
      BY <1>1, <3>1, GoOnMoves DEF TypeOK, Labels, Saving
    <3>. QED  BY <2>2, <3>2 DEF Moves, HolderSaves, Saving
  <2>3. /\ {} \in Indexes
        /\ Readable(cache) => cache \in Indexes
        /\ Readable(tape) => tape \in Indexes
    BY DEF TypeOK, Readable, FileContents, NoIndex, Indexes
  <2>. QED  BY <2>1, <2>2, <2>3 DEF CmdInit, Load, Commit, Defrag, Hold
<1>. QED
  BY <1>2, <1>3, <1>4, <1>6, <1>7
  DEF TypeOK, FileTypes, EntryTypes, ThreadTypes, GhostTypes, HolderSaves

LEMMA TypeIssue ==
  ASSUME TypeOK, NEW c \in Clients, NEW k \in Commands, Issue(c, k)
  PROVE  TypeOK'
<1>1. c \in Procs
  BY DEF Procs
<1>2. FileTypes' /\ EntryTypes'
  BY DEF TypeOK, FileTypes, EntryTypes, Issue, files
<1>3. GhostTypes'
  BY DEF TypeOK, GhostTypes, Indexes, Issue
<1>4. ThreadTypes'
  BY IssueEnters DEF TypeOK, ThreadTypes, Enters, Issue, files
<1>5. HolderSaves'
  <2>1. th[c].pc \notin Saving /\ UNCHANGED dmu
    BY DEF Issue, Idle, Saving
  <2>. QED  BY <1>1, <2>1, IssueEnters, HolderStays DEF Enters
<1>. QED
  BY <1>2, <1>3, <1>4, <1>5
  DEF TypeOK, FileTypes, EntryTypes, ThreadTypes, GhostTypes, HolderSaves

LEMMA TypeUnmount ==
  ASSUME TypeOK, NEW c \in Clients, Unmount(c)
  PROVE  TypeOK'
<1>1. c \in Procs
  BY DEF Procs
<1>2. FileTypes' /\ GhostTypes' /\ UNCHANGED <<fd, dmu>>
  BY DEF TypeOK, FileTypes, GhostTypes, Unmount, files, ghosts
<1>3. EntryTypes'
  <2> DEFINE m == entry.mount
  <2>1. CASE UNCHANGED <<entry, fs>>
    BY <2>1 DEF TypeOK, EntryTypes
  <2>2. CASE /\ m # None
             /\ fs' = [fs EXCEPT ![m] = [fs[m] EXCEPT !.state = "draining"]]
             /\ entry' = [[entry EXCEPT !.mount = None] EXCEPT !.waits = FALSE]
    <3>1. m \in Mounts /\ fs[m] \in [state : {"up", "draining", "done"}, live : BOOLEAN]
      BY <2>2 DEF TypeOK
    <3>2. [fs[m] EXCEPT !.state = "draining"] \in [state : {"up", "draining", "done"}, live : BOOLEAN]
      BY <3>1
    <3>3. entry' \in [loaded : BOOLEAN, mount : Mounts \cup {None}, waits : BOOLEAN]
      BY <2>2 DEF TypeOK
    <3>. QED  BY <2>2, <3>1, <3>2, <3>3 DEF TypeOK, EntryTypes
  <2>. QED  BY <2>1, <2>2, UnmountEnters
<1>4. th' \in [Procs -> Threads] /\ \A q \in Procs \ {c} : th'[q] = th[q]
  BY UnmountEnters DEF Moves, Enters
<1>5. ThreadTypes'
  BY <1>2, <1>4 DEF TypeOK, ThreadTypes
<1>6. HolderSaves'
  <2>1. th[c].pc \notin Saving
    BY DEF Unmount, Locked, Saving
  <2>. QED  BY <1>1, <1>2, <1>4, <2>1, HolderStays
<1>. QED
  BY <1>2, <1>3, <1>5, <1>6
  DEF TypeOK, FileTypes, EntryTypes, ThreadTypes, GhostTypes, HolderSaves

LEMMA TypeServeEnds ==
  ASSUME TypeOK, NEW m \in Mounts, ServeEnds(m)
  PROVE  TypeOK'
<1>1. EntryTypes'
  BY DEF TypeOK, EntryTypes, ServeEnds, Served
<1>2. FileTypes' /\ GhostTypes' /\ ThreadTypes' /\ HolderSaves'
  BY DEF TypeOK, FileTypes, GhostTypes, ThreadTypes, HolderSaves, ServeEnds, files, ghosts
<1>. QED
  BY <1>1, <1>2
  DEF TypeOK, FileTypes, EntryTypes, ThreadTypes, GhostTypes, HolderSaves

LEMMA TypeStutter ==
  ASSUME TypeOK, UNCHANGED vars
  PROVE  TypeOK'
BY DEF TypeOK, vars

\* Every variable keeps its type, and only a command on its way to save an index keeps
\* d.mu from one step to the next.
THEOREM TypeCorrect == Spec => []TypeOK
<1>1. ASSUME TypeOK, Next
      PROVE  TypeOK'
  <2>1. CASE \E r \in Requests, m \in Mounts, k \in {"update", "flush"} : Arrive(r, m, k)
    BY <1>1, <2>1, TypeRequest
  <2>2. CASE \E r \in Requests : RequestStep(r)
    BY <1>1, <2>2, TypeRequest, TypeSaver DEF RequestStep, Save, Procs
  <2>3. CASE \E m \in Mounts : ServeEnds(m)
    BY <1>1, <2>3, TypeServeEnds
  <2>4. CASE \E c \in Clients, k \in Commands : Issue(c, k)
    BY <1>1, <2>4, TypeIssue
  <2>5. CASE \E c \in Clients : CommandStep(c)
    BY <1>1, <2>5, TypeIdle, TypeHolding, TypeUnmount, TypeSaver DEF CommandStep, Save, Procs
  <2>. QED  BY <1>1, <2>1, <2>2, <2>3, <2>4, <2>5 DEF Next
<1>2. TypeOK /\ [Next]_vars => TypeOK'
  BY <1>1, TypeStutter
<1>. QED  BY <1>2, TypeInit, PTL DEF Spec

-----------------------------------------------------------------------------
(***************************************************************************)
(* Savers that share a file.                                               *)
(***************************************************************************)
\* Who has a file open is about to write or to rename it.
Opened == \A p \in Procs : fd[p] # None <=> th[p].pc \in {"write", "rename"}

\* Wherever a file is not a whole index, a saver has it open and is yet to write; or no
\* one has a file open, and it is not the cache.
Owner(name) == \E p \in Procs : fd[p] = name /\ th[p].pc = "write"

PartialOwned ==
  /\ Opened
  /\ ~crossed =>
       /\ cache = Partial => Owner("cache")
       /\ tmp = Partial => Owner("tmp") \/ NoSaver

\* Steps of others, before or after they save.
LEMMA QuietOwned ==
  ASSUME TypeOK, PartialOwned, UNCHANGED files, UNCHANGED crossed, NEW p \in Procs,
         \A q \in Procs \ {p} : th'[q] = th[q],
         th[p].pc \notin {"write", "rename"}, th'[p].pc \notin {"write", "rename"}
  PROVE  PartialOwned'
<1>1. Opened'
  BY DEF PartialOwned, Opened, files
<1>2. \A name : Owner(name) => Owner(name)'
  BY DEF Owner, files
<1>3. NoSaver' <=> NoSaver
  BY DEF NoSaver, files
<1>. QED  BY <1>1, <1>2, <1>3 DEF PartialOwned, files

LEMMA OwnedSaver ==
  ASSUME TypeOK, PartialOwned, NEW p \in Procs, Save(p)
  PROVE  PartialOwned'
<1>1. \A q \in Procs \ {p} : th'[q] = th[q]
  BY SaverMoves DEF Moves, Save
<1>2. CASE Truncate(p) \/ PutIndex(p) \/ PutMarks(p) \/ OpenFails(p)
  <2>1. /\ UNCHANGED files /\ UNCHANGED crossed
        /\ th[p].pc \notin {"write", "rename"} /\ th'[p].pc \notin {"write", "rename"}
    BY <1>2, SaverMoves DEF Moves, Truncate, PutIndex, PutMarks, OpenFails, ghosts
  <2>. QED  BY <1>1, <2>1, QuietOwned
<1>3. CASE OpenTmp(p)
  <2>1. /\ th[p].pc = "open" /\ th'[p].pc = "write" /\ fd'[p] = "tmp"
        /\ UNCHANGED cache /\ UNCHANGED crossed
    BY <1>3, SaverMoves DEF OpenTmp, Moves, TypeOK, ghosts
  <2>2. \A q \in Procs \ {p} : fd'[q] = fd[q]
    BY <1>3 DEF OpenTmp, TypeOK
  <2>3. Opened'
    BY <1>1, <2>1, <2>2, NoneAssumption DEF PartialOwned, Opened
  <2>4. Owner("tmp")' /\ (Owner("cache") => Owner("cache")')
    BY <1>1, <2>1, <2>2 DEF Owner
  <2>. QED  BY <2>1, <2>3, <2>4 DEF PartialOwned
<1>4. CASE WriteTmp(p)
  <2>1. /\ th[p].idx # Partial /\ UNCHANGED fd /\ UNCHANGED crossed
        /\ th[p].pc = "write" /\ th'[p].pc = "rename"
    BY <1>4, NoneAssumption, SaverMoves DEF WriteTmp, TypeOK, Threads, Moves, ghosts
  <2>2. Opened'
    BY <1>1, <2>1 DEF PartialOwned, Opened
  <2>3. \A name : name # fd[p] /\ Owner(name) => Owner(name)'
    BY <1>1, <2>1 DEF Owner
  <2>4. ~NoSaver
    BY <2>1 DEF PartialOwned, Opened, NoSaver
  <2>5. /\ cache' = IF fd[p] = "cache" THEN th[p].idx ELSE cache
        /\ tmp' = IF fd[p] = "tmp" THEN th[p].idx ELSE tmp
    BY <1>4 DEF WriteTmp
  <2>. QED  BY <2>1, <2>2, <2>3, <2>4, <2>5 DEF PartialOwned
<1>5. CASE WriteFails(p)
  <2>1. /\ th[p].pc = "write" /\ th'[p].pc = "idle" /\ fd'[p] = None
        /\ \A q \in Procs \ {p} : fd'[q] = fd[q]
    BY <1>5, SaverMoves DEF WriteFails, Moves, TypeOK
  <2>2. Opened'
    BY <1>1, <2>1 DEF PartialOwned, Opened
  <2>3. CASE crossed'
    BY <2>2, <2>3 DEF PartialOwned
  <2>4. CASE ~crossed'
    <3>1. ~crossed /\ fd[p] = "tmp" /\ \A q \in Procs \ {p} : fd[q] = None
      BY <1>5, <2>4 DEF WriteFails, OnlySaver, TypeOK
    <3>2. NoSaver'
      BY <2>1, <3>1 DEF NoSaver
    <3>3. ~Owner("cache")
      BY <3>1, NoneAssumption DEF Owner
    <3>4. cache' = cache
      BY <1>5, <3>1 DEF WriteFails
    <3>. QED  BY <2>2, <3>1, <3>2, <3>3, <3>4 DEF PartialOwned
  <2>. QED  BY <2>3, <2>4
<1>. QED  BY <1>2, <1>3, <1>4, <1>5 DEF Save

\* A rename takes a file that is not whole along with the saver that has it open.
LEMMA OwnedRename ==
  ASSUME TypeOK, PartialOwned, NEW p \in Procs, Renamed(p), th[p].pc = "rename",
         th'[p].pc = "idle", \A q \in Procs \ {p} : th'[q] = th[q], UNCHANGED crossed
  PROVE  PartialOwned'
<1>1. tmp' # Partial
  BY NoneAssumption DEF Renamed
<1>2. fd'[p] = None /\ \A q \in Procs \ {p} : fd'[q] # None <=> fd[q] # None
  BY NoneAssumption DEF Renamed, TypeOK
<1>3. Opened'
  BY <1>2 DEF PartialOwned, Opened
<1>4. ~NoSaver
  BY DEF PartialOwned, Opened, NoSaver
<1>5. CASE tmp = None
  <2>1. cache' = cache /\ \A q \in Procs \ {p} : fd'[q] = fd[q]
    BY <1>5 DEF Renamed, TypeOK
  <2>2. Owner("cache") => Owner("cache")'
    BY <2>1 DEF Owner
  <2>. QED  BY <1>1, <1>3, <2>1, <2>2 DEF PartialOwned
<1>6. CASE tmp # None
  <2>1. cache' = tmp /\ \A q \in Procs \ {p} : fd[q] = "tmp" => fd'[q] = "cache"
    BY <1>6 DEF Renamed, TypeOK
  <2>2. Owner("tmp") => Owner("cache")'
    BY <2>1 DEF Owner
  <2>. QED  BY <1>1, <1>3, <1>4, <2>1, <2>2 DEF PartialOwned
<1>. QED  BY <1>5, <1>6

LEMMA OwnedDiscard ==
  ASSUME TypeOK, PartialOwned, NEW c \in Clients, Discard(c)
  PROVE  PartialOwned'
<1>1. /\ c \in Procs /\ tmp' = tmp /\ UNCHANGED crossed
      /\ th[c].pc \notin {"write", "rename"} /\ th'[c].pc \notin {"write", "rename"}
  BY CommandMoves DEF Procs, Discard, Locked, Moves
<1>2. \A q \in Procs \ {c} : th'[q] = th[q]
  BY CommandMoves DEF Moves
<1>3. CASE UNCHANGED <<cache, fd>>
  BY <1>1, <1>2, <1>3, QuietOwned DEF files
<1>4. CASE /\ cache' = None
           /\ \A q \in Procs : (fd[q] = "tmp" => fd'[q] = "tmp") /\ (fd'[q] # None <=> fd[q] # None)
  <2>1. Opened' /\ (NoSaver => NoSaver')
    BY <1>1, <1>2, <1>4 DEF PartialOwned, Opened, NoSaver
  <2>2. Owner("tmp") => Owner("tmp")'
    BY <1>1, <1>2, <1>4 DEF Owner
  <2>. QED  BY <1>1, <1>4, <2>1, <2>2, NoneAssumption DEF PartialOwned
<1>5. NotMounted =>
        /\ cache' = None
        /\ \A q \in Procs : (fd[q] = "tmp" => fd'[q] = "tmp") /\ (fd'[q] # None <=> fd[q] # None)
  BY NoneAssumption DEF Discard, TypeOK
<1>. QED  BY <1>3, <1>4, <1>5 DEF Discard

LEMMA OwnedNext ==
  ASSUME TypeOK, PartialOwned, [Next]_vars
  PROVE  PartialOwned'
<1>1. CASE \E r \in Requests, m \in Mounts, k \in {"update", "flush"} : Arrive(r, m, k)
  <2>1. PICK r \in Requests, m \in Mounts, k \in {"update", "flush"} : Arrive(r, m, k)
    BY <1>1
  <2>2. /\ r \in Procs /\ th[r].pc \notin {"write", "rename"}
        /\ UNCHANGED files /\ UNCHANGED crossed
    BY <2>1 DEF Arrive, Idle, Procs, ghosts
  <2>3. th'[r].pc = "queued" /\ \A q \in Procs \ {r} : th'[q] = th[q]
    BY <2>1, ArriveEnters DEF Enters
  <2>. QED  BY <2>2, <2>3, QuietOwned
<1>2. CASE \E r \in Requests : RequestStep(r)
  <2>1. PICK r \in Requests : RequestStep(r)
    BY <1>2
  <2>2. r \in Procs
    BY DEF Procs
  <2>3. CASE Begin(r) \/ AppendData(r)
    <3>1. th[r].pc \notin {"write", "rename"} /\ UNCHANGED files /\ UNCHANGED crossed
      BY <2>3 DEF Begin, AppendData, ghosts
    <3>2. th'[r].pc \notin {"write", "rename"} /\ \A q \in Procs \ {r} : th'[q] = th[q]
      BY <2>3, RequestMoves DEF Moves
    <3>. QED  BY <2>2, <3>1, <3>2, QuietOwned
  <2>4. CASE RequestRename(r)
    BY <2>2, <2>4, RequestMoves, OwnedRename DEF Moves, RequestRename
  <2>. QED  BY <2>1, <2>2, <2>3, <2>4, OwnedSaver DEF RequestStep, Save
<1>3. CASE \E m \in Mounts : ServeEnds(m)
  BY <1>3 DEF PartialOwned, Opened, Owner, NoSaver, ServeEnds, files, ghosts
<1>4. CASE \E c \in Clients, k \in Commands : Issue(c, k)
  <2>1. PICK c \in Clients, k \in Commands : Issue(c, k)
    BY <1>4
  <2>2. /\ c \in Procs /\ th[c].pc \notin {"write", "rename"}
        /\ UNCHANGED files /\ UNCHANGED crossed
    BY <2>1 DEF Issue, Idle, Procs
  <2>3. th'[c].pc = "lock" /\ \A q \in Procs \ {c} : th'[q] = th[q]
    BY <2>1, IssueEnters DEF Enters
  <2>. QED  BY <2>2, <2>3, QuietOwned
<1>5. CASE \E c \in Clients : CommandStep(c)
  <2>1. PICK c \in Clients : CommandStep(c)
    BY <1>5
  <2>2. c \in Procs
    BY DEF Procs
  <2>3. CASE \/ CmdInit(c) \/ Load(c) \/ Commit(c) \/ Defrag(c) \/ Close(c)
             \/ Mount(c) \/ Unmount(c) \/ Drained(c) \/ Eject(c)
    <3>1. th[c].pc \notin {"write", "rename"} /\ UNCHANGED files /\ UNCHANGED crossed
      BY <2>3
      DEF CmdInit, Load, Commit, Defrag, Close, Mount, Unmount, Drained, Eject, Locked, ghosts
    <3>2. th'[c].pc \notin {"write", "rename"} /\ \A q \in Procs \ {c} : th'[q] = th[q]
      BY <2>3, CommandMoves, UnmountEnters DEF Moves, Enters
    <3>. QED  BY <2>2, <3>1, <3>2, QuietOwned
  <2>4. CASE CommandRename(c)
    BY <2>2, <2>4, CommandMoves, OwnedRename DEF Moves, CommandRename
  <2>. QED  BY <2>1, <2>2, <2>3, <2>4, OwnedDiscard, OwnedSaver DEF CommandStep, Save
<1>6. CASE UNCHANGED vars
  BY <1>6 DEF PartialOwned, Opened, Owner, NoSaver, vars
<1>. QED  BY <1>1, <1>2, <1>3, <1>4, <1>5, <1>6 DEF Next

-----------------------------------------------------------------------------
(***************************************************************************)
(* Who moves, and what is then mounted.                                    *)
(***************************************************************************)
\* A step of a process moves that process, which was at work before.
LEMMA RequestActs ==
  ASSUME TypeOK, NEW r \in Requests, RequestStep(r)
  PROVE  /\ r \in Procs /\ th' \in [Procs -> Threads]
         /\ \A q \in Procs \ {r} : th'[q] = th[q]
         /\ th[r].pc \notin {"idle", "lock", "drain", "relock"}
         /\ th'[r].pc \notin {"lock", "drain", "relock", "queued"}
         /\ th'[r].pc # "idle" => th'[r].at = th[r].at /\ th'[r].cmd = th[r].cmd
         /\ UNCHANGED <<entry, fs, disturbed>>
<1>1. r \in Procs
  BY DEF Procs
<1>2. CASE Begin(r) \/ AppendData(r) \/ RequestRename(r)
  <2>1. /\ th' \in [Procs -> Threads]
        /\ \A q \in Procs \ {r} : th'[q] = th[q]
        /\ th'[r].pc \notin {"lock", "drain", "relock", "queued"}
        /\ th'[r].pc # "idle" => th'[r].at = th[r].at /\ th'[r].cmd = th[r].cmd
    BY <1>2, RequestMoves DEF Moves
  <2>2. /\ th[r].pc \notin {"idle", "lock", "drain", "relock"}
        /\ UNCHANGED <<entry, fs, disturbed>>
    BY <1>2 DEF Begin, AppendData, RequestRename, ghosts
  <2>. QED  BY <1>1, <2>1, <2>2
<1>3. CASE Save(r)
  <2>1. /\ th' \in [Procs -> Threads]
        /\ \A q \in Procs \ {r} : th'[q] = th[q]
        /\ th'[r].pc \notin {"lock", "drain", "relock", "queued"}
        /\ th'[r].pc # "idle" => th'[r].at = th[r].at /\ th'[r].cmd = th[r].cmd
    BY <1>1, <1>3, SaverMoves DEF Moves, Save
  <2>2. /\ th[r].pc \notin {"idle", "lock", "drain", "relock"}
        /\ UNCHANGED <<entry, fs, disturbed>>
    BY <1>3 DEF Save, OpenTmp, WriteTmp, Truncate, PutIndex, PutMarks, OpenFails,
         WriteFails, GiveUp, ghosts
  <2>. QED  BY <1>1, <2>1, <2>2
<1>. QED  BY <1>2, <1>3 DEF RequestStep

LEMMA CommandActs ==
  ASSUME TypeOK, NEW c \in Clients, CommandStep(c)
  PROVE  /\ c \in Procs /\ th' \in [Procs -> Threads]
         /\ \A q \in Procs \ {c} : th'[q] = th[q]
         /\ th[c].pc # "idle"
         /\ th'[c].pc # "lock"
         /\ th'[c].pc # "idle" => th'[c].cmd = th[c].cmd
         /\ UNCHANGED disturbed
<1>1. c \in Procs
  BY DEF Procs
<1>2. th[c].pc # "idle"
  BY DEF CommandStep, CmdInit, Load, Commit, Discard, Defrag, Close, Mount, Unmount, Drained, Eject,
         CommandRename, Save, OpenTmp, WriteTmp, Truncate, PutIndex, PutMarks, OpenFails,
         WriteFails, GiveUp, Locked
<1>3. UNCHANGED disturbed
  BY DEF CommandStep, CmdInit, Load, Commit, Discard, Defrag, Close, Mount, Unmount, Drained, Eject,
         CommandRename, Save, OpenTmp, WriteTmp, Truncate, PutIndex, PutMarks, OpenFails,
         WriteFails, GiveUp, ghosts
<1>4. CASE Save(c)
  BY <1>1, <1>2, <1>3, <1>4, SaverMoves DEF Moves, Save
<1>5. CASE Unmount(c)
  BY <1>1, <1>2, <1>3, <1>5, UnmountEnters DEF Moves, Enters
<1>6. CASE ~Save(c) /\ ~Unmount(c)
  BY <1>1, <1>2, <1>3, <1>6, CommandMoves DEF Moves, CommandStep
<1>. QED  BY <1>4, <1>5, <1>6

\* What a command leaves of the entry and the FSs, unless it mounts or unmounts.
LEMMA CommandKeepsMount ==
  ASSUME TypeOK, NEW c \in Clients, CommandStep(c)
  PROVE  \/ Mount(c) \/ Unmount(c)
         \/ /\ UNCHANGED fs
            /\ entry'.mount = entry.mount /\ entry'.waits = entry.waits
            /\ entry.loaded => entry'.loaded
         \/ /\ Close(c) \/ Discard(c) \/ CmdInit(c) \/ Eject(c)
            /\ entry.mount = None \/ Eject(c)
            /\ fs' = ClosedFS
            /\ entry'.mount = entry.mount
<1>1. CASE Save(c) \/ Load(c) \/ Commit(c) \/ Defrag(c) \/ Drained(c)
  BY <1>1 DEF Save, OpenTmp, WriteTmp, Truncate, PutIndex, PutMarks, OpenFails,
         WriteFails, GiveUp, Load, Commit, Defrag, Drained
<1>2. CASE CommandRename(c)
  BY <1>2 DEF CommandRename, TypeOK
<1>3. CASE Close(c) \/ Discard(c) \/ CmdInit(c) \/ Eject(c)
  <2>1. EntryTypes
    BY DEF TypeOK, EntryTypes
  <2>. QED  BY <1>3, <2>1, ClosedTypes DEF Close, Discard, CmdInit, Eject, NotMounted
<1>. QED  BY <1>1, <1>2, <1>3 DEF CommandStep

\* A process is never both a connection and a request.
LEMMA KindsDiffer ==
  ASSUME NEW c \in Clients, NEW r \in Requests
  PROVE  c # r /\ c \in Procs /\ r \in Procs
BY ProcsAssumption DEF Procs

-----------------------------------------------------------------------------
(***************************************************************************)
(* One command at a time.                                                  *)
(***************************************************************************)
Calm ==
  ~disturbed =>
    \A c, d \in Clients : th[c].pc # "idle" /\ th[d].pc # "idle" => c = d

LEMMA CalmNext ==
  ASSUME TypeOK, Calm, [Next]_vars
  PROVE  Calm'
<1>1. CASE \E r \in Requests, m \in Mounts, k \in {"update", "flush"} : Arrive(r, m, k)
  <2>1. PICK r \in Requests, m \in Mounts, k \in {"update", "flush"} : Arrive(r, m, k)
    BY <1>1
  <2>2. \A c \in Clients : th'[c] = th[c]
    BY <2>1, ArriveEnters, KindsDiffer DEF Enters
  <2>. QED  BY <2>1, <2>2 DEF Calm, Arrive, ghosts
<1>2. CASE \E r \in Requests : RequestStep(r)
  <2>1. PICK r \in Requests : RequestStep(r)
    BY <1>2
  <2>2. \A c \in Clients : th'[c] = th[c]
    BY <2>1, RequestActs, KindsDiffer
  <2>. QED  BY <2>1, <2>2, RequestActs DEF Calm
<1>3. CASE \E m \in Mounts : ServeEnds(m)
  BY <1>3 DEF Calm, ServeEnds, ghosts
<1>4. CASE \E c \in Clients, k \in Commands : Issue(c, k)
  <2>1. PICK c \in Clients, k \in Commands : Issue(c, k)
    BY <1>4
  <2>2. c \in Procs /\ \A d \in Clients \ {c} : th'[d] = th[d]
    BY <2>1, IssueEnters DEF Enters, Procs
  <2>3. ~disturbed' => \A d \in Clients : th[d].pc = "idle"
    BY <2>1 DEF Issue
  <2>. QED  BY <2>2, <2>3 DEF Calm
<1>5. CASE \E c \in Clients : CommandStep(c)
  <2>1. PICK c \in Clients : CommandStep(c)
    BY <1>5
  <2>2. th[c].pc # "idle" /\ UNCHANGED disturbed /\ \A d \in Clients \ {c} : th'[d] = th[d]
    BY <2>1, CommandActs DEF Procs
  <2>. QED  BY <2>2 DEF Calm
<1>6. CASE UNCHANGED vars
  BY <1>6 DEF Calm, vars
<1>. QED  BY <1>1, <1>2, <1>3, <1>4, <1>5, <1>6 DEF Next

-----------------------------------------------------------------------------
(***************************************************************************)
(* Requests and the FS that serves them.                                   *)
(***************************************************************************)
Working(p) == th[p].pc \in Saving \cup {"append"}

\* A request being served has an FS whose connection has not ended, and under fs.mu
\* there is one at a time; the one FS that takes requests is the one mounted.
Serving ==
  /\ \A r \in Requests : th[r].pc # "idle" => th[r].at \in Mounts /\ fs[th[r].at].state # "done"
  /\ \A q, r \in Requests : Working(q) /\ Working(r) /\ th[q].at = th[r].at => q = r
  /\ entry.mount # None => fs[entry.mount].state = "up"
  /\ \A m \in Mounts : fs[m].state = "up" => m = entry.mount

\* Steps that leave requests alone and the FSs in their states.
LEMMA QuietServing ==
  ASSUME TypeOK, Serving, \A r \in Requests : th'[r] = th[r],
         entry'.mount = entry.mount, \A m \in Mounts : fs'[m].state = fs[m].state
  PROVE  Serving'
<1>1. entry.mount # None => entry.mount \in Mounts
  BY DEF TypeOK
<1>. QED  BY <1>1 DEF Serving, Working

LEMMA ServingRequest ==
  ASSUME TypeOK, Serving, NEW r \in Requests, RequestStep(r)
  PROVE  Serving'
<1>1. \A q \in Requests \ {r} : th'[q] = th[q]
  BY RequestActs DEF Procs
<1>2. th'[r].pc # "idle" => th[r].pc # "idle" /\ th'[r].at = th[r].at
  BY RequestActs
<1>3. UNCHANGED <<entry, fs>>
  BY RequestActs
<1>4. ASSUME NEW q \in Requests \ {r}, Working(q)', Working(r)', th'[q].at = th'[r].at
      PROVE  FALSE
  <2>1. Working(q) /\ th[q].at = th[r].at /\ th[q].pc # "idle"
    BY <1>1, <1>2, <1>4 DEF Working, Saving
  <2>2. CASE Begin(r)
    <3>1. q \in Busy(th[r].at) /\ th[q].pc # "queued"
      BY <2>1 DEF Busy, Working, Saving
    <3>. QED  BY <2>2, <3>1 DEF Begin
  <2>3. CASE ~Begin(r)
    <3>1. Working(r)
      BY <2>3 DEF RequestStep, Save, AppendData, RequestRename, OpenTmp, OpenFails, WriteTmp, WriteFails,
                  Truncate, PutIndex, PutMarks, Working, Saving
    <3>. QED  BY <2>1, <3>1 DEF Serving
  <2>. QED  BY <2>2, <2>3
<1>. QED  BY <1>1, <1>2, <1>3, <1>4 DEF Serving, Working

LEMMA ServingMount ==
  ASSUME TypeOK, Serving, NEW c \in Clients, Mount(c)
  PROVE  Serving'
<1>1. \A r \in Requests : th'[r] = th[r]
  BY CommandMoves, KindsDiffer DEF Moves
<1>2. CASE UNCHANGED <<entry, fs>>
  BY <1>1, <1>2, QuietServing
<1>3. CASE ~UNCHANGED <<entry, fs>>
  <2>1. PICK m \in Mounts :
          /\ entry.mount = None
          /\ fs[m].state = "done"
          /\ fs' = [fs EXCEPT ![m] = [state |-> "up", live |-> TRUE]]
          /\ entry' = [[entry EXCEPT !.mount = m] EXCEPT !.waits = TRUE]
    BY <1>3 DEF Mount
  <2>2. entry'.mount = m /\ fs'[m].state = "up" /\ \A n \in Mounts \ {m} : fs'[n] = fs[n]
    BY <2>1 DEF TypeOK
  <2>3. \A n \in Mounts : fs[n].state # "up"
    BY <2>1, NoneAssumption DEF Serving
  <2>. QED  BY <1>1, <2>1, <2>2, <2>3 DEF Serving, Working
<1>. QED  BY <1>2, <1>3

LEMMA ServingUnmount ==
  ASSUME TypeOK, Serving, NEW c \in Clients, Unmount(c)
  PROVE  Serving'
<1>1. \A r \in Requests : th'[r] = th[r]
  BY UnmountEnters, KindsDiffer DEF Moves, Enters
<1>2. CASE UNCHANGED <<entry, fs>>
  BY <1>1, <1>2, QuietServing
<1>3. CASE ~UNCHANGED <<entry, fs>>
  <2> DEFINE m == entry.mount
  <2>1. /\ m # None
        /\ fs' = [fs EXCEPT ![m] = [fs[m] EXCEPT !.state = "draining"]]
        /\ entry' = [[entry EXCEPT !.mount = None] EXCEPT !.waits = FALSE]
    BY <1>3, UnmountEnters
  <2>2. m \in Mounts /\ entry'.mount = None
    BY <2>1 DEF TypeOK
  <2>3. fs'[m].state = "draining" /\ \A n \in Mounts \ {m} : fs'[n] = fs[n]
    BY <2>1, <2>2 DEF TypeOK
  <2>. QED  BY <1>1, <2>2, <2>3 DEF Serving, Working
<1>. QED  BY <1>2, <1>3

LEMMA ServingNext ==
  ASSUME TypeOK, Serving, [Next]_vars
  PROVE  Serving'
<1>1. CASE \E r \in Requests, m \in Mounts, k \in {"update", "flush"} : Arrive(r, m, k)
  <2>1. PICK r \in Requests, m \in Mounts, k \in {"update", "flush"} : Arrive(r, m, k)
    BY <1>1
  <2>2. /\ \A q \in Requests \ {r} : th'[q] = th[q]
        /\ th'[r].pc = "queued" /\ th'[r].at = m
    BY <2>1, ArriveEnters DEF Enters, Procs
  <2>3. fs[m].state = "up" /\ UNCHANGED <<entry, fs>>
    BY <2>1 DEF Arrive
  <2>. QED  BY <2>2, <2>3 DEF Serving, Working, Saving
<1>2. CASE \E r \in Requests : RequestStep(r)
  BY <1>2, ServingRequest
<1>3. CASE \E m \in Mounts : ServeEnds(m)
  <2>1. PICK m \in Mounts : ServeEnds(m)
    BY <1>3
  <2>2. /\ fs[m].state = "draining" /\ fs'[m].state = "done"
        /\ \A n \in Mounts \ {m} : fs'[n] = fs[n]
        /\ UNCHANGED <<entry, th>>
    BY <2>1 DEF ServeEnds, Served, TypeOK
  <2>3. \A r \in Requests : th[r].pc # "idle" => th[r].at # m
    BY <2>1 DEF ServeEnds, Busy
  <2>4. entry.mount # None => entry.mount \in Mounts \ {m}
    BY <2>2 DEF TypeOK, Serving
  <2>. QED  BY <2>2, <2>3, <2>4 DEF Serving, Working
<1>4. CASE \E c \in Clients, k \in Commands : Issue(c, k)
  <2>1. PICK c \in Clients, k \in Commands : Issue(c, k)
    BY <1>4
  <2>2. \A r \in Requests : th'[r] = th[r]
    BY <2>1, IssueEnters, KindsDiffer DEF Enters
  <2>. QED  BY <2>1, <2>2, QuietServing DEF Issue
<1>5. CASE \E c \in Clients : CommandStep(c)
  <2>1. PICK c \in Clients : CommandStep(c)
    BY <1>5
  <2>2. \A r \in Requests : th'[r] = th[r]
    BY <2>1, CommandActs, KindsDiffer
  <2>3. CASE entry'.mount = entry.mount /\ (UNCHANGED fs \/ fs' = ClosedFS)
    <3>1. \A m \in Mounts : fs'[m].state = fs[m].state
      BY <2>3 DEF ClosedFS, TypeOK
    <3>. QED  BY <2>2, <2>3, <3>1, QuietServing
  <2>. QED  BY <2>1, <2>3, CommandKeepsMount, ServingMount, ServingUnmount
<1>6. CASE UNCHANGED vars
  BY <1>6 DEF Serving, Working, vars
<1>. QED  BY <1>1, <1>2, <1>3, <1>4, <1>5, <1>6 DEF Next

-----------------------------------------------------------------------------
(***************************************************************************)
(* A mounted letter is open.                                               *)
(***************************************************************************)
Careful == ~MountInEject \/ ~disturbed

Ejecting(c) == th[c].cmd = "eject" /\ th[c].pc \notin {"idle", "lock"}

\* The second half of an eject finds the letter as its first half left it.
Mounted ==
  /\ \A c \in Clients : th[c].pc = "relock" => th[c].cmd = "eject"
  /\ Careful => MountedIsOpen /\ \A c \in Clients : Ejecting(c) => entry.mount = None

LEMMA DisturbedGrows ==
  ASSUME TypeOK, [Next]_vars
  PROVE  disturbed => disturbed'
<1>1. CASE \E r \in Requests, m \in Mounts, k \in {"update", "flush"} : Arrive(r, m, k)
  BY <1>1 DEF Arrive, ghosts
<1>2. CASE \E c \in Clients, k \in Commands : Issue(c, k)
  BY <1>2 DEF Issue
<1>3. CASE \E m \in Mounts : ServeEnds(m)
  BY <1>3 DEF ServeEnds, ghosts
<1>4. CASE UNCHANGED vars
  BY <1>4 DEF vars
<1>. QED  BY <1>1, <1>2, <1>3, <1>4, RequestActs, CommandActs DEF Next

\* Steps that leave what is mounted and open.
LEMMA QuietMounted ==
  ASSUME TypeOK, Mounted, Careful' => Careful,
         \A c \in Clients : Ejecting(c)' => Ejecting(c),
         \A c \in Clients : th'[c].pc = "relock" => th'[c].cmd = "eject",
         entry'.mount = entry.mount, entry'.waits = entry.waits, entry.loaded => entry'.loaded,
         entry.mount # None => fs'[entry.mount] = fs[entry.mount]
  PROVE  Mounted'
BY DEF Mounted, MountedIsOpen

LEMMA MountedCommand ==
  ASSUME TypeOK, Calm, Serving, Mounted, NEW c \in Clients, CommandStep(c), Careful' => Careful
  PROVE  Mounted'
<1>1. /\ c \in Procs /\ th[c].pc # "idle" /\ th'[c].pc # "lock"
      /\ \A d \in Clients \ {c} : th'[d] = th[d]
      /\ th'[c].pc # "idle" => th'[c].cmd = th[c].cmd
  BY CommandActs DEF Procs
<1>2. \A d \in Clients : th'[d].pc = "relock" => th'[d].cmd = "eject"
  <2>1. CASE Drained(c)
    BY <1>1, <2>1, CommandMoves DEF Moves, Mounted
  <2>2. CASE ~Drained(c)
    <3>1. th'[c].pc # "relock"
      BY <1>1, <2>2, CommandMoves, UnmountEnters, SaverMoves DEF Moves, Enters, CommandStep, Save
    <3>. QED  BY <1>1, <3>1 DEF Mounted
  <2>. QED  BY <2>1, <2>2
<1>3. ~Unmount(c) => \A d \in Clients : Ejecting(d)' => Ejecting(d)
  <2>1. ~Unmount(c) /\ th[c].pc = "lock" /\ th[c].cmd = "eject" => th'[c].pc = "idle"
    <3>1. ASSUME ~Unmount(c), th[c].pc = "lock", th[c].cmd = "eject"
          PROVE  Close(c)
      BY <3>1 DEF CommandStep, CmdInit, Load, Commit, Discard, Defrag, Mount, Drained, Eject,
         CommandRename, Save, OpenTmp, WriteTmp, Truncate, PutIndex, PutMarks, OpenFails,
         WriteFails, GiveUp, Locked
    <3>. QED  BY <3>1, CommandMoves DEF Moves
  <2>. QED  BY <1>1, <2>1 DEF Ejecting
<1>4. CASE Mount(c)
  <2>1. CASE UNCHANGED <<entry, fs>>
    BY <1>2, <1>3, <1>4, <2>1, QuietMounted DEF Mount, Unmount, Locked
  <2>2. CASE ~UNCHANGED <<entry, fs>>
    <3>1. PICK m \in Mounts :
            /\ entry.loaded
            /\ fs' = [fs EXCEPT ![m] = [state |-> "up", live |-> TRUE]]
            /\ entry' = [[entry EXCEPT !.mount = m] EXCEPT !.waits = TRUE]
      BY <1>4, <2>2 DEF Mount
    <3>2. MountedIsOpen'
      BY <3>1 DEF TypeOK, MountedIsOpen
    <3>3. Careful => \A d \in Clients : ~Ejecting(d)
      <4>1. CASE ~MountInEject
        BY <1>4, <4>1 DEF Mount, Ejecting
      <4>2. CASE ~disturbed
        <5>1. \A d \in Clients \ {c} : th[d].pc = "idle"
          BY <1>1, <4>2 DEF Calm
        <5>2. ~Ejecting(c)
          BY <1>4 DEF Mount, Locked, Ejecting
        <5>. QED  BY <5>1, <5>2 DEF Ejecting
      <4>. QED  BY <4>1, <4>2 DEF Careful
    <3>4. th[c].cmd # "eject"
      BY <1>4 DEF Mount, Locked
    <3>5. Careful' => \A d \in Clients : ~Ejecting(d)'
      BY <1>1, <3>3, <3>4 DEF Ejecting
    <3>. QED  BY <1>2, <3>2, <3>5 DEF Mounted
  <2>. QED  BY <2>1, <2>2
<1>5. CASE Unmount(c)
  <2>1. CASE UNCHANGED <<entry, fs>>
    <3>1. th'[c].pc = "idle" \/ entry.mount = None
      BY <1>5, <2>1, UnmountEnters DEF Moves, TypeOK
    <3>2. Careful' => Careful /\ MountedIsOpen' /\ \A d \in Clients : Ejecting(d)' => entry'.mount = None
      BY <1>1, <2>1, <3>1 DEF Mounted, MountedIsOpen, Ejecting
    <3>. QED  BY <1>2, <3>2 DEF Mounted
  <2>2. CASE ~UNCHANGED <<entry, fs>>
    <3>1. entry'.mount = None
      BY <1>5, <2>2, UnmountEnters DEF TypeOK
    <3>. QED  BY <1>2, <3>1 DEF Mounted, MountedIsOpen
  <2>. QED  BY <2>1, <2>2
<1>6. CASE /\ ~Unmount(c) /\ UNCHANGED fs
           /\ entry'.mount = entry.mount /\ entry'.waits = entry.waits
           /\ entry.loaded => entry'.loaded
  BY <1>2, <1>3, <1>6, QuietMounted
<1>7. CASE /\ ~Unmount(c) /\ entry'.mount = entry.mount
           /\ entry.mount = None \/ Eject(c)
  <2>1. Careful /\ Eject(c) => entry.mount = None
    BY DEF Mounted, Eject, Ejecting
  <2>. QED  BY <1>2, <1>3, <1>7, <2>1 DEF Mounted, MountedIsOpen
<1>. QED  BY <1>4, <1>5, <1>6, <1>7, CommandKeepsMount

LEMMA MountedNext ==
  ASSUME TypeOK, Calm, Serving, Mounted, [Next]_vars
  PROVE  Mounted'
<1>. Careful' => Careful
  BY DisturbedGrows DEF Careful
<1>1. CASE \E r \in Requests, m \in Mounts, k \in {"update", "flush"} : Arrive(r, m, k)
  <2>1. PICK r \in Requests, m \in Mounts, k \in {"update", "flush"} : Arrive(r, m, k)
    BY <1>1
  <2>2. (\A c \in Clients : th'[c] = th[c]) /\ UNCHANGED <<entry, fs>>
    BY <2>1, ArriveEnters, KindsDiffer DEF Enters, Arrive
  <2>. QED  BY <2>2, QuietMounted DEF Mounted, Ejecting
<1>2. CASE \E r \in Requests : RequestStep(r)
  <2>1. PICK r \in Requests : RequestStep(r)
    BY <1>2
  <2>2. (\A c \in Clients : th'[c] = th[c]) /\ UNCHANGED <<entry, fs>>
    BY <2>1, RequestActs, KindsDiffer
  <2>. QED  BY <2>2, QuietMounted DEF Mounted, Ejecting
<1>3. CASE \E m \in Mounts : ServeEnds(m)
  <2>1. PICK m \in Mounts : ServeEnds(m)
    BY <1>3
  <2>2. UNCHANGED <<entry, th>> /\ \A n \in Mounts \ {m} : fs'[n] = fs[n]
    BY <2>1 DEF ServeEnds, TypeOK
  <2>3. entry.mount # None => entry.mount \in Mounts \ {m}
    BY <2>1 DEF TypeOK, Serving, ServeEnds
  <2>. QED  BY <2>2, <2>3, QuietMounted DEF Mounted, Ejecting
<1>4. CASE \E c \in Clients, k \in Commands : Issue(c, k)
  <2>1. PICK c \in Clients, k \in Commands : Issue(c, k)
    BY <1>4
  <2>2. /\ th'[c].pc = "lock" /\ \A d \in Clients \ {c} : th'[d] = th[d]
        /\ UNCHANGED <<entry, fs>>
    BY <2>1, IssueEnters DEF Enters, Issue, Procs
  <2>. QED  BY <2>2, QuietMounted DEF Mounted, Ejecting
<1>5. CASE \E c \in Clients : CommandStep(c)
  BY <1>5, MountedCommand
<1>6. CASE UNCHANGED vars
  BY <1>6 DEF Mounted, MountedIsOpen, Ejecting, Careful, vars
<1>. QED  BY <1>1, <1>2, <1>3, <1>4, <1>5, <1>6 DEF Next

-----------------------------------------------------------------------------
(***************************************************************************)
(* What holds as long as each command waits for the answer to the last.    *)
(***************************************************************************)
\* A command that needs the letter not to be mounted.
Alone(c) == Working(c) \/ (th[c].pc # "idle" /\ th[c].cmd \in {"load", "commit"})

\* Somebody waits for an FS that ends, and nothing is mounted meanwhile; an FS that
\* serves has its tape open.
Undisturbed ==
  ~disturbed =>
    /\ \A m \in Mounts : fs[m].state = "draining" =>
         \E c \in Clients : th[c].pc = "drain" /\ th[c].at = m
    /\ \A c \in Clients : th[c].pc = "drain" => entry.mount = None
    /\ \A m \in Mounts : fs[m].state # "done" => fs[m].live
    /\ \A c \in Clients : Alone(c) => entry.mount = None

\* A command under way that does not wait is the only one there is, and if nothing is
\* mounted then no FS serves and no request is in flight.
LEMMA NobodyServed ==
  ASSUME TypeOK, Calm, Serving, Undisturbed, ~disturbed,
         NEW c \in Clients, th[c].pc \notin {"idle", "drain"}, entry.mount = None
  PROVE  /\ \A m \in Mounts : fs[m].state = "done"
         /\ \A r \in Requests : th[r].pc = "idle"
<1>1. \A m \in Mounts : fs[m].state # "draining"
  BY DEF Undisturbed, Calm
<1>2. \A m \in Mounts : fs[m].state # "up"
  BY NoneAssumption DEF Serving
<1>3. \A m \in Mounts : fs[m].state = "done"
  BY <1>1, <1>2 DEF TypeOK
<1>. QED  BY <1>3 DEF Serving

LEMMA UndisturbedMount ==
  ASSUME TypeOK, Calm, Serving, Mounted, Undisturbed, ~disturbed, NEW c \in Clients, Mount(c)
  PROVE  Undisturbed'
<1>1. th[c].pc = "lock" /\ th'[c].pc = "idle" /\ \A d \in Clients \ {c} : th'[d] = th[d]
  BY CommandMoves DEF Mount, Locked, Moves, Procs
<1>2. \A d \in Clients \ {c} : th[d].pc = "idle"
  BY <1>1 DEF Calm
<1>3. \A d \in Clients : th'[d].pc = "idle"
  BY <1>1, <1>2
<1>4. \A m \in Mounts : fs[m].state # "draining"
  BY <1>1, <1>2 DEF Undisturbed
<1>5. \A m \in Mounts : fs'[m] = fs[m] \/ (fs'[m].state = "up" /\ fs'[m].live)
  <2>1. CASE UNCHANGED fs
    BY <2>1
  <2>2. CASE \E m \in Mounts : fs' = [fs EXCEPT ![m] = [state |-> "up", live |-> TRUE]]
    <3>1. PICK n \in Mounts : fs' = [fs EXCEPT ![n] = [state |-> "up", live |-> TRUE]]
      BY <2>2
    <3>2. fs'[n].state = "up" /\ fs'[n].live /\ \A m \in Mounts \ {n} : fs'[m] = fs[m]
      BY <3>1 DEF TypeOK
    <3>. QED  BY <3>2
  <2>. QED  BY <2>1, <2>2 DEF Mount
<1>. QED  BY <1>3, <1>4, <1>5 DEF Undisturbed, Alone, Working, Saving

LEMMA UndisturbedUnmount ==
  ASSUME TypeOK, Calm, Serving, Mounted, Undisturbed, ~disturbed, NEW c \in Clients, Unmount(c)
  PROVE  Undisturbed'
<1>1. th[c].pc = "lock" /\ UNCHANGED disturbed
  BY DEF Unmount, Locked, ghosts
<1>2. \A d \in Clients \ {c} : th[d].pc = "idle"
  BY <1>1 DEF Calm
<1>3. \A d \in Clients \ {c} : th'[d] = th[d]
  BY UnmountEnters DEF Moves, Enters, Procs
<1>4. \A m \in Mounts : fs[m].state # "draining"
  BY <1>1, <1>2 DEF Undisturbed
<1>5. CASE Moves(c, "idle", th[c].idx) /\ UNCHANGED <<entry, fs>>
  <2>1. \A d \in Clients : th'[d].pc = "idle"
    BY <1>2, <1>3, <1>5 DEF Moves
  <2>. QED  BY <1>4, <1>5, <2>1 DEF Undisturbed, Alone, Working, Saving
<1>6. CASE ~(Moves(c, "idle", th[c].idx) /\ UNCHANGED <<entry, fs>>)
  <2> DEFINE m == entry.mount
  <2>1. /\ m \in Mounts
        /\ Enters(c, "drain", th[c].cmd, IF entry.waits THEN m ELSE None)
        /\ fs' = [fs EXCEPT ![m] = [fs[m] EXCEPT !.state = "draining"]]
        /\ entry'.mount = None
    BY <1>6, UnmountEnters DEF TypeOK
  <2>2. entry.waits /\ fs[m].live
    BY <2>1, NoneAssumption DEF Mounted, Careful, MountedIsOpen
  <2>3. th'[c].pc = "drain" /\ th'[c].at = m
    BY <2>1, <2>2 DEF Enters
  <2>4. fs'[m].live /\ \A n \in Mounts \ {m} : fs'[n] = fs[n]
    BY <2>1, <2>2 DEF TypeOK
  <2>. QED  BY <1>4, <2>1, <2>3, <2>4 DEF Undisturbed
<1>. QED  BY <1>5, <1>6

LEMMA UndisturbedCommand ==
  ASSUME TypeOK, Calm, Serving, Mounted, Undisturbed, ~disturbed, NEW c \in Clients, CommandStep(c)
  PROVE  Undisturbed'
<1>1. /\ th[c].pc # "idle" /\ \A d \in Clients \ {c} : th'[d] = th[d]
      /\ th'[c].pc # "idle" => th'[c].cmd = th[c].cmd
  BY CommandActs DEF Procs
<1>2. CASE /\ Close(c) \/ Discard(c) \/ CmdInit(c) \/ Eject(c)
           /\ entry.mount = None \/ Eject(c)
           /\ fs' = ClosedFS
           /\ entry'.mount = entry.mount
  <2>1. th[c].pc \in {"lock", "relock"}
    BY <1>2 DEF Close, Discard, CmdInit, Eject, Locked
  <2>2. Eject(c) => Ejecting(c)
    BY DEF Mounted, Ejecting, Eject
  <2>3. entry.mount = None
    BY <1>2, <2>2 DEF Mounted, Careful
  <2>4. \A m \in Mounts : fs[m].state = "done"
    BY <2>1, <2>3, NobodyServed
  <2>5. \A m \in Mounts : fs'[m].state = "done"
    BY <1>2, <2>4 DEF ClosedFS, TypeOK
  <2>. QED  BY <1>2, <2>3, <2>5 DEF Undisturbed
<1>3. CASE ~Unmount(c) /\ UNCHANGED fs /\ entry'.mount = entry.mount
  <2>1. th'[c].pc # "drain"
    BY <1>3, CommandMoves, SaverMoves, KindsDiffer DEF Moves, CommandStep, Save, Procs
  <2>2. ASSUME NEW m \in Mounts, th[c].pc = "drain", th[c].at = m
        PROVE  fs[m].state # "draining"
    <3>1. Drained(c)
      BY <2>2 DEF CommandStep, CmdInit, Load, Commit, Discard, Defrag, Close, Mount, Unmount, Eject,
         CommandRename, Save, OpenTmp, WriteTmp, Truncate, PutIndex, PutMarks, OpenFails,
         WriteFails, GiveUp, Locked
    <3>. QED  BY <2>2, <3>1, NoneAssumption DEF Drained, FuseDone
  <2>3. \A m \in Mounts : fs'[m].state = "draining" =>
          \E d \in Clients : th'[d].pc = "drain" /\ th'[d].at = m
    BY <1>1, <1>3, <2>2 DEF Undisturbed
  <2>4. Alone(c)' => Alone(c) \/ entry.mount = None
    <3>1. CASE th'[c].pc = "idle"
      BY <3>1 DEF Alone, Working, Saving
    <3>2. CASE th'[c].pc # "idle" /\ th[c].cmd \in {"load", "commit"}
      BY <1>1, <3>2 DEF Alone
    <3>3. CASE th'[c].pc # "idle" /\ th[c].cmd \notin {"load", "commit"} /\ Working(c)'
      <4>1. Save(c) \/ CommandRename(c) => Working(c)
        BY DEF Save, OpenTmp, WriteTmp, Truncate, PutIndex, PutMarks, OpenFails,
         WriteFails, GiveUp, CommandRename, Working, Saving
      <4>2. Drained(c) => ~Working(c)'
        BY CommandMoves DEF Moves, Working, Saving
      <4>3. CmdInit(c) \/ Defrag(c) => entry.mount = None
        BY <3>3, CommandMoves DEF Moves, NotMounted
      <4>4. ~Load(c) /\ ~Commit(c)
        BY <3>3 DEF Load, Commit, Locked
      <4>5. ~(Close(c) \/ Discard(c) \/ Mount(c) \/ Eject(c))
        BY <3>3, CommandMoves DEF Moves
      <4>. QED  BY <1>3, <3>3, <4>1, <4>2, <4>3, <4>4, <4>5 DEF CommandStep, Alone
    <3>4. CASE th'[c].pc # "idle" /\ th[c].cmd \notin {"load", "commit"} /\ ~Working(c)'
      <4>1. th'[c].cmd \notin {"load", "commit"}
        BY <1>1, <3>4
      <4>2. ~Alone(c)'
        BY <3>4, <4>1 DEF Alone
      <4>. QED  BY <4>2
    <3>. QED  BY <3>1, <3>2, <3>3, <3>4
  <2>5. \A d \in Clients : Alone(d)' => entry'.mount = None
    BY <1>1, <1>3, <2>4 DEF Undisturbed, Alone, Working
  <2>. QED  BY <1>1, <1>3, <2>1, <2>3, <2>5 DEF Undisturbed
<1>4. CASE Unmount(c)
  BY <1>4, UndisturbedUnmount
<1>5. CASE Mount(c)
  BY <1>5, UndisturbedMount
<1>. QED  BY <1>2, <1>3, <1>4, <1>5, CommandKeepsMount

LEMMA UndisturbedNext ==
  ASSUME TypeOK, Calm, Serving, Mounted, Undisturbed, [Next]_vars
  PROVE  Undisturbed'
<1>. SUFFICES ASSUME ~disturbed', ~disturbed
              PROVE  Undisturbed'
  BY DisturbedGrows DEF Undisturbed
<1>1. CASE \E r \in Requests, m \in Mounts, k \in {"update", "flush"} : Arrive(r, m, k)
  <2>1. (\A c \in Clients : th'[c] = th[c]) /\ UNCHANGED <<entry, fs>>
    BY <1>1, ArriveEnters, KindsDiffer DEF Enters, Arrive
  <2>. QED  BY <2>1 DEF Undisturbed, Alone, Working
<1>2. CASE \E r \in Requests : RequestStep(r)
  <2>1. (\A c \in Clients : th'[c] = th[c]) /\ UNCHANGED <<entry, fs>>
    BY <1>2, RequestActs, KindsDiffer
  <2>. QED  BY <2>1 DEF Undisturbed, Alone, Working
<1>3. CASE \E m \in Mounts : ServeEnds(m)
  <2>1. PICK m \in Mounts : ServeEnds(m)
    BY <1>3
  <2>2. /\ UNCHANGED <<entry, th>> /\ fs'[m].state = "done"
        /\ \A n \in Mounts \ {m} : fs'[n] = fs[n]
    BY <2>1 DEF ServeEnds, Served, TypeOK
  <2>. QED  BY <2>2 DEF Undisturbed, Alone, Working
<1>4. CASE \E c \in Clients, k \in Commands : Issue(c, k)
  <2>1. PICK c \in Clients, k \in Commands : Issue(c, k)
    BY <1>4
  <2>2. /\ th'[c].pc = "lock" /\ th'[c].cmd = k /\ \A d \in Clients \ {c} : th'[d] = th[d]
        /\ th[c].pc = "idle"
        /\ UNCHANGED <<entry, fs>>
    BY <2>1, IssueEnters DEF Enters, Issue, Procs, Idle
  <2>3. k \in {"load", "commit"} => entry.mount = None
    BY <2>1 DEF Issue
  <2>. QED  BY <2>2, <2>3 DEF Undisturbed, Alone, Working, Saving
<1>5. CASE \E c \in Clients : CommandStep(c)
  BY <1>5, UndisturbedCommand
<1>6. CASE UNCHANGED vars
  BY <1>6 DEF Undisturbed, Alone, Working, vars
<1>. QED  BY <1>1, <1>2, <1>3, <1>4, <1>5, <1>6 DEF Next

-----------------------------------------------------------------------------
(***************************************************************************)
(* Saved updates.                                                          *)
(***************************************************************************)
\* Who saves alone has path.tmp to itself and an index with every update saved before,
\* unless it is to replace the cache by the index of the tape.
Replaces(p) == p \notin Requests /\ th[p].cmd \in {"init", "load"}

Updates ==
  ~disturbed =>
    /\ \A p \in Procs : th[p].pc \in {"write", "rename"} => fd[p] = "tmp"
    /\ \A p \in Procs : th[p].pc = "rename" => tmp = th[p].idx
    /\ \A p \in Procs : Working(p) /\ ~Replaces(p) => saved \subseteq th[p].idx
    /\ saved # {} => Readable(cache) /\ saved \subseteq cache

\* One FS serves: the mounted one, or one that ends while nothing is mounted.
LEMMA OneServes ==
  ASSUME TypeOK, Calm, Serving, Undisturbed, ~disturbed,
         NEW m \in Mounts, NEW n \in Mounts, fs[m].state # "done", fs[n].state # "done"
  PROVE  m = n
<1>1. ASSUME NEW i \in Mounts, NEW j \in Mounts, fs[i].state = "up", fs[j].state = "draining"
      PROVE  FALSE
  BY <1>1, NoneAssumption DEF Serving, Undisturbed
<1>2. CASE fs[m].state = "up" /\ fs[n].state = "up"
  BY <1>2 DEF Serving
<1>3. CASE fs[m].state = "draining" /\ fs[n].state = "draining"
  BY <1>3 DEF Undisturbed, Calm
<1>. QED  BY <1>1, <1>2, <1>3 DEF TypeOK

\* One process works, with or without d.mu or fs.mu in common.
LEMMA OneWorks ==
  ASSUME TypeOK, Calm, Serving, Undisturbed, ~disturbed,
         NEW p \in Procs, NEW q \in Procs, Working(p), Working(q)
  PROVE  p = q
<1>1. ASSUME NEW c \in Clients, NEW r \in Requests, Working(c), Working(r)
      PROVE  FALSE
  <2>1. th[c].pc \notin {"idle", "drain"} /\ th[r].pc # "idle" /\ entry.mount = None
    BY <1>1 DEF Working, Saving, Undisturbed, Alone
  <2>. QED  BY <2>1, NobodyServed
<1>2. CASE p \in Clients /\ q \in Clients
  BY <1>2 DEF Calm, Working, Saving
<1>3. CASE p \in Requests /\ q \in Requests
  <2>1. th[p].pc # "idle" /\ th[q].pc # "idle"
    BY DEF Working, Saving
  <2>2. th[p].at = th[q].at
    BY <1>3, <2>1, OneServes DEF Serving
  <2>. QED  BY <1>3, <2>2 DEF Serving
<1>. QED  BY <1>1, <1>2, <1>3 DEF Procs

LEMMA QuietUpdates ==
  ASSUME TypeOK, Updates, ~disturbed, UNCHANGED <<files, saved>>, NEW p \in Procs,
         \A q \in Procs \ {p} : th'[q] = th[q],
         th'[p].pc \notin {"write", "rename"},
         Working(p)' => saved \subseteq th'[p].idx \/ Replaces(p)'
  PROVE  Updates'
BY DEF Updates, Working, Replaces, files

LEMMA UpdatesSaver ==
  ASSUME TypeOK, Calm, Serving, Undisturbed, Updates, ~disturbed, NEW p \in Procs, Save(p)
  PROVE  Updates'
<1>1. Working(p) /\ UNCHANGED saved
  BY DEF Save, OpenTmp, WriteTmp, Truncate, PutIndex, PutMarks, OpenFails,
         WriteFails, GiveUp, Working, Saving, ghosts
<1>2. \A q \in Procs \ {p} : th'[q] = th[q] /\ ~Working(q)
  BY <1>1, OneWorks, SaverMoves DEF Moves, Save
<1>3. Working(p)' => th'[p].idx = th[p].idx /\ th'[p].cmd = th[p].cmd
  BY SaverMoves DEF Moves, Save, Working, Saving
<1>4. Working(p)' => saved \subseteq th'[p].idx \/ Replaces(p)'
  BY <1>1, <1>3 DEF Updates, Replaces
<1>5. CASE Truncate(p) \/ PutIndex(p) \/ PutMarks(p) \/ OpenFails(p)
  <2>1. th'[p].pc \notin {"write", "rename"} /\ UNCHANGED files
    BY <1>5, SaverMoves DEF Moves, Truncate, PutIndex, PutMarks, OpenFails
  <2>. QED  BY <1>1, <1>2, <1>4, <2>1, QuietUpdates
<1>6. CASE OpenTmp(p)
  <2>1. fd'[p] = "tmp" /\ th'[p].pc = "write" /\ UNCHANGED cache
    BY <1>6, SaverMoves DEF Moves, OpenTmp, TypeOK
  <2>2. \A q \in Procs \ {p} : th'[q].pc \notin {"write", "rename"} /\ ~Working(q)'
    BY <1>2 DEF Working, Saving
  <2>. QED  BY <1>1, <1>4, <2>1, <2>2 DEF Updates
<1>7. CASE WriteTmp(p)
  <2>1. th[p].pc = "write" /\ th'[p].pc = "rename" /\ th'[p].idx = th[p].idx
    BY <1>7, SaverMoves DEF Moves, WriteTmp
  <2>2. fd[p] = "tmp"
    BY <2>1 DEF Updates
  <2>3. tmp' = th'[p].idx /\ UNCHANGED <<cache, fd>>
    BY <1>7, <2>1, <2>2 DEF WriteTmp
  <2>4. \A q \in Procs \ {p} : th'[q].pc \notin {"write", "rename"} /\ ~Working(q)'
    BY <1>2 DEF Working, Saving
  <2>. QED  BY <1>1, <1>4, <2>1, <2>2, <2>3, <2>4 DEF Updates
<1>8. CASE WriteFails(p)
  <2>1. th[p].pc = "write" /\ th'[p].pc = "idle"
    BY <1>8, SaverMoves DEF Moves, WriteFails
  <2>2. fd[p] = "tmp"
    BY <2>1 DEF Updates
  <2>3. UNCHANGED cache
    BY <1>8, <2>2 DEF WriteFails
  <2>4. \A q \in Procs \ {p} : th'[q].pc \notin {"write", "rename"} /\ ~Working(q)'
    BY <1>2 DEF Working, Saving
  <2>. QED  BY <1>1, <1>4, <2>1, <2>3, <2>4 DEF Updates
<1>. QED  BY <1>5, <1>6, <1>7, <1>8 DEF Save

LEMMA UpdatesRename ==
  ASSUME TypeOK, Calm, Serving, Undisturbed, Updates, ~disturbed, NEW p \in Procs,
         (p \in Requests /\ RequestRename(p)) \/ (p \in Clients /\ CommandRename(p)),
         Moves(p, "idle", th[p].idx)
  PROVE  Updates'
<1>1. th[p].pc = "rename" /\ Working(p) /\ Renamed(p)
  BY DEF RequestRename, CommandRename, Working, Saving
<1>2. th[p].idx \in Indexes
  BY DEF TypeOK, Threads
<1>3. tmp = th[p].idx /\ tmp # None
  BY <1>1, <1>2, NoneAssumption DEF Updates
<1>4. cache' = th[p].idx /\ Readable(cache')
  BY <1>1, <1>2, <1>3, NoneAssumption DEF Renamed, Readable
<1>5. saved' \subseteq th[p].idx
  <2>1. CASE p \in Requests /\ RequestRename(p)
    <3>1. saved \subseteq th[p].idx
      BY <1>1, <2>1 DEF Updates, Replaces
    <3>. QED  BY <2>1, <3>1 DEF RequestRename
  <2>2. CASE p \in Clients /\ CommandRename(p)
    <3>1. p \notin Requests
      BY <2>2, KindsDiffer
    <3>2. CASE th[p].cmd \in {"init", "load"}
      BY <2>2, <3>2 DEF CommandRename
    <3>3. CASE th[p].cmd \notin {"init", "load"}
      BY <1>1, <2>2, <3>1, <3>3 DEF CommandRename, Updates, Replaces
    <3>. QED  BY <3>2, <3>3
  <2>. QED  BY <2>1, <2>2
<1>6. \A q \in Procs : ~Working(q)' /\ th'[q].pc \notin {"write", "rename"}
  BY <1>1, OneWorks DEF Moves, Working, Saving
<1>. QED  BY <1>4, <1>5, <1>6 DEF Updates

LEMMA UpdatesRequest ==
  ASSUME TypeOK, Calm, Serving, Undisturbed, Updates, ~disturbed, NEW r \in Requests, RequestStep(r)
  PROVE  Updates'
<1>1. r \in Procs /\ \A q \in Procs \ {r} : th'[q] = th[q]
  BY RequestActs
<1>2. CASE Begin(r)
  <2>1. UNCHANGED <<files, saved>> /\ th'[r].pc \notin {"write", "rename"}
    BY <1>2, RequestMoves DEF Begin, ghosts, Moves
  <2>2. Working(r)' => saved \subseteq th'[r].idx
    <3>1. saved # {} => saved \subseteq cache
      BY DEF Updates
    <3>2. th'[r].pc = "idle" \/ th'[r].idx = cache \/ th'[r].idx = cache \cup {r}
      BY <1>2, RequestMoves DEF Moves
    <3>. QED  BY <3>1, <3>2 DEF Working, Saving
  <2>. QED  BY <1>1, <2>1, <2>2, QuietUpdates
<1>3. CASE AppendData(r)
  <2>1. UNCHANGED <<files, saved>> /\ th'[r].pc \notin {"write", "rename"} /\ Working(r)
    BY <1>3, RequestMoves DEF AppendData, ghosts, Moves, Working
  <2>2. Working(r)' => th'[r].idx = th[r].idx
    BY <1>3, RequestMoves DEF Moves, Working, Saving
  <2>3. saved \subseteq th[r].idx
    BY <1>1, <2>1 DEF Updates, Replaces
  <2>. QED  BY <1>1, <2>1, <2>2, <2>3, QuietUpdates
<1>4. CASE RequestRename(r)
  BY <1>1, <1>4, RequestMoves, UpdatesRename
<1>. QED  BY <1>1, <1>2, <1>3, <1>4, UpdatesSaver DEF RequestStep

\* A discard gives up the updates with the cache; no one saves meanwhile.
LEMMA UpdatesDiscard ==
  ASSUME TypeOK, Updates, ~disturbed, NEW c \in Clients, Discard(c)
  PROVE  Updates'
<1>1. c \in Procs /\ th'[c].pc = "idle" /\ UNCHANGED tmp
  BY CommandMoves DEF Discard, Procs, Moves
<1>2. \A q \in Procs \ {c} : th'[q] = th[q]
  BY CommandMoves DEF Moves
<1>3. CASE ~NotMounted
  <2>1. UNCHANGED <<files, saved>>
    BY <1>1, <1>3 DEF Discard, files
  <2>. QED  BY <1>1, <1>2, <2>1, QuietUpdates DEF Working, Saving
<1>4. CASE NotMounted
  <2>1. saved' = {} /\ \A q \in Procs : fd[q] = "tmp" => fd'[q] = "tmp"
    BY <1>4 DEF Discard, TypeOK
  <2>. QED  BY <1>1, <1>2, <2>1 DEF Updates
<1>. QED  BY <1>3, <1>4

LEMMA UpdatesCommand ==
  ASSUME TypeOK, Calm, Serving, Undisturbed, Updates, ~disturbed, NEW c \in Clients, CommandStep(c)
  PROVE  Updates'
<1>1. c \in Procs /\ \A q \in Procs \ {c} : th'[q] = th[q]
  BY CommandActs
<1>2. CASE Save(c)
  BY <1>1, <1>2, UpdatesSaver
<1>3. CASE CommandRename(c)
  BY <1>1, <1>3, CommandMoves, UpdatesRename
<1>4. CASE CmdInit(c) \/ Load(c)
  <2>1. UNCHANGED <<files, saved>> /\ th[c].cmd \in {"init", "load"}
    BY <1>4 DEF CmdInit, Load, Locked, ghosts
  <2>2. /\ th'[c].pc \notin {"write", "rename"}
        /\ th'[c].pc # "idle" => th'[c].cmd = th[c].cmd
    BY <1>4, CommandMoves DEF Moves
  <2>3. Working(c)' => Replaces(c)'
    BY <2>1, <2>2, KindsDiffer DEF Working, Saving, Replaces
  <2>. QED  BY <1>1, <2>1, <2>2, <2>3, QuietUpdates
<1>5. CASE Commit(c) \/ Defrag(c)
  <2>1. UNCHANGED <<files, saved>>
    BY <1>5 DEF Commit, Defrag, ghosts
  <2>2. /\ th'[c].pc \notin {"write", "rename"}
        /\ th'[c].pc = "idle" \/ th'[c].idx = cache
    BY <1>5, CommandMoves DEF Moves
  <2>3. Working(c)' => saved \subseteq th'[c].idx
    BY <2>2 DEF Updates, Working, Saving
  <2>. QED  BY <1>1, <2>1, <2>2, <2>3, QuietUpdates
<1>6. CASE Close(c) \/ Mount(c) \/ Unmount(c) \/ Drained(c) \/ Eject(c)
  <2>1. UNCHANGED <<files, saved>>
    BY <1>6 DEF Close, Mount, Unmount, Drained, Eject, ghosts
  <2>2. th'[c].pc \in {"idle", "drain", "relock"}
    BY <1>6, CommandMoves, UnmountEnters DEF Moves, Enters
  <2>. QED  BY <1>1, <2>1, <2>2, QuietUpdates DEF Working, Saving
<1>. QED  BY <1>2, <1>3, <1>4, <1>5, <1>6, UpdatesDiscard DEF CommandStep

LEMMA UpdatesNext ==
  ASSUME TypeOK, Calm, Serving, Undisturbed, Updates, [Next]_vars
  PROVE  Updates'
<1>. SUFFICES ASSUME ~disturbed', ~disturbed
              PROVE  Updates'
  BY DisturbedGrows DEF Updates
<1>1. CASE \E r \in Requests, m \in Mounts, k \in {"update", "flush"} : Arrive(r, m, k)
  <2>1. PICK r \in Requests, m \in Mounts, k \in {"update", "flush"} : Arrive(r, m, k)
    BY <1>1
  <2>2. /\ r \in Procs /\ th'[r].pc = "queued" /\ UNCHANGED <<files, saved>>
        /\ \A q \in Procs \ {r} : th'[q] = th[q]
    BY <2>1, ArriveEnters DEF Enters, Arrive, ghosts, Procs
  <2>. QED  BY <2>2, QuietUpdates DEF Working, Saving
<1>2. CASE \E r \in Requests : RequestStep(r)
  BY <1>2, UpdatesRequest
<1>3. CASE \E m \in Mounts : ServeEnds(m)
  BY <1>3 DEF Updates, Working, Replaces, ServeEnds, files, ghosts
<1>4. CASE \E c \in Clients, k \in Commands : Issue(c, k)
  <2>1. PICK c \in Clients, k \in Commands : Issue(c, k)
    BY <1>4
  <2>2. /\ c \in Procs /\ th'[c].pc = "lock"
        /\ \A q \in Procs \ {c} : th'[q] = th[q]
    BY <2>1, IssueEnters DEF Enters, Procs
  <2>3. UNCHANGED <<files, saved>>
    BY <2>1 DEF Issue
  <2>. QED  BY <2>2, <2>3, QuietUpdates DEF Working, Saving
<1>5. CASE \E c \in Clients : CommandStep(c)
  BY <1>5, UpdatesCommand
<1>6. CASE UNCHANGED vars
  BY <1>6 DEF Updates, Working, Replaces, vars
<1>. QED  BY <1>1, <1>2, <1>3, <1>4, <1>5, <1>6 DEF Next

-----------------------------------------------------------------------------
(***************************************************************************)
(* The theorems.                                                           *)
(***************************************************************************)
\* Savers overlap only where commands do, or where load or commit meet a mount.
Uncrossed == crossed => disturbed

LEMMA UncrossedSaver ==
  ASSUME TypeOK, Calm, Serving, Undisturbed, Updates, PartialOwned, ~disturbed,
         NEW p \in Procs, Save(p)
  PROVE  UNCHANGED crossed
<1>1. CASE WriteFails(p)
  <2>1. th[p].pc = "write" /\ Working(p)
    BY <1>1 DEF WriteFails, Working, Saving
  <2>2. fd[p] = "tmp"
    BY <2>1 DEF Updates
  <2>3. \A q \in Procs \ {p} : fd[q] = None
    <3>1. \A q \in Procs : fd[q] # None => Working(q)
      BY DEF PartialOwned, Opened, Working, Saving
    <3>. QED  BY <2>1, <3>1, OneWorks
  <2>. QED  BY <1>1, <2>2, <2>3 DEF WriteFails, OnlySaver, TypeOK
<1>2. CASE ~WriteFails(p)
  BY <1>2 DEF Save, Truncate, PutIndex, PutMarks, OpenTmp, OpenFails, WriteTmp, ghosts
<1>. QED  BY <1>1, <1>2

LEMMA UncrossedNext ==
  ASSUME TypeOK, Calm, Serving, Undisturbed, Updates, PartialOwned, Uncrossed, [Next]_vars
  PROVE  Uncrossed'
<1>. SUFFICES ASSUME ~disturbed', ~disturbed
              PROVE  UNCHANGED crossed
  BY DisturbedGrows DEF Uncrossed
<1>1. CASE \E r \in Requests, m \in Mounts, k \in {"update", "flush"} : Arrive(r, m, k)
  BY <1>1 DEF Arrive, ghosts
<1>2. CASE \E r \in Requests : RequestStep(r)
  <2>1. PICK r \in Requests : RequestStep(r)
    BY <1>2
  <2>2. CASE Save(r)
    BY <2>2, UncrossedSaver DEF Procs
  <2>3. CASE Begin(r) \/ AppendData(r) \/ RequestRename(r)
    BY <2>3 DEF Begin, AppendData, RequestRename, ghosts
  <2>. QED  BY <2>1, <2>2, <2>3 DEF RequestStep
<1>3. CASE \E m \in Mounts : ServeEnds(m)
  BY <1>3 DEF ServeEnds, ghosts
<1>4. CASE \E c \in Clients, k \in Commands : Issue(c, k)
  BY <1>4 DEF Issue
<1>5. CASE \E c \in Clients : CommandStep(c)
  <2>1. PICK c \in Clients : CommandStep(c)
    BY <1>5
  <2>2. CASE Save(c)
    BY <2>2, UncrossedSaver DEF Procs
  <2>3. CASE ~Save(c)
    BY <2>1, <2>3
    DEF CommandStep, CmdInit, Load, Commit, Discard, Defrag, Close, Mount, Unmount, Drained,
        Eject, CommandRename, ghosts
  <2>. QED  BY <2>2, <2>3
<1>6. CASE UNCHANGED vars
  BY <1>6 DEF vars
<1>. QED  BY <1>1, <1>2, <1>3, <1>4, <1>5, <1>6 DEF Next

IInv ==
  /\ TypeOK /\ Calm /\ Serving /\ Mounted /\ Undisturbed /\ Updates
  /\ PartialOwned /\ Uncrossed

\* The parts of the invariant, in the order in which they rest on each other.
THEOREM Consistent == Spec => []IInv
<1>1. Init => Calm /\ Serving /\ Mounted /\ Undisturbed /\ Updates
  <2>1. ASSUME Init
        PROVE  /\ \A p \in Procs : th[p].pc = "idle"
               /\ \A m \in Mounts : fs[m].state = "done"
               /\ entry.mount = None /\ saved = {}
    BY <2>1 DEF Init, Idle, Served
  <2>. QED
    BY <2>1, NoneAssumption
    DEF Procs, Calm, Serving, Mounted, MountedIsOpen, Ejecting, Undisturbed, Alone, Updates,
        Working, Saving
<1>2. Init => PartialOwned /\ Uncrossed
  <2>1. ASSUME Init
        PROVE  /\ \A p \in Procs : th[p].pc = "idle" /\ fd[p] = None
               /\ cache = None /\ tmp = None /\ ~crossed
    BY <2>1 DEF Init, Idle
  <2>. QED  BY <2>1, NoneAssumption DEF PartialOwned, Opened, Uncrossed
<1>3. IInv /\ [Next]_vars => (Calm /\ Serving /\ Mounted /\ Undisturbed /\ Updates)'
  BY CalmNext, ServingNext, MountedNext, UndisturbedNext, UpdatesNext DEF IInv
<1>4. IInv /\ [Next]_vars => (PartialOwned /\ Uncrossed)'
  BY OwnedNext, UncrossedNext DEF IInv
<1>. QED  BY <1>1, <1>2, <1>3, <1>4, TypeCorrect, PTL DEF Spec, IInv

\* SaveIndexToFile leaves no part of an index as the cache, unless savers that have
\* path.tmp open together and a write that fails meet: a file that is not whole goes
\* along with the saver that has it open, and a saver that fails alone leaves it at
\* path.tmp, where the next one truncates it.  Savers meet only where commands
\* overlap, or a load or commit is given to a mounted letter.
THEOREM CacheIsWhole == Spec => []CacheWhole
<1>1. IInv => CacheWhole
  <2>1. SUFFICES ASSUME IInv, NoSaver, cache = Partial
                 PROVE  crossed /\ disturbed
    BY DEF CacheWhole
  <2>2. ~Owner("cache")
    BY <2>1, NoneAssumption DEF NoSaver, Owner
  <2>. QED  BY <2>1, <2>2 DEF IInv, PartialOwned, Uncrossed
<1>. QED  BY <1>1, Consistent, PTL

\* If no mount runs in the window of an eject, a mounted letter has its tape open and a
\* FUSE server that umount can wait for, however many commands overlap.
THEOREM MountedStaysOpen == Spec => [](~MountInEject => MountedIsOpen)
<1>1. IInv => (~MountInEject => MountedIsOpen)
  BY DEF IInv, Mounted, Careful
<1>. QED  BY <1>1, Consistent, PTL

\* As long as each command is given after the answer to the last, no request finds the
\* tape closed under it.
THEOREM TapeAlwaysOpen == Spec => []TapeStaysOpen
<1>1. IInv => TapeStaysOpen
  BY DEF IInv, Serving, Undisturbed, TapeStaysOpen
<1>. QED  BY <1>1, Consistent, PTL

\* In the same circumstances, and with no load or commit to a mounted letter, no update
\* a request has saved is lost to another saver.
THEOREM UpdatesAlwaysKept == Spec => []UpdatesKept
<1>1. IInv => UpdatesKept
  BY DEF IInv, Updates, UpdatesKept
<1>. QED  BY <1>1, Consistent, PTL

=============================================================================
