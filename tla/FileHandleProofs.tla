-------------------------- MODULE FileHandleProofs --------------------------
(***************************************************************************)
(* Theorems about the goroutines of a mounted letter, for any number of    *)
(* goroutines, handles, paths and bytes.                                   *)
(***************************************************************************)
EXTENDS FileHandle, WellFoundedInduction, TLAPS

-----------------------------------------------------------------------------
(***************************************************************************)
(* Lengths.                                                                *)
(***************************************************************************)
\* A set of numbers that is not empty has a least one.
LEMMA Least ==
  ASSUME NEW T \in SUBSET Nat, T # {}
  PROVE  \E x \in T : \A y \in T : x <= y
<1>1. IsWellFoundedOn(OpToRel(<, Nat), Nat)
  BY NatLessThanWellFounded
<1>2. PICK x \in T : \A y \in T : ~(<<y, x>> \in OpToRel(<, Nat))
  BY <1>1, WFMin
<1>3. \A y \in T : ~(y < x)
  BY <1>2 DEF OpToRel
<1>. QED  BY <1>3

\* A content ends at one of its bytes.
LEMMA LengthInRange ==
  ASSUME NEW c \in Contents
  PROVE  LengthOf(c) \in 0 .. MaxByte
<1>1. MaxByte \in Nat /\ c \subseteq 1 .. MaxByte
  BY HandleAssumption DEF Contents, BytePositions
<1>2. CASE c = {}
  BY <1>1, <1>2 DEF LengthOf
<1>3. CASE c # {}
  <2> DEFINE T == {n \in Nat : MaxByte - n \in c}
  <2>1. PICK b \in c : TRUE
    BY <1>3
  <2>2. MaxByte - b \in T
    BY <1>1, <2>1
  <2>3. PICK x \in T : \A y \in T : x <= y
    BY <2>2, Least
  <2>4. MaxByte - x \in c /\ \A m \in c : m <= MaxByte - x
    <3>1. ASSUME NEW m \in c
          PROVE  m <= MaxByte - x
      <4>1. MaxByte - m \in T
        BY <1>1
      <4>. QED  BY <1>1, <2>3, <4>1
    <3>. QED  BY <2>3, <3>1
  <2>5. (CHOOSE n \in c : \A m \in c : m <= n) \in c
    BY <2>4
  <2>6. LengthOf(c) \in c
    BY <1>3, <2>5 DEF LengthOf
  <2>7. LengthOf(c) \in 1 .. MaxByte
    BY <1>1, <2>6
  <2>. HIDE DEF T
  <2>. QED  BY <1>1, <2>7
<1>. QED  BY <1>2, <1>3


-----------------------------------------------------------------------------
(***************************************************************************)
(* Steps of one goroutine.                                                 *)
(***************************************************************************)
PCs == {"idle", "next", "panicked"} \cup WritePCs \cup FlushPCs \cup ReadPCs

\* t goes on to l; no other goroutine moves.
Moves(t, l) ==
  /\ th' \in [Threads -> ThreadStates]
  /\ \A u \in Threads \ {t} : th'[u] = th[u]
  /\ th'[t].pc = l

\* What t keeps when it only changes its place.
Keeps(t) ==
  /\ th'[t].h = th[t].h /\ th'[t].byte = th[t].byte /\ th'[t].buf = th[t].buf
  /\ th'[t].idx = th[t].idx /\ th'[t].base = th[t].base

\* A goroutine that becomes r.
LEMMA BecomeMoves ==
  ASSUME th \in [Threads -> ThreadStates], NEW t \in Threads, NEW r \in ThreadStates,
         th' = [th EXCEPT ![t] = r]
  PROVE  Moves(t, r.pc) /\ th'[t] = r
BY DEF Moves

LEMMA IdleState ==
  /\ Idle \in ThreadStates
  /\ Idle.pc = "idle" /\ Idle.h = None
<1>1. {} \in Contents /\ 0 \in 0 .. MaxByte
  BY HandleAssumption DEF Contents
<1>. QED  BY <1>1 DEF Idle, ThreadStates

LEMMA GotoMoves ==
  ASSUME th \in [Threads -> ThreadStates], NEW t \in Threads, NEW l \in PCs, Goto(t, l)
  PROVE  Moves(t, l) /\ Keeps(t)
<1> DEFINE r == [th[t] EXCEPT !.pc = l]
<1>1. th[t] \in ThreadStates
  OBVIOUS
<1>2. r \in ThreadStates /\ r.pc = l
  BY <1>1 DEF ThreadStates, PCs
<1>3. r.h = th[t].h /\ r.byte = th[t].byte /\ r.buf = th[t].buf /\ r.idx = th[t].idx
      /\ r.base = th[t].base
  BY <1>1 DEF ThreadStates
<1>4. th' = [th EXCEPT ![t] = r]
  BY DEF Goto
<1>5. Moves(t, r.pc) /\ th'[t] = r
  <2>. HIDE DEF r
  <2>. QED  BY <1>2, <1>4, BecomeMoves
<1>. QED  BY <1>2, <1>3, <1>5 DEF Keeps

LEMMA ReturnMoves ==
  ASSUME th \in [Threads -> ThreadStates], NEW t \in Threads, Return(t)
  PROVE  Moves(t, "idle") /\ th'[t].h = None
BY IdleState, BecomeMoves DEF Return

LEMMA FlushReturnMoves ==
  ASSUME th \in [Threads -> ThreadStates], NEW t \in Threads, FlushReturn(t)
  PROVE  Moves(t, IF t \in Flushers THEN "next" ELSE "idle") /\ th'[t].h = None
<1>1. CASE t \in Flushers
  <2> DEFINE r == [[Idle EXCEPT !.pc = "next"] EXCEPT !.todo = th[t].todo]
  <2>1. th[t].todo \in SUBSET Handles
    BY DEF ThreadStates
  <2>2. r \in ThreadStates /\ r.pc = "next" /\ r.h = None
    BY <2>1, IdleState DEF ThreadStates
  <2>3. th' = [th EXCEPT ![t] = r]
    BY <1>1 DEF FlushReturn
  <2>4. Moves(t, r.pc) /\ th'[t] = r
    <3>. HIDE DEF r
    <3>. QED  BY <2>2, <2>3, BecomeMoves
  <2>. QED  BY <1>1, <2>2, <2>4
<1>2. CASE t \notin Flushers
  BY <1>2, ReturnMoves DEF FlushReturn
<1>. QED  BY <1>1, <1>2

\* A goroutine that takes or reads c keeps its handle.
KeepsBut(t) ==
  th'[t].h = th[t].h /\ th'[t].byte = th[t].byte /\ th'[t].base = th[t].base

LEMMA BufMoves ==
  ASSUME th \in [Threads -> ThreadStates], NEW t \in Threads, NEW l \in PCs,
         NEW c \in Contents, th' = [th EXCEPT ![t].pc = l, ![t].buf = c]
  PROVE  Moves(t, l) /\ KeepsBut(t) /\ th'[t].buf = c /\ th'[t].idx = th[t].idx
<1> DEFINE r == [[th[t] EXCEPT !.pc = l] EXCEPT !.buf = c]
<1>1. th[t] \in ThreadStates
  OBVIOUS
<1>2. r \in ThreadStates /\ r.pc = l /\ r.buf = c
  BY <1>1 DEF ThreadStates, PCs
<1>3. r.h = th[t].h /\ r.byte = th[t].byte /\ r.idx = th[t].idx /\ r.base = th[t].base
  BY <1>1 DEF ThreadStates
<1>4. th' = [th EXCEPT ![t] = r]
  OBVIOUS
<1>5. Moves(t, r.pc) /\ th'[t] = r
  <2>. HIDE DEF r
  <2>. QED  BY <1>2, <1>4, BecomeMoves
<1>. QED  BY <1>2, <1>3, <1>5 DEF KeepsBut

\* A goroutine that loads or changes an index.
LEMMA IdxMoves ==
  ASSUME th \in [Threads -> ThreadStates], NEW t \in Threads, NEW l \in PCs,
         NEW i \in IndexFiles, th' = [th EXCEPT ![t].pc = l, ![t].idx = i]
  PROVE  Moves(t, l) /\ KeepsBut(t) /\ th'[t].idx = i /\ th'[t].buf = th[t].buf
<1> DEFINE r == [[th[t] EXCEPT !.pc = l] EXCEPT !.idx = i]
<1>1. th[t] \in ThreadStates
  OBVIOUS
<1>2. r \in ThreadStates /\ r.pc = l /\ r.idx = i
  BY <1>1 DEF ThreadStates, PCs
<1>3. r.h = th[t].h /\ r.byte = th[t].byte /\ r.buf = th[t].buf /\ r.base = th[t].base
  BY <1>1 DEF ThreadStates
<1>4. th' = [th EXCEPT ![t] = r]
  OBVIOUS
<1>5. Moves(t, r.pc) /\ th'[t] = r
  <2>. HIDE DEF r
  <2>. QED  BY <1>2, <1>4, BecomeMoves
<1>. QED  BY <1>2, <1>3, <1>5 DEF KeepsBut

\* A request begins: t is at h, and has byte w to write or base e to read.
Begins(t, l, h, w, e) ==
  /\ th[t].pc = "idle"
  /\ Moves(t, l)
  /\ th'[t].h = h /\ th'[t].byte = w /\ th'[t].base = e

LEMMA BeginMoves ==
  ASSUME th \in [Threads -> ThreadStates], acked \in [Handles -> Contents],
         NEW t \in Threads, NEW h \in Handles
  PROVE  /\ \A w \in BytePositions : StartWrite(t, h, w) => Begins(t, "check", h, w, {})
         /\ StartRead(t, h) => Begins(t, "readbuf", h, 0, acked[h])
         /\ StartFlush(t, h) => Begins(t, "take", h, 0, {})
         /\ StartRelease(t, h) => Begins(t, "take", h, 0, {})
<1>1. MaxByte \in Nat /\ {} \in Contents
  BY HandleAssumption DEF Contents
<1>2. ASSUME NEW w \in BytePositions, StartWrite(t, h, w)
      PROVE  Begins(t, "check", h, w, {})
  <2> DEFINE r == [[[Idle EXCEPT !.pc = "check"] EXCEPT !.h = h] EXCEPT !.byte = w]
  <2>1. w \in 0 .. MaxByte
    BY <1>1 DEF BytePositions
  <2>2. r \in ThreadStates /\ r.pc = "check" /\ r.h = h /\ r.byte = w /\ r.base = {}
    BY <1>1, <2>1, IdleState DEF ThreadStates, Idle, WritePCs
  <2>3. th' = [th EXCEPT ![t] = r] /\ th[t].pc = "idle"
    BY <1>2 DEF StartWrite, Accepts, At
  <2>4. Moves(t, r.pc) /\ th'[t] = r
    <3>. HIDE DEF r
    <3>. QED  BY <2>2, <2>3, BecomeMoves
  <2>. QED  BY <2>2, <2>3, <2>4 DEF Begins
<1>3. ASSUME StartRead(t, h)
      PROVE  Begins(t, "readbuf", h, 0, acked[h])
  <2> DEFINE r == [[[Idle EXCEPT !.pc = "readbuf"] EXCEPT !.h = h] EXCEPT !.base = acked[h]]
  <2>1. r \in ThreadStates /\ r.pc = "readbuf" /\ r.h = h /\ r.byte = 0 /\ r.base = acked[h]
    BY <1>1, IdleState DEF ThreadStates, Idle, ReadPCs
  <2>2. th' = [th EXCEPT ![t] = r] /\ th[t].pc = "idle"
    BY <1>3 DEF StartRead, Accepts, At
  <2>3. Moves(t, r.pc) /\ th'[t] = r
    <3>. HIDE DEF r
    <3>. QED  BY <2>1, <2>2, BecomeMoves
  <2>. QED  BY <2>1, <2>2, <2>3 DEF Begins
<1>4. ASSUME StartFlush(t, h) \/ StartRelease(t, h)
      PROVE  Begins(t, "take", h, 0, {})
  <2> DEFINE r == [[Idle EXCEPT !.pc = "take"] EXCEPT !.h = h]
  <2>1. r \in ThreadStates /\ r.pc = "take" /\ r.h = h /\ r.byte = 0 /\ r.base = {}
    BY <1>1, IdleState DEF ThreadStates, Idle, FlushPCs
  <2>2. th' = [th EXCEPT ![t] = r] /\ th[t].pc = "idle"
    BY <1>4 DEF StartFlush, StartRelease, Accepts, At
  <2>3. Moves(t, r.pc) /\ th'[t] = r
    <3>. HIDE DEF r
    <3>. QED  BY <2>1, <2>2, BecomeMoves
  <2>. QED  BY <2>1, <2>2, <2>3 DEF Begins
<1>. QED  BY <1>2, <1>3, <1>4

\* A flushfiles goroutine takes its snapshot, then one handle after the other.
LEMMA FlushFilesMoves ==
  ASSUME TypeOK, NEW t \in Threads, FlushFiles(t)
  PROVE  th[t].pc = "idle" /\ Moves(t, "next") /\ th'[t].h = None
<1> DEFINE r == [[Idle EXCEPT !.pc = "next"] EXCEPT !.todo = handles]
<1>1. r \in ThreadStates /\ r.pc = "next" /\ r.h = None
  BY IdleState DEF TypeOK, ThreadStates, Idle
<1>2. th' = [th EXCEPT ![t] = r] /\ th[t].pc = "idle"
  BY DEF FlushFiles, At
<1>3. Moves(t, r.pc) /\ th'[t] = r
  <2>. HIDE DEF r
  <2>. QED  BY <1>1, <1>2, BecomeMoves DEF TypeOK
<1>. QED  BY <1>1, <1>2, <1>3

LEMMA FlushNextMoves ==
  ASSUME TypeOK, NEW t \in Threads, FlushNext(t)
  PROVE  /\ th[t].pc = "next"
         /\ \/ Moves(t, "idle") /\ th'[t].h = None
            \/ Moves(t, "take") /\ th'[t].h \in Handles
<1>1. th \in [Threads -> ThreadStates] /\ th[t].todo \in SUBSET Handles
  BY DEF TypeOK, ThreadStates
<1>2. CASE Return(t)
  BY <1>1, <1>2, ReturnMoves DEF FlushNext, At
<1>3. ASSUME NEW h \in th[t].todo,
             th' = [th EXCEPT ![t].pc = "take", ![t].h = h, ![t].todo = @ \ {h}]
      PROVE  Moves(t, "take") /\ th'[t].h \in Handles
  <2> DEFINE d == th[t].todo \ {h}
             r == [[[th[t] EXCEPT !.pc = "take"] EXCEPT !.h = h] EXCEPT !.todo = d]
  <2>1. th[t] \in ThreadStates /\ h \in Handles
    BY <1>1
  <2>2. r \in ThreadStates /\ r.pc = "take" /\ r.h = h
    BY <2>1 DEF ThreadStates, FlushPCs
  <2>3. th' = [th EXCEPT ![t] = r]
    BY <1>1, <1>3 DEF ThreadStates
  <2>4. Moves(t, r.pc) /\ th'[t] = r
    <3>. HIDE DEF r
    <3>. QED  BY <1>1, <2>2, <2>3, BecomeMoves
  <2>. QED  BY <2>1, <2>2, <2>4
<1>. QED  BY <1>2, <1>3 DEF FlushNext, At

-----------------------------------------------------------------------------
(***************************************************************************)
(* What each step does to the goroutine that takes it.                     *)
(***************************************************************************)
\* A goroutine serves a handle, has loaded an index before it saves one, and
\* has a byte to write while it writes.
ServesHandle == \A t \in Threads : th[t].pc \notin {"idle", "next"} => th[t].h \in Handles
HasIndex == \A t \in Threads : th[t].pc \in {"growsave", "append", "save"} => th[t].idx \in IndexFiles
HasByte == \A t \in Threads : th[t].pc \in WritePCs => th[t].byte \in BytePositions

ThreadsOK == ServesHandle /\ HasIndex /\ HasByte

\* Where a flush ends.
Done(t) == IF t \in Flushers THEN "next" ELSE "idle"

\* The file of a goroutine's handle and what the index says of it.
LEMMA PathAtInPaths ==
  ASSUME TypeOK, NEW t \in Threads, th[t].h \in Handles
  PROVE  /\ PathAt(t) \in Paths
         /\ index[PathAt(t)].data \in Contents
         /\ \A l \in 0 .. MaxByte, c \in Contents : [length |-> l, data |-> c] \in Entries
<1>1. PathAt(t) \in Paths
  BY HandleAssumption DEF PathAt
<1>2. index[PathAt(t)] \in Entries
  BY <1>1 DEF TypeOK, IndexFiles
<1>. QED  BY <1>1, <1>2 DEF Entries

LEMMA WriteMoves ==
  ASSUME TypeOK, ThreadsOK, NEW t \in Threads
  PROVE  /\ WriteCheck(t) => \E l \in {"preload", "apply"} : Moves(t, l) /\ Keeps(t)
         /\ WritePreload(t) => /\ Moves(t, "install") /\ KeepsBut(t)
                               /\ th'[t].buf = index[PathAt(t)].data
         /\ WriteInstall(t) => \E l \in {"register", "apply"} : Moves(t, l) /\ Keeps(t)
         /\ WriteRegister(t) => Moves(t, "apply") /\ Keeps(t)
         /\ WriteApply(t) => \E l \in {"panicked", "grow"} : Moves(t, l) /\ Keeps(t)
         /\ WriteGrow(t) => Moves(t, "growsave") /\ KeepsBut(t) /\ th'[t].idx = index
         /\ WriteGrowSave(t) => Moves(t, "idle") /\ th'[t].h = None
<1>1. th \in [Threads -> ThreadStates] /\ index \in IndexFiles
  BY DEF TypeOK
<1>2. {"preload", "install", "apply", "register", "panicked", "grow", "growsave"} \subseteq PCs
  BY DEF PCs, WritePCs
<1>3. WritePreload(t) => /\ Moves(t, "install") /\ KeepsBut(t)
                         /\ th'[t].buf = index[PathAt(t)].data
  <2>1. SUFFICES ASSUME WritePreload(t)
                 PROVE  /\ Moves(t, "install") /\ KeepsBut(t)
                        /\ th'[t].buf = index[PathAt(t)].data
    OBVIOUS
  <2>2. index[PathAt(t)].data \in Contents
    BY <2>1, PathAtInPaths DEF WritePreload, At, ThreadsOK, ServesHandle
  <2>3. th' = [th EXCEPT ![t].pc = "install", ![t].buf = index[PathAt(t)].data]
    BY <2>1 DEF WritePreload
  <2>. QED  BY <1>1, <1>2, <2>2, <2>3, BufMoves
<1>4. WriteGrow(t) => Moves(t, "growsave") /\ KeepsBut(t) /\ th'[t].idx = index
  <2>1. WriteGrow(t) => th' = [th EXCEPT ![t].pc = "growsave", ![t].idx = index]
    BY DEF WriteGrow
  <2>. QED  BY <1>1, <1>2, <2>1, IdxMoves
<1>. QED
  BY <1>1, <1>2, <1>3, <1>4, GotoMoves, ReturnMoves
  DEF WriteCheck, WriteInstall, WriteRegister, WriteApply, WriteGrowSave

LEMMA FlushMoves ==
  ASSUME TypeOK, ThreadsOK, NEW t \in Threads
  PROVE  /\ FlushTake(t) => \/ Moves(t, Done(t)) /\ th'[t].h = None /\ UNCHANGED <<wbuf, dirty>>
                            \/ /\ Moves(t, "lockfs") /\ KeepsBut(t)
                               /\ dirty[th[t].h] /\ wbuf[th[t].h] # None
                               /\ th'[t].buf = wbuf[th[t].h]
                               /\ wbuf' = [wbuf EXCEPT ![th[t].h] = None]
                               /\ dirty' = [dirty EXCEPT ![th[t].h] = FALSE]
         /\ FlushLock(t) => /\ Moves(t, "append") /\ KeepsBut(t)
                            /\ th'[t].buf = th[t].buf /\ th'[t].idx = index
         /\ FlushAppend(t) => \/ /\ Moves(t, "save") /\ KeepsBut(t) /\ th'[t].buf = th[t].buf
                                 /\ th'[t].idx \in IndexFiles
                                 /\ th'[t].idx[PathAt(t)].data = th[t].buf
                                 /\ \A p \in Paths \ {PathAt(t)} : th'[t].idx[p] = th[t].idx[p]
                              \/ Moves(t, "restore") /\ Keeps(t)
         /\ FlushSave(t) => Moves(t, "remove") /\ Keeps(t)
         /\ FlushRemove(t) => Moves(t, "unlock") /\ Keeps(t)
         /\ FlushUnlock(t) => Moves(t, Done(t)) /\ th'[t].h = None
         /\ FlushRestore(t) => Moves(t, "restored") /\ Keeps(t)
         /\ FlushRestored(t) => Moves(t, Done(t)) /\ th'[t].h = None
<1>1. th \in [Threads -> ThreadStates] /\ index \in IndexFiles
  BY DEF TypeOK
<1>2. {"lockfs", "append", "save", "remove", "unlock", "restore", "restored"} \subseteq PCs
  BY DEF PCs, FlushPCs
<1>3. FlushTake(t) => \/ Moves(t, Done(t)) /\ th'[t].h = None /\ UNCHANGED <<wbuf, dirty>>
                      \/ /\ Moves(t, "lockfs") /\ KeepsBut(t)
                         /\ dirty[th[t].h] /\ wbuf[th[t].h] # None
                         /\ th'[t].buf = wbuf[th[t].h]
                         /\ wbuf' = [wbuf EXCEPT ![th[t].h] = None]
                         /\ dirty' = [dirty EXCEPT ![th[t].h] = FALSE]
  <2>1. SUFFICES ASSUME FlushTake(t), ~(FlushReturn(t) /\ UNCHANGED <<wbuf, dirty>>)
                 PROVE  /\ Moves(t, "lockfs") /\ KeepsBut(t)
                        /\ dirty[th[t].h] /\ wbuf[th[t].h] # None
                        /\ th'[t].buf = wbuf[th[t].h]
                        /\ wbuf' = [wbuf EXCEPT ![th[t].h] = None]
                        /\ dirty' = [dirty EXCEPT ![th[t].h] = FALSE]
    BY <1>1, FlushReturnMoves DEF Done
  <2>2. th[t].h \in Handles
    BY <2>1 DEF FlushTake, At, ThreadsOK, ServesHandle
  <2>3. dirty[th[t].h] /\ wbuf[th[t].h] # None
    BY <2>1 DEF FlushTake
  <2>4. wbuf[th[t].h] \in Contents
    BY <2>2, <2>3 DEF TypeOK
  <2>5. /\ th' = [th EXCEPT ![t].pc = "lockfs", ![t].buf = wbuf[th[t].h]]
        /\ wbuf' = [wbuf EXCEPT ![th[t].h] = None]
        /\ dirty' = [dirty EXCEPT ![th[t].h] = FALSE]
    BY <2>1 DEF FlushTake
  <2>. QED  BY <1>1, <1>2, <2>3, <2>4, <2>5, BufMoves
<1>4. FlushLock(t) => /\ Moves(t, "append") /\ KeepsBut(t)
                      /\ th'[t].buf = th[t].buf /\ th'[t].idx = index
  <2>1. FlushLock(t) => th' = [th EXCEPT ![t].pc = "append", ![t].idx = index]
    BY DEF FlushLock
  <2>. QED  BY <1>1, <1>2, <2>1, IdxMoves
<1>5. ASSUME FlushAppend(t), ~Goto(t, "restore")
      PROVE  /\ Moves(t, "save") /\ KeepsBut(t) /\ th'[t].buf = th[t].buf
             /\ th'[t].idx \in IndexFiles
             /\ th'[t].idx[PathAt(t)].data = th[t].buf
             /\ \A p \in Paths \ {PathAt(t)} : th'[t].idx[p] = th[t].idx[p]
  <2> DEFINE e == [length |-> LengthOf(th[t].buf), data |-> th[t].buf]
             i == [th[t].idx EXCEPT ![PathAt(t)] = e]
  <2>1. th[t].pc = "append"
    BY <1>5 DEF FlushAppend, At
  <2>2. th[t].h \in Handles /\ th[t].idx \in IndexFiles
    BY <2>1 DEF ThreadsOK, ServesHandle, HasIndex
  <2>3. th[t].buf \in Contents
    BY <1>1 DEF ThreadStates
  <2>4. e \in Entries /\ PathAt(t) \in Paths
    BY <2>2, <2>3, PathAtInPaths, LengthInRange
  <2>5. /\ i \in IndexFiles /\ i[PathAt(t)].data = th[t].buf
        /\ \A p \in Paths \ {PathAt(t)} : i[p] = th[t].idx[p]
    BY <2>2, <2>4 DEF IndexFiles
  <2>6. th' = [th EXCEPT ![t].pc = "save", ![t].idx = i]
    BY <1>1, <1>5 DEF FlushAppend, ThreadStates
  <2>7. /\ Moves(t, "save") /\ KeepsBut(t) /\ th'[t].idx = i
        /\ th'[t].buf = th[t].buf
    <3>. HIDE DEF i
    <3>. QED  BY <1>1, <1>2, <2>5, <2>6, IdxMoves
  <2>. QED  BY <2>5, <2>7
<1>6. FlushAppend(t) => \/ /\ Moves(t, "save") /\ KeepsBut(t) /\ th'[t].buf = th[t].buf
                           /\ th'[t].idx \in IndexFiles
                           /\ th'[t].idx[PathAt(t)].data = th[t].buf
                           /\ \A p \in Paths \ {PathAt(t)} : th'[t].idx[p] = th[t].idx[p]
                        \/ Moves(t, "restore") /\ Keeps(t)
  BY <1>1, <1>2, <1>5, GotoMoves
<1>. QED
  BY <1>1, <1>2, <1>3, <1>4, <1>6, GotoMoves, FlushReturnMoves
  DEF FlushSave, FlushRemove, FlushUnlock, FlushRestore, FlushRestored, Done

LEMMA ReadMoves ==
  ASSUME TypeOK, ThreadsOK, NEW t \in Threads
  PROVE  /\ ReadBuffer(t) => \/ Moves(t, "readtape") /\ Keeps(t)
                             \/ /\ Moves(t, "reply") /\ KeepsBut(t)
                                /\ dirty[th[t].h] /\ wbuf[th[t].h] # None
                                /\ th'[t].buf = wbuf[th[t].h]
         /\ ReadTape(t) => /\ Moves(t, "reply") /\ KeepsBut(t)
                           /\ th'[t].buf = index[PathAt(t)].data
         /\ ReadReply(t) => Moves(t, "idle") /\ th'[t].h = None
<1>1. th \in [Threads -> ThreadStates]
  BY DEF TypeOK
<1>2. {"readtape", "reply"} \subseteq PCs
  BY DEF PCs, ReadPCs
<1>3. ASSUME ReadBuffer(t), ~Goto(t, "readtape")
      PROVE  /\ Moves(t, "reply") /\ KeepsBut(t)
             /\ dirty[th[t].h] /\ wbuf[th[t].h] # None
             /\ th'[t].buf = wbuf[th[t].h]
  <2>1. th[t].h \in Handles
    BY <1>3 DEF ReadBuffer, At, ThreadsOK, ServesHandle
  <2>2. dirty[th[t].h] /\ wbuf[th[t].h] # None
    BY <1>3 DEF ReadBuffer
  <2>3. wbuf[th[t].h] \in Contents
    BY <2>1, <2>2 DEF TypeOK
  <2>4. th' = [th EXCEPT ![t].pc = "reply", ![t].buf = wbuf[th[t].h]]
    BY <1>3 DEF ReadBuffer
  <2>. QED  BY <1>1, <1>2, <2>2, <2>3, <2>4, BufMoves
<1>4. ASSUME ReadTape(t)
      PROVE  /\ Moves(t, "reply") /\ KeepsBut(t)
             /\ th'[t].buf = index[PathAt(t)].data
  <2>1. index[PathAt(t)].data \in Contents
    BY <1>4, PathAtInPaths DEF ReadTape, At, ThreadsOK, ServesHandle
  <2>2. th' = [th EXCEPT ![t].pc = "reply", ![t].buf = index[PathAt(t)].data]
    BY <1>4 DEF ReadTape
  <2>. QED  BY <1>1, <1>2, <2>1, <2>2, BufMoves
<1>5. ReadReply(t) => Moves(t, "idle") /\ th'[t].h = None
  BY <1>1, ReturnMoves DEF ReadReply
<1>6. Goto(t, "readtape") => Moves(t, "readtape") /\ Keeps(t)
  BY <1>1, <1>2, GotoMoves
<1>. QED  BY <1>3, <1>4, <1>5, <1>6

-----------------------------------------------------------------------------
(***************************************************************************)
(* Types.                                                                  *)
(***************************************************************************)
LEMMA TypeInit ==
  ASSUME Init
  PROVE  TypeOK /\ ThreadsOK
<1>1. MaxByte \in Nat /\ {} \in Contents /\ [length |-> 0, data |-> {}] \in Entries
  BY HandleAssumption DEF Contents, Entries
<1>2. th \in [Threads -> ThreadStates]
  BY IdleState DEF Init
<1>3. TypeOK
  BY <1>1, <1>2 DEF Init, TypeOK, IndexFiles
<1>4. ThreadsOK
  BY IdleState DEF Init, ThreadsOK, ServesHandle, HasIndex, HasByte, WritePCs
<1>. QED  BY <1>3, <1>4

\* Taking and dropping locks leaves each with one holder or none.
LEMMA LockTypes ==
  ASSUME lock \in [Locks -> Threads \cup {None}], NEW t \in Threads
  PROVE  /\ \A l \in Locks : Take(l, t) => lock' \in [Locks -> Threads \cup {None}]
         /\ \A ls \in SUBSET Locks : Drop(ls) => lock' \in [Locks -> Threads \cup {None}]
BY DEF Take, Drop

\* A goroutine that goes on keeps what it needs where it goes.
LEMMA ThreadsStay ==
  ASSUME ThreadsOK, NEW t \in Threads, NEW l \in PCs, Moves(t, l),
         l \notin {"idle", "next"} => th'[t].h \in Handles,
         l \in {"growsave", "append", "save"} => th'[t].idx \in IndexFiles,
         l \in WritePCs => th'[t].byte \in BytePositions
  PROVE  ThreadsOK'
BY DEF ThreadsOK, ServesHandle, HasIndex, HasByte, Moves

LEMMA TypeStart ==
  ASSUME TypeOK, ThreadsOK, NEW t \in Threads, Start(t)
  PROVE  TypeOK' /\ ThreadsOK'
<1>1. CASE FlushFiles(t)
  <2>1. Moves(t, "next")
    BY <1>1, FlushFilesMoves
  <2>2. TypeOK'
    BY <1>1, <2>1 DEF TypeOK, Moves, FlushFiles
  <2>. QED  BY <2>1, <2>2, ThreadsStay DEF PCs, WritePCs
<1>2. ASSUME NEW h \in Handles, NEW w \in BytePositions, StartWrite(t, h, w)
      PROVE  TypeOK' /\ ThreadsOK'
  <2>1. Begins(t, "check", h, w, {})
    BY <1>2, BeginMoves DEF TypeOK
  <2>2. TypeOK'
    BY <1>2, <2>1 DEF TypeOK, Begins, Moves, StartWrite
  <2>. QED  BY <2>1, <2>2, ThreadsStay DEF Begins, PCs, WritePCs
<1>3. ASSUME NEW h \in Handles, StartRead(t, h) \/ StartFlush(t, h) \/ StartRelease(t, h)
      PROVE  TypeOK' /\ ThreadsOK'
  <2>1. PICK l \in {"readbuf", "take"} : Moves(t, l) /\ th'[t].h = h
    BY <1>3, BeginMoves DEF TypeOK, Begins
  <2>2. TypeOK'
    BY <1>3, <2>1 DEF TypeOK, Moves, StartRead, StartFlush, StartRelease
  <2>. QED  BY <2>1, <2>2, ThreadsStay DEF PCs, WritePCs, ReadPCs, FlushPCs
<1>. QED  BY <1>1, <1>2, <1>3 DEF Start

LEMMA TypeWrite ==
  ASSUME TypeOK, ThreadsOK, NEW t \in Threads,
         \/ WriteCheck(t) \/ WritePreload(t) \/ WriteInstall(t) \/ WriteRegister(t)
         \/ WriteApply(t) \/ WriteGrow(t) \/ WriteGrowSave(t)
  PROVE  TypeOK' /\ ThreadsOK'
<1>1. th[t].pc \in WritePCs /\ th[t].h \in Handles /\ th[t].byte \in BytePositions
  BY DEF WriteCheck, WritePreload, WriteInstall, WriteRegister, WriteApply, WriteGrow,
         WriteGrowSave, At, WritePCs, ThreadsOK, ServesHandle, HasByte
<1>2. /\ th[t].h \in Locks /\ "fs" \in Locks
      /\ th[t].byte \in 0 .. MaxByte /\ {th[t].byte} \in Contents
      /\ th[t].buf \in Contents
  BY <1>1, HandleAssumption DEF Locks, BytePositions, Contents, TypeOK, ThreadStates
<1>3. PICK l \in PCs : /\ Moves(t, l)
                       /\ l \in {"idle", "panicked", "growsave"} \cup WritePCs
                       /\ l # "idle" => th'[t].h = th[t].h /\ th'[t].byte = th[t].byte
                       /\ l = "growsave" => th'[t].idx = index
  BY WriteMoves DEF PCs, WritePCs, Keeps, KeepsBut
<1>4. ThreadsOK'
  BY <1>1, <1>3, ThreadsStay DEF WritePCs, TypeOK
<1>5. index' \in IndexFiles
  <2>1. CASE WriteGrowSave(t)
    <3>1. th[t].idx \in IndexFiles
      BY <2>1 DEF WriteGrowSave, At, ThreadsOK, HasIndex
    <3>2. PathAt(t) \in Paths
      BY <1>1, PathAtInPaths
    <3>3. [th[t].idx EXCEPT ![PathAt(t)].length = th[t].byte] \in IndexFiles
      <4> DEFINE e == [th[t].idx[PathAt(t)] EXCEPT !.length = th[t].byte]
      <4>1. e \in Entries
        BY <1>2, <3>1, <3>2 DEF Entries, IndexFiles
      <4>2. [th[t].idx EXCEPT ![PathAt(t)] = e] \in IndexFiles
        BY <3>1, <4>1 DEF IndexFiles
      <4>. QED  BY <4>2
    <3>. QED  BY <2>1, <3>3 DEF WriteGrowSave, TypeOK
  <2>2. CASE ~WriteGrowSave(t)
    BY <2>2 DEF TypeOK, WriteCheck, WritePreload, WriteInstall, WriteRegister, WriteApply, WriteGrow
  <2>. QED  BY <2>1, <2>2
<1>6. wbuf' \in [Handles -> Contents \cup {None}]
  <2>1. CASE UNCHANGED wbuf
    BY <2>1 DEF TypeOK
  <2>2. CASE wbuf' = [wbuf EXCEPT ![th[t].h] = th[t].buf]
    BY <1>2, <2>2 DEF TypeOK
  <2>3. CASE /\ wbuf[th[t].h] # None
             /\ wbuf' = [wbuf EXCEPT ![th[t].h] = wbuf[th[t].h] \cup {th[t].byte}]
    <3>1. wbuf[th[t].h] \cup {th[t].byte} \in Contents
      BY <1>1, <1>2, <2>3 DEF TypeOK, Contents
    <3>. QED  BY <2>3, <3>1 DEF TypeOK
  <2>. QED
    BY <2>1, <2>2, <2>3
    DEF WriteCheck, WritePreload, WriteInstall, WriteRegister, WriteApply, WriteGrow,
        WriteGrowSave, TypeOK
<1>7. dirty' \in [Handles -> BOOLEAN] /\ handles' \subseteq Handles /\ opened' \subseteq Handles
  BY <1>1
  DEF TypeOK, WriteCheck, WritePreload, WriteInstall, WriteRegister, WriteApply, WriteGrow,
      WriteGrowSave
<1>8. acked' \in [Handles -> Contents]
  <2>1. CASE acked' = [acked EXCEPT ![th[t].h] = acked[th[t].h] \cup {th[t].byte}]
    <3>1. acked[th[t].h] \cup {th[t].byte} \in Contents
      BY <1>1, <1>2 DEF TypeOK, Contents
    <3>. QED  BY <2>1, <3>1 DEF TypeOK
  <2>2. CASE UNCHANGED acked
    BY <2>2 DEF TypeOK
  <2>. QED
    BY <2>1, <2>2
    DEF TypeOK, WriteCheck, WritePreload, WriteInstall, WriteRegister, WriteApply, WriteGrow,
        WriteGrowSave
<1>9. lock' \in [Locks -> Threads \cup {None}]
  BY <1>2, LockTypes
  DEF TypeOK, WriteCheck, WritePreload, WriteInstall, WriteRegister, WriteApply, WriteGrow,
      WriteGrowSave
<1>. QED  BY <1>3, <1>4, <1>5, <1>6, <1>7, <1>8, <1>9 DEF TypeOK, Moves

LEMMA TypeFlush ==
  ASSUME TypeOK, ThreadsOK, NEW t \in Threads,
         \/ FlushTake(t) \/ FlushLock(t) \/ FlushAppend(t) \/ FlushSave(t) \/ FlushRemove(t)
         \/ FlushUnlock(t) \/ FlushRestore(t) \/ FlushRestored(t)
  PROVE  TypeOK' /\ ThreadsOK'
<1>1. th[t].pc \in FlushPCs /\ th[t].h \in Handles
  BY DEF FlushTake, FlushLock, FlushAppend, FlushSave, FlushRemove, FlushUnlock, FlushRestore,
         FlushRestored, At, FlushPCs, ThreadsOK, ServesHandle
<1>2. th[t].h \in Locks /\ "fs" \in Locks /\ "handles" \in Locks /\ th[t].buf \in Contents
  BY <1>1 DEF Locks, TypeOK, ThreadStates
<1>3. PICK l \in {"idle", "next"} \cup FlushPCs :
           /\ Moves(t, l)
           /\ l \notin {"idle", "next"} => th'[t].h = th[t].h
           /\ l \in {"append", "save"} => th'[t].idx \in IndexFiles
  BY FlushMoves DEF FlushPCs, Keeps, KeepsBut, Done, TypeOK
<1>4. ThreadsOK'
  BY <1>1, <1>3, ThreadsStay DEF WritePCs, FlushPCs, PCs
<1>5. index' \in IndexFiles
  <2>1. FlushSave(t) => th[t].idx \in IndexFiles
    BY DEF FlushSave, At, ThreadsOK, HasIndex
  <2>. QED
    BY <2>1 DEF TypeOK, FlushTake, FlushLock, FlushAppend, FlushSave, FlushRemove, FlushUnlock,
                FlushRestore, FlushRestored
<1>6. wbuf' \in [Handles -> Contents \cup {None}]
  BY <1>2
  DEF TypeOK, FlushTake, FlushLock, FlushAppend, FlushSave, FlushRemove, FlushUnlock,
      FlushRestore, FlushRestored
<1>7. dirty' \in [Handles -> BOOLEAN] /\ handles' \subseteq Handles /\ opened' \subseteq Handles
      /\ acked' \in [Handles -> Contents]
  BY <1>1
  DEF TypeOK, FlushTake, FlushLock, FlushAppend, FlushSave, FlushRemove, FlushUnlock,
      FlushRestore, FlushRestored
<1>8. lock' \in [Locks -> Threads \cup {None}]
  <2>1. {"handles", "fs"} \in SUBSET Locks /\ {th[t].h, "fs"} \in SUBSET Locks
    BY <1>2
  <2>. QED
    BY <1>2, <2>1, LockTypes
    DEF TypeOK, FlushTake, FlushLock, FlushAppend, FlushSave, FlushRemove, FlushUnlock,
        FlushRestore, FlushRestored
<1>. QED  BY <1>3, <1>4, <1>5, <1>6, <1>7, <1>8 DEF TypeOK, Moves

LEMMA TypeRead ==
  ASSUME TypeOK, ThreadsOK, NEW t \in Threads,
         ReadBuffer(t) \/ ReadTape(t) \/ ReadReply(t) \/ FlushNext(t)
  PROVE  TypeOK' /\ ThreadsOK'
<1>1. th[t].pc \in ReadPCs => th[t].h \in Handles
  BY DEF ReadPCs, ThreadsOK, ServesHandle
<1>2. PICK l \in {"readtape", "reply", "idle", "take"} :
           Moves(t, l) /\ (l # "idle" => th'[t].h \in Handles)
  BY <1>1, ReadMoves, FlushNextMoves
  DEF Keeps, KeepsBut, ReadPCs, ReadBuffer, ReadTape, At
<1>3. ThreadsOK'
  BY <1>2, ThreadsStay DEF WritePCs, FlushPCs, ReadPCs, PCs
<1>4. TypeOK'
  BY <1>2 DEF TypeOK, Moves, ReadBuffer, ReadTape, ReadReply, FlushNext
<1>. QED  BY <1>3, <1>4

LEMMA TypeStep ==
  ASSUME TypeOK, ThreadsOK, [Next]_vars
  PROVE  TypeOK' /\ ThreadsOK'
<1>1. CASE UNCHANGED vars
  BY <1>1 DEF vars, TypeOK, ThreadsOK, ServesHandle, HasIndex, HasByte
<1>2. ASSUME NEW t \in Threads, Start(t) \/ Step(t)
      PROVE  TypeOK' /\ ThreadsOK'
  BY <1>2, TypeStart, TypeWrite, TypeFlush, TypeRead DEF Step, LockFS
<1>. QED  BY <1>1, <1>2 DEF Next

\* Whatever goroutines do, and in whatever order, each variable keeps its type:
\* in particular the length FileHandle.Write and flushBuffer save stays in range.
THEOREM TypeCorrect == Spec => []TypeOK
<1>1. TypeOK /\ ThreadsOK /\ [Next]_vars => (TypeOK /\ ThreadsOK)'
  BY TypeStep
<1>. QED  BY <1>1, TypeInit, PTL DEF Spec

-----------------------------------------------------------------------------
(***************************************************************************)
(* Who holds which lock.                                                   *)
(***************************************************************************)
FSPCs == {"growsave", "append", "save", "remove", "unlock", "restore", "restored"}
MuPCs == {"register", "restored", "panicked"}

FSHeld == \A t \in Threads : lock["fs"] = t <=> th[t].pc \in FSPCs
HandlesHeld == \A t \in Threads : lock["handles"] = t <=> th[t].pc = "unlock"
MuHeld == \A t \in Threads, h \in Handles : lock[h] = t => th[t].h = h /\ th[t].pc \in MuPCs
MuKept == \A t \in Threads : th[t].pc \in {"register", "restored"} => lock[th[t].h] = t

LocksOK == FSHeld /\ HandlesHeld /\ MuHeld /\ MuKept

\* The names of fs.mu and handlesMu are no handles.
LEMMA LockNames ==
  /\ "fs" \in Locks /\ "handles" \in Locks /\ "fs" # "handles"
  /\ \A h \in Handles : h \in Locks /\ h # "fs" /\ h # "handles"
  /\ \A t \in Threads : t # None
BY NoneAssumption DEF Locks

LEMMA LocksInit ==
  ASSUME Init
  PROVE  LocksOK
BY LockNames, IdleState
DEF Init, LocksOK, FSHeld, HandlesHeld, MuHeld, MuKept, FSPCs, MuPCs

\* A step that touches no lock, between places that hold the same.
LEMMA LocksUntouched ==
  ASSUME TypeOK, LocksOK, NEW t \in Threads, NEW l \in PCs, Moves(t, l), UNCHANGED lock,
         th[t].pc \notin MuPCs, l \notin MuPCs,
         th[t].pc \in FSPCs <=> l \in FSPCs,
         th[t].pc # "unlock", l # "unlock"
  PROVE  LocksOK'
BY DEF LocksOK, FSHeld, HandlesHeld, MuHeld, MuKept, MuPCs, Moves

\* A step that takes lock x.
LEMMA LockTaken ==
  ASSUME TypeOK, ThreadsOK, LocksOK, NEW t \in Threads, NEW l \in PCs, Moves(t, l),
         NEW x \in Locks, Take(x, t),
         th'[t].h = th[t].h, th[t].pc \notin MuPCs, th[t].pc # "unlock",
         l \in MuPCs <=> x \in Handles,
         x \in Handles => x = th[t].h,
         l \in FSPCs <=> (th[t].pc \in FSPCs \/ x = "fs"),
         l = "unlock" <=> x = "handles"
  PROVE  LocksOK'
<1>1. lock[x] = None /\ lock'[x] = t /\ \A y \in Locks \ {x} : lock'[y] = lock[y]
  BY DEF Take, Free, TypeOK
<1>2. FSHeld'
  BY <1>1, LockNames DEF LocksOK, FSHeld, Moves
<1>3. HandlesHeld'
  BY <1>1, LockNames DEF LocksOK, HandlesHeld, Moves
<1>4. MuHeld'
  BY <1>1, LockNames DEF LocksOK, MuHeld, Moves
<1>5. MuKept'
  <2>1. ASSUME NEW u \in Threads \ {t}, th'[u].pc \in {"register", "restored"}
        PROVE  lock'[th'[u].h] = u
    <3>1. th'[u] = th[u] /\ lock[th[u].h] = u
      BY <2>1 DEF Moves, LocksOK, MuKept
    <3>2. th[u].h \in Handles
      BY <2>1, <3>1 DEF ThreadsOK, ServesHandle
    <3>. QED  BY <1>1, <3>1, <3>2, LockNames
  <2>2. l \in {"register", "restored"} => lock'[th'[t].h] = t
    BY <1>1, LockNames DEF MuPCs
  <2>. QED  BY <2>1, <2>2 DEF MuKept, Moves
<1>. QED  BY <1>2, <1>3, <1>4, <1>5 DEF LocksOK

\* A step that drops locks ls, all of which t holds.
LEMMA LocksDropped ==
  ASSUME TypeOK, ThreadsOK, LocksOK, NEW t \in Threads, NEW l \in PCs, Moves(t, l),
         NEW ls \in SUBSET Locks, Drop(ls),
         \A x \in ls : lock[x] = t,
         l \notin MuPCs, l # "unlock",
         th[t].pc \in MuPCs => th[t].h \in ls,
         l \in FSPCs <=> (th[t].pc \in FSPCs /\ "fs" \notin ls),
         th[t].pc = "unlock" => "handles" \in ls
  PROVE  LocksOK'
<1>1. /\ \A x \in ls : lock'[x] = None
      /\ \A x \in Locks \ ls : lock'[x] = lock[x]
  BY DEF Drop
<1>2. FSHeld'
  BY <1>1, LockNames DEF LocksOK, FSHeld, Moves
<1>3. HandlesHeld'
  BY <1>1, LockNames DEF LocksOK, HandlesHeld, Moves
<1>4. MuHeld'
  BY <1>1, LockNames DEF LocksOK, MuHeld, Moves
<1>5. MuKept'
  <2>1. ASSUME NEW u \in Threads \ {t}, th'[u].pc \in {"register", "restored"}
        PROVE  lock'[th'[u].h] = u
    <3>1. th'[u] = th[u] /\ lock[th[u].h] = u
      BY <2>1 DEF Moves, LocksOK, MuKept
    <3>2. th[u].h \in Locks
      BY <2>1, <3>1, LockNames DEF ThreadsOK, ServesHandle
    <3>. QED  BY <1>1, <3>1, <3>2
  <2>. QED  BY <2>1 DEF MuKept, Moves, MuPCs
<1>. QED  BY <1>2, <1>3, <1>4, <1>5 DEF LocksOK

LEMMA LocksStart ==
  ASSUME TypeOK, LocksOK, NEW t \in Threads, Start(t)
  PROVE  LocksOK'
<1>1. CASE FlushFiles(t)
  <2>1. th[t].pc = "idle" /\ Moves(t, "next") /\ UNCHANGED lock
    BY <1>1, FlushFilesMoves DEF FlushFiles
  <2>. QED  BY <2>1, LocksUntouched DEF PCs, MuPCs, FSPCs
<1>2. ASSUME NEW h \in Handles,
             \/ \E w \in BytePositions : StartWrite(t, h, w)
             \/ StartRead(t, h) \/ StartFlush(t, h) \/ StartRelease(t, h)
      PROVE  LocksOK'
  <2>1. UNCHANGED lock
    BY <1>2 DEF StartWrite, StartRead, StartFlush, StartRelease
  <2>2. PICK l \in {"check", "readbuf", "take"} : th[t].pc = "idle" /\ Moves(t, l)
    BY <1>2, BeginMoves DEF TypeOK, Begins
  <2>. QED
    BY <2>1, <2>2, LocksUntouched DEF PCs, WritePCs, ReadPCs, FlushPCs, MuPCs, FSPCs
<1>. QED  BY <1>1, <1>2 DEF Start

\* Steps between places where no lock is held, or fs.mu stays held.
LEMMA LocksRest ==
  ASSUME TypeOK, ThreadsOK, LocksOK, NEW t \in Threads,
         \/ WriteCheck(t) \/ WritePreload(t)
         \/ FlushTake(t) \/ FlushAppend(t) \/ FlushSave(t)
         \/ ReadBuffer(t) \/ ReadTape(t) \/ ReadReply(t) \/ FlushNext(t)
  PROVE  LocksOK'
<1>1. UNCHANGED lock
  BY DEF WriteCheck, WritePreload, FlushTake, FlushAppend, FlushSave,
         ReadBuffer, ReadTape, ReadReply, FlushNext
<1>2. CASE FlushAppend(t) \/ FlushSave(t)
  <2>1. PICK l \in {"save", "restore", "remove"} : Moves(t, l)
    BY <1>2, FlushMoves
  <2>2. th[t].pc \in {"append", "save"}
    BY <1>2 DEF FlushAppend, FlushSave, At
  <2>. QED  BY <1>1, <2>1, <2>2, LocksUntouched DEF PCs, FlushPCs, MuPCs, FSPCs
<1>3. CASE \/ WriteCheck(t) \/ WritePreload(t) \/ FlushTake(t)
           \/ ReadBuffer(t) \/ ReadTape(t) \/ ReadReply(t) \/ FlushNext(t)
  <2>1. PICK l \in {"preload", "apply", "install", "lockfs", "idle", "next", "readtape",
                    "reply", "take"} : Moves(t, l)
    BY <1>3, WriteMoves, FlushMoves, ReadMoves, FlushNextMoves DEF Done
  <2>2. th[t].pc \in {"check", "preload", "take", "readbuf", "readtape", "reply", "next"}
    BY <1>3 DEF WriteCheck, WritePreload, FlushTake, ReadBuffer, ReadTape, ReadReply, FlushNext, At
  <2>. QED
    BY <1>1, <2>1, <2>2, LocksUntouched DEF PCs, WritePCs, FlushPCs, ReadPCs, MuPCs, FSPCs
<1>. QED  BY <1>2, <1>3

LEMMA LocksWrite ==
  ASSUME TypeOK, ThreadsOK, LocksOK, NEW t \in Threads,
         \/ WriteInstall(t) \/ WriteRegister(t) \/ WriteApply(t) \/ WriteGrow(t) \/ WriteGrowSave(t)
  PROVE  LocksOK'
<1>1. th[t].h \in Handles /\ th[t].h \in Locks
  BY LockNames
  DEF WriteInstall, WriteRegister, WriteApply, WriteGrow, WriteGrowSave, At,
      ThreadsOK, ServesHandle
<1>2. {"register", "apply", "panicked", "grow", "growsave", "idle"} \subseteq PCs
  BY DEF PCs, WritePCs
<1>3. CASE WriteInstall(t)
  <2>1. th[t].pc = "install" /\ th \in [Threads -> ThreadStates]
    BY <1>3 DEF WriteInstall, At, TypeOK
  <2>2. CASE Take(th[t].h, t) /\ Goto(t, "register")
    <3>1. Moves(t, "register") /\ th'[t].h = th[t].h
      BY <1>2, <2>1, <2>2, GotoMoves DEF Keeps
    <3>. QED  BY <1>1, <1>2, <2>1, <2>2, <3>1, LockTaken, LockNames DEF FSPCs, MuPCs
  <2>3. CASE UNCHANGED lock /\ Goto(t, "apply")
    <3>1. Moves(t, "apply")
      BY <1>2, <2>1, <2>3, GotoMoves
    <3>. QED  BY <1>2, <2>1, <2>3, <3>1, LocksUntouched DEF FSPCs, MuPCs
  <2>. QED  BY <1>3, <2>2, <2>3 DEF WriteInstall
<1>4. CASE WriteRegister(t)
  <2>1. th[t].pc = "register" /\ Moves(t, "apply") /\ Drop({th[t].h})
    BY <1>4, WriteMoves DEF WriteRegister, At
  <2>2. lock[th[t].h] = t /\ {th[t].h} \in SUBSET Locks
    BY <1>1, <2>1 DEF LocksOK, MuKept
  <2>. QED  BY <1>1, <1>2, <2>1, <2>2, LocksDropped, LockNames DEF FSPCs, MuPCs
<1>5. CASE WriteApply(t)
  <2>1. th[t].pc = "apply" /\ th \in [Threads -> ThreadStates]
    BY <1>5 DEF WriteApply, At, TypeOK
  <2>2. CASE Take(th[t].h, t) /\ Goto(t, "panicked")
    <3>1. Moves(t, "panicked") /\ th'[t].h = th[t].h
      BY <1>2, <2>1, <2>2, GotoMoves DEF Keeps
    <3>. QED  BY <1>1, <1>2, <2>1, <2>2, <3>1, LockTaken, LockNames DEF FSPCs, MuPCs
  <2>3. CASE UNCHANGED lock /\ Goto(t, "grow")
    <3>1. Moves(t, "grow")
      BY <1>2, <2>1, <2>3, GotoMoves
    <3>. QED  BY <1>2, <2>1, <2>3, <3>1, LocksUntouched DEF FSPCs, MuPCs
  <2>. QED  BY <1>5, <2>2, <2>3 DEF WriteApply
<1>6. CASE WriteGrow(t)
  <2>1. th[t].pc = "grow" /\ Moves(t, "growsave") /\ th'[t].h = th[t].h /\ Take("fs", t)
    BY <1>6, WriteMoves DEF WriteGrow, At, KeepsBut
  <2>. QED  BY <1>2, <2>1, LockTaken, LockNames DEF FSPCs, MuPCs
<1>7. CASE WriteGrowSave(t)
  <2>1. th[t].pc = "growsave" /\ Moves(t, "idle") /\ Drop({"fs"})
    BY <1>7, WriteMoves DEF WriteGrowSave, At
  <2>2. lock["fs"] = t /\ {"fs"} \in SUBSET Locks
    BY <2>1, LockNames DEF LocksOK, FSHeld, FSPCs
  <2>. QED  BY <1>2, <2>1, <2>2, LocksDropped, LockNames DEF FSPCs, MuPCs
<1>. QED  BY <1>3, <1>4, <1>5, <1>6, <1>7

LEMMA LocksFlush ==
  ASSUME TypeOK, ThreadsOK, LocksOK, NEW t \in Threads,
         \/ FlushLock(t) \/ FlushRemove(t) \/ FlushUnlock(t) \/ FlushRestore(t) \/ FlushRestored(t)
  PROVE  LocksOK'
<1>1. th[t].h \in Handles /\ th[t].h \in Locks
  BY LockNames
  DEF FlushLock, FlushRemove, FlushUnlock, FlushRestore, FlushRestored, At,
      ThreadsOK, ServesHandle
<1>2. {"append", "unlock", "restored", "idle", "next"} \subseteq PCs
  BY DEF PCs, FlushPCs
<1>3. CASE FlushLock(t)
  <2>1. th[t].pc = "lockfs" /\ Moves(t, "append") /\ th'[t].h = th[t].h /\ Take("fs", t)
    BY <1>3, FlushMoves DEF FlushLock, At, KeepsBut
  <2>. QED  BY <1>2, <2>1, LockTaken, LockNames DEF FSPCs, MuPCs
<1>4. CASE FlushRemove(t)
  <2>1. th[t].pc = "remove" /\ Moves(t, "unlock") /\ th'[t].h = th[t].h /\ Take("handles", t)
    BY <1>4, FlushMoves DEF FlushRemove, At, Keeps
  <2>. QED  BY <1>2, <2>1, LockTaken, LockNames DEF FSPCs, MuPCs
<1>5. CASE FlushUnlock(t)
  <2>1. th[t].pc = "unlock" /\ Moves(t, Done(t)) /\ Drop({"handles", "fs"})
    BY <1>5, FlushMoves DEF FlushUnlock, At
  <2>2. lock["fs"] = t /\ lock["handles"] = t /\ {"handles", "fs"} \in SUBSET Locks
    BY <2>1, LockNames DEF LocksOK, FSHeld, HandlesHeld, FSPCs
  <2>3. Done(t) \in PCs /\ Done(t) \notin FSPCs /\ Done(t) \notin MuPCs
    BY <1>2 DEF Done, FSPCs, MuPCs
  <2>. QED  BY <2>1, <2>2, <2>3, LocksDropped, LockNames DEF FSPCs, MuPCs
<1>6. CASE FlushRestore(t)
  <2>1. th[t].pc = "restore" /\ Moves(t, "restored") /\ th'[t].h = th[t].h /\ Take(th[t].h, t)
    BY <1>6, FlushMoves DEF FlushRestore, At, Keeps
  <2>. QED  BY <1>1, <1>2, <2>1, LockTaken, LockNames DEF FSPCs, MuPCs
<1>7. CASE FlushRestored(t)
  <2>1. th[t].pc = "restored" /\ Moves(t, Done(t)) /\ Drop({th[t].h, "fs"})
    BY <1>7, FlushMoves DEF FlushRestored, At
  <2>2. lock["fs"] = t /\ lock[th[t].h] = t /\ {th[t].h, "fs"} \in SUBSET Locks
    BY <1>1, <2>1, LockNames DEF LocksOK, FSHeld, MuKept, FSPCs
  <2>3. Done(t) \in PCs /\ Done(t) \notin FSPCs /\ Done(t) \notin MuPCs /\ Done(t) # "unlock"
    BY <1>2 DEF Done, FSPCs, MuPCs
  <2>. QED  BY <1>1, <2>1, <2>2, <2>3, LocksDropped, LockNames DEF FSPCs
<1>. QED  BY <1>3, <1>4, <1>5, <1>6, <1>7

LEMMA LocksStep ==
  ASSUME TypeOK, ThreadsOK, LocksOK, [Next]_vars
  PROVE  LocksOK'
<1>1. CASE UNCHANGED vars
  BY <1>1 DEF vars, LocksOK, FSHeld, HandlesHeld, MuHeld, MuKept
<1>2. ASSUME NEW t \in Threads, Start(t) \/ Step(t)
      PROVE  LocksOK'
  BY <1>2, LocksStart, LocksRest, LocksWrite, LocksFlush DEF Step, LockFS
<1>. QED  BY <1>1, <1>2 DEF Next

\* Locks nest one way: fs.mu, then h.mu, then handlesMu.  Whoever holds handlesMu
\* waits for nothing, whoever holds h.mu at most for handlesMu, and whoever holds
\* fs.mu for one of the other two.
LEMMA LockOrder ==
  ASSUME TypeOK, ThreadsOK, LocksOK, NEW t \in Threads
  PROVE  /\ lock["handles"] = t => Wants(t) = None
         /\ \A h \in Handles : lock[h] = t => Wants(t) \in {None, "handles"}
         /\ lock["fs"] = t => Wants(t) \in {None, "handles"} \cup Handles
         /\ Wants(t) \in {None, "fs", "handles"} \cup Handles
<1>1. lock["handles"] = t => Wants(t) = None
  BY DEF LocksOK, HandlesHeld, Wants
<1>2. \A h \in Handles : lock[h] = t => Wants(t) \in {None, "handles"}
  BY DEF LocksOK, MuHeld, MuPCs, Wants
<1>3. lock["fs"] = t => Wants(t) \in {None, "handles"} \cup Handles
  BY DEF LocksOK, FSHeld, FSPCs, Wants, ThreadsOK, ServesHandle
<1>4. Wants(t) \in {None, "fs", "handles"} \cup Handles
  BY DEF Wants, ThreadsOK, ServesHandle
<1>. QED  BY <1>1, <1>2, <1>3, <1>4

LEMMA NoCircle ==
  ASSUME TypeOK, ThreadsOK, LocksOK
  PROVE  NoCircularWait
<1> SUFFICES ASSUME NEW S \in (SUBSET Threads) \ {{}}
             PROVE  \E t \in S : BlockedBy(t) \notin S
  BY Zenon DEF NoCircularWait
<1> SUFFICES ASSUME \A u \in S : BlockedBy(u) \in S
             PROVE  FALSE
  OBVIOUS
<1>1. PICK t \in S : TRUE
  OBVIOUS
<1>2. \A u \in S : Wants(u) # None /\ lock[Wants(u)] \in S
  BY LockNames DEF BlockedBy
<1>3. \A u \in S : Wants(u) # "handles"
  BY <1>2, LockOrder
<1>4. \A u \in S : Wants(u) \notin Handles
  <2>1. ASSUME NEW u \in S, Wants(u) \in Handles
        PROVE  FALSE
    <3>1. PICK v \in S : lock[Wants(u)] = v
      BY <1>2
    <3>2. Wants(v) \in {None, "handles"}
      BY <2>1, <3>1, LockOrder
    <3>. QED  BY <1>2, <1>3, <3>2
  <2>. QED  BY <2>1
<1>5. Wants(t) = "fs"
  BY <1>2, <1>3, <1>4, LockOrder
<1>6. PICK v \in S : lock["fs"] = v
  BY <1>2, <1>5
<1>7. Wants(v) \in {None, "handles"} \cup Handles
  BY <1>6, LockOrder
<1>. QED  BY <1>2, <1>3, <1>4, <1>7

-----------------------------------------------------------------------------
(***************************************************************************)
(* Loads and saves of the index.                                           *)
(***************************************************************************)
\* A goroutine about to change the index it has loaded has the current one, and
\* one about to save has changed the entry of its own file only.
Loaded == \A t \in Threads : th[t].pc \in {"growsave", "append"} => th[t].idx = index
Changed ==
  \A t \in Threads : th[t].pc = "save" =>
    \A p \in Paths \ {PathAt(t)} : th[t].idx[p] = index[p]

IndexOK == Loaded /\ Changed

\* fs.mu has one holder.
LEMMA OneInside ==
  ASSUME LocksOK, NEW t \in Threads, NEW u \in Threads,
         th[t].pc \in FSPCs, th[u].pc \in FSPCs
  PROVE  t = u
BY DEF LocksOK, FSHeld

\* A step that leaves the index alone.
LEMMA IndexUntouched ==
  ASSUME IndexOK, NEW t \in Threads, NEW l \in PCs, Moves(t, l), UNCHANGED index,
         l \in {"growsave", "append"} => th'[t].idx = index,
         l = "save" => th'[t].h = th[t].h
                       /\ \A p \in Paths \ {PathAt(t)} : th'[t].idx[p] = index[p]
  PROVE  IndexOK'
<1>1. Loaded'
  BY DEF IndexOK, Loaded, Moves
<1>2. Changed'
  <2>1. ASSUME NEW u \in Threads, th'[u].pc = "save", NEW p \in Paths \ {PathOf[th'[u].h]}
        PROVE  th'[u].idx[p] = index'[p]
    <3>1. CASE u = t
      BY <2>1, <3>1 DEF Moves, PathAt
    <3>2. CASE u # t
      BY <2>1, <3>2 DEF IndexOK, Changed, Moves, PathAt
    <3>. QED  BY <3>1, <3>2
  <2>. QED  BY <2>1 DEF Changed, PathAt
<1>. QED  BY <1>1, <1>2 DEF IndexOK

\* A goroutine that saves the index is the only one that has one.
LEMMA IndexSaved ==
  ASSUME TypeOK, ThreadsOK, LocksOK, IndexOK, NEW t \in Threads,
         WriteGrowSave(t) \/ FlushSave(t)
  PROVE  /\ IndexOK'
         /\ th[t].pc \in {"growsave", "save"}
         /\ \A p \in Paths : index'[p] # index[p] => PathAt(t) = p
<1>1. th[t].pc \in {"growsave", "save"} /\ th[t].pc \in FSPCs /\ th[t].h \in Handles
  BY DEF WriteGrowSave, FlushSave, At, FSPCs, ThreadsOK, ServesHandle
<1>2. PICK l \in {"idle", "remove"} : Moves(t, l)
  BY WriteMoves, FlushMoves
<1>3. IndexOK'
  BY <1>1, <1>2, OneInside DEF IndexOK, Loaded, Changed, Moves, FSPCs
<1>4. \A p \in Paths : index'[p] # index[p] => PathAt(t) = p
  <2>1. CASE WriteGrowSave(t)
    <3>1. th[t].idx = index
      BY <2>1 DEF WriteGrowSave, At, IndexOK, Loaded
    <3>. QED  BY <2>1, <3>1 DEF WriteGrowSave, TypeOK, IndexFiles
  <2>2. CASE FlushSave(t)
    BY <2>2 DEF FlushSave, At, IndexOK, Changed
  <2>. QED  BY <2>1, <2>2
<1>. QED  BY <1>1, <1>3, <1>4

\* Every other step leaves it alone.
LEMMA IndexKept ==
  ASSUME TypeOK, ThreadsOK, LocksOK, IndexOK, NEW t \in Threads,
         Start(t) \/ Step(t), ~(WriteGrowSave(t) \/ FlushSave(t))
  PROVE  IndexOK' /\ UNCHANGED index
<1>1. CASE Start(t)
  <2>1. UNCHANGED index
    BY <1>1 DEF Start, StartWrite, StartRead, StartFlush, StartRelease, FlushFiles
  <2>2. PICK l \in {"check", "readbuf", "take", "next"} : Moves(t, l)
    BY <1>1, BeginMoves, FlushFilesMoves DEF TypeOK, Begins, Start
  <2>. QED
    BY <2>1, <2>2, IndexUntouched DEF PCs, WritePCs, ReadPCs, FlushPCs
<1>2. CASE FlushAppend(t)
  <2>1. UNCHANGED index /\ th[t].idx = index
    BY <1>2 DEF FlushAppend, At, IndexOK, Loaded
  <2>2. CASE Moves(t, "restore")
    BY <2>1, <2>2, IndexUntouched DEF PCs, FlushPCs
  <2>3. CASE /\ Moves(t, "save") /\ KeepsBut(t)
             /\ \A p \in Paths \ {PathAt(t)} : th'[t].idx[p] = th[t].idx[p]
    BY <2>1, <2>3, IndexUntouched DEF PCs, FlushPCs, KeepsBut
  <2>. QED  BY <1>2, <2>2, <2>3, FlushMoves
<1>3. CASE WriteGrow(t) \/ FlushLock(t)
  <2>1. UNCHANGED index
    BY <1>3 DEF WriteGrow, FlushLock
  <2>2. PICK l \in {"growsave", "append"} : Moves(t, l) /\ th'[t].idx = index
    BY <1>3, WriteMoves, FlushMoves
  <2>. QED  BY <2>1, <2>2, IndexUntouched DEF PCs, WritePCs, FlushPCs
<1>4. CASE \/ WriteCheck(t) \/ WritePreload(t) \/ WriteInstall(t) \/ WriteRegister(t)
           \/ WriteApply(t) \/ FlushTake(t) \/ FlushRemove(t) \/ FlushUnlock(t)
           \/ FlushRestore(t) \/ FlushRestored(t)
           \/ ReadBuffer(t) \/ ReadTape(t) \/ ReadReply(t) \/ FlushNext(t)
  <2>1. UNCHANGED index
    BY <1>4
    DEF WriteCheck, WritePreload, WriteInstall, WriteRegister, WriteApply, FlushTake, FlushRemove,
        FlushUnlock, FlushRestore, FlushRestored, ReadBuffer, ReadTape, ReadReply, FlushNext
  <2>2. PICK l \in PCs \ {"growsave", "append", "save"} : Moves(t, l)
    BY <1>4, WriteMoves, FlushMoves, ReadMoves, FlushNextMoves
    DEF Done, PCs, WritePCs, FlushPCs, ReadPCs
  <2>. QED  BY <2>1, <2>2, IndexUntouched
<1>. QED  BY <1>1, <1>2, <1>3, <1>4 DEF Step, LockFS

-----------------------------------------------------------------------------
(***************************************************************************)
(* The locks' invariant and what follows from it.                          *)
(***************************************************************************)
LockInv == TypeOK /\ ThreadsOK /\ LocksOK /\ IndexOK

LEMMA LockInvInit == Init => LockInv
<1>1. Init => IndexOK
  BY IdleState DEF Init, IndexOK, Loaded, Changed
<1>. QED  BY <1>1, TypeInit, LocksInit DEF LockInv

LEMMA LockInvStep == LockInv /\ [Next]_vars => LockInv'
<1>1. SUFFICES ASSUME LockInv, [Next]_vars
               PROVE  IndexOK'
  BY TypeStep, LocksStep DEF LockInv
<1>2. CASE UNCHANGED vars
  BY <1>1, <1>2 DEF LockInv, vars, IndexOK, Loaded, Changed, PathAt
<1>3. ASSUME NEW t \in Threads, Start(t) \/ Step(t)
      PROVE  IndexOK'
  BY <1>1, <1>3, IndexSaved, IndexKept DEF LockInv
<1>. QED  BY <1>1, <1>2, <1>3 DEF Next

\* The three kinds of lock of a mounted letter are never waited for in a circle
\* (file.go, buffer.go, tapefs.go), however many goroutines and handles there are.
THEOREM NeverCircular == Spec => []NoCircularWait
<1>1. LockInv => NoCircularWait
  BY NoCircle DEF LockInv
<1>. QED  BY <1>1, LockInvInit, LockInvStep, PTL DEF Spec

\* A save of the index by Write or flushBuffer changes the entry of its own file
\* only, and brings back no older entry of another file.
THEOREM IndexUpdatesAlwaysKept == Spec => IndexUpdatesKept
<1> DEFINE Own == \A p \in Paths : index'[p] # index[p] =>
                    \E t \in Threads : th[t].pc \in {"growsave", "save"} /\ PathAt(t) = p
<1>1. LockInv /\ [Next]_vars => [Own]_vars
  <2>1. SUFFICES ASSUME LockInv, NEW t \in Threads, Start(t) \/ Step(t)
                 PROVE  Own
    BY DEF Next
  <2>. QED  BY <2>1, IndexSaved, IndexKept DEF LockInv
<1>. QED  BY <1>1, LockInvInit, LockInvStep, PTL DEF Spec, IndexUpdatesKept

-----------------------------------------------------------------------------
(***************************************************************************)
(* Handles that nobody shares: one goroutine at a time on each, no         *)
(* flushfiles command, and a file of its own for each.                     *)
(***************************************************************************)
Serial ==
  /\ Shared = {} /\ Flushers = {}
  /\ \A g, h \in Handles : PathOf[g] = PathOf[h] => g = h

OnTape(h) == index[PathOf[h]].data

\* A handle whose acknowledged writes are buffered or on tape.
RestOK(h) ==
  /\ dirty[h] <=> wbuf[h] # None
  /\ acked[h] \subseteq (IF dirty[h] THEN wbuf[h] ELSE OnTape(h))
  /\ dirty[h] => h \in handles

\* A handle with a buffer that is not dirty yet.
BufferOK(h) ==
  /\ wbuf[h] # None /\ acked[h] \subseteq wbuf[h]
  /\ ~dirty[h] => acked[h] \subseteq OnTape(h)
  /\ dirty[h] => h \in handles

\* A handle whose buffer t has taken away.
TakenOK(t, h) ==
  /\ wbuf[h] = None /\ ~dirty[h] /\ h \in handles
  /\ acked[h] \subseteq th[t].buf

RestPCs == {"check", "preload", "install", "grow", "growsave", "take", "remove", "unlock"}
              \cup ReadPCs
TakenPCs == {"lockfs", "append", "save", "restore", "restored"}

\* A handle that t serves, at each of t's steps.
BusyOK(t, h) ==
  /\ th[t].pc \in RestPCs => RestOK(h)
  /\ th[t].pc \in {"register", "apply"} => BufferOK(h)
  /\ th[t].pc \in TakenPCs => TakenOK(t, h)
  /\ th[t].pc \in {"preload", "install", "remove", "unlock"} => wbuf[h] = None
  /\ th[t].pc = "install" => acked[h] \subseteq th[t].buf
  /\ th[t].pc = "apply" => h \in handles
  /\ th[t].pc \in {"grow", "growsave"} => dirty[h] /\ th[t].byte \in wbuf[h]
  /\ th[t].pc = "save" => th[t].idx[PathOf[h]].data = th[t].buf
  /\ th[t].pc \in {"readbuf", "readtape"} => th[t].base \subseteq acked[h]
  /\ th[t].pc = "readtape" => ~dirty[h]
  /\ th[t].pc = "reply" => th[t].base \subseteq th[t].buf

Calm == \A t \in Threads : th[t].pc \notin {"next", "panicked"}
IdleFree == \A t \in Threads : th[t].pc = "idle" => th[t].h = None
Exclusive == \A t, u \in Threads : th[t].h \in Handles /\ th[t].h = th[u].h => t = u
Busy == \A t \in Threads, h \in Handles : th[t].h = h => BusyOK(t, h)
Resting == \A h \in Handles : (\A t \in Threads : th[t].h # h) => RestOK(h)

SerialInv == Calm /\ IdleFree /\ Exclusive /\ Busy /\ Resting

LEMMA SerialInit ==
  ASSUME Init
  PROVE  SerialInv
<1>1. \A t \in Threads : th[t].pc = "idle" /\ th[t].h \notin Handles
  BY IdleState, NoneAssumption DEF Init
<1>2. Calm /\ IdleFree /\ Exclusive /\ Busy
  BY <1>1, IdleState DEF Init, Calm, IdleFree, Exclusive, Busy
<1>3. Resting
  BY DEF Init, Resting, RestOK
<1>. QED  BY <1>2, <1>3 DEF SerialInv

\* Nothing about the other handles changes.
Only(h) ==
  \A g \in Handles \ {h} :
    /\ wbuf'[g] = wbuf[g] /\ dirty'[g] = dirty[g] /\ acked'[g] = acked[g]
    /\ g \in handles' <=> g \in handles
    /\ index'[PathOf[g]].data = index[PathOf[g]].data

\* What holds of a handle holds after a step at another one.
LEMMA OthersStay ==
  ASSUME NEW h \in Handles, Only(h), NEW g \in Handles \ {h}
  PROVE  /\ RestOK(g) => RestOK(g)'
         /\ \A u \in Threads : th'[u] = th[u] /\ BusyOK(u, g) => BusyOK(u, g)'
<1>1. RestOK(g) => RestOK(g)'
  BY DEF Only, RestOK, OnTape
<1>2. BufferOK(g) => BufferOK(g)'
  BY DEF Only, BufferOK, OnTape
<1>3. \A u \in Threads : th'[u] = th[u] /\ TakenOK(u, g) => TakenOK(u, g)'
  BY DEF Only, TakenOK
<1>4. \A u \in Threads : th'[u] = th[u] /\ BusyOK(u, g) => BusyOK(u, g)'
  BY <1>1, <1>2, <1>3 DEF Only, BusyOK
<1>. QED  BY <1>1, <1>4

\* A step of t, at handle h, which it alone serves or begins to serve.
LEMMA SerialFrame ==
  ASSUME SerialInv, NEW t \in Threads, NEW h \in Handles, NEW l \in PCs,
         Moves(t, l), Only(h),
         th[t].h \in {h, None}, \A u \in Threads \ {t} : th[u].h # h,
         th'[t].h = h \/ (th'[t].h = None /\ l = "idle"),
         l \notin {"next", "panicked"}, l = "idle" => th'[t].h = None,
         th'[t].h = h => BusyOK(t, h)',
         th'[t].h = None => RestOK(h)'
  PROVE  SerialInv'
<1>1. Calm' /\ IdleFree'
  BY DEF SerialInv, Calm, IdleFree, Moves
<1>2. Exclusive'
  BY NoneAssumption DEF SerialInv, Exclusive, Moves
<1>3. Busy'
  <2>1. ASSUME NEW u \in Threads, NEW g \in Handles, th'[u].h = g
        PROVE  BusyOK(u, g)'
    <3>1. CASE u = t
      <4>1. g = h
        BY <2>1, <3>1, NoneAssumption
      <4>. QED  BY <2>1, <3>1, <4>1
    <3>2. CASE u # t
      <4>1. th'[u] = th[u] /\ g # h
        BY <2>1, <3>2 DEF Moves
      <4>2. BusyOK(u, g)
        BY <2>1, <4>1 DEF SerialInv, Busy
      <4>. QED  BY <4>1, <4>2, OthersStay
    <3>. QED  BY <3>1, <3>2
  <2>. QED  BY <2>1 DEF Busy
<1>4. Resting'
  <2>1. ASSUME NEW g \in Handles, \A u \in Threads : th'[u].h # g
        PROVE  RestOK(g)'
    <3>1. CASE g = h
      BY <2>1, <3>1
    <3>2. CASE g # h
      <4>1. \A u \in Threads : th[u].h # g
        BY <2>1, <3>2, NoneAssumption DEF Moves
      <4>2. RestOK(g)
        BY <4>1 DEF SerialInv, Resting
      <4>. QED  BY <3>2, <4>2, OthersStay
    <3>. QED  BY <3>1, <3>2
  <2>. QED  BY <2>1 DEF Resting
<1>. QED  BY <1>1, <1>2, <1>3, <1>4 DEF SerialInv

\* Whoever serves a handle is alone there.
LEMMA Alone ==
  ASSUME LockInv, SerialInv, NEW t \in Threads, th[t].pc # "idle"
  PROVE  /\ th[t].h \in Handles /\ BusyOK(t, th[t].h)
         /\ \A u \in Threads \ {t} : th[u].h # th[t].h
         /\ th[t].h # None
<1>1. th[t].h \in Handles
  BY DEF LockInv, ThreadsOK, ServesHandle, SerialInv, Calm
<1>. QED  BY <1>1, NoneAssumption DEF SerialInv, Exclusive, Busy

\* A request comes to a handle nobody serves.
LEMMA SerialStart ==
  ASSUME Serial, LockInv, SerialInv, NEW t \in Threads, Start(t)
  PROVE  SerialInv'
<1>1. t \in Clients /\ Threads = Clients
  BY DEF Serial, Threads
<1>2. PICK h \in Handles :
           \/ \E w \in BytePositions : StartWrite(t, h, w)
           \/ StartRead(t, h) \/ StartFlush(t, h) \/ StartRelease(t, h)
  BY <1>1 DEF Start, Serial
<1>3. UNCHANGED <<index, wbuf, dirty, handles, acked>> /\ th[t].pc = "idle" /\ ~Serving(h)
  BY <1>2 DEF StartWrite, StartRead, StartFlush, StartRelease, Accepts, At, Serial
<1>4. th[t].h = None /\ \A u \in Threads : th[u].h # h
  BY <1>1, <1>3, NoneAssumption DEF SerialInv, IdleFree, Calm, Serving, At
<1>5. RestOK(h)
  BY <1>4 DEF SerialInv, Resting
<1>6. Only(h) /\ RestOK(h)'
  BY <1>3, <1>5 DEF Only, RestOK, OnTape
<1>7. PICK l \in {"check", "readbuf", "take"} :
           /\ Moves(t, l) /\ th'[t].h = h
           /\ l = "readbuf" => th'[t].base = acked[h]
  BY <1>2, BeginMoves DEF LockInv, TypeOK, Begins
<1>8. BusyOK(t, h)'
  BY <1>3, <1>6, <1>7 DEF BusyOK, Moves, RestPCs, TakenPCs, ReadPCs
<1>. QED
  BY <1>4, <1>6, <1>7, <1>8, SerialFrame, NoneAssumption DEF PCs, WritePCs, ReadPCs, FlushPCs

\* The steps of a write before it changes the index.
LEMMA SerialWrite ==
  ASSUME Serial, LockInv, SerialInv, NEW t \in Threads,
         \/ WriteCheck(t) \/ WritePreload(t) \/ WriteInstall(t) \/ WriteRegister(t)
         \/ WriteApply(t) \/ WriteGrow(t)
  PROVE  SerialInv'
<1>1. th[t].pc \in {"check", "preload", "install", "register", "apply", "grow"}
  BY DEF WriteCheck, WritePreload, WriteInstall, WriteRegister, WriteApply, WriteGrow, At
<1>2. PICK h \in Handles : /\ th[t].h = h /\ BusyOK(t, h) /\ h # None
                          /\ \A u \in Threads \ {t} : th[u].h # h
  BY <1>1, Alone
<1>3. TypeOK /\ ThreadsOK /\ th \in [Threads -> ThreadStates]
  BY DEF LockInv, TypeOK
<1>4. UNCHANGED <<index, acked>>
  BY DEF WriteCheck, WritePreload, WriteInstall, WriteRegister, WriteApply, WriteGrow
<1>5. SUFFICES ASSUME NEW l \in PCs \ {"idle", "next", "panicked"}, Moves(t, l), th'[t].h = h
               PROVE  Only(h) /\ BusyOK(t, h)'
  <2>1. \E l \in PCs \ {"idle", "next", "panicked"} : Moves(t, l) /\ th'[t].h = h
    <3>1. CASE WriteApply(t)
      <4>1. wbuf[h] # None
        BY <1>2, <3>1 DEF WriteApply, At, BusyOK, BufferOK
      <4>2. Goto(t, "grow")
        BY <1>2, <3>1, <4>1 DEF WriteApply
      <4>. QED  BY <1>2, <1>3, <4>2, GotoMoves DEF PCs, WritePCs, Keeps
    <3>2. CASE ~WriteApply(t)
      BY <1>2, <1>3, <3>2, WriteMoves DEF PCs, WritePCs, Keeps, KeepsBut
    <3>. QED  BY <3>1, <3>2
  <2>. QED  BY <1>2, <1>5, <2>1, SerialFrame
<1>6. CASE WriteCheck(t)
  <2>1. UNCHANGED <<wbuf, dirty, handles>> /\ th[t].pc = "check" /\ RestOK(h)
    BY <1>2, <1>6 DEF WriteCheck, At, BusyOK, RestPCs
  <2>2. Only(h) /\ RestOK(h)'
    BY <1>4, <2>1 DEF Only, RestOK, OnTape
  <2>3. CASE wbuf[h] = None
    <3>1. th'[t].pc = "preload"
      BY <1>2, <1>3, <1>6, <2>3, GotoMoves DEF WriteCheck, PCs, WritePCs, Moves
    <3>. QED
      BY <1>4, <1>5, <2>1, <2>2, <2>3, <3>1 DEF BusyOK, RestPCs, TakenPCs, ReadPCs
  <2>4. CASE wbuf[h] # None
    <3>1. th'[t].pc = "apply"
      BY <1>2, <1>3, <1>6, <2>4, GotoMoves DEF WriteCheck, PCs, WritePCs, Moves
    <3>2. BufferOK(h)'
      BY <1>4, <2>1, <2>4 DEF RestOK, BufferOK
    <3>3. h \in handles'
      BY <2>1, <2>4 DEF RestOK
    <3>. QED
      BY <2>2, <3>1, <3>2, <3>3 DEF BusyOK, RestPCs, TakenPCs, ReadPCs
  <2>. QED  BY <2>3, <2>4
<1>7. CASE WritePreload(t)
  <2>1. UNCHANGED <<wbuf, dirty, handles>> /\ th[t].pc = "preload" /\ RestOK(h) /\ wbuf[h] = None
    BY <1>2, <1>7 DEF WritePreload, At, BusyOK, RestPCs
  <2>2. Only(h) /\ RestOK(h)'
    BY <1>4, <2>1 DEF Only, RestOK, OnTape
  <2>3. th'[t].pc = "install" /\ th'[t].buf = OnTape(h)
    BY <1>2, <1>3, <1>7, WriteMoves DEF Moves, OnTape, PathAt
  <2>4. acked'[h] \subseteq th'[t].buf
    BY <1>4, <2>1, <2>3 DEF RestOK
  <2>. QED
    BY <2>1, <2>2, <2>3, <2>4 DEF BusyOK, RestPCs, TakenPCs, ReadPCs
<1>8. CASE WriteInstall(t)
  <2>1. UNCHANGED <<dirty, handles>> /\ th[t].pc = "install" /\ RestOK(h) /\ wbuf[h] = None
        /\ acked[h] \subseteq th[t].buf
    BY <1>2, <1>8 DEF WriteInstall, At, BusyOK, RestPCs
  <2>2. wbuf' = [wbuf EXCEPT ![h] = th[t].buf] /\ Goto(t, "register")
    BY <1>2, <1>8, <2>1 DEF WriteInstall
  <2>3. th'[t].pc = "register" /\ th[t].buf \in Contents
    BY <1>3, <2>2, GotoMoves DEF PCs, WritePCs, Moves, ThreadStates
  <2>4. wbuf'[h] = th[t].buf /\ wbuf'[h] # None
    BY <1>2, <1>3, <2>2, <2>3, NoneAssumption DEF TypeOK
  <2>5. Only(h)
    BY <1>3, <1>4, <2>1, <2>2 DEF Only, TypeOK
  <2>6. BufferOK(h)'
    BY <1>4, <2>1, <2>4 DEF RestOK, BufferOK, OnTape
  <2>. QED  BY <2>3, <2>5, <2>6 DEF BusyOK, RestPCs, TakenPCs, ReadPCs
<1>9. CASE WriteRegister(t)
  <2>1. UNCHANGED <<wbuf, dirty>> /\ th[t].pc = "register" /\ BufferOK(h)
        /\ handles' = handles \cup {h}
    BY <1>2, <1>9 DEF WriteRegister, At, BusyOK
  <2>2. th'[t].pc = "apply"
    BY <1>3, <1>9, WriteMoves DEF Moves
  <2>3. Only(h) /\ BufferOK(h)' /\ h \in handles'
    BY <1>4, <2>1 DEF Only, BufferOK, OnTape
  <2>. QED  BY <2>2, <2>3 DEF BusyOK, RestPCs, TakenPCs, ReadPCs
<1>10. CASE WriteApply(t)
  <2>1. UNCHANGED handles /\ th[t].pc = "apply" /\ BufferOK(h) /\ h \in handles
    BY <1>2, <1>10 DEF WriteApply, At, BusyOK
  <2>2. /\ wbuf' = [wbuf EXCEPT ![h] = wbuf[h] \cup {th[t].byte}]
        /\ dirty' = [dirty EXCEPT ![h] = TRUE] /\ Goto(t, "grow")
    BY <1>2, <1>10, <2>1 DEF WriteApply, BufferOK
  <2>3. th'[t].pc = "grow" /\ th'[t].byte = th[t].byte
    BY <1>3, <2>2, GotoMoves DEF PCs, WritePCs, Moves, Keeps
  <2>4. wbuf[h] \in Contents /\ th[t].byte \in BytePositions
    BY <1>2, <1>3, <2>1 DEF TypeOK, BufferOK, ThreadsOK, HasByte, WritePCs
  <2>5. wbuf[h] \cup {th[t].byte} \in Contents
    BY <2>4 DEF Contents
  <2>6. wbuf'[h] = wbuf[h] \cup {th[t].byte} /\ wbuf'[h] # None /\ dirty'[h] = TRUE
    BY <1>2, <1>3, <2>2, <2>5, NoneAssumption DEF TypeOK
  <2>7. Only(h)
    BY <1>3, <1>4, <2>1, <2>2 DEF Only, TypeOK
  <2>8. RestOK(h)'
    BY <1>4, <2>1, <2>6 DEF RestOK, BufferOK
  <2>. QED  BY <2>3, <2>6, <2>7, <2>8 DEF BusyOK, RestPCs, TakenPCs, ReadPCs
<1>11. CASE WriteGrow(t)
  <2>1. UNCHANGED <<wbuf, dirty, handles>> /\ th[t].pc = "grow" /\ RestOK(h)
        /\ dirty[h] /\ th[t].byte \in wbuf[h]
    BY <1>2, <1>11 DEF WriteGrow, At, BusyOK, RestPCs
  <2>2. th'[t].pc = "growsave" /\ th'[t].byte = th[t].byte
    BY <1>3, <1>11, WriteMoves DEF Moves, KeepsBut
  <2>3. Only(h) /\ RestOK(h)'
    BY <1>4, <2>1 DEF Only, RestOK, OnTape
  <2>. QED  BY <2>1, <2>2, <2>3 DEF BusyOK, RestPCs, TakenPCs, ReadPCs
<1>. QED  BY <1>6, <1>7, <1>8, <1>9, <1>10, <1>11

\* A save of the index keeps the data of the other files.
LEMMA SavedOnly ==
  ASSUME Serial, LockInv, NEW t \in Threads, WriteGrowSave(t) \/ FlushSave(t),
         NEW h \in Handles, th[t].h = h
  PROVE  \A g \in Handles \ {h} : index'[PathOf[g]].data = index[PathOf[g]].data
<1>1. \A p \in Paths : index'[p] # index[p] => PathOf[h] = p
  BY IndexSaved DEF LockInv, PathAt
<1>. QED  BY <1>1, HandleAssumption DEF Serial

\* The end of a write, acknowledged with its byte in a dirty buffer.
LEMMA SerialGrowSave ==
  ASSUME Serial, LockInv, SerialInv, NEW t \in Threads, WriteGrowSave(t)
  PROVE  SerialInv'
<1>1. th[t].pc = "growsave" /\ UNCHANGED <<wbuf, dirty, handles>> /\ TypeOK /\ ThreadsOK
  BY DEF WriteGrowSave, At, LockInv
<1>2. PICK h \in Handles : /\ th[t].h = h /\ BusyOK(t, h) /\ h # None
                          /\ \A u \in Threads \ {t} : th[u].h # h
  BY <1>1, Alone
<1>3. RestOK(h) /\ dirty[h] /\ th[t].byte \in wbuf[h]
  BY <1>1, <1>2 DEF BusyOK, RestPCs
<1>4. acked' = [acked EXCEPT ![h] = acked[h] \cup {th[t].byte}]
  BY <1>2 DEF WriteGrowSave
<1>5. Only(h)
  BY <1>1, <1>2, <1>4, SavedOnly DEF Only, TypeOK
<1>6. RestOK(h)'
  <2>1. acked'[h] = acked[h] \cup {th[t].byte}
    BY <1>1, <1>4 DEF TypeOK
  <2>. QED  BY <1>1, <1>3, <2>1 DEF RestOK
<1>7. Moves(t, "idle") /\ th'[t].h = None
  BY <1>1, WriteMoves
<1>. QED  BY <1>2, <1>5, <1>6, <1>7, SerialFrame DEF PCs

\* The steps of a flush up to the save.
LEMMA SerialFlush ==
  ASSUME Serial, LockInv, SerialInv, NEW t \in Threads,
         \/ FlushTake(t) \/ FlushLock(t) \/ FlushAppend(t) \/ FlushSave(t)
  PROVE  SerialInv'
<1>1. th[t].pc \in {"take", "lockfs", "append", "save"} /\ TypeOK /\ ThreadsOK
  BY DEF FlushTake, FlushLock, FlushAppend, FlushSave, At, LockInv
<1>2. PICK h \in Handles : /\ th[t].h = h /\ BusyOK(t, h) /\ h # None
                          /\ \A u \in Threads \ {t} : th[u].h # h
  BY <1>1, Alone
<1>3. UNCHANGED <<handles, acked>>
  BY DEF FlushTake, FlushLock, FlushAppend, FlushSave
<1>4. CASE FlushTake(t)
  <2>1. th[t].pc = "take" /\ RestOK(h) /\ UNCHANGED index
    BY <1>2, <1>4 DEF FlushTake, At, BusyOK, RestPCs
  <2>2. CASE Moves(t, Done(t)) /\ th'[t].h = None /\ UNCHANGED <<wbuf, dirty>>
    <3>1. Only(h) /\ RestOK(h)'
      BY <1>3, <2>1, <2>2 DEF Only, RestOK, OnTape
    <3>2. Done(t) = "idle"
      BY DEF Done, Serial
    <3>. QED  BY <1>2, <2>2, <3>1, <3>2, SerialFrame DEF PCs
  <2>3. CASE /\ Moves(t, "lockfs") /\ KeepsBut(t) /\ dirty[h] /\ wbuf[h] # None
             /\ th'[t].buf = wbuf[h]
             /\ wbuf' = [wbuf EXCEPT ![h] = None] /\ dirty' = [dirty EXCEPT ![h] = FALSE]
    <3>1. Only(h)
      BY <1>1, <1>3, <2>1, <2>3 DEF Only, TypeOK
    <3>2. TakenOK(t, h)'
      BY <1>1, <1>3, <2>1, <2>3 DEF TakenOK, RestOK, TypeOK
    <3>3. th'[t].pc = "lockfs" /\ th'[t].h = h
      BY <1>2, <2>3 DEF Moves, KeepsBut
    <3>4. BusyOK(t, h)'
      BY <3>2, <3>3 DEF BusyOK, RestPCs, ReadPCs
    <3>. QED  BY <1>2, <2>3, <3>1, <3>3, <3>4, SerialFrame DEF PCs, FlushPCs
  <2>. QED  BY <1>1, <1>2, <1>4, <2>2, <2>3, FlushMoves
<1>5. CASE FlushLock(t) \/ FlushAppend(t)
  <2>1. UNCHANGED <<index, wbuf, dirty>> /\ TakenOK(t, h)
    BY <1>2, <1>5 DEF FlushLock, FlushAppend, At, BusyOK, TakenPCs
  <2>2. Only(h)
    BY <1>3, <2>1 DEF Only
  <2>3. PICK l \in {"append", "save", "restore"} :
             /\ Moves(t, l) /\ th'[t].h = h /\ th'[t].buf = th[t].buf
             /\ l = "save" => th'[t].idx[PathOf[h]].data = th[t].buf
    BY <1>1, <1>2, <1>5, FlushMoves DEF Keeps, KeepsBut, PathAt
  <2>4. th'[t].pc = l /\ TakenOK(t, h)'
    BY <1>3, <2>1, <2>3 DEF TakenOK, Moves
  <2>5. BusyOK(t, h)'
    BY <2>3, <2>4 DEF BusyOK, RestPCs, ReadPCs
  <2>. QED  BY <1>2, <2>2, <2>3, <2>5, SerialFrame DEF PCs, FlushPCs
<1>6. CASE FlushSave(t)
  <2>1. UNCHANGED <<wbuf, dirty>> /\ TakenOK(t, h) /\ th[t].idx[PathOf[h]].data = th[t].buf
    BY <1>2, <1>6 DEF FlushSave, At, BusyOK, TakenPCs
  <2>2. Only(h)
    BY <1>2, <1>3, <1>6, <2>1, SavedOnly DEF Only
  <2>3. index' = th[t].idx
    BY <1>6 DEF FlushSave
  <2>4. Moves(t, "remove") /\ th'[t].h = h /\ th'[t].pc = "remove"
    BY <1>1, <1>2, <1>6, FlushMoves DEF Keeps, Moves
  <2>5. RestOK(h)' /\ wbuf'[h] = None
    BY <1>3, <2>1, <2>3 DEF RestOK, TakenOK, OnTape
  <2>6. BusyOK(t, h)'
    BY <2>4, <2>5 DEF BusyOK, TakenPCs, ReadPCs
  <2>. QED  BY <1>2, <2>2, <2>4, <2>6, SerialFrame DEF PCs, FlushPCs
<1>. QED  BY <1>4, <1>5, <1>6

\* The rest of a flush, successful or not.
LEMMA SerialFlushEnd ==
  ASSUME Serial, LockInv, SerialInv, NEW t \in Threads,
         \/ FlushRemove(t) \/ FlushUnlock(t) \/ FlushRestore(t) \/ FlushRestored(t)
  PROVE  SerialInv'
<1>1. th[t].pc \in {"remove", "unlock", "restore", "restored"} /\ TypeOK /\ ThreadsOK
  BY DEF FlushRemove, FlushUnlock, FlushRestore, FlushRestored, At, LockInv
<1>2. PICK h \in Handles : /\ th[t].h = h /\ BusyOK(t, h) /\ h # None
                          /\ \A u \in Threads \ {t} : th[u].h # h
  BY <1>1, Alone
<1>3. UNCHANGED <<index, acked>> /\ Done(t) = "idle"
  BY DEF FlushRemove, FlushUnlock, FlushRestore, FlushRestored, Done, Serial
<1>4. CASE FlushRemove(t)
  <2>1. UNCHANGED <<wbuf, dirty>> /\ RestOK(h) /\ wbuf[h] = None /\ handles' = handles \ {h}
    BY <1>2, <1>4 DEF FlushRemove, At, BusyOK, RestPCs
  <2>2. Only(h) /\ RestOK(h)'
    BY <1>3, <2>1 DEF Only, RestOK, OnTape
  <2>3. Moves(t, "unlock") /\ th'[t].h = h /\ th'[t].pc = "unlock"
    BY <1>1, <1>2, <1>4, FlushMoves DEF Keeps, Moves
  <2>4. BusyOK(t, h)'
    BY <2>1, <2>2, <2>3 DEF BusyOK, TakenPCs, ReadPCs
  <2>. QED  BY <1>2, <2>2, <2>3, <2>4, SerialFrame DEF PCs, FlushPCs
<1>5. CASE FlushUnlock(t)
  <2>1. UNCHANGED <<wbuf, dirty, handles>> /\ RestOK(h)
    BY <1>2, <1>5 DEF FlushUnlock, At, BusyOK, RestPCs
  <2>2. Only(h) /\ RestOK(h)'
    BY <1>3, <2>1 DEF Only, RestOK, OnTape
  <2>3. Moves(t, "idle") /\ th'[t].h = None
    BY <1>1, <1>3, <1>5, FlushMoves
  <2>. QED  BY <1>2, <2>2, <2>3, SerialFrame DEF PCs
<1>6. CASE FlushRestore(t)
  <2>1. UNCHANGED <<wbuf, dirty, handles>> /\ TakenOK(t, h)
    BY <1>2, <1>6 DEF FlushRestore, At, BusyOK, TakenPCs
  <2>2. Moves(t, "restored") /\ th'[t].h = h /\ th'[t].pc = "restored" /\ th'[t].buf = th[t].buf
    BY <1>1, <1>2, <1>6, FlushMoves DEF Keeps, Moves
  <2>3. Only(h) /\ TakenOK(t, h)'
    BY <1>3, <2>1, <2>2 DEF Only, TakenOK
  <2>4. BusyOK(t, h)'
    BY <2>2, <2>3 DEF BusyOK, RestPCs, ReadPCs
  <2>. QED  BY <1>2, <2>2, <2>3, <2>4, SerialFrame DEF PCs, FlushPCs
<1>7. CASE FlushRestored(t)
  <2>1. UNCHANGED handles /\ TakenOK(t, h)
    BY <1>2, <1>7 DEF FlushRestored, At, BusyOK, TakenPCs
  <2>2. wbuf' = [wbuf EXCEPT ![h] = th[t].buf] /\ dirty' = [dirty EXCEPT ![h] = TRUE]
    BY <1>2, <1>7, <2>1 DEF FlushRestored, TakenOK
  <2>3. th[t].buf \in Contents
    BY <1>1 DEF TypeOK, ThreadStates
  <2>4. wbuf'[h] = th[t].buf /\ wbuf'[h] # None /\ dirty'[h] = TRUE
    BY <1>1, <2>2, <2>3, NoneAssumption DEF TypeOK
  <2>5. Only(h)
    BY <1>1, <1>3, <2>1, <2>2 DEF Only, TypeOK
  <2>6. RestOK(h)'
    BY <1>3, <2>1, <2>4 DEF RestOK, TakenOK
  <2>7. Moves(t, "idle") /\ th'[t].h = None
    BY <1>1, <1>3, <1>7, FlushMoves
  <2>. QED  BY <1>2, <2>5, <2>6, <2>7, SerialFrame DEF PCs
<1>. QED  BY <1>4, <1>5, <1>6, <1>7

LEMMA SerialRead ==
  ASSUME Serial, LockInv, SerialInv, NEW t \in Threads,
         ReadBuffer(t) \/ ReadTape(t) \/ ReadReply(t)
  PROVE  SerialInv'
<1>1. th[t].pc \in ReadPCs /\ th[t].pc # "idle" /\ TypeOK /\ ThreadsOK
  BY DEF ReadBuffer, ReadTape, ReadReply, At, ReadPCs, LockInv
<1>2. PICK h \in Handles : /\ th[t].h = h /\ BusyOK(t, h) /\ h # None
                          /\ \A u \in Threads \ {t} : th[u].h # h
  BY <1>1, Alone
<1>3. UNCHANGED <<index, acked, wbuf, dirty, handles>> /\ RestOK(h)
  BY <1>1, <1>2 DEF ReadBuffer, ReadTape, ReadReply, BusyOK, RestPCs
<1>4. Only(h) /\ RestOK(h)'
  BY <1>3 DEF Only, RestOK, OnTape
<1>5. CASE ReadReply(t)
  <2>1. Moves(t, "idle") /\ th'[t].h = None
    BY <1>1, <1>5, ReadMoves
  <2>. QED  BY <1>2, <1>4, <2>1, SerialFrame DEF PCs
<1>6. CASE ReadBuffer(t)
  <2>1. th[t].base \subseteq acked[h]
    BY <1>2, <1>6 DEF ReadBuffer, At, BusyOK
  <2>2. CASE dirty[h] /\ wbuf[h] # None
    <3>1. Moves(t, "reply") /\ th'[t].h = h /\ th'[t].base = th[t].base
          /\ th'[t].buf = wbuf[h]
      <4>1. th' = [th EXCEPT ![t].pc = "reply", ![t].buf = wbuf[h]]
        BY <1>2, <1>6, <2>2 DEF ReadBuffer
      <4>2. wbuf[h] \in Contents
        BY <1>1, <2>2 DEF TypeOK
      <4>3. th \in [Threads -> ThreadStates] /\ "reply" \in PCs
        BY <1>1 DEF PCs, ReadPCs, TypeOK
      <4>4. Moves(t, "reply") /\ KeepsBut(t) /\ th'[t].buf = wbuf[h]
        BY <4>1, <4>2, <4>3, BufMoves
      <4>. QED  BY <1>2, <4>4 DEF KeepsBut
    <3>2. th'[t].pc = "reply" /\ th'[t].base \subseteq th'[t].buf
      BY <1>3, <2>1, <2>2, <3>1 DEF Moves, RestOK
    <3>3. BusyOK(t, h)'
      BY <1>4, <3>2 DEF BusyOK, TakenPCs
    <3>. QED  BY <1>2, <1>4, <3>1, <3>3, SerialFrame DEF PCs, ReadPCs
  <2>3. CASE ~dirty[h]
    <3>1. Goto(t, "readtape")
      BY <1>2, <1>6, <2>3 DEF ReadBuffer
    <3>2. Moves(t, "readtape") /\ Keeps(t)
      BY <1>1, <3>1, GotoMoves DEF PCs, ReadPCs, TypeOK
    <3>3. th'[t].pc = "readtape" /\ th'[t].h = h /\ th'[t].base \subseteq acked'[h] /\ ~dirty'[h]
      BY <1>2, <1>3, <2>1, <2>3, <3>2 DEF Moves, Keeps
    <3>4. BusyOK(t, h)'
      BY <1>4, <3>3 DEF BusyOK, TakenPCs
    <3>. QED  BY <1>2, <1>4, <3>2, <3>3, <3>4, SerialFrame DEF PCs, ReadPCs
  <2>. QED  BY <1>3, <2>2, <2>3 DEF RestOK
<1>7. CASE ReadTape(t)
  <2>1. th[t].base \subseteq acked[h] /\ ~dirty[h]
    BY <1>2, <1>7 DEF ReadTape, At, BusyOK
  <2>2. Moves(t, "reply") /\ th'[t].h = h /\ th'[t].base = th[t].base /\ th'[t].buf = OnTape(h)
    BY <1>1, <1>2, <1>7, ReadMoves DEF KeepsBut, OnTape, PathAt
  <2>3. th'[t].pc = "reply" /\ th'[t].base \subseteq th'[t].buf
    BY <1>3, <2>1, <2>2 DEF Moves, RestOK
  <2>4. BusyOK(t, h)'
    BY <1>4, <2>3 DEF BusyOK, TakenPCs
  <2>. QED  BY <1>2, <1>4, <2>2, <2>4, SerialFrame DEF PCs, ReadPCs
<1>. QED  BY <1>5, <1>6, <1>7

LEMMA SerialStep ==
  ASSUME Serial, LockInv, SerialInv, [Next]_vars
  PROVE  SerialInv'
<1>1. CASE UNCHANGED vars
  BY <1>1
  DEF vars, SerialInv, Calm, IdleFree, Exclusive, Busy, Resting, BusyOK, RestOK, BufferOK,
      TakenOK, OnTape
<1>2. ASSUME NEW t \in Threads, Start(t) \/ Step(t)
      PROVE  SerialInv'
  <2>1. ~FlushNext(t)
    BY DEF FlushNext, At, SerialInv, Calm
  <2>. QED
    BY <1>2, <2>1, SerialStart, SerialWrite, SerialGrowSave, SerialFlush, SerialFlushEnd,
       SerialRead
    DEF Step, LockFS
<1>. QED  BY <1>1, <1>2 DEF Next

-----------------------------------------------------------------------------
(***************************************************************************)
(* What a client of a handle of its own is promised.                       *)
(***************************************************************************)
LEMMA SerialAlways == Spec => [](Serial => LockInv /\ SerialInv)
<1> DEFINE I == LockInv /\ (Serial => SerialInv)
<1>1. Init => I
  BY LockInvInit, SerialInit
<1>2. I /\ [Next]_vars => I'
  BY LockInvStep, SerialStep
<1>. QED  BY <1>1, <1>2, PTL DEF Spec

LEMMA SerialNoLostWrite ==
  ASSUME LockInv, SerialInv
  PROVE  NoLostWrite
<1>1. SUFFICES ASSUME NEW h \in Handles, NEW w \in acked[h]
               PROVE  \/ w \in index[PathOf[h]].data
                      \/ dirty[h] /\ w \in wbuf[h]
                      \/ \E t \in Threads : Flushing(t) /\ th[t].h = h /\ w \in th[t].buf
  BY DEF NoLostWrite
<1>2. RestOK(h) => w \in OnTape(h) \/ (dirty[h] /\ w \in wbuf[h])
  BY DEF RestOK
<1>3. CASE \A t \in Threads : th[t].h # h
  BY <1>2, <1>3 DEF SerialInv, Resting, OnTape
<1>4. ASSUME NEW t \in Threads, th[t].h = h
      PROVE  \/ RestOK(h)
             \/ dirty[h] /\ w \in wbuf[h]
             \/ ~dirty[h] /\ w \in OnTape(h)
             \/ Flushing(t) /\ w \in th[t].buf
  <2>1. BusyOK(t, h) /\ th[t].pc \notin {"idle", "next", "panicked"}
    BY <1>4, NoneAssumption DEF SerialInv, Busy, IdleFree, Calm
  <2>2. th[t].pc \in RestPCs \cup {"register", "apply"} \cup TakenPCs
    BY <2>1 DEF LockInv, TypeOK, ThreadStates, WritePCs, FlushPCs, ReadPCs, RestPCs, TakenPCs
  <2>. QED  BY <2>1, <2>2 DEF BusyOK, BufferOK, TakenOK, TakenPCs, Flushing
<1>. QED  BY <1>2, <1>3, <1>4 DEF OnTape

LEMMA SerialDirtyRegistered ==
  ASSUME LockInv, SerialInv
  PROVE  DirtyRegistered
<1>1. ASSUME NEW h \in Handles, NEW t \in Threads, th[t].h = h, dirty[h]
      PROVE  h \in handles
  <2>1. BusyOK(t, h) /\ th[t].pc \notin {"idle", "next", "panicked"}
    BY <1>1, NoneAssumption DEF SerialInv, Busy, IdleFree, Calm
  <2>2. th[t].pc \in RestPCs \cup {"register", "apply"} \cup TakenPCs
    BY <2>1 DEF LockInv, TypeOK, ThreadStates, WritePCs, FlushPCs, ReadPCs, RestPCs, TakenPCs
  <2>. QED  BY <1>1, <2>1, <2>2 DEF BusyOK, RestOK, BufferOK, TakenOK
<1>2. ASSUME NEW h \in Handles, \A t \in Threads : th[t].h # h, dirty[h]
      PROVE  h \in handles
  BY <1>2 DEF SerialInv, Resting, RestOK
<1>. QED  BY <1>1, <1>2 DEF DirtyRegistered

LEMMA SerialReadYourWrites ==
  ASSUME LockInv, SerialInv
  PROVE  ReadYourWrites
BY Alone DEF ReadYourWrites, At, BusyOK

\* On handles nobody shares, with no flushfiles command, a write acknowledged by
\* FileHandle.Write is never lost by flushBuffer, whether or not appends fail.
THEOREM SerialWritesKept == Spec => [](Serial => NoLostWrite)
<1>1. (Serial => LockInv /\ SerialInv) => (Serial => NoLostWrite)
  BY SerialNoLostWrite
<1>. QED  BY <1>1, SerialAlways, PTL

\* There FileHandle.Read returns every write acknowledged before it began.
THEOREM SerialReadsCurrent == Spec => [](Serial => ReadYourWrites)
<1>1. (Serial => LockInv /\ SerialInv) => (Serial => ReadYourWrites)
  BY SerialReadYourWrites
<1>. QED  BY <1>1, SerialAlways, PTL

\* And FS.handles names every handle with pending data.
THEOREM SerialHandlesRegistered == Spec => [](Serial => DirtyRegistered)
<1>1. (Serial => LockInv /\ SerialInv) => (Serial => DirtyRegistered)
  BY SerialDirtyRegistered
<1>. QED  BY <1>1, SerialAlways, PTL

=============================================================================
