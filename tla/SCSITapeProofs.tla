--------------------------- MODULE SCSITapeProofs ---------------------------
(***************************************************************************)
(* Theorems about the SCSI drive under the operations of TapeFS, for a     *)
(* tape of any length, any contents and any indexes.                       *)
(***************************************************************************)
EXTENDS SCSITape, TapeLogProofs

-----------------------------------------------------------------------------
(***************************************************************************)
(* The position after a rewind and a number of spaces.                     *)
(***************************************************************************)
\* f holds the positions after a rewind and up to n spaces.
Positions(d, f, n) ==
  /\ f[0] = 0
  /\ \A i \in 1 .. n : f[i] = SpacedOver(d, i, f[i - 1])

\* There is only one such position after i of them.
LEMMA PositionsUnique ==
  ASSUME NEW d, NEW f, NEW g, NEW n \in Nat, NEW m \in Nat,
         Positions(d, f, n), Positions(d, g, m)
  PROVE  \A i \in Nat : i <= n /\ i <= m => f[i] = g[i]
<1> DEFINE T == {i \in Nat : i <= n /\ i <= m /\ f[i] # g[i]}
<1>1. SUFFICES ASSUME T # {}
               PROVE  FALSE
  OBVIOUS
<1>2. PICK x \in T : \A y \in T : x <= y
  BY <1>1, Least
<1>3. x # 0
  BY <1>2 DEF Positions
<1>4. x \in 1 .. n /\ x \in 1 .. m /\ x - 1 \in Nat /\ x - 1 <= n /\ x - 1 <= m
  BY <1>2, <1>3
<1>5. f[x - 1] = g[x - 1]
  BY <1>2, <1>4
<1>. QED  BY <1>2, <1>4, <1>5 DEF Positions

LEMMA PositionsExist ==
  ASSUME NEW d
  PROVE  \A n \in Nat : \E f : Positions(d, f, n)
<1> DEFINE T == {n \in Nat : ~ \E f : Positions(d, f, n)}
<1>1. SUFFICES ASSUME T # {}
               PROVE  FALSE
  OBVIOUS
<1>2. PICK x \in T : \A y \in T : x <= y
  BY <1>1, Least
<1>3. CASE x = 0
  <2>1. Positions(d, [i \in Nat |-> 0], 0)
    BY DEF Positions
  <2>. QED  BY <1>2, <1>3, <2>1
<1>4. CASE x # 0
  <2>1. x - 1 \in Nat /\ x \in Nat /\ x - 1 \notin T
    BY <1>2, <1>4
  <2>2. PICK f : Positions(d, f, x - 1)
    BY <2>1
  <2> DEFINE g == [i \in Nat |-> IF i = x THEN SpacedOver(d, x, f[x - 1]) ELSE f[i]]
  <2>3. g[0] = 0
    BY <1>4, <2>1, <2>2 DEF Positions
  <2>4. ASSUME NEW i \in 1 .. x
        PROVE  g[i] = SpacedOver(d, i, g[i - 1])
    <3>1. i \in Nat /\ i - 1 \in Nat /\ i - 1 # x
      BY <2>1
    <3>2. g[i - 1] = f[i - 1]
      BY <3>1
    <3>3. CASE i = x
      <4>1. g[i] = SpacedOver(d, x, f[x - 1])
        BY <3>1, <3>3
      <4>. QED  BY <3>2, <3>3, <4>1
    <3>4. CASE i # x
      <4>1. g[i] = f[i] /\ i \in 1 .. x - 1
        BY <2>1, <3>1, <3>4
      <4>2. f[i] = SpacedOver(d, i, f[i - 1])
        BY <2>2, <4>1 DEF Positions
      <4>. QED  BY <3>2, <4>1, <4>2
    <3>. QED  BY <3>3, <3>4
  <2>5. Positions(d, g, x)
    BY <2>3, <2>4 DEF Positions
  <2>. QED  BY <1>2, <2>5
<1>. QED  BY <1>3, <1>4

\* The recursion of Spaces has a solution, so Spaces is one.
LEMMA SpacesStep ==
  ASSUME NEW d
  PROVE  /\ Spaces(d)[0] = 0
         /\ \A i \in Nat : i # 0 => Spaces(d)[i] = SpacedOver(d, i, Spaces(d)[i - 1])
<1> DEFINE Next1(at) == [i \in Nat |-> IF i = 0 THEN 0 ELSE SpacedOver(d, i, at[i - 1])]
           F(n) == CHOOSE f : Positions(d, f, n)
           pos  == [i \in Nat |-> F(i)[i]]
<1>1. \A n \in Nat : Positions(d, F(n), n)
  BY PositionsExist
<1>2. pos[0] = 0
  BY <1>1 DEF Positions
<1> HIDE DEF F
<1>3. ASSUME NEW i \in Nat, i # 0
      PROVE  pos[i] = SpacedOver(d, i, pos[i - 1])
  <2>1. i - 1 \in Nat /\ i - 1 <= i - 1 /\ i - 1 <= i /\ i \in 1 .. i
    BY <1>3
  <2>2. F(i)[i] = SpacedOver(d, i, F(i)[i - 1])
    BY <1>1, <2>1 DEF Positions
  <2>3. F(i)[i - 1] = F(i - 1)[i - 1]
    BY <1>1, <2>1, PositionsUnique
  <2>4. pos[i] = F(i)[i] /\ pos[i - 1] = F(i - 1)[i - 1]
    BY <2>1
  <2>. QED  BY <2>2, <2>3, <2>4
<1>4. pos = Next1(pos)
  <2>1. \A i \in Nat : pos[i] = Next1(pos)[i]
    BY <1>2, <1>3
  <2> DEFINE nxt == Next1(pos)
  <2>2. nxt = [i \in Nat |-> nxt[i]]
    OBVIOUS
  <2>3. pos = [i \in Nat |-> pos[i]]
    OBVIOUS
  <2> HIDE DEF pos, nxt
  <2>. QED  BY <2>1, <2>2, <2>3
<1>5. Spaces(d) = CHOOSE at : at = Next1(at)
  BY DEF Spaces
<1>6. Spaces(d) = Next1(Spaces(d))
  <2> HIDE DEF pos, Next1
  <2>. QED  BY <1>4, <1>5
<1>. QED  BY <1>6

\* Where a space leaves the head on the tape.
LEMMA SpacedOverRange ==
  ASSUME NEW d, NEW i, NEW h \in Nat \cup {Unknown}, Len(d.med) \in Nat
  PROVE  \/ SpacedOver(d, i, h) = Unknown
         \/ h # Unknown /\ SpacedOver(d, i, h) \in h + 1 .. Len(d.med)
<1> DEFINE n == Len(d.med)
           marks == {j \in h + 1 .. n : d.med[j] = Filemark}
<1>1. CASE h # Unknown /\ ~(d.types[i] = "data") /\ marks # {}
  <2>0. h \in Nat
    BY <1>1
  <2>1. marks \in SUBSET Nat
    BY <2>0
  <2>2. \E j \in marks : \A k \in marks : j <= k
    <3> HIDE DEF marks
    <3>. QED  BY <1>1, <2>1, Least
  <2>3. SpacedOver(d, i, h) = CHOOSE j \in marks : \A k \in marks : j <= k
    BY <1>1 DEF SpacedOver
  <2>4. SpacedOver(d, i, h) \in marks
    <3> HIDE DEF marks
    <3>. QED  BY <2>2, <2>3
  <2>. QED  BY <1>1, <2>4
<1>2. CASE h = Unknown
  BY <1>2 DEF SpacedOver
<1>4. CASE h # Unknown /\ ~(d.types[i] = "data") /\ marks = {}
  <2>1. {j \in h + 1 .. Len(d.med) : d.med[j] = Filemark} = {}
    BY <1>4
  <2>. QED  BY <1>4, <2>1 DEF SpacedOver
<1>3. CASE h # Unknown /\ d.types[i] = "data"
  <2>1. h \in Nat
    BY <1>3
  <2>2. SpacedOver(d, i, h) = IF h < Len(d.med) /\ d.med[h + 1] # Filemark THEN h + 1 ELSE Unknown
    BY <1>3 DEF SpacedOver
  <2>3. CASE h < Len(d.med) /\ d.med[h + 1] # Filemark
    <3>1. SpacedOver(d, i, h) = h + 1
      BY <2>2, <2>3
    <3>2. h + 1 \in h + 1 .. Len(d.med)
      BY <2>1, <2>3
    <3>. QED  BY <1>3, <3>1, <3>2
  <2>. QED  BY <2>2, <2>3
<1>. QED  BY <1>1, <1>2, <1>3, <1>4

\* Behind b blocks the head is at the b-th block of the tape or further.
LEMMA SpacedRange ==
  ASSUME NEW d, NEW b \in Nat, Len(d.med) \in Nat
  PROVE  Spaced(d, b) = Unknown \/ (Spaced(d, b) \in Nat /\ b <= Spaced(d, b) /\
                                    (b = 0 \/ Spaced(d, b) <= Len(d.med)))
<1> DEFINE at == Spaces(d)
           Fine(i) == at[i] = Unknown \/ (at[i] \in Nat /\ i <= at[i] /\
                                          (i = 0 \/ at[i] <= Len(d.med)))
           T == {i \in Nat : ~Fine(i)}
<1>1. SUFFICES ASSUME T # {}
               PROVE  FALSE
  BY DEF Spaced
<1>2. PICK x \in T : \A y \in T : x <= y
  <2>1. T \in SUBSET Nat
    OBVIOUS
  <2> HIDE DEF T
  <2>. QED  BY <1>1, <2>1, Least
<1>3. at[0] = 0 /\ \A i \in Nat : i # 0 => at[i] = SpacedOver(d, i, at[i - 1])
  BY SpacesStep
<1> HIDE DEF at
<1>4. x # 0
  BY <1>2, <1>3
<1>5. x - 1 \in Nat /\ Fine(x - 1)
  BY <1>2, <1>4
<1>6. at[x] = SpacedOver(d, x, at[x - 1]) /\ at[x - 1] \in Nat \cup {Unknown}
  BY <1>2, <1>3, <1>4, <1>5
<1>7. \/ at[x] = Unknown
      \/ at[x - 1] # Unknown /\ at[x] \in at[x - 1] + 1 .. Len(d.med)
  BY <1>6, SpacedOverRange
<1>8. CASE at[x] = Unknown
  BY <1>2, <1>8
<1>9. CASE at[x - 1] # Unknown /\ at[x] \in at[x - 1] + 1 .. Len(d.med)
  <2>1. at[x - 1] \in Nat /\ x - 1 <= at[x - 1]
    BY <1>5, <1>9
  <2>2. at[x] \in Nat /\ x <= at[x] /\ at[x] <= Len(d.med)
    BY <1>2, <1>9, <2>1
  <2>. QED  BY <1>2, <2>2
<1>. QED  BY <1>7, <1>8, <1>9

\* Where the table is that of the tape, b spaces lead to block b.
Agrees(d) == \A i \in 1 .. Len(d.types) : d.types[i] = "data" <=> d.med[i] # Filemark

LEMMA SpacedExact ==
  ASSUME NEW d, NEW b \in 0 .. Len(d.types), Len(d.types) \in Nat, Len(d.med) \in Nat,
         Len(d.types) <= Len(d.med), Agrees(d)
  PROVE  Spaced(d, b) = b
<1> DEFINE at == Spaces(d)
           T == {i \in Nat : i <= Len(d.types) /\ at[i] # i}
<1>1. SUFFICES ASSUME T # {}
               PROVE  FALSE
  BY DEF Spaced
<1>2. PICK x \in T : \A y \in T : x <= y
  <2>1. T \in SUBSET Nat
    OBVIOUS
  <2> HIDE DEF T
  <2>. QED  BY <1>1, <2>1, Least
<1>3. at[0] = 0 /\ \A i \in Nat : i # 0 => at[i] = SpacedOver(d, i, at[i - 1])
  BY SpacesStep
<1> HIDE DEF at
<1>4. x \in Nat /\ x # 0 /\ x <= Len(d.types) /\ x <= Len(d.med) /\ at[x] # x
  BY <1>2, <1>3
<1>5. x - 1 \in Nat /\ at[x - 1] = x - 1
  BY <1>2, <1>4
<1>6. at[x] = SpacedOver(d, x, x - 1)
  BY <1>3, <1>4, <1>5
<1>7. x - 1 # Unknown /\ x - 1 < Len(d.med) /\ x - 1 + 1 = x
  BY <1>4, <1>5, UnknownAssumption
<1>8. d.types[x] = "data" <=> d.med[x] # Filemark
  BY <1>4 DEF Agrees
<1>9. CASE d.types[x] = "data"
  <2>1. SpacedOver(d, x, x - 1) = x - 1 + 1
    BY <1>7, <1>8, <1>9 DEF SpacedOver
  <2>. QED  BY <1>4, <1>6, <1>7, <2>1
<1>10. CASE d.types[x] # "data"
  <2> DEFINE marks == {j \in x - 1 + 1 .. Len(d.med) : d.med[j] = Filemark}
  <2>1. x \in marks /\ \A k \in marks : k \in Nat /\ x <= k
    BY <1>4, <1>8, <1>10
  <2>2. SpacedOver(d, x, x - 1) = CHOOSE j \in marks : \A k \in marks : j <= k
    BY <1>7, <1>10, <2>1 DEF SpacedOver
  <2> HIDE DEF marks
  <2>3. SpacedOver(d, x, x - 1) \in marks /\ SpacedOver(d, x, x - 1) <= x
    BY <2>1, <2>2
  <2> DEFINE s == SpacedOver(d, x, x - 1)
  <2>4. s \in Nat /\ x <= s /\ s <= x
    BY <2>1, <2>3
  <2>5. s = x
    <3> HIDE DEF s
    <3>. QED  BY <1>4, <2>4
  <2>. QED  BY <1>4, <1>6, <2>5
<1>. QED  BY <1>9, <1>10

-----------------------------------------------------------------------------
(***************************************************************************)
(* What every method keeps, whatever the drive does.                       *)
(***************************************************************************)
Devices == [med : Seq(Blocks), head : Nat, types : Seq(Types),
            writePos : Nat, tapPos : Nat \cup {Unknown}]

\* The table is no longer than the tape, the next block has the number of blocks in
\* the table, and the head is not before the block it is believed to be at.
Good(d) ==
  /\ d \in Devices
  /\ Len(d.med) <= MaxBlocks /\ d.head <= Len(d.med)
  /\ d.writePos = Len(d.types) /\ Len(d.types) <= Len(d.med)
  /\ d.tapPos # Unknown => d.tapPos <= d.head

GoodOut(o) == o \in [dev : Devices, ok : BOOLEAN] /\ Good(o.dev)

SameTape(d, e) == e.med = d.med /\ e.types = d.types /\ e.writePos = d.writePos

Tracked(d) == d.tapPos # Unknown => d.head = d.tapPos

\* The fields of a device are of their types.
LEMMA Fields ==
  ASSUME NEW d, Good(d)
  PROVE  /\ d.med \in Seq(Blocks) /\ Len(d.med) \in Nat /\ Len(d.med) <= MaxBlocks
         /\ d.head \in Nat /\ d.head <= Len(d.med)
         /\ d.types \in Seq(Types) /\ Len(d.types) \in Nat /\ Len(d.types) <= Len(d.med)
         /\ d.writePos = Len(d.types)
         /\ d.tapPos \in Nat \cup {Unknown}
         /\ d.tapPos # Unknown => d.tapPos <= d.head
<1>1. d.med \in Seq(Blocks) /\ d.types \in Seq(Types) /\ d.head \in Nat /\ d.tapPos \in Nat \cup {Unknown}
  BY DEF Good, Devices
<1>2. Len(d.med) \in Nat /\ Len(d.types) \in Nat
  BY <1>1, LenProperties
<1>. QED  BY <1>1, <1>2 DEF Good

\* A result without a call that can fail.
LEMMA Certain ==
  ASSUME NEW d, Good(d), NEW o \in Ok(d) \cup Fail(d)
  PROVE  /\ GoodOut(o) /\ o.dev = d
         /\ o \in Ok(d) => o.ok
         /\ o \in Fail(d) => ~o.ok
<1>1. o = [dev |-> d, ok |-> TRUE] \/ o = [dev |-> d, ok |-> FALSE]
  BY DEF Ok, Fail
<1>2. d \in Devices
  BY DEF Good
<1>3. o.dev = d /\ o \in [dev : Devices, ok : BOOLEAN]
  <2>1. CASE o = [dev |-> d, ok |-> TRUE]
    BY <1>2, <2>1
  <2>2. CASE o = [dev |-> d, ok |-> FALSE]
    BY <1>2, <2>2
  <2>. QED  BY <1>1, <2>1, <2>2
<1>4. o \in Ok(d) => o.ok
  BY DEF Ok
<1>5. o \in Fail(d) => ~o.ok
  BY DEF Fail
<1>. QED  BY <1>3, <1>4, <1>5 DEF GoodOut

\* A call of the drive that fails leaves the tape and the table, and no position.
LEMMA FailedCall ==
  ASSUME NEW d, Good(d), NEW o \in Failed(d)
  PROVE  /\ GoodOut(o) /\ ~o.ok /\ SameTape(d, o.dev) /\ Tracked(o.dev)
         /\ o.dev.tapPos = Unknown
<1> DEFINE e == Lost([d EXCEPT !.head = 0])
<1>1. /\ e \in Devices
      /\ e.med = d.med /\ e.types = d.types /\ e.writePos = d.writePos
      /\ e.head = 0 /\ e.tapPos = Unknown
  BY DEF Good, Devices, Lost
<1>2. o \in Fail(e)
  BY DEF Failed
<1> HIDE DEF e
<1>3. Good(e)
  BY <1>1, Fields DEF Good
<1>4. o.dev = e /\ GoodOut(o) /\ ~o.ok
  BY <1>2, <1>3, Certain
<1>. QED  BY <1>1, <1>4 DEF SameTape, Tracked

\* A seek ends at block b, or without a position; where the table is that of the tape
\* it ends at block b of the tape.
LEMMA Positioned ==
  ASSUME NEW d, Good(d), NEW b \in 0 .. Len(d.types), NEW o \in positionTo(d, b)
  PROVE  /\ GoodOut(o) /\ SameTape(d, o.dev)
         /\ o.ok => o.dev.tapPos = b
         /\ ~o.ok => o.dev.tapPos = Unknown
         /\ Agrees(d) /\ (b = Len(d.types) => b = Len(d.med)) => Tracked(o.dev)
<1>1. /\ Len(d.med) \in Nat /\ Len(d.types) \in Nat /\ Len(d.types) <= Len(d.med)
      /\ d.writePos = Len(d.types) /\ d.head \in Nat
  BY Fields
<1>2. b \in Nat /\ b <= Len(d.med)
  BY <1>1
<1>3. CASE o \in Failed(d)
  <2>1. /\ GoodOut(o) /\ ~o.ok /\ SameTape(d, o.dev) /\ Tracked(o.dev)
        /\ o.dev.tapPos = Unknown
    BY <1>3, FailedCall
  <2>. QED  BY <2>1
<1>4. ASSUME NEW h \in Nat, b <= h, h <= Len(d.med), o \in Ok([d EXCEPT !.head = h, !.tapPos = b]),
             Agrees(d) /\ (b = Len(d.types) => b = Len(d.med)) => h = b
      PROVE  /\ GoodOut(o) /\ SameTape(d, o.dev) /\ o.ok /\ o.dev.tapPos = b
             /\ Agrees(d) /\ (b = Len(d.types) => b = Len(d.med)) => Tracked(o.dev)
  <2> DEFINE e == [d EXCEPT !.head = h, !.tapPos = b]
  <2>1. /\ e \in Devices
        /\ e.med = d.med /\ e.types = d.types /\ e.writePos = d.writePos
        /\ e.head = h /\ e.tapPos = b
    BY <1>2 DEF Good, Devices
  <2>2. o \in Ok(e)
    BY <1>4
  <2> HIDE DEF e
  <2>3. Good(e)
    BY <1>4, <2>1, Fields DEF Good
  <2>4. o.dev = e /\ GoodOut(o) /\ o.ok
    BY <2>2, <2>3, Certain
  <2>. QED  BY <1>4, <2>1, <2>4 DEF SameTape, Tracked
<1>5. CASE o \notin Failed(d) /\ b = d.writePos
  <2> DEFINE h == Len(d.med)
  <2>1. o \in Ok([d EXCEPT !.head = h, !.tapPos = b])
    BY <1>5 DEF positionTo, MayFail
  <2>2. /\ h \in Nat /\ b <= h /\ h <= Len(d.med)
        /\ Agrees(d) /\ (b = Len(d.types) => b = Len(d.med)) => h = b
    BY <1>1, <1>2, <1>5
  <2> HIDE DEF h
  <2>3. /\ GoodOut(o) /\ SameTape(d, o.dev) /\ o.ok /\ o.dev.tapPos = b
        /\ Agrees(d) /\ (b = Len(d.types) => b = Len(d.med)) => Tracked(o.dev)
    BY <1>4, <2>1, <2>2
  <2>. QED  BY <2>3
<1>6. CASE o \notin Failed(d) /\ b # d.writePos
  <2>1. Spaced(d, b) # Unknown /\ o \in Ok([d EXCEPT !.head = Spaced(d, b), !.tapPos = b])
    BY <1>6 DEF positionTo, MayFail
  <2>2. Spaced(d, b) \in Nat /\ b <= Spaced(d, b) /\ (b = 0 \/ Spaced(d, b) <= Len(d.med))
    BY <1>1, <1>2, <2>1, SpacedRange
  <2>3. Spaced(d, 0) = 0
    BY SpacesStep DEF Spaced
  <2>4. Spaced(d, b) <= Len(d.med)
    BY <1>1, <2>2, <2>3
  <2>5. Agrees(d) => Spaced(d, b) = b
    BY <1>1, SpacedExact
  <2> DEFINE h == Spaced(d, b)
  <2>6. /\ h \in Nat /\ b <= h /\ h <= Len(d.med) /\ o \in Ok([d EXCEPT !.head = h, !.tapPos = b])
        /\ Agrees(d) /\ (b = Len(d.types) => b = Len(d.med)) => h = b
    BY <2>1, <2>2, <2>4, <2>5
  <2> HIDE DEF h
  <2>7. /\ GoodOut(o) /\ SameTape(d, o.dev) /\ o.ok /\ o.dev.tapPos = b
        /\ Agrees(d) /\ (b = Len(d.types) => b = Len(d.med)) => Tracked(o.dev)
    BY <1>4, <2>6
  <2>. QED  BY <2>7
<1>. QED  BY <1>3, <1>5, <1>6

\* Without a seek where the position is known to be block b.
LEMMA AtBlock ==
  ASSUME NEW d, Good(d), NEW b \in 0 .. Len(d.types), NEW o \in At(d, b)
  PROVE  /\ GoodOut(o) /\ SameTape(d, o.dev)
         /\ o.ok => o.dev.tapPos = b
         /\ ~o.ok => o.dev.tapPos = Unknown
         /\ Tracked(d) /\ Agrees(d) /\ (b = Len(d.types) => b = Len(d.med)) => Tracked(o.dev)
         /\ d.tapPos = b => o.ok /\ o.dev = d
<1>1. CASE d.tapPos = b
  <2>1. o \in Ok(d)
    BY <1>1 DEF At
  <2>2. GoodOut(o) /\ o.dev = d /\ o.ok
    BY <2>1, Certain
  <2>. QED  BY <1>1, <2>2 DEF SameTape
<1>2. CASE d.tapPos # b
  <2>1. o \in positionTo(d, b)
    BY <1>2 DEF At
  <2>. QED  BY <1>2, <2>1, Positioned
<1>. QED  BY <1>1, <1>2

\* A block written at the head ends the tape, and the table, behind it.
LEMMA Written ==
  ASSUME NEW d, Good(d), d.tapPos = d.writePos, NEW rec \in Blocks, rec.type \in Types,
         NEW o \in Put(d, rec)
  PROVE  /\ GoodOut(o)
         /\ o.ok => /\ Len(o.dev.med) = d.head + 1
                    /\ \A i \in 1 .. d.head : o.dev.med[i] = d.med[i]
                    /\ o.dev.med[d.head + 1] = rec
                    /\ Len(o.dev.types) = Len(d.types) + 1
                    /\ \A i \in 1 .. Len(d.types) : o.dev.types[i] = d.types[i]
                    /\ o.dev.types[Len(d.types) + 1] = rec.type
                    /\ o.dev.head = d.head + 1
                    /\ o.dev.tapPos = Len(d.types) + 1
         /\ ~o.ok => d.head >= MaxBlocks /\ SameTape(d, o.dev) /\ Tracked(o.dev)
<1>1. /\ d.med \in Seq(Blocks) /\ Len(d.med) \in Nat /\ Len(d.med) <= MaxBlocks
      /\ d.head \in Nat /\ d.head <= Len(d.med)
      /\ d.types \in Seq(Types) /\ Len(d.types) \in Nat /\ Len(d.types) <= Len(d.med)
      /\ d.writePos = Len(d.types) /\ d.tapPos = Len(d.types)
      /\ Len(d.types) <= d.head
  <2>1. Len(d.types) \in Nat /\ d.writePos = Len(d.types)
    BY Fields
  <2>2. d.tapPos # Unknown
    BY <2>1, UnknownAssumption
  <2>. QED  BY <2>1, <2>2, Fields
<1>2. CASE d.head >= MaxBlocks
  <2>1. o \in Failed(d)
    BY <1>2 DEF Put
  <2>2. GoodOut(o) /\ ~o.ok /\ SameTape(d, o.dev) /\ Tracked(o.dev)
    BY <2>1, FailedCall
  <2>. QED  BY <1>2, <2>2
<1>3. CASE ~(d.head >= MaxBlocks)
  <2> DEFINE m == SubSeq(d.med, 1, d.head)
             t == SubSeq(d.types, 1, Len(d.types))
             med == Append(m, rec)
             types == Append(t, rec.type)
             e == [d EXCEPT !.med = med, !.head = d.head + 1, !.types = types,
                            !.tapPos = d.writePos + 1, !.writePos = d.writePos + 1]
  <2>1. o \in Ok(e)
    <3>1. d \in Devices
      BY DEF Good
    <3>. QED  BY <1>1, <1>3, <3>1 DEF Put
  <2>2. m \in Seq(Blocks) /\ Len(m) = d.head /\ \A i \in 1 .. d.head : m[i] = d.med[i]
    <3>1. \A i \in 1 .. d.head : d.med[i] \in Blocks
      BY <1>1, ElementOfSeq
    <3>2. /\ m \in Seq(Blocks)
          /\ Len(m) = IF 1 <= d.head THEN d.head - 1 + 1 ELSE 0
          /\ \A i \in 1 .. d.head - 1 + 1 : m[i] = d.med[1 + i - 1]
      BY <1>1, <3>1, SubSeqProperties
    <3> HIDE DEF m
    <3>. QED  BY <1>1, <3>2
  <2>3. t = d.types
    BY <1>1, SubSeqFull
  <2> HIDE DEF m, t
  <2>4. /\ med \in Seq(Blocks) /\ Len(med) = d.head + 1
        /\ \A i \in 1 .. d.head : med[i] = d.med[i]
        /\ med[d.head + 1] = rec
    BY <2>2, AppendProperties
  <2>5. /\ types \in Seq(Types) /\ Len(types) = Len(d.types) + 1
        /\ \A i \in 1 .. Len(d.types) : types[i] = d.types[i]
        /\ types[Len(d.types) + 1] = rec.type
    BY <1>1, <2>3, AppendProperties
  <2> HIDE DEF med, types
  <2>6. /\ e \in Devices /\ e.med = med /\ e.types = types /\ e.head = d.head + 1
        /\ e.tapPos = Len(d.types) + 1 /\ e.writePos = Len(d.types) + 1
    <3>1. d \in Devices /\ d.head + 1 \in Nat /\ d.writePos + 1 \in Nat
      BY <1>1 DEF Good
    <3>. QED  BY <1>1, <2>4, <2>5, <3>1 DEF Devices
  <2> HIDE DEF e
  <2>7. Good(e)
    <3>1. d.head + 1 <= MaxBlocks /\ Len(d.types) + 1 <= d.head + 1
      BY <1>1, <1>3, BoundAssumption
    <3>. QED  BY <1>1, <2>4, <2>5, <2>6, <3>1 DEF Good
  <2>8. o.dev = e /\ GoodOut(o) /\ o.ok
    BY <2>1, <2>7, Certain
  <2>. QED  BY <2>4, <2>5, <2>6, <2>8
<1>. QED  BY <1>2, <1>3

-----------------------------------------------------------------------------
(***************************************************************************)
(* Writing.  Between operations the table is that of the tape (Whole).     *)
(* Just after a truncation it is that of the blocks before the head, where *)
(* the next block is written (Cut).                                        *)
(***************************************************************************)
\* An end-of-data mark of the data region is the last block of the table, or is none.
EndOnly(d) == \A i \in 1 .. Len(d.types) - 1 : d.types[i] = "eod" => i <= DataOffset
NoEnd(d) == \A i \in 1 .. Len(d.types) : d.types[i] = "eod" => i <= DataOffset

Whole(d) == Good(d) /\ Agrees(d) /\ Tracked(d) /\ Len(d.types) = Len(d.med) /\ EndOnly(d)

Cut(d) ==
  /\ Good(d) /\ Agrees(d) /\ NoEnd(d) /\ Len(d.types) < Len(d.med)
  /\ d.tapPos = Len(d.types) /\ d.head = Len(d.types)

Ready(d) == Cut(d) \/ (Whole(d) /\ NoEnd(d))

\* A step that changes only the position keeps the tables.
LEMMA SameTables ==
  ASSUME NEW d, NEW e, SameTape(d, e), Good(e)
  PROVE  /\ Whole(d) /\ Tracked(e) => Whole(e)
         /\ NoEnd(d) => NoEnd(e)
  BY DEF SameTape, Whole, NoEnd, Agrees, EndOnly

\* e is d with the block rec written behind the last one of the table, as a "type".
Puts(d, e, rec, type) ==
  /\ Len(e.types) = Len(d.types) + 1
  /\ \A i \in 1 .. Len(d.types) : e.types[i] = d.types[i] /\ e.med[i] = d.med[i]
  /\ e.types[Len(d.types) + 1] = type
  /\ e.med[Len(d.types) + 1] = rec

\* A write makes its block the last one, or changes nothing but the position.
Tried(d, o, rec, type) == IF o.ok THEN Puts(d, o.dev, rec, type) ELSE SameTape(d, o.dev)

Writing(d, rec, fault) ==
  Then(At(d, d.writePos), LAMBDA e : MayFail(fault, e) \cup Put(e, rec))

\* A data record or a filemark, written behind the last block of the table; "fault" is
\* what can make the call fail.
LEMMA WriteOne ==
  ASSUME NEW d, Good(d), NEW rec \in Blocks, rec.type \in {"data", "filemark"}, NEW fault,
         NEW o \in Writing(d, rec, fault)
  PROVE  /\ GoodOut(o)
         /\ o.ok => /\ Len(o.dev.types) = Len(d.types) + 1
                    /\ o.dev.types[Len(d.types) + 1] = rec.type
         /\ /\ Ready(d) /\ (Whole(d) \/ fault \notin Faults)
            /\ rec.type = "data" <=> rec # Filemark
            => Whole(o.dev) /\ NoEnd(o.dev)
         /\ Ready(d) => Tried(d, o, rec, rec.type)
<1> DEFINE Able == /\ Ready(d) /\ (Whole(d) \/ fault \notin Faults)
                   /\ rec.type = "data" <=> rec # Filemark
<1>1. PICK o1 \in At(d, d.writePos) :
        o \in IF o1.ok THEN MayFail(fault, o1.dev) \cup Put(o1.dev, rec) ELSE {o1}
  BY DEF Writing, Then
<1>2. /\ Len(d.types) \in Nat /\ d.writePos = Len(d.types) /\ d.writePos \in 0 .. Len(d.types)
      /\ Len(d.types) # Unknown /\ Len(d.med) \in Nat /\ Len(d.med) <= MaxBlocks
  <2>1. Len(d.types) \in Nat /\ d.writePos = Len(d.types) /\ Len(d.med) \in Nat /\ Len(d.med) <= MaxBlocks
    BY Fields
  <2>2. Len(d.types) # Unknown
    BY <2>1, UnknownAssumption
  <2>3. \A n \in Nat : n \in 0 .. n
    OBVIOUS
  <2>. QED  BY <2>1, <2>2, <2>3
<1> DEFINE e == o1.dev
<1>3. /\ GoodOut(o1) /\ SameTape(d, e)
      /\ o1.ok => e.tapPos = Len(d.types)
      /\ Whole(d) => Tracked(e)
      /\ d.tapPos = Len(d.types) => o1.ok /\ e = d
  <2>1. /\ GoodOut(o1) /\ SameTape(d, e)
        /\ o1.ok => e.tapPos = d.writePos
        /\ /\ Tracked(d) /\ Agrees(d) /\ (d.writePos = Len(d.types) => d.writePos = Len(d.med))
           => Tracked(e)
        /\ d.tapPos = d.writePos => o1.ok /\ e = d
    BY <1>2, AtBlock
  <2>2. Whole(d) => Tracked(d) /\ Agrees(d) /\ d.writePos = Len(d.med)
    BY <1>2 DEF Whole
  <2>. QED  BY <1>2, <2>1, <2>2
<1>4. Good(e) /\ e.writePos = Len(d.types) /\ e.types = d.types /\ e.med = d.med
  BY <1>2, <1>3 DEF GoodOut, SameTape
<1>5. Cut(d) => o1.ok /\ e = d
  BY <1>3 DEF Cut
<1>6. Whole(d) /\ NoEnd(d) => Whole(e) /\ NoEnd(e)
  BY <1>3, <1>4, SameTables
<1> HIDE DEF e
<1>7. CASE ~o1.ok
  <2>1. o = o1 /\ ~Cut(d)
    BY <1>1, <1>5, <1>7
  <2>. QED  BY <1>3, <1>6, <1>7, <2>1 DEF Ready, e, Tried
<1>8. CASE o1.ok /\ o \in MayFail(fault, e)
  <2>1. fault \in Faults /\ o \in Failed(e)
    BY <1>8 DEF MayFail
  <2>2. GoodOut(o) /\ ~o.ok /\ SameTape(e, o.dev) /\ Tracked(o.dev)
    BY <1>4, <2>1, FailedCall
  <2>3. Whole(e) /\ NoEnd(e) => Whole(o.dev) /\ NoEnd(o.dev)
    BY <2>2, SameTables DEF GoodOut
  <2>4. Able => Whole(d) /\ NoEnd(d)
    BY <1>2, <2>1 DEF Ready, Cut, Whole
  <2>5. Tried(d, o, rec, rec.type)
    BY <1>2, <1>4, <2>2 DEF Tried, SameTape
  <2>. QED  BY <1>6, <2>2, <2>3, <2>4, <2>5
<1>9. CASE o1.ok /\ o \in Put(e, rec)
  <2> DEFINE n == Len(d.types)
  <2>0. n = Len(d.types) /\ n \in Nat /\ n = Len(e.types)
    BY <1>2, <1>4
  <2>1. e.tapPos = n /\ e.tapPos = e.writePos /\ rec.type \in Types
    BY <1>3, <1>4, <1>9 DEF Types, e
  <2> HIDE DEF n
  <2>2. /\ GoodOut(o)
        /\ o.ok => /\ Len(o.dev.med) = e.head + 1
                   /\ \A i \in 1 .. e.head : o.dev.med[i] = e.med[i]
                   /\ o.dev.med[e.head + 1] = rec
                   /\ Len(o.dev.types) = n + 1
                   /\ \A i \in 1 .. n : o.dev.types[i] = e.types[i]
                   /\ o.dev.types[n + 1] = rec.type
                   /\ o.dev.head = e.head + 1
                   /\ o.dev.tapPos = n + 1
        /\ ~o.ok => e.head >= MaxBlocks /\ SameTape(e, o.dev) /\ Tracked(o.dev)
    BY <1>4, <2>0, <2>1, <1>9, Written
  <2>5. Ready(d) => e.head = n /\ Agrees(d) /\ NoEnd(d)
    <3>1. CASE Cut(d)
      BY <1>5, <2>0, <3>1 DEF Cut
    <3>2. CASE Whole(d) /\ NoEnd(d)
      BY <1>2, <1>6, <2>0, <2>1, <3>2 DEF Whole, Tracked
    <3>. QED  BY <3>1, <3>2 DEF Ready
  <2>6. Ready(d) => Tried(d, o, rec, rec.type)
    <3>1. CASE o.ok
      BY <1>4, <2>0, <2>2, <2>5, <3>1 DEF Tried, Puts
    <3>2. CASE ~o.ok
      BY <1>2, <1>4, <2>2, <3>2 DEF Tried, SameTape
    <3>. QED  BY <3>1, <3>2
  <2>3. ASSUME Able
        PROVE  Whole(o.dev) /\ NoEnd(o.dev)
    <3>1. e.head = n /\ Agrees(d) /\ NoEnd(d)
      BY <2>3, <2>5
    <3>2. CASE o.ok
      <4>1. \A i \in 1 .. n + 1 : /\ i \in 1 .. n \/ i = n + 1
                                  /\ i \in 1 .. n => o.dev.types[i] = d.types[i] /\ o.dev.med[i] = d.med[i]
        BY <2>0, <1>4, <2>2, <3>1, <3>2, SMTT(30)
      <4>2. /\ o.dev.types[n + 1] = rec.type /\ o.dev.med[n + 1] = rec
            /\ Len(o.dev.types) = n + 1 /\ Len(o.dev.med) = n + 1
            /\ o.dev.head = n + 1 /\ o.dev.tapPos = n + 1
        BY <2>2, <3>1, <3>2
      <4>3. Agrees(o.dev)
        BY <2>0, <2>3, <3>1, <4>1, <4>2 DEF Agrees
      <4>4. NoEnd(o.dev)
        BY <2>0, <2>3, <3>1, <4>1, <4>2 DEF NoEnd
      <4>5. EndOnly(o.dev)
        <5>1. \A i \in 1 .. n + 1 - 1 : i \in 1 .. n + 1
          BY <2>0
        <5>2. \A i \in 1 .. Len(o.dev.types) - 1 : i \in 1 .. Len(o.dev.types)
          BY <4>2, <5>1
        <5>. QED  BY <4>4, <5>2 DEF NoEnd, EndOnly
      <4>. QED  BY <2>2, <4>2, <4>3, <4>4, <4>5 DEF Whole, Tracked, GoodOut
    <3>3. CASE ~o.ok
      <4>1. n >= MaxBlocks /\ SameTape(e, o.dev) /\ Tracked(o.dev)
        BY <2>2, <3>1, <3>3
      <4>2. ~Cut(d)
        <5>1. Cut(d) => n < Len(d.med)
          BY <2>0 DEF Cut
        <5>. QED  BY <1>2, <2>0, <4>1, <5>1, BoundAssumption
      <4>3. Whole(e) /\ NoEnd(e)
        BY <1>6, <2>3, <4>2 DEF Ready
      <4>. QED  BY <2>2, <4>1, <4>3, SameTables DEF GoodOut
    <3>. QED  BY <3>2, <3>3
  <2>4. o.ok => /\ Len(o.dev.types) = Len(d.types) + 1
                /\ o.dev.types[Len(d.types) + 1] = rec.type
    BY <2>0, <2>2
  <2>. QED  BY <2>2, <2>3, <2>4, <2>6
<1>10. ~o1.ok \/ (o1.ok /\ o \in MayFail(fault, e)) \/ (o1.ok /\ o \in Put(e, rec))
  BY <1>1 DEF e
<1>. QED  BY <1>7, <1>8, <1>9, <1>10

LEMMA RecordWritten ==
  ASSUME NEW d, Good(d), NEW c \in Contents \cup Indexes \cup {"label"}, NEW o \in writeRecord(d, c)
  PROVE  /\ GoodOut(o)
         /\ "write" \notin Faults /\ Ready(d) => Whole(o.dev) /\ NoEnd(o.dev)
         /\ Ready(d) => Tried(d, o, DataRecord(c), "data")
<1> DEFINE rec == DataRecord(c)
<1>1. rec \in Blocks /\ rec.type = "data"
  BY DEF DataRecord, Blocks, Label
<1>2. rec # Filemark
  BY <1>1 DEF Filemark
<1>3. o \in Writing(d, rec, "write")
  BY DEF writeRecord, Writing, Then
<1> HIDE DEF rec
<1>. QED  BY <1>1, <1>2, <1>3, WriteOne DEF rec

LEMMA FilemarkWritten ==
  ASSUME NEW d, Good(d), NEW o \in writeFilemark(d)
  PROVE  /\ GoodOut(o)
         /\ o.ok => /\ Len(o.dev.types) = Len(d.types) + 1
                    /\ o.dev.types[Len(d.types) + 1] = "filemark"
         /\ Whole(d) /\ NoEnd(d) => Whole(o.dev) /\ NoEnd(o.dev)
         /\ Ready(d) => Tried(d, o, Filemark, "filemark")
<1>1. Filemark \in Blocks /\ Filemark.type = "filemark"
  BY DEF Filemark, Blocks
<1>2. o \in Writing(d, Filemark, "mark")
  BY DEF writeFilemark, Writing, Then
<1>. QED  BY <1>1, <1>2, WriteOne DEF Ready

LEMMA EODWritten ==
  ASSUME NEW d, Good(d), NEW o \in WriteEOD(d)
  PROVE  /\ GoodOut(o)
         /\ Whole(d) /\ NoEnd(d) => Whole(o.dev)
         /\ Ready(d) => Tried(d, o, Filemark, "eod")
<1>1. PICK o1 \in writeFilemark(d) :
        o \in IF o1.ok THEN Ok([o1.dev EXCEPT !.types[Len(o1.dev.types)] = "eod"]) ELSE {o1}
  BY DEF WriteEOD, Then
<1>2. /\ GoodOut(o1)
      /\ o1.ok => /\ Len(o1.dev.types) = Len(d.types) + 1
                  /\ o1.dev.types[Len(d.types) + 1] = "filemark"
      /\ Whole(d) /\ NoEnd(d) => Whole(o1.dev) /\ NoEnd(o1.dev)
      /\ Ready(d) => Tried(d, o1, Filemark, "filemark")
  BY FilemarkWritten
<1>3. CASE ~o1.ok
  BY <1>1, <1>2, <1>3 DEF Tried
<1>4. CASE o1.ok
  <2> DEFINE e == o1.dev
             n == Len(e.types)
             t == [e.types EXCEPT ![n] = "eod"]
             f == [e EXCEPT !.types = t]
  <2>1. Good(e)
    BY <1>2 DEF GoodOut
  <2>2. e.types \in Seq(Types) /\ n \in Nat /\ n # 0
    <3>1. e.types \in Seq(Types) /\ n \in Nat /\ Len(d.types) \in Nat
      BY <2>1, Fields
    <3>2. n = Len(d.types) + 1
      BY <1>2, <1>4
    <3> HIDE DEF n
    <3>. QED  BY <3>1, <3>2
  <2>3. o \in Ok(f)
    BY <1>1, <1>4
  <2>4. t \in Seq(Types) /\ Len(t) = n /\ \A j \in 1 .. n : t[j] = IF j = n THEN "eod" ELSE e.types[j]
    <3>1. n \in 1 .. n /\ "eod" \in Types
      <4> HIDE DEF n
      <4>. QED  BY <2>2 DEF Types
    <3>. QED  BY <2>2, <3>1, ExceptSeq
  <2> HIDE DEF t
  <2>5. /\ f \in Devices /\ f.types = t /\ f.med = e.med /\ f.head = e.head
        /\ f.tapPos = e.tapPos /\ f.writePos = e.writePos
    BY <2>1, <2>4 DEF Good, Devices
  <2> HIDE DEF f, e
  <2>6. Good(f)
    BY <2>1, <2>4, <2>5 DEF Good
  <2>7. o.dev = f /\ GoodOut(o) /\ o.ok
    BY <2>3, <2>6, Certain
  <2>9. Ready(d) => Tried(d, o, Filemark, "eod")
    <3>1. n = Len(d.types) + 1 /\ Len(d.types) \in Nat
      <4>1. n = Len(d.types) + 1
        BY <1>2, <1>4 DEF e
      <4>2. Len(d.types) \in Nat
        BY Fields
      <4>. QED  BY <4>1, <4>2
    <3>2. Ready(d) => Puts(d, e, Filemark, "filemark")
      BY <1>2, <1>4 DEF Tried, e
    <3>3. Ready(d) => Puts(d, f, Filemark, "eod")
      <4> DEFINE m == Len(d.types)
      <4>1. m \in Nat /\ m = Len(d.types) /\ n = m + 1
        BY <3>1
      <4>2. n = Len(e.types)
        OBVIOUS
      <4> HIDE DEF m, n
      <4>3. \A i \in 1 .. m : i \in 1 .. n /\ i # n
        BY <4>1
      <4>4. n \in 1 .. n
        BY <4>1
      <4>. QED  BY <2>4, <2>5, <3>2, <4>1, <4>2, <4>3, <4>4 DEF Puts
    <3>. QED  BY <2>7, <3>3 DEF Tried
  <2>8. Whole(e) /\ NoEnd(e) => Whole(f)
    <3> SUFFICES ASSUME Whole(e), NoEnd(e)
                 PROVE  Whole(f)
      OBVIOUS
    <3>1. n = Len(e.types)
      OBVIOUS
    <3> HIDE DEF n
    <3>2. e.types[n] = "filemark"
      BY <1>2, <1>4, <3>1 DEF e
    <3>5. Agrees(f)
      BY <2>4, <2>5, <3>1, <3>2 DEF Whole, Agrees
    <3>6. EndOnly(f)
      <4>1. \A i \in 1 .. n - 1 : i \in 1 .. n /\ i # n
        BY <2>2
      <4>. QED  BY <2>4, <2>5, <3>1, <4>1 DEF NoEnd, EndOnly
    <3>. QED  BY <2>4, <2>5, <2>6, <3>1, <3>5, <3>6 DEF Whole, Tracked
  <2>. QED  BY <1>2, <2>7, <2>8, <2>9 DEF e
<1>. QED  BY <1>3, <1>4

LEMMA Synced ==
  ASSUME NEW d, Good(d), NEW o \in Sync(d)
  PROVE  GoodOut(o) /\ o.dev = d
<1>1. o \in Ok(d) \cup Fail(d)
  BY DEF Sync
<1>. QED  BY <1>1, Certain

\* A truncation cuts the table; the tape follows with the next write.
LEMMA Truncation ==
  ASSUME NEW d, Good(d), NEW b \in Nat, NEW o \in truncateAt(d, b)
  PROVE  /\ GoodOut(o) /\ o.dev.med = d.med
         /\ Whole(d) /\ (b < Len(d.types) \/ b <= DataOffset) =>
              IF o.ok THEN Ready(o.dev) ELSE Whole(o.dev)
         /\ Whole(d) /\ b < Len(d.types) /\ o.ok => Cut(o.dev)
         /\ IF o.ok THEN /\ Len(o.dev.types) = b /\ b <= Len(d.types)
                         /\ \A i \in 1 .. b : o.dev.types[i] = d.types[i]
            ELSE SameTape(d, o.dev)
<1>1. CASE b > Len(d.types)
  <2>1. o \in Fail(d)
    BY <1>1 DEF truncateAt
  <2>2. GoodOut(o) /\ o.dev = d /\ ~o.ok
    BY <2>1, Certain
  <2>. QED  BY <2>2 DEF SameTape
<1>2. CASE ~(b > Len(d.types))
  <2>1. PICK o1 \in positionTo(d, b) :
          o \in IF o1.ok THEN Ok([o1.dev EXCEPT !.types = SubSeq(@, 1, b), !.writePos = b])
                ELSE {o1}
    BY <1>2 DEF truncateAt, Then
  <2> DEFINE e == o1.dev
             n == Len(d.types)
             t == SubSeq(d.types, 1, b)
             f == [e EXCEPT !.types = t, !.writePos = b]
  <2>2. /\ n \in Nat /\ n = Len(d.types) /\ d.types \in Seq(Types) /\ d.writePos = n
        /\ Len(d.med) \in Nat /\ n <= Len(d.med)
    BY Fields
  <2>3. b \in 0 .. Len(d.types) /\ b <= n /\ b # Unknown
    BY <1>2, <2>2, UnknownAssumption
  <2>4. /\ GoodOut(o1) /\ SameTape(d, e)
        /\ o1.ok => e.tapPos = b
        /\ Agrees(d) /\ (b = Len(d.types) => b = Len(d.med)) => Tracked(e)
    BY <2>3, Positioned
  <2>5. Good(e) /\ e \in Devices /\ e.med = d.med /\ e.types = d.types /\ e.writePos = n
    BY <2>2, <2>4 DEF GoodOut, SameTape, Good
  <2>6. Whole(d) => Whole(e) /\ n = Len(d.med)
    <3>1. Whole(d) => Tracked(e) /\ n = Len(d.med)
      BY <2>2, <2>4 DEF Whole
    <3>. QED  BY <2>4, <2>5, <3>1, SameTables
  <2> HIDE DEF e, n
  <2>7. CASE ~o1.ok
    <3>1. o = o1
      BY <2>1, <2>7
    <3>. QED  BY <2>4, <2>5, <2>6, <2>7, <3>1 DEF e
  <2>8. CASE o1.ok
    <3>1. o \in Ok(f)
      BY <2>1, <2>5, <2>8 DEF e
    <3>2. t \in Seq(Types) /\ Len(t) = b /\ \A i \in 1 .. b : t[i] = d.types[i]
      <4>1. \A i \in 1 .. b : i \in 1 .. n
        BY <2>2, <2>3
      <4>2. \A i \in 1 .. b : d.types[i] \in Types
        BY <2>2, <4>1, ElementOfSeq
      <4>3. /\ t \in Seq(Types)
            /\ Len(t) = IF 1 <= b THEN b - 1 + 1 ELSE 0
            /\ \A i \in 1 .. b - 1 + 1 : t[i] = d.types[1 + i - 1]
        BY <4>2, SubSeqProperties
      <4> HIDE DEF t
      <4>. QED  BY <4>3
    <3> HIDE DEF t
    <3>3. /\ f \in Devices /\ f.types = t /\ f.writePos = b /\ f.med = d.med
          /\ f.head = e.head /\ f.tapPos = e.tapPos
      BY <2>5, <3>2 DEF Devices
    <3> HIDE DEF f
    <3>4. Good(f)
      <4>1. /\ Len(e.med) <= MaxBlocks /\ e.head <= Len(e.med)
            /\ e.tapPos # Unknown => e.tapPos <= e.head
        BY <2>5 DEF Good
      <4>2. b <= Len(d.med)
        BY <2>2, <2>3
      <4>. QED  BY <2>5, <3>2, <3>3, <4>1, <4>2 DEF Good
    <3>5. o.dev = f /\ GoodOut(o) /\ o.ok
      BY <3>1, <3>4, Certain
    <3>6. \A i \in 1 .. b : i \in 1 .. n /\ (b < n => i \in 1 .. n - 1) /\ i <= b
      BY <2>2, <2>3
    <3>7. Whole(d) => Agrees(f) /\ f.head = b /\ f.tapPos = b
      <4>1. Whole(d) => \A i \in 1 .. n : d.types[i] = "data" <=> d.med[i] # Filemark
        BY <2>2 DEF Whole, Agrees
      <4>2. Whole(d) => Agrees(f)
        BY <3>2, <3>3, <3>6, <4>1 DEF Agrees
      <4>3. f.tapPos = b
        BY <2>4, <2>8, <3>3
      <4>4. Whole(d) => Tracked(e)
        BY <2>6 DEF Whole
      <4>. QED  BY <2>3, <3>3, <4>2, <4>3, <4>4 DEF Tracked
    <3>8. Whole(d) /\ (b < n \/ b <= DataOffset) => NoEnd(f)
      <4>1. CASE Whole(d) /\ b < n
        <5>1. \A i \in 1 .. n - 1 : d.types[i] = "eod" => i <= DataOffset
          BY <2>2, <4>1 DEF Whole, EndOnly
        <5>. QED  BY <3>2, <3>3, <3>6, <4>1, <5>1 DEF NoEnd
      <4>2. CASE b <= DataOffset
        <5>1. \A i \in 1 .. b : i <= DataOffset
          BY <4>2 DEF DataOffset
        <5>. QED  BY <3>2, <3>3, <5>1 DEF NoEnd
      <4>. QED  BY <4>1, <4>2
    <3>9. Whole(d) /\ b < n => Cut(f)
      BY <2>6, <3>2, <3>3, <3>4, <3>7, <3>8 DEF Cut
    <3>10. Whole(d) /\ b = n /\ b <= DataOffset => Whole(f) /\ NoEnd(f)
      <4>1. \A i \in 1 .. b - 1 : i \in 1 .. b
        OBVIOUS
      <4>. QED  BY <2>3, <2>6, <3>2, <3>3, <3>4, <3>7, <3>8, <4>1 DEF Whole, Tracked, EndOnly, NoEnd
    <3>11. b < n \/ b = n
      BY <2>2, <2>3
    <3>. QED  BY <2>2, <2>3, <3>2, <3>3, <3>5, <3>9, <3>10, <3>11 DEF Ready
  <2>. QED  BY <2>7, <2>8
<1>. QED  BY <1>1, <1>2

-----------------------------------------------------------------------------
(***************************************************************************)
(* Reading and opening.                                                    *)
(***************************************************************************)
\* A read that does not fail moves the head, and the position, over one block.
LEMMA BlockRead ==
  ASSUME NEW d, Good(d), NEW b \in Nat, NEW o \in ReadBlock(d, b)
  PROVE  /\ GoodOut(o) /\ SameTape(d, o.dev)
         /\ "read" \notin Faults /\ Whole(d) => Whole(o.dev)
<1>1. CASE b >= Len(d.types)
  <2>1. o \in Fail(d)
    BY <1>1 DEF ReadBlock
  <2>2. GoodOut(o) /\ o.dev = d
    BY <2>1, Certain
  <2>. QED  BY <2>2 DEF SameTape
<1>2. CASE ~(b >= Len(d.types))
  <2>1. PICK o1 \in At(d, b) : o \in IF o1.ok THEN readOne(o1.dev) ELSE {o1}
    BY <1>2 DEF ReadBlock, Then
  <2> DEFINE e == o1.dev
             n == Len(d.types)
  <2>2. n \in Nat /\ n = Len(d.types)
    BY Fields
  <2>3. b \in 0 .. Len(d.types) /\ b # Len(d.types) /\ b # Unknown
    BY <1>2, <2>2, UnknownAssumption
  <2>4. /\ GoodOut(o1) /\ SameTape(d, e)
        /\ o1.ok => e.tapPos = b
        /\ Tracked(d) /\ Agrees(d) => Tracked(e)
    BY <2>3, AtBlock
  <2>5. Good(e)
    BY <2>4 DEF GoodOut
  <2>6. Whole(d) => Whole(e)
    BY <2>4, <2>5, SameTables DEF Whole
  <2> HIDE DEF e, n
  <2>7. CASE ~o1.ok
    BY <2>1, <2>4, <2>6, <2>7 DEF e
  <2>8. CASE o1.ok /\ o \in Fail(e)
    <3>1. GoodOut(o) /\ o.dev = e
      BY <2>5, <2>8, Certain
    <3>. QED  BY <2>4, <2>6, <3>1
  <2> DEFINE f == [e EXCEPT !.head = @ + 1, !.tapPos = @ + 1]
             g == [e EXCEPT !.head = @ + 1]
             moved == /\ ~EndsAt(e, e.head)
                      /\ o \in Ok(f) \/ ("read" \in Faults /\ o \in Fail(g))
  <2>9. CASE o1.ok /\ moved
    <3>1. /\ e.head \in Nat /\ e.head <= Len(e.med) /\ Len(e.med) \in Nat /\ e.head # Len(e.med)
          /\ e.tapPos = b /\ b <= e.head
      <4>1. ~(e.head = Len(e.med))
        BY <2>9 DEF EndsAt
      <4>2. e.tapPos = b
        BY <2>4, <2>9
      <4>. QED  BY <2>3, <2>5, <4>1, <4>2, Fields
    <3> DEFINE h == e.head
               m == Len(e.med)
    <3>2. /\ f \in Devices /\ f.med = e.med /\ f.types = e.types /\ f.writePos = e.writePos
          /\ f.head = h + 1 /\ f.tapPos = b + 1
      <4>1. e \in Devices /\ h + 1 \in Nat /\ b + 1 \in Nat
        BY <2>5, <3>1 DEF Good
      <4>. QED  BY <3>1, <4>1 DEF Devices
    <3>3. /\ g \in Devices /\ g.med = e.med /\ g.types = e.types /\ g.writePos = e.writePos
          /\ g.head = h + 1 /\ g.tapPos = b
      <4>1. e \in Devices /\ h + 1 \in Nat
        BY <2>5, <3>1 DEF Good
      <4>. QED  BY <3>1, <4>1 DEF Devices
    <3>4. h \in Nat /\ m \in Nat /\ h <= m /\ h # m /\ b <= h /\ m = Len(e.med)
      BY <3>1
    <3> HIDE DEF f, g, h, m
    <3>5. h + 1 <= m /\ b + 1 <= h + 1 /\ b <= h + 1
      BY <3>4
    <3>6. /\ Len(e.med) <= MaxBlocks /\ e.writePos = Len(e.types) /\ Len(e.types) <= Len(e.med)
      BY <2>5 DEF Good
    <3>7. Good(f) /\ Good(g)
      BY <3>2, <3>3, <3>4, <3>5, <3>6 DEF Good
    <3>8. SameTape(e, f) /\ SameTape(e, g)
      BY <3>2, <3>3 DEF SameTape
    <3>9. Whole(e) => Whole(f)
      <4>1. Whole(e) => h = b
        BY <2>3, <3>1 DEF Whole, Tracked, h
      <4>2. h = b => Tracked(f)
        BY <3>2 DEF Tracked
      <4>. QED  BY <3>7, <3>8, <4>1, <4>2, SameTables
    <3>10. CASE o \in Ok(f)
      <4>1. GoodOut(o) /\ o.dev = f
        BY <3>7, <3>10, Certain
      <4>. QED  BY <2>4, <2>6, <3>8, <3>9, <4>1 DEF SameTape
    <3>11. CASE "read" \in Faults /\ o \in Fail(g)
      <4>1. GoodOut(o) /\ o.dev = g
        BY <3>7, <3>11, Certain
      <4>. QED  BY <2>4, <3>8, <3>11, <4>1 DEF SameTape
    <3>. QED  BY <2>9, <3>10, <3>11
  <2>10. ~o1.ok \/ (o1.ok /\ o \in Fail(e)) \/ (o1.ok /\ moved)
    BY <2>1 DEF readOne, e
  <2>. QED  BY <2>7, <2>8, <2>9, <2>10
<1>. QED  BY <1>1, <1>2

\* A scan ends at a block of the tape, at its last if nothing fails.
LEMMA ScanEnds ==
  ASSUME NEW d, Good(d), NEW o \in scan(d)
  PROVE  /\ GoodOut(o)
         /\ "read" \notin Faults /\ ~DoubleMarkEnds /\ o.ok => Whole(o.dev)
         /\ o.dev.med = d.med
         /\ "read" \notin Faults /\ ~DoubleMarkEnds /\ o.ok =>
              o.dev.types = Scanned(d.med, Len(d.med))
<1> DEFINE n == Len(d.med)
           end == CHOOSE h \in 0 .. n : EndsAt(d, h) /\ \A k \in 0 .. h - 1 : ~EndsAt(d, k)
           at(h) == [d EXCEPT !.head = h, !.tapPos = h, !.types = Scanned(d.med, h), !.writePos = h]
<1>1. n \in Nat /\ n = Len(d.med) /\ d \in Devices /\ n <= MaxBlocks /\ EndsAt(d, n)
  BY Fields DEF Good, EndsAt
<1>2. end \in 0 .. n /\ EndsAt(d, end)
  <2> DEFINE T == {h \in 0 .. n : EndsAt(d, h)}
  <2> HIDE DEF n
  <2>1. n \in T /\ T \in SUBSET Nat
    BY <1>1
  <2>2. PICK x \in T : \A y \in T : x <= y
    <3> HIDE DEF T
    <3>. QED  BY <2>1, Least
  <2>3. x \in 0 .. n /\ EndsAt(d, x)
    BY <2>2
  <2>4. ASSUME NEW k \in 0 .. x - 1
        PROVE  ~EndsAt(d, k)
    <3>1. k \in 0 .. n /\ ~(x <= k)
      BY <1>1, <2>3
    <3>. QED  BY <2>2, <3>1
  <2>. QED  BY <2>3, <2>4
<1>3. ~DoubleMarkEnds => end = n
  BY <1>2 DEF EndsAt
<1>4. o \in Failed(d) \/ \E h \in 0 .. end : o \in Ok(at(h)) /\ ("read" \notin Faults => h = end)
  <2>1. end \in 0 .. end
    <3> HIDE DEF end
    <3>. QED  BY <1>1, <1>2
  <2>. QED  BY <2>1 DEF scan, MayFail
<1>5. CASE o \in Failed(d)
  <2>1. GoodOut(o) /\ ~o.ok /\ o.dev.med = d.med
    BY <1>5, FailedCall DEF SameTape
  <2>. QED  BY <2>1
<1>6. CASE \E h \in 0 .. end : o \in Ok(at(h)) /\ ("read" \notin Faults => h = end)
  <2>1. PICK h \in 0 .. end : o \in Ok(at(h)) /\ ("read" \notin Faults => h = end)
    BY <1>6
  <2> HIDE DEF end, n
  <2>2. h \in Nat /\ h <= n
    BY <1>1, <1>2, <2>1
  <2> DEFINE t == Scanned(d.med, h)
             f == at(h)
  <2>3. /\ t \in Seq(Types) /\ Len(t) = h
        /\ \A i \in 1 .. h : /\ t[i] = "data" <=> d.med[i] # Filemark
                             /\ t[i] = "eod" => i = h
    BY <2>2 DEF Scanned, Types
  <2> HIDE DEF t
  <2>4. /\ f \in Devices /\ f.med = d.med /\ f.types = t
        /\ f.head = h /\ f.tapPos = h /\ f.writePos = h
    BY <1>1, <2>2, <2>3 DEF Devices, t
  <2> HIDE DEF f
  <2>5. Good(f)
    BY <1>1, <2>2, <2>3, <2>4 DEF Good
  <2>6. o.dev = f /\ GoodOut(o)
    BY <2>1, <2>5, Certain DEF f
  <2>7. h = n => Whole(f)
    <3>1. \A i \in 1 .. h - 1 : i \in 1 .. h /\ i # h
      BY <2>2
    <3>2. EndOnly(f)
      BY <2>3, <2>4, <3>1 DEF EndOnly
    <3>3. Agrees(f)
      BY <2>3, <2>4 DEF Agrees
    <3>. QED  BY <1>1, <2>3, <2>4, <2>5, <3>2, <3>3 DEF Whole, Tracked
  <2>8. h = n => f.types = Scanned(d.med, Len(d.med))
    BY <1>1, <2>4 DEF t
  <2>. QED  BY <1>3, <2>1, <2>4, <2>6, <2>7, <2>8
<1>. QED  BY <1>4, <1>5, <1>6

-----------------------------------------------------------------------------
(***************************************************************************)
(* Sequences of calls.  They stop at the first error, so what the calls    *)
(* before it did stays.                                                    *)
(***************************************************************************)
Sound(S) == \A s \in S : GoodOut(s)
ReadyIfOk(S) == \A s \in S : s.ok => Ready(s.dev)
WholeIfOk(S) == \A s \in S : s.ok => Whole(s.dev)
UsableIfOk(S) == \A s \in S : s.ok => Whole(s.dev) /\ NoEnd(s.dev)
WholeIfNot(S) == \A s \in S : ~s.ok => Whole(s.dev)

LEMMA WritesChained ==
  ASSUME NEW S, Sound(S), NEW c \in Contents \cup Indexes \cup {"label"}
  PROVE  /\ Sound(ThenWrite(S, c))
         /\ "write" \notin Faults /\ ReadyIfOk(S) =>
              /\ UsableIfOk(ThenWrite(S, c))
              /\ WholeIfNot(S) => WholeIfNot(ThenWrite(S, c))
<1>1. SUFFICES ASSUME NEW o \in ThenWrite(S, c)
               PROVE  /\ GoodOut(o)
                      /\ "write" \notin Faults /\ ReadyIfOk(S) =>
                           /\ o.ok => Whole(o.dev) /\ NoEnd(o.dev)
                           /\ WholeIfNot(S) => (~o.ok => Whole(o.dev))
  BY DEF Sound, UsableIfOk, WholeIfNot
<1>2. PICK s \in S : o \in IF s.ok THEN writeRecord(s.dev, c) ELSE {s}
  BY DEF ThenWrite, Then
<1>3. GoodOut(s) /\ Good(s.dev)
  BY DEF Sound, GoodOut
<1>4. CASE ~s.ok
  BY <1>2, <1>3, <1>4 DEF WholeIfNot
<1>5. CASE s.ok
  <2>1. o \in writeRecord(s.dev, c)
    BY <1>2, <1>5
  <2>2. /\ GoodOut(o)
        /\ "write" \notin Faults /\ Ready(s.dev) => Whole(o.dev) /\ NoEnd(o.dev)
    BY <1>3, <2>1, RecordWritten
  <2>. QED  BY <1>5, <2>2 DEF ReadyIfOk
<1>. QED  BY <1>4, <1>5

LEMMA MarksChained ==
  ASSUME NEW S, Sound(S)
  PROVE  /\ Sound(ThenMark(S))
         /\ UsableIfOk(S) =>
              /\ UsableIfOk(ThenMark(S))
              /\ WholeIfNot(S) => WholeIfNot(ThenMark(S))
<1>1. SUFFICES ASSUME NEW o \in ThenMark(S)
               PROVE  /\ GoodOut(o)
                      /\ UsableIfOk(S) =>
                           /\ o.ok => Whole(o.dev) /\ NoEnd(o.dev)
                           /\ WholeIfNot(S) => (~o.ok => Whole(o.dev))
  BY DEF Sound, UsableIfOk, WholeIfNot
<1>2. PICK s \in S : o \in IF s.ok THEN writeFilemark(s.dev) ELSE {s}
  BY DEF ThenMark, Then
<1>3. GoodOut(s) /\ Good(s.dev)
  BY DEF Sound, GoodOut
<1>4. CASE ~s.ok
  BY <1>2, <1>3, <1>4 DEF WholeIfNot
<1>5. CASE s.ok
  <2>1. o \in writeFilemark(s.dev)
    BY <1>2, <1>5
  <2>2. /\ GoodOut(o)
        /\ Whole(s.dev) /\ NoEnd(s.dev) => Whole(o.dev) /\ NoEnd(o.dev)
    BY <1>3, <2>1, FilemarkWritten
  <2>. QED  BY <1>5, <2>2 DEF UsableIfOk
<1>. QED  BY <1>4, <1>5

LEMMA SyncsChained ==
  ASSUME NEW S, Sound(S)
  PROVE  /\ Sound(Then(S, Sync))
         /\ \A o \in Then(S, Sync) : \E s \in S : o.dev = s.dev /\ (o.ok => s.ok)
<1>1. SUFFICES ASSUME NEW o \in Then(S, Sync)
               PROVE  GoodOut(o) /\ \E s \in S : o.dev = s.dev /\ (o.ok => s.ok)
  BY DEF Sound
<1>2. PICK s \in S : o \in IF s.ok THEN Sync(s.dev) ELSE {s}
  BY DEF Then
<1>3. GoodOut(s) /\ Good(s.dev)
  BY DEF Sound, GoodOut
<1>4. CASE ~s.ok
  BY <1>2, <1>3, <1>4
<1>5. CASE s.ok
  <2>1. o \in Sync(s.dev)
    BY <1>2, <1>5
  <2>2. GoodOut(o) /\ o.dev = s.dev
    BY <1>3, <2>1, Synced
  <2>. QED  BY <1>5, <2>2
<1>. QED  BY <1>4, <1>5

LEMMA ParsesChained ==
  ASSUME NEW S, Sound(S), NEW b \in Nat
  PROVE  /\ Sound(ThenParse(S, b))
         /\ "read" \notin Faults /\ WholeIfOk(S) => WholeIfOk(ThenParse(S, b))
<1>1. SUFFICES ASSUME NEW o \in ThenParse(S, b)
               PROVE  /\ GoodOut(o)
                      /\ "read" \notin Faults /\ WholeIfOk(S) => (o.ok => Whole(o.dev))
  BY DEF Sound, WholeIfOk
<1>2. PICK s \in S : o \in IF s.ok
                           THEN IF IsData(s.dev, b) THEN ReadBlock(s.dev, b) ELSE Fail(s.dev)
                           ELSE {s}
  BY DEF ThenParse, Then
<1>3. GoodOut(s) /\ Good(s.dev)
  BY DEF Sound, GoodOut
<1>4. CASE ~s.ok
  BY <1>2, <1>3, <1>4
<1>5. CASE s.ok /\ o \in ReadBlock(s.dev, b)
  <2>1. /\ GoodOut(o)
        /\ "read" \notin Faults /\ Whole(s.dev) => Whole(o.dev)
    BY <1>3, <1>5, BlockRead
  <2>. QED  BY <1>5, <2>1 DEF WholeIfOk
<1>6. CASE s.ok /\ o \in Fail(s.dev)
  <2>1. GoodOut(o) /\ ~o.ok
    BY <1>3, <1>6, Certain
  <2>. QED  BY <2>1
<1>. QED  BY <1>2, <1>4, <1>5, <1>6

\* A format: all of the tape is written anew.
LEMMA Initialized ==
  ASSUME NEW d, Good(d)
  PROVE  /\ Sound(initialize(d))
         /\ "write" \notin Faults => WholeIfOk(initialize(d))
<1> DEFINE e == [d EXCEPT !.head = 0, !.tapPos = 0, !.types = <<>>, !.writePos = 0]
           rewound == MayFail("position", d) \cup Ok(e)
           S2 == ThenWrite(rewound, "label")
           S3 == ThenWrite(S2, "label")
           S4 == ThenMark(S3)
           S5 == ThenWrite(S4, Blank)
           S6 == ThenMark(S5)
           S7 == ThenMark(S6)
<1>1. /\ e \in Devices /\ e.med = d.med /\ e.types = <<>>
      /\ e.head = 0 /\ e.tapPos = 0 /\ e.writePos = 0
  <2>1. <<>> \in Seq(Types)
    OBVIOUS
  <2>. QED  BY <2>1 DEF Good, Devices
<1>2. Len(<<>>) = 0
  OBVIOUS
<1>3. initialize(d) = Then(S7, Sync)
  BY DEF initialize
<1> HIDE DEF e
<1>4. Good(e) /\ Ready(e)
  <2>1. Len(d.med) \in Nat /\ Len(d.med) <= MaxBlocks
    BY Fields
  <2> DEFINE m == Len(d.med)
  <2>2. m \in Nat /\ m = Len(d.med)
    BY <2>1
  <2> HIDE DEF m
  <2>3. Good(e)
    BY <1>1, <1>2, <2>1, <2>2 DEF Good
  <2>4. Agrees(e) /\ NoEnd(e) /\ EndOnly(e)
    BY <1>1, <1>2 DEF Agrees, NoEnd, EndOnly
  <2>5. 0 = m \/ 0 < m
    BY <2>2
  <2>. QED  BY <1>1, <1>2, <2>2, <2>3, <2>4, <2>5 DEF Ready, Cut, Whole, Tracked
<1>5. Sound(rewound) /\ ReadyIfOk(rewound)
  <2>1. SUFFICES ASSUME NEW s \in rewound
                 PROVE  GoodOut(s) /\ (s.ok => Ready(s.dev))
    BY DEF Sound, ReadyIfOk
  <2>2. CASE s \in Ok(e)
    BY <1>4, <2>2, Certain
  <2>3. CASE s \in Failed(d)
    <3>1. GoodOut(s) /\ ~s.ok
      BY <2>3, FailedCall
    <3>. QED  BY <3>1
  <2>. QED  BY <2>1, <2>2, <2>3 DEF MayFail
<1>6. Blank \in Indexes
  BY BlankAssumption
<1>7. \A S : UsableIfOk(S) => ReadyIfOk(S) /\ WholeIfOk(S)
  BY DEF UsableIfOk, ReadyIfOk, WholeIfOk, Ready
<1> HIDE DEF rewound
<1>8. Sound(S2) /\ ("write" \notin Faults => UsableIfOk(S2))
  BY <1>5, WritesChained
<1> HIDE DEF S2
<1>9. Sound(S3) /\ ("write" \notin Faults => UsableIfOk(S3))
  BY <1>7, <1>8, WritesChained
<1> HIDE DEF S3
<1>10. Sound(S4) /\ ("write" \notin Faults => UsableIfOk(S4))
  BY <1>9, MarksChained
<1> HIDE DEF S4
<1>11. Sound(S5) /\ ("write" \notin Faults => UsableIfOk(S5))
  BY <1>6, <1>7, <1>10, WritesChained
<1> HIDE DEF S5
<1>12. Sound(S6) /\ ("write" \notin Faults => UsableIfOk(S6))
  BY <1>11, MarksChained
<1> HIDE DEF S6
<1>13. Sound(S7) /\ ("write" \notin Faults => UsableIfOk(S7))
  BY <1>12, MarksChained
<1> HIDE DEF S7
<1>14. /\ Sound(initialize(d))
       /\ \A o \in initialize(d) : \E s \in S7 : o.dev = s.dev /\ (o.ok => s.ok)
  BY <1>3, <1>13, SyncsChained
<1>. QED  BY <1>7, <1>13, <1>14 DEF WholeIfOk

-----------------------------------------------------------------------------
(***************************************************************************)
(* The operations of TapeFS.                                               *)
(***************************************************************************)
LEMMA Regional ==
  ASSUME NEW S, Sound(S), NEW d
  PROVE  \A o \in Region(S, d) :
           GoodOut(o) /\ \E s \in S : o.dev = s.dev /\ (o.ok => s.ok)
<1>1. SUFFICES ASSUME NEW s \in S
               PROVE  /\ GoodOut(s)
                      /\ GoodOut([s EXCEPT !.ok = FALSE])
                      /\ [s EXCEPT !.ok = FALSE].dev = s.dev
                      /\ ~[s EXCEPT !.ok = FALSE].ok
  BY DEF Region
<1>. QED  BY DEF Sound, GoodOut

\* The data, a filemark and the end-of-data mark.
LEMMA RecordsAppended ==
  ASSUME NEW d, Good(d), NEW c \in Contents, NEW o \in AppendRecords(d, c)
  PROVE  /\ GoodOut(o)
         /\ "write" \notin Faults /\ Ready(d) => Whole(o.dev)
<1> DEFINE Able == "write" \notin Faults /\ Ready(d)
           data == Region(writeRecord(d, c), d)
           mark == Then(data, LAMBDA e : Region(writeFilemark(e), e))
<1>1. \A s \in data : GoodOut(s) /\ (Able => Whole(s.dev) /\ NoEnd(s.dev))
  <2>1. \A r \in writeRecord(d, c) : GoodOut(r) /\ (Able => Whole(r.dev) /\ NoEnd(r.dev))
    BY RecordWritten
  <2>2. Sound(writeRecord(d, c))
    BY <2>1 DEF Sound
  <2>. QED  BY <2>1, <2>2, Regional
<1>2. ASSUME NEW s \in mark
      PROVE  GoodOut(s) /\ (Able => Whole(s.dev) /\ NoEnd(s.dev))
  <2>1. PICK r \in data : s \in IF r.ok THEN Region(writeFilemark(r.dev), r.dev) ELSE {r}
    BY <1>2 DEF Then
  <2>2. GoodOut(r) /\ Good(r.dev) /\ (Able => Whole(r.dev) /\ NoEnd(r.dev))
    BY <1>1 DEF GoodOut
  <2>3. CASE ~r.ok
    BY <2>1, <2>2, <2>3
  <2>4. CASE r.ok
    <3>1. \A w \in writeFilemark(r.dev) : GoodOut(w) /\ (Able => Whole(w.dev) /\ NoEnd(w.dev))
      BY <2>2, FilemarkWritten
    <3>2. Sound(writeFilemark(r.dev))
      BY <3>1 DEF Sound
    <3>3. s \in Region(writeFilemark(r.dev), r.dev)
      BY <2>1, <2>4
    <3>. QED  BY <3>1, <3>2, <3>3, Regional
  <2>. QED  BY <2>3, <2>4
<1>3. PICK s \in mark : o \in IF s.ok THEN Region(WriteEOD(s.dev), s.dev) ELSE {s}
  BY DEF AppendRecords, Then
<1> HIDE DEF mark, data
<1>4. GoodOut(s) /\ Good(s.dev) /\ (Able => Whole(s.dev) /\ NoEnd(s.dev))
  BY <1>2 DEF GoodOut
<1>5. CASE ~s.ok
  BY <1>3, <1>4, <1>5
<1>6. CASE s.ok
  <2>1. \A w \in WriteEOD(s.dev) : GoodOut(w) /\ (Able => Whole(w.dev))
    BY <1>4, EODWritten
  <2>2. Sound(WriteEOD(s.dev))
    BY <2>1 DEF Sound
  <2>3. o \in Region(WriteEOD(s.dev), s.dev)
    BY <1>3, <1>6
  <2>. QED  BY <2>1, <2>2, <2>3, Regional
<1>. QED  BY <1>5, <1>6

\* The check of the last record leaves no end-of-data mark before the data.
LEMMA FileAppended ==
  ASSUME NEW d, Good(d), NEW c \in Contents, NEW o \in appendFileData(d, c)
  PROVE  /\ GoodOut(o)
         /\ "write" \notin Faults /\ (Whole(d) \/ Cut(d)) => Whole(o.dev)
<1> DEFINE n == Len(d.types)
           last == n - 1
<1>1. n \in Nat /\ n = Len(d.types)
  BY Fields
<1> HIDE DEF n
<1>2. CASE last >= DataOffset /\ d.types[last + 1] = "eod"
  <2>1. last \in Nat /\ last < n /\ last + 1 = n /\ n \in 1 .. n /\ ~(n <= DataOffset)
    BY <1>1, <1>2 DEF DataOffset
  <2>2. ~Cut(d)
    BY <1>1, <1>2, <2>1 DEF Cut, NoEnd
  <2>3. PICK s \in truncateAt(d, last) : o \in IF s.ok THEN AppendRecords(s.dev, c) ELSE {s}
    BY <1>1, <1>2 DEF appendFileData, Then
  <2>4. GoodOut(s) /\ Good(s.dev) /\ (Whole(d) => IF s.ok THEN Ready(s.dev) ELSE Whole(s.dev))
    BY <1>1, <2>1, Truncation DEF GoodOut
  <2>5. CASE ~s.ok
    BY <2>2, <2>3, <2>4, <2>5
  <2>6. CASE s.ok
    <3>1. o \in AppendRecords(s.dev, c)
      BY <2>3, <2>6
    <3>2. GoodOut(o) /\ ("write" \notin Faults /\ Ready(s.dev) => Whole(o.dev))
      BY <2>4, <3>1, RecordsAppended
    <3>. QED  BY <2>2, <2>4, <2>6, <3>2
  <2>. QED  BY <2>5, <2>6
<1>3. CASE ~(last >= DataOffset /\ d.types[last + 1] = "eod")
  <2>1. o \in AppendRecords(d, c)
    BY <1>1, <1>3 DEF appendFileData
  <2>2. GoodOut(o) /\ ("write" \notin Faults /\ Ready(d) => Whole(o.dev))
    BY <2>1, RecordsAppended
  <2>3. Whole(d) => NoEnd(d)
    <3>1. SUFFICES ASSUME Whole(d), NEW i \in 1 .. n, d.types[i] = "eod"
                   PROVE  i <= DataOffset
      BY <1>1 DEF NoEnd
    <3>2. CASE i = n
      <4>1. last + 1 = i
        BY <1>1, <3>2
      <4>2. ~(last >= DataOffset)
        BY <1>3, <3>1, <4>1
      <4>. QED  BY <1>1, <3>2, <4>2 DEF DataOffset
    <3>3. CASE i # n
      <4>1. i \in 1 .. n - 1
        BY <1>1, <3>3
      <4>. QED  BY <1>1, <3>1, <4>1 DEF Whole, EndOnly
    <3>. QED  BY <3>2, <3>3
  <2>. QED  BY <2>2, <2>3 DEF Ready
<1>. QED  BY <1>2, <1>3

LEMMA IndexFlushed ==
  ASSUME NEW d, Good(d), NEW idx \in Indexes, NEW o \in flushIndex(d, idx)
  PROVE  /\ GoodOut(o)
         /\ "write" \notin Faults /\ Whole(d) => Whole(o.dev)
<1> DEFINE S1 == truncateAt(d, IndexBlock)
           S2 == ThenWrite(S1, idx)
           S3 == ThenMark(S2)
           S4 == ThenMark(S3)
           Able == "write" \notin Faults /\ Whole(d)
<1>1. Sound(S1) /\ (Able => ReadyIfOk(S1) /\ WholeIfNot(S1))
  <2>1. IndexBlock \in Nat /\ IndexBlock <= DataOffset
    BY DEF IndexBlock, DataOffset
  <2>2. \A s \in S1 : /\ GoodOut(s)
                      /\ Whole(d) => IF s.ok THEN Ready(s.dev) ELSE Whole(s.dev)
    BY <2>1, Truncation
  <2>. QED  BY <2>2 DEF Sound, ReadyIfOk, WholeIfNot
<1>2. o \in Then(S4, Sync)
  BY DEF flushIndex
<1>3. \A S : UsableIfOk(S) /\ WholeIfNot(S) => \A s \in S : Whole(s.dev)
  BY DEF UsableIfOk, WholeIfNot
<1> HIDE DEF S1
<1>4. Sound(S2) /\ (Able => UsableIfOk(S2) /\ WholeIfNot(S2))
  BY <1>1, WritesChained
<1> HIDE DEF S2
<1>5. Sound(S3) /\ (Able => UsableIfOk(S3) /\ WholeIfNot(S3))
  BY <1>4, MarksChained
<1> HIDE DEF S3
<1>6. Sound(S4) /\ (Able => UsableIfOk(S4) /\ WholeIfNot(S4))
  BY <1>5, MarksChained
<1> HIDE DEF S4
<1>7. Sound(Then(S4, Sync)) /\ \E s \in S4 : o.dev = s.dev
  BY <1>2, <1>6, SyncsChained
<1>. QED  BY <1>2, <1>3, <1>6, <1>7 DEF Sound

\* A defrag that moves a file writes behind its cut; one that moves none leaves it.
LEMMA Defragged ==
  ASSUME Good(dev), NEW b \in Nat, NEW moved \in SUBSET Contents, Defrag(b, moved)
  PROVE  /\ Good(dev')
         /\ "write" \notin Faults /\ "trim" \notin Uses /\ Whole(dev) => Whole(dev')
<1> DEFINE Able == "write" \notin Faults /\ "trim" \notin Uses /\ Whole(dev)
           cut == truncateAt(dev, b)
           files == IF moved = {} THEN cut
                    ELSE Then(cut, LAMBDA e : UNION {appendFileData(e, c) : c \in moved})
<1>1. b < Len(dev.types) /\ (Able => moved # {})
  BY DEF Defrag, IsData
<1>2. \A s \in cut : GoodOut(s) /\ (Able => IF s.ok THEN Cut(s.dev) ELSE Whole(s.dev))
  BY <1>1, Truncation
<1>3. \A s \in files : GoodOut(s) /\ (Able => Whole(s.dev))
  <2>1. CASE moved = {}
    BY <1>1, <1>2, <2>1
  <2>2. CASE moved # {}
    <3>1. SUFFICES ASSUME NEW s \in files
                   PROVE  GoodOut(s) /\ (Able => Whole(s.dev))
      OBVIOUS
    <3>2. PICK r \in cut : s \in IF r.ok THEN UNION {appendFileData(r.dev, c) : c \in moved} ELSE {r}
      BY <2>2 DEF Then
    <3>3. GoodOut(r) /\ Good(r.dev) /\ (Able => IF r.ok THEN Cut(r.dev) ELSE Whole(r.dev))
      BY <1>2 DEF GoodOut
    <3>4. CASE ~r.ok
      BY <3>2, <3>3, <3>4
    <3>5. CASE r.ok
      <4>1. PICK c \in moved : s \in appendFileData(r.dev, c)
        BY <3>2, <3>5
      <4>2. /\ GoodOut(s)
            /\ "write" \notin Faults /\ (Whole(r.dev) \/ Cut(r.dev)) => Whole(s.dev)
        BY <3>3, <4>1, FileAppended
      <4>. QED  BY <3>3, <3>5, <4>2
    <3>. QED  BY <3>4, <3>5
  <2>. QED  BY <2>1, <2>2
<1>4. PICK o \in Then(files, Sync) : dev' = o.dev
  BY DEF Defrag, Using
<1> HIDE DEF files, cut
<1>5. Sound(files)
  BY <1>3 DEF Sound
<1>6. GoodOut(o) /\ \E s \in files : o.dev = s.dev
  BY <1>4, <1>5, SyncsChained DEF Sound
<1>. QED  BY <1>3, <1>4, <1>6 DEF GoodOut

-----------------------------------------------------------------------------
(***************************************************************************)
(* The specification.                                                      *)
(***************************************************************************)
\* Type correctness follows from Good.
IInv == Good(dev) /\ open \in BOOLEAN

\* While the device is open its table is that of the tape; once closed it has none.
TableInv == (open => Whole(dev)) /\ (~open => dev.tapPos = Unknown)

\* What is written reaches the tape, what is on tape can be read, two marks are two
\* marks, and a defrag of nothing is left out: after it, and where a write fails behind
\* a truncation, the table is shorter than the tape until the next write.
Reliable ==
  Faults \subseteq {"position", "mark"} /\ ~DoubleMarkEnds /\ "trim" \notin Uses

LEMMA ClosedGood ==
  ASSUME NEW d, Good(d)
  PROVE  Good(Closed(d)) /\ Closed(d).tapPos = Unknown
<1> DEFINE e == Closed(d)
<1>1. /\ e \in Devices /\ e.med = d.med /\ e.types = <<>>
      /\ e.head = 0 /\ e.tapPos = Unknown /\ e.writePos = 0
  <2>1. <<>> \in Seq(Types)
    OBVIOUS
  <2>. QED  BY <2>1 DEF Closed, Good, Devices
<1>2. Len(<<>>) = 0 /\ Len(d.med) \in Nat /\ Len(d.med) <= MaxBlocks
  BY Fields
<1> DEFINE m == Len(d.med)
<1>3. m \in Nat /\ m = Len(d.med)
  BY <1>2
<1> HIDE DEF e, m
<1>4. 0 <= m
  BY <1>3
<1>5. Good(e)
  BY <1>1, <1>2, <1>3, <1>4 DEF Good
<1>. QED  BY <1>1, <1>5 DEF e

LEMMA OpeningKeeps ==
  ASSUME NEW S, Sound(S), Opening(S)
  PROVE  IInv' /\ (WholeIfOk(S) => TableInv')
<1>1. PICK o \in S : dev' = (IF o.ok THEN o.dev ELSE Closed(o.dev)) /\ open' = o.ok
  BY DEF Opening
<1>2. GoodOut(o) /\ Good(o.dev) /\ o.ok \in BOOLEAN
  BY DEF Sound, GoodOut
<1>3. CASE o.ok
  <2>1. dev' = o.dev /\ open' = o.ok
    BY <1>1, <1>3
  <2>. QED  BY <1>2, <1>3, <2>1 DEF IInv, TableInv, WholeIfOk
<1>4. CASE ~o.ok
  <2>1. dev' = Closed(o.dev) /\ open' = o.ok
    BY <1>1, <1>4
  <2>2. Good(Closed(o.dev)) /\ Closed(o.dev).tapPos = Unknown
    BY <1>2, ClosedGood
  <2>. QED  BY <1>2, <1>4, <2>1, <2>2 DEF IInv, TableInv
<1>. QED  BY <1>3, <1>4

LEMMA InitIInv == Init => IInv /\ TableInv
<1>1. SUFFICES ASSUME Init
               PROVE  Good(dev) /\ dev.tapPos = Unknown /\ open = FALSE
  BY <1>1 DEF IInv, TableInv
<1>2. <<>> \in Seq(Types) /\ <<>> \in Seq(Blocks) /\ Len(<<>>) = 0
  OBVIOUS
<1>3. /\ dev \in Devices /\ dev.med = <<>> /\ dev.types = <<>>
      /\ dev.head = 0 /\ dev.tapPos = Unknown /\ dev.writePos = 0
  BY <1>1, <1>2 DEF Init, Devices
<1>4. Good(dev)
  BY <1>2, <1>3, BoundAssumption DEF Good
<1>. QED  BY <1>1, <1>3, <1>4 DEF Init

LEMMA InvariantStep ==
  /\ IInv /\ [Next]_vars => IInv'
  /\ Reliable /\ IInv /\ TableInv /\ [Next]_vars => TableInv'
<1> DEFINE Kept == IInv' /\ (Reliable /\ TableInv => TableInv')
<1>1. SUFFICES ASSUME IInv, [Next]_vars
               PROVE  Kept
  OBVIOUS
<1>2. Good(dev) /\ open \in BOOLEAN
  BY <1>1 DEF IInv
<1>3. Reliable => "write" \notin Faults /\ "read" \notin Faults
  BY DEF Reliable
<1>4. ASSUME open, open' = open, Good(dev'), Reliable /\ Whole(dev) => Whole(dev')
      PROVE  Kept
  BY <1>2, <1>4 DEF IInv, TableInv
<1>5. CASE Format
  <2> DEFINE S == ThenParse(initialize(dev), 1)
  <2>1. Sound(S) /\ (Reliable => WholeIfOk(S))
    <3>1. Sound(initialize(dev)) /\ ("write" \notin Faults => WholeIfOk(initialize(dev)))
      BY <1>2, Initialized
    <3>. QED  BY <1>3, <3>1, ParsesChained
  <2>2. Opening(S)
    BY <1>5 DEF Format
  <2> HIDE DEF S
  <2>. QED  BY <2>1, <2>2, OpeningKeeps
<1>6. CASE Load
  <2> DEFINE S1 == scan(dev)
             S2 == ThenParse(S1, 1)
             S3 == ThenParse(S2, 3)
  <2>1. Sound(S1) /\ (Reliable => WholeIfOk(S1))
    BY <1>2, <1>3, ScanEnds DEF Sound, WholeIfOk, Reliable
  <2> HIDE DEF S1
  <2>2. Sound(S2) /\ (Reliable => WholeIfOk(S2))
    BY <1>3, <2>1, ParsesChained
  <2> HIDE DEF S2
  <2>3. Sound(S3) /\ (Reliable => WholeIfOk(S3))
    BY <1>3, <2>2, ParsesChained
  <2>4. Opening(S3)
    BY <1>6 DEF Load, S1, S2
  <2> HIDE DEF S3
  <2>. QED  BY <2>3, <2>4, OpeningKeeps
<1>7. CASE Close
  <2>1. Good(Closed(dev)) /\ Closed(dev).tapPos = Unknown
    BY <1>2, ClosedGood
  <2>. QED  BY <1>7, <2>1 DEF Close, IInv, TableInv
<1>8. ASSUME NEW c \in Contents, AppendFile(c)
      PROVE  Kept
  <2>1. open /\ open' = open /\ \E o \in appendFileData(dev, c) : dev' = o.dev
    BY <1>8 DEF AppendFile, Using
  <2>2. \A o \in appendFileData(dev, c) :
          Good(o.dev) /\ ("write" \notin Faults /\ Whole(dev) => Whole(o.dev))
    BY <1>2, FileAppended DEF GoodOut
  <2>. QED  BY <1>3, <1>4, <2>1, <2>2
<1>9. ASSUME NEW idx \in Indexes, Commit(idx)
      PROVE  Kept
  <2>1. open /\ open' = open /\ \E o \in flushIndex(dev, idx) : dev' = o.dev
    BY <1>9 DEF Commit, Using
  <2>2. \A o \in flushIndex(dev, idx) :
          Good(o.dev) /\ ("write" \notin Faults /\ Whole(dev) => Whole(o.dev))
    BY <1>2, IndexFlushed DEF GoodOut
  <2>. QED  BY <1>3, <1>4, <2>1, <2>2
<1>10. ASSUME NEW b \in 0 .. Len(dev.types) - 1, Read(b)
       PROVE  Kept
  <2>1. open /\ open' = open /\ \E o \in ReadBlock(dev, b) : dev' = o.dev
    BY <1>10 DEF Read, Using
  <2>2. \A o \in ReadBlock(dev, b) :
          Good(o.dev) /\ ("read" \notin Faults /\ Whole(dev) => Whole(o.dev))
    BY <1>2, BlockRead DEF GoodOut
  <2>. QED  BY <1>3, <1>4, <2>1, <2>2
<1>11. ASSUME NEW b \in DataOffset .. Len(dev.types) - 1,
              NEW moved \in {{}} \cup {{c} : c \in Contents}, Defrag(b, moved)
       PROVE  Kept
  <2>1. b \in Nat /\ moved \in SUBSET Contents
    BY DEF DataOffset
  <2>2. /\ Good(dev')
        /\ "write" \notin Faults /\ "trim" \notin Uses /\ Whole(dev) => Whole(dev')
    BY <1>2, <1>11, <2>1, Defragged
  <2>3. open /\ open' = open
    BY <1>11 DEF Defrag, Using
  <2>. QED  BY <1>3, <1>4, <2>2, <2>3 DEF Reliable
<1>12. CASE UNCHANGED vars
  BY <1>1, <1>12 DEF vars, IInv, TableInv
<1>. QED
  BY <1>1, <1>5, <1>6, <1>7, <1>8, <1>9, <1>10, <1>11, <1>12 DEF Next

\* Whatever the drive does, the fields are of their types and within the tape: in
\* particular the table never has more blocks than the tape.
THEOREM TypeCorrect == Spec => []TypeOK
<1>1. IInv => TypeOK
  <2>1. SUFFICES ASSUME Good(dev), open \in BOOLEAN
                 PROVE  TypeOK
    BY DEF IInv
  <2> DEFINE m == Len(dev.med)
             n == Len(dev.types)
  <2>2. /\ dev.med \in Seq(Blocks) /\ m \in Nat /\ m <= MaxBlocks
        /\ dev.head \in Nat /\ dev.head <= m
        /\ dev.types \in Seq(Types) /\ n \in Nat /\ n <= m
        /\ dev.writePos = n
        /\ dev.tapPos \in Nat \cup {Unknown}
        /\ dev.tapPos # Unknown => dev.tapPos <= dev.head
    BY <2>1, Fields
  <2> HIDE DEF n
  <2>3. n \in 0 .. MaxBlocks /\ dev.head \in 0 .. MaxBlocks /\ m <= MaxBlocks
    <3> HIDE DEF m
    <3>. QED  BY <2>2, BoundAssumption
  <2>4. dev.tapPos \in (0 .. MaxBlocks) \cup {Unknown}
    <3>1. CASE dev.tapPos # Unknown
      BY <2>2, <2>3, <3>1, BoundAssumption
    <3>. QED  BY <3>1
  <2>. QED  BY <2>1, <2>2, <2>3, <2>4 DEF TypeOK
<1>. QED  BY <1>1, InitIInv, InvariantStep, PTL DEF Spec

\* What the next two rest on: between operations every block of the tape is in the table,
\* under its type, and the head is tracked (scsi_linux.go, scanBlocks, SeekTo,
\* TruncateAt).
THEOREM TableKept == ASSUME Reliable PROVE Spec => [](IInv /\ TableInv)
<1>1. Reliable
  OBVIOUS
<1>2. IInv /\ TableInv /\ [Next]_vars => (IInv /\ TableInv)'
  BY <1>1, InvariantStep
<1>. QED  BY <1>2, InitIInv, PTL DEF Spec

\* A position the code believes in is where the head is, however often seeks and marks
\* fail (scsi_linux.go, tapPos).
THEOREM HeadAlwaysTracked == ASSUME Reliable PROVE Spec => []HeadTracked
<1>1. TableInv => HeadTracked
  BY DEF TableInv, Whole, Tracked, HeadTracked
<1>. QED  BY <1>1, TableKept, PTL

\* Between operations the table of the block types is that of the tape
\* (scsi_linux.go, blockTypes).
THEOREM TableAlwaysMatches == ASSUME Reliable PROVE Spec => []TableMatches
<1>1. IInv /\ TableInv => TableMatches
  <2>1. SUFFICES ASSUME open, Whole(dev)
                 PROVE  /\ dev.writePos = Len(dev.med)
                        /\ Len(dev.types) = Len(dev.med)
                        /\ \A i \in 1 .. Len(dev.med) : dev.types[i] = "data" <=> dev.med[i] # Filemark
    BY DEF TableInv, TableMatches
  <2>. QED  BY <2>1 DEF Whole, Good, Agrees
<1>. QED  BY <1>1, TableKept, PTL

-----------------------------------------------------------------------------
(***************************************************************************)
(* The two partitions a device is taken for.                               *)
(***************************************************************************)
All == Contents \cup Indexes \cup {"label"}

\* Block, DataRegion and TapeIndex, of any table t and tape m.
Shown(t, m, i) == IF t[i] = "data" /\ i <= Len(m) THEN m[i] ELSE [type |-> t[i]]

RegionOf(t, m) == [i \in 1 .. (Len(t) - DataOffset) |-> Shown(t, m, i + DataOffset)]

IndexOf(m) ==
  IF Len(m) > IndexBlock /\ m[IndexBlock + 1] \in [type : {"data"}, data : Indexes]
  THEN m[IndexBlock + 1].data ELSE None

\* The data partition of an open device.
View(d) == RegionOf(d.types, d.med)

LEMMA Seen ==
  /\ DataRegion = RegionOf(Table, dev.med) /\ TapeIndex = IndexOf(dev.med)
  /\ (DataRegion = RegionOf(Table, dev.med) /\ TapeIndex = IndexOf(dev.med))'
BY DEF DataRegion, Block, RegionOf, Shown, TapeIndex, IndexOf

LEMMA BlockKinds ==
  /\ \A rec \in Blocks : rec \in Records(All) /\ (rec.type = "data" \/ rec = Filemark)
  /\ Filemark.type = "filemark" /\ EODMark.type = "eod"
  /\ [type |-> "filemark"] = Filemark /\ [type |-> "eod"] = EODMark
<1>1. Label \in [type : {"data"}, data : All] /\ Label.type = "data"
  BY DEF Label, DataRecord, All
<1>2. \A rec \in [type : {"data"}, data : Contents \cup Indexes] :
        rec \in [type : {"data"}, data : All] /\ rec.type = "data"
  BY DEF All
<1>. QED  BY <1>1, <1>2 DEF Blocks, Records, Filemark, EODMark

\* Block i + 1 of the data partition is block i + DataOffset + 1 of the tape.
LEMMA ViewShape ==
  ASSUME NEW d, Good(d)
  PROVE  /\ View(d) \in LogOf(All)
         /\ Len(d.types) <= DataOffset => View(d) = <<>>
         /\ DataOffset <= Len(d.types) =>
              /\ Len(View(d)) = Len(d.types) - DataOffset
              /\ \A i \in 1 .. Len(d.types) - DataOffset :
                   View(d)[i] = Shown(d.types, d.med, i + DataOffset)
<1> DEFINE n == Len(d.types)
           m == Len(d.types) - DataOffset
           V == View(d)
<1>1. n \in Nat /\ n = Len(d.types) /\ d.types \in Seq(Types) /\ d.med \in Seq(Blocks)
      /\ n <= Len(d.med) /\ Len(d.med) \in Nat
  BY Fields
<1> HIDE DEF n
<1>2. ASSUME NEW i \in 1 .. n
      PROVE  Shown(d.types, d.med, i) \in Records(All)
  <2>1. i <= Len(d.med) /\ i \in 1 .. Len(d.med)
    BY <1>1
  <2>2. d.med[i] \in Blocks /\ d.types[i] \in Types
    BY <1>1, <2>1, ElementOfSeq
  <2>3. CASE d.types[i] = "data"
    BY <2>1, <2>2, <2>3, BlockKinds DEF Shown
  <2>4. CASE d.types[i] # "data"
    BY <2>2, <2>4, BlockKinds DEF Shown, Types, Records
  <2>. QED  BY <2>3, <2>4
<1>3. m \in Int /\ m = n - DataOffset /\ DataOffset = 6
  BY <1>1 DEF DataOffset
<1>4. V = [i \in 1 .. m |-> Shown(d.types, d.med, i + DataOffset)]
  BY DEF View, RegionOf
<1> HIDE DEF m, V
<1>5. \A i \in 1 .. m : i + DataOffset \in 1 .. n
  BY <1>1, <1>3
<1>6. V \in [1 .. m -> Records(All)]
  BY <1>2, <1>4, <1>5
<1>7. CASE n <= DataOffset
  <2>1. 1 .. m = {}
    BY <1>1, <1>3, <1>7
  <2>2. V = <<>>
    BY <1>4, <2>1
  <2>3. n = DataOffset => m = 0 /\ 1 .. 0 = {}
    BY <1>3
  <2>4. <<>> \in Seq(Records(All)) /\ Len(<<>>) = 0
    OBVIOUS
  <2>5. V \in LogOf(All) /\ V = <<>>
    BY <2>2, <2>4 DEF LogOf
  <2>6. DataOffset <= n => Len(V) = m /\ 1 .. m = {}
    <3>1. DataOffset <= n => m = 0
      <4>1. n \in Nat /\ m = n - 6 /\ DataOffset = 6 /\ n <= 6
        BY <1>1, <1>3, <1>7
      <4>. QED  BY <4>1
    <3>. QED  BY <2>1, <2>2, <2>4, <3>1
  <2>. QED  BY <1>1, <2>5, <2>6 DEF V, m
<1>8. CASE ~(n <= DataOffset)
  <2>1. m \in Nat
    BY <1>1, <1>3, <1>8
  <2>2. V \in Seq(Records(All)) /\ Len(V) = m
    BY <1>6, <2>1
  <2>3. \A i \in 1 .. m : V[i] = Shown(d.types, d.med, i + DataOffset)
    BY <1>4
  <2>. QED  BY <1>1, <1>8, <2>2, <2>3 DEF LogOf, V, m
<1>. QED  BY <1>7, <1>8

\* A step that changes only the position changes neither.
LEMMA SameView ==
  ASSUME NEW d, NEW e, SameTape(d, e)
  PROVE  View(e) = View(d) /\ IndexOf(e.med) = IndexOf(d.med)
BY DEF SameTape, View

\* A truncation of the tape behind DataOffset is one of the data partition.
LEMMA ViewCut ==
  ASSUME NEW d, NEW e, Good(d), Good(e), e.med = d.med, NEW b \in Nat,
         DataOffset <= b, b <= Len(d.types), Len(e.types) = b,
         \A i \in 1 .. b : e.types[i] = d.types[i]
  PROVE  b - DataOffset \in 0 .. Len(View(d)) /\ View(e) = TruncateAt(View(d), b - DataOffset)
<1> DEFINE n == Len(d.types)
           k == b - DataOffset
           V == View(d)
           W == View(e)
           T == TruncateAt(V, k)
<1>1. n \in Nat /\ n = Len(d.types) /\ DataOffset = 6
  BY Fields DEF DataOffset
<1> HIDE DEF n
<1>2. k \in 0 .. n - DataOffset /\ DataOffset <= n
  BY <1>1
<1>3. /\ V \in LogOf(All) /\ Len(V) = n - DataOffset
      /\ \A i \in 1 .. n - DataOffset : V[i] = Shown(d.types, d.med, i + DataOffset)
  BY <1>1, <1>2, ViewShape
<1>4. /\ W \in LogOf(All) /\ Len(W) = k
      /\ \A i \in 1 .. k : W[i] = Shown(e.types, e.med, i + DataOffset)
  BY ViewShape
<1>5. \A i \in 1 .. k : i + DataOffset \in 1 .. b /\ i \in 1 .. n - DataOffset
  BY <1>1
<1> HIDE DEF k, V, W
<1>6. T \in LogOf(All) /\ Len(T) = k /\ \A i \in 1 .. k : T[i] = V[i]
  BY <1>2, <1>3, Truncated
<1> HIDE DEF T
<1>7. \A i \in 1 .. k : W[i] = T[i]
  BY <1>3, <1>4, <1>5, <1>6, ZenonT(60) DEF Shown
<1>8. W = T
  BY <1>4, <1>6, <1>7, SeqEqual DEF LogOf
<1>. QED  BY <1>2, <1>3, <1>8 DEF k, V, W, T

\* A block written behind the last of the table is one more of the data partition.
LEMMA ViewPut ==
  ASSUME NEW d, NEW e, Good(d), Good(e), NEW rec, NEW type, Puts(d, e, rec, type),
         DataOffset <= Len(d.types),
         NEW r \in Records(All), r = IF type = "data" THEN rec ELSE [type |-> type]
  PROVE  View(e) = Append(View(d), r)
<1> DEFINE n == Len(d.types)
           k == n - DataOffset
           V == View(d)
           W == View(e)
           A == Append(V, r)
<1>1. n \in Nat /\ n = Len(d.types) /\ DataOffset = 6 /\ DataOffset <= n
  BY Fields DEF DataOffset
<1>2. /\ Len(e.types) = n + 1 /\ Len(e.types) <= Len(e.med) /\ Len(e.med) \in Nat
      /\ n <= Len(d.med) /\ Len(d.med) \in Nat
  BY Fields DEF Puts
<1>3. /\ \A i \in 1 .. n : e.types[i] = d.types[i] /\ e.med[i] = d.med[i]
      /\ e.types[n + 1] = type /\ e.med[n + 1] = rec
  BY DEF Puts
<1>4. /\ V \in LogOf(All) /\ Len(V) = k
      /\ \A i \in 1 .. k : V[i] = Shown(d.types, d.med, i + DataOffset)
  BY <1>1, ViewShape
<1> HIDE DEF n
<1>5. k \in Nat /\ (n + 1) - DataOffset = k + 1 /\ DataOffset <= n + 1 /\ (k + 1) + DataOffset = n + 1
  BY <1>1
<1>6. /\ W \in LogOf(All) /\ Len(W) = k + 1
      /\ \A i \in 1 .. k + 1 : W[i] = Shown(e.types, e.med, i + DataOffset)
  <2>1. /\ W \in LogOf(All) /\ Len(W) = (n + 1) - DataOffset
        /\ \A i \in 1 .. (n + 1) - DataOffset : W[i] = Shown(e.types, e.med, i + DataOffset)
    BY <1>2, <1>5, ViewShape
  <2>. QED  BY <1>5, <2>1
<1>7. \A i \in 1 .. k : i + DataOffset \in 1 .. n /\ i + DataOffset <= Len(d.med)
                        /\ i + DataOffset <= Len(e.med)
  BY <1>1, <1>2, <1>5
<1> HIDE DEF k, V, W
<1>8. /\ A \in LogOf(All) /\ Len(A) = k + 1
      /\ \A i \in 1 .. k : A[i] = V[i]
      /\ A[k + 1] = r
  BY <1>4, AppendProperties DEF LogOf
<1> HIDE DEF A
<1>9. \A i \in 1 .. k : W[i] = A[i]
  <2>1. \A i \in 1 .. k : i \in 1 .. k + 1
    BY <1>5
  <2>2. ASSUME NEW i \in 1 .. k
        PROVE  W[i] = A[i]
    <3> DEFINE j == i + DataOffset
    <3>1. j \in 1 .. n /\ j <= Len(d.med) /\ j <= Len(e.med)
      BY <1>7
    <3>2. W[i] = Shown(e.types, e.med, j) /\ A[i] = Shown(d.types, d.med, j)
      BY <1>4, <1>6, <1>8, <2>1
    <3> HIDE DEF j
    <3>. QED  BY <1>3, <3>1, <3>2 DEF Shown
  <2>. QED  BY <2>2
<1>10. W[k + 1] = A[k + 1]
  <2>1. k + 1 \in 1 .. k + 1 /\ n + 1 <= Len(e.med)
    BY <1>2, <1>5
  <2>2. W[k + 1] = Shown(e.types, e.med, n + 1)
    BY <1>5, <1>6, <2>1
  <2>. QED  BY <1>3, <1>8, <2>1, <2>2 DEF Shown
<1>11. \A i \in 1 .. k + 1 : W[i] = A[i]
  <2>1. \A i \in 1 .. k + 1 : i \in 1 .. k \/ i = k + 1
    BY <1>5
  <2>. QED  BY <1>9, <1>10, <2>1
<1>12. W = A
  BY <1>6, <1>8, <1>11, SeqEqual DEF LogOf
<1>. QED  BY <1>12 DEF V, W, A

\* One more of the records recs is written.
LEMMA OneMore ==
  ASSUME NEW S, NEW log \in LogOf(S), NEW recs \in LogOf(S), Len(recs) = 3, NEW k \in 0 .. 2
  PROVE  Append(WriteUpTo(log, recs, k), recs[k + 1]) = WriteUpTo(log, recs, k + 1)
<1> DEFINE n == Len(log)
           U == WriteUpTo(log, recs, k)
           W == WriteUpTo(log, recs, k + 1)
           A == Append(U, recs[k + 1])
<1>1. n \in Nat /\ k \in 0 .. 3 /\ k + 1 \in 0 .. 3 /\ k + 1 \in 1 .. 3 /\ k \in Nat
  BY LenProperties DEF LogOf
<1>2. /\ U \in LogOf(S) /\ Len(U) = n + k
      /\ \A i \in 1 .. n : U[i] = log[i]
      /\ \A i \in 1 .. k : U[n + i] = recs[i]
  <2>1. /\ U \in LogOf(S) /\ Len(U) = n + k
        /\ SamePrefix(log, U, n) /\ WrittenAt(U, n, recs, k)
    BY <1>1, Extended
  <2>. QED  BY <2>1 DEF SamePrefix, WrittenAt
<1>3. /\ W \in LogOf(S) /\ Len(W) = n + (k + 1)
      /\ \A i \in 1 .. n : W[i] = log[i]
      /\ \A i \in 1 .. k + 1 : W[n + i] = recs[i]
  <2> DEFINE j == k + 1
  <2>1. j \in 0 .. 3
    BY <1>1
  <2> HIDE DEF j
  <2>2. /\ WriteUpTo(log, recs, j) \in LogOf(S) /\ Len(WriteUpTo(log, recs, j)) = n + j
        /\ SamePrefix(log, WriteUpTo(log, recs, j), n)
        /\ WrittenAt(WriteUpTo(log, recs, j), n, recs, j)
    BY <2>1, Extended
  <2>. QED  BY <2>2 DEF SamePrefix, WrittenAt, j
<1>4. recs[k + 1] \in Records(S)
  BY <1>1, ElementOfSeq DEF LogOf
<1> HIDE DEF n, U, W
<1>5. /\ A \in LogOf(S) /\ Len(A) = n + k + 1
      /\ \A i \in 1 .. n + k : A[i] = U[i]
      /\ A[n + k + 1] = recs[k + 1]
  BY <1>2, <1>4, AppendProperties DEF LogOf
<1> HIDE DEF A
<1>6. \A i \in 1 .. n + k + 1 : \/ i \in 1 .. n /\ i \in 1 .. n + k
                                \/ i = n + k + 1
                                \/ i \in 1 .. n + k /\ i - n \in 1 .. k /\ n + (i - n) = i /\ i - n \in 1 .. k + 1
  BY <1>1
<1>7. n + (k + 1) = n + k + 1 /\ k + 1 \in 1 .. k + 1
  BY <1>1
<1>8. ASSUME NEW i \in 1 .. n + k + 1
      PROVE  A[i] = W[i]
  <2>1. CASE i \in 1 .. n /\ i \in 1 .. n + k
    BY <1>2, <1>3, <1>5, <2>1
  <2>2. CASE i = n + k + 1
    BY <1>3, <1>5, <1>7, <2>2
  <2>3. CASE i \in 1 .. n + k /\ i - n \in 1 .. k /\ n + (i - n) = i /\ i - n \in 1 .. k + 1
    <3> DEFINE j == i - n
    <3>1. j \in 1 .. k /\ j \in 1 .. k + 1 /\ n + j = i
      BY <2>3
    <3> HIDE DEF j
    <3>. QED  BY <1>2, <1>3, <1>5, <2>3, <3>1
  <2>. QED  BY <1>6, <2>1, <2>2, <2>3
<1>9. A = W
  BY <1>3, <1>5, <1>7, <1>8, SeqEqual DEF LogOf
<1>. QED  BY <1>9 DEF U, W, A

LEMMA NoneWritten ==
  ASSUME NEW S, NEW log \in LogOf(S), NEW recs \in LogOf(S), Len(recs) = 3
  PROVE  WriteUpTo(log, recs, 0) = log
<1> DEFINE U == WriteUpTo(log, recs, 0)
<1>1. 0 \in 0 .. 3
  OBVIOUS
<1>2. U \in LogOf(S) /\ Len(U) = Len(log) + 0 /\ SamePrefix(log, U, Len(log))
  BY <1>1, Extended
<1>3. Len(log) \in Nat
  BY LenProperties DEF LogOf
<1> HIDE DEF U
<1>4. Len(U) = Len(log) /\ \A i \in 1 .. Len(U) : U[i] = log[i]
  BY <1>2, <1>3 DEF SamePrefix
<1>5. U = log
  BY <1>2, <1>4, SeqEqual DEF LogOf
<1>. QED  BY <1>5 DEF U

-----------------------------------------------------------------------------
(***************************************************************************)
(* What the operations do to the two partitions.                           *)
(***************************************************************************)
\* On e are the partitions of d, and k of the records of the file c behind them.
Behind(d, e, c, k) ==
  /\ IndexOf(e.med) = IndexOf(d.med) /\ IndexBlock < Len(e.med)
  /\ View(e) = WriteUpTo(View(d), FileRecords(c), k)

\* The index block is below any block written.
LEMMA IndexKept ==
  ASSUME NEW d, NEW e, Good(d), Good(e), NEW rec, NEW type, Puts(d, e, rec, type),
         IndexBlock < Len(d.types)
  PROVE  /\ IndexOf(e.med) = IndexOf(d.med)
         /\ IndexBlock < Len(e.types) /\ IndexBlock < Len(e.med)
<1> DEFINE n == Len(d.types)
<1>1. n \in Nat /\ n = Len(d.types) /\ IndexBlock = 3 /\ n <= Len(d.med) /\ Len(d.med) \in Nat
      /\ Len(e.types) <= Len(e.med) /\ Len(e.med) \in Nat /\ Len(e.types) = n + 1 /\ 3 < n
  BY Fields DEF Puts, IndexBlock
<1> HIDE DEF n
<1>2. 4 \in 1 .. n /\ 3 < Len(d.med) /\ 3 < Len(e.med) /\ 3 < n + 1
  BY <1>1
<1>3. e.med[4] = d.med[4]
  BY <1>1, <1>2 DEF Puts
<1>4. IndexBlock + 1 = 4
  BY <1>1
<1>. QED  BY <1>1, <1>2, <1>3, <1>4 DEF IndexOf

\* One more of the records of a file, or the same.
LEMMA RecordBehind ==
  ASSUME NEW d, NEW s, Good(d), Good(s), DataOffset <= Len(s.types),
         NEW c \in Contents, NEW k \in 0 .. 2, Behind(d, s, c, k),
         NEW o, GoodOut(o), NEW rec, NEW type, Tried(s, o, rec, type),
         FileRecords(c)[k + 1] = IF type = "data" THEN rec ELSE [type |-> type]
  PROVE  /\ o.ok => Behind(d, o.dev, c, k + 1) /\ DataOffset <= Len(o.dev.types)
         /\ ~o.ok => Behind(d, o.dev, c, k)
<1> DEFINE R == FileRecords(c)
           e == o.dev
<1>1. R \in LogOf(All) /\ Len(R) = 3
  <2>1. c \in All
    BY DEF All
  <2>. QED  BY <2>1, RecordsWritten
<1>2. Good(e)
  BY DEF GoodOut
<1> HIDE DEF e
<1>3. CASE ~o.ok
  <2>1. SameTape(s, e)
    BY <1>3 DEF Tried, e
  <2>. QED  BY <1>3, <2>1, SameView DEF Behind, SameTape, e
<1>4. CASE o.ok
  <2>1. Puts(s, e, rec, type)
    BY <1>4 DEF Tried, e
  <2>2. Len(s.types) \in Nat /\ Len(e.types) = Len(s.types) + 1
    BY <2>1, Fields DEF Puts
  <2> DEFINE n == Len(s.types)
  <2>3. n \in Nat /\ n = Len(s.types) /\ Len(e.types) = n + 1
    BY <2>2
  <2> HIDE DEF n
  <2>4. IndexBlock < Len(s.types) /\ DataOffset <= Len(e.types)
    BY <2>3 DEF IndexBlock, DataOffset
  <2>5. IndexOf(e.med) = IndexOf(s.med) /\ IndexBlock < Len(e.med)
    BY <1>2, <2>1, <2>4, IndexKept
  <2> HIDE DEF R
  <2>6. R[k + 1] \in Records(All)
    <3>1. k + 1 \in 1 .. 3
      OBVIOUS
    <3>. QED  BY <1>1, <3>1, ElementOfSeq DEF LogOf
  <2> DEFINE r == R[k + 1]
  <2>7. r \in Records(All) /\ r = IF type = "data" THEN rec ELSE [type |-> type]
    BY <2>6 DEF R
  <2>8. r = R[k + 1]
    OBVIOUS
  <2> HIDE DEF r
  <2>9. View(e) = Append(View(s), r)
    BY <1>2, <2>1, <2>7, ViewPut
  <2>10. View(d) \in LogOf(All)
    BY ViewShape
  <2>11. View(e) = WriteUpTo(View(d), R, k + 1)
    <3>1. View(s) = WriteUpTo(View(d), R, k)
      BY DEF Behind, R
    <3>. QED  BY <1>1, <2>8, <2>9, <2>10, <3>1, OneMore
  <2>. QED  BY <1>4, <2>4, <2>5, <2>11 DEF Behind, R, e
<1>. QED  BY <1>3, <1>4

\* A write of the data region made before it is an error.
LEMMA RegionLimits ==
  ASSUME NEW S, Sound(S), NEW d, Good(d), NEW o \in Region(S, d)
  PROVE  /\ GoodOut(o)
         /\ \E s \in S : o.dev = s.dev /\ (DataOffset <= Len(d.types) => o = s)
         /\ ~(DataOffset <= Len(d.types)) => ~o.ok
<1>1. GoodOut(o)
  BY Regional
<1>2. d.writePos = Len(d.types) /\ Len(d.types) \in Nat
  BY Fields
<1>3. d.writePos < DataOffset <=> ~(DataOffset <= Len(d.types))
  <2> DEFINE n == Len(d.types)
  <2>1. n \in Nat /\ n = Len(d.types)
    BY <1>2
  <2> HIDE DEF n
  <2>. QED  BY <1>2, <2>1 DEF DataOffset
<1>4. PICK s \in S : o = IF s.ok /\ d.writePos < DataOffset THEN [s EXCEPT !.ok = FALSE] ELSE s
  BY DEF Region
<1>5. s \in [dev : Devices, ok : BOOLEAN]
  BY DEF Sound, GoodOut
<1>. QED  BY <1>1, <1>3, <1>4, <1>5

\* What an append writes is the records of its file, up to a point.
LEMMA RecordsAreBehind ==
  ASSUME NEW d, Good(d), Ready(d), "write" \notin Faults, IndexBlock < Len(d.types),
         NEW c \in Contents, NEW o \in AppendRecords(d, c)
  PROVE  \E k \in 0 .. 3 : Behind(d, o.dev, c, k)
<1> DEFINE R == FileRecords(c)
           data == Region(writeRecord(d, c), d)
           mark == Then(data, LAMBDA e : Region(writeFilemark(e), e))
           Stage(s, k) ==
             /\ GoodOut(s)
             /\ Whole(s.dev) /\ NoEnd(s.dev)
             /\ s.ok => Behind(d, s.dev, c, k) /\ DataOffset <= Len(s.dev.types)
             /\ ~s.ok => \E j \in 0 .. 3 : Behind(d, s.dev, c, j)
<1>1. /\ R \in LogOf(All) /\ Len(R) = 3
      /\ R[1] = DataRecord(c) /\ R[2] = Filemark /\ R[3] = EODMark
  <2>1. c \in All
    BY DEF All
  <2>2. R \in LogOf(All) /\ Len(R) = 3
    BY <2>1, RecordsWritten
  <2>. QED  BY <2>2 DEF FileRecords
<1>2. Behind(d, d, c, 0)
  <2> DEFINE n == Len(d.types)
             m == Len(d.med)
  <2>1. n \in Nat /\ m \in Nat /\ n <= m /\ IndexBlock < n
    BY Fields
  <2> HIDE DEF n, m
  <2>2. IndexBlock < m
    BY <2>1 DEF IndexBlock
  <2>. QED  BY <1>1, <2>2, ViewShape, NoneWritten DEF Behind, m
<1>3. ASSUME NEW s \in data
      PROVE  Stage(s, 1)
  <2>1. \A w \in writeRecord(d, c) :
          /\ GoodOut(w) /\ Whole(w.dev) /\ NoEnd(w.dev)
          /\ Tried(d, w, DataRecord(c), "data")
    BY RecordWritten
  <2>2. Sound(writeRecord(d, c))
    BY <2>1 DEF Sound
  <2>3. GoodOut(s) /\ (~(DataOffset <= Len(d.types)) => ~s.ok)
    BY <2>2, RegionLimits
  <2>4. PICK w \in writeRecord(d, c) : s.dev = w.dev /\ (DataOffset <= Len(d.types) => s = w)
    BY <2>2, RegionLimits
  <2>5. Whole(s.dev) /\ NoEnd(s.dev)
    BY <2>1, <2>4
  <2>6. CASE DataOffset <= Len(d.types)
    <3>1. s = w /\ Tried(d, s, DataRecord(c), "data")
      BY <2>1, <2>4, <2>6
    <3>2. R[0 + 1] = IF "data" = "data" THEN DataRecord(c) ELSE [type |-> "data"]
      BY <1>1
    <3>3. /\ s.ok => Behind(d, s.dev, c, 0 + 1) /\ DataOffset <= Len(s.dev.types)
          /\ ~s.ok => Behind(d, s.dev, c, 0)
      <4>1. 0 \in 0 .. 2
        OBVIOUS
      <4>. QED  BY <1>2, <2>3, <2>6, <3>1, <3>2, <4>1, RecordBehind
    <3>4. 0 \in 0 .. 3 /\ 0 + 1 = 1
      OBVIOUS
    <3>. QED  BY <2>3, <2>5, <3>3, <3>4
  <2>7. CASE ~(DataOffset <= Len(d.types))
    <3>1. Good(s.dev) /\ Good(w.dev)
      BY <2>1, <2>3 DEF GoodOut
    <3> DEFINE n == Len(d.types)
    <3>2. n \in Nat /\ n = Len(d.types)
      BY Fields
    <3>3. /\ IndexOf(s.dev.med) = IndexOf(d.med) /\ IndexBlock < Len(s.dev.med)
          /\ Len(s.dev.types) = n \/ Len(s.dev.types) = n + 1
      <4>1. CASE w.ok
        <5>1. Puts(d, w.dev, DataRecord(c), "data")
          BY <2>1, <4>1 DEF Tried
        <5>2. IndexOf(w.dev.med) = IndexOf(d.med) /\ IndexBlock < Len(w.dev.med)
          BY <3>1, <5>1, IndexKept
        <5>3. Len(w.dev.types) = n + 1
          BY <5>1 DEF Puts
        <5>. QED  BY <2>4, <5>2, <5>3
      <4>2. CASE ~w.ok
        <5>1. SameTape(d, w.dev)
          BY <2>1, <4>2 DEF Tried
        <5>. QED  BY <1>2, <2>4, <5>1 DEF SameTape, Behind
      <4>. QED  BY <4>1, <4>2
    <3>4. Len(s.dev.types) <= DataOffset /\ Len(d.types) <= DataOffset
      <4>1. ~(DataOffset <= n)
        BY <2>7
      <4> HIDE DEF n
      <4>. QED  BY <3>2, <3>3, <4>1 DEF DataOffset
    <3>5. View(s.dev) = <<>> /\ View(d) = <<>>
      BY <3>1, <3>4, ViewShape
    <3>6. Behind(d, s.dev, c, 0)
      BY <1>2, <3>3, <3>5 DEF Behind
    <3>7. ~s.ok /\ 0 \in 0 .. 3
      BY <2>3, <2>7
    <3>. QED  BY <2>3, <2>5, <3>6, <3>7
  <2>. QED  BY <2>6, <2>7
<1> HIDE DEF data, R
<1>4. ASSUME NEW s \in mark
      PROVE  Stage(s, 2)
  <2>1. PICK r \in data : s \in IF r.ok THEN Region(writeFilemark(r.dev), r.dev) ELSE {r}
    BY <1>4 DEF Then
  <2>2. Stage(r, 1)
    BY <1>3
  <2>3. CASE ~r.ok
    BY <2>1, <2>2, <2>3
  <2>4. CASE r.ok
    <3> DEFINE e == r.dev
    <3>1. Good(e) /\ Whole(e) /\ NoEnd(e) /\ Behind(d, e, c, 1) /\ DataOffset <= Len(e.types)
      BY <2>2, <2>4 DEF GoodOut
    <3>2. s \in Region(writeFilemark(e), e)
      BY <2>1, <2>4
    <3> HIDE DEF e
    <3>3. \A w \in writeFilemark(e) :
            /\ GoodOut(w) /\ Whole(w.dev) /\ NoEnd(w.dev)
            /\ Tried(e, w, Filemark, "filemark")
      BY <3>1, FilemarkWritten DEF Ready
    <3>4. Sound(writeFilemark(e))
      BY <3>3 DEF Sound
    <3>5. GoodOut(s) /\ s \in writeFilemark(e)
      BY <3>1, <3>2, <3>4, RegionLimits
    <3>6. R[1 + 1] = IF "filemark" = "data" THEN Filemark ELSE [type |-> "filemark"]
      BY <1>1, BlockKinds
    <3>7. /\ s.ok => Behind(d, s.dev, c, 1 + 1) /\ DataOffset <= Len(s.dev.types)
          /\ ~s.ok => Behind(d, s.dev, c, 1)
      <4>1. 1 \in 0 .. 2
        OBVIOUS
      <4>. QED  BY <3>1, <3>3, <3>5, <3>6, <4>1, RecordBehind DEF R
    <3>8. 1 \in 0 .. 3 /\ 1 + 1 = 2
      OBVIOUS
    <3>. QED  BY <3>3, <3>5, <3>7, <3>8
  <2>. QED  BY <2>3, <2>4
<1>5. PICK r \in mark : o \in IF r.ok THEN Region(WriteEOD(r.dev), r.dev) ELSE {r}
  BY DEF AppendRecords, Then, data
<1> HIDE DEF mark
<1>6. Stage(r, 2)
  BY <1>4, <1>5
<1>7. CASE ~r.ok
  BY <1>5, <1>6, <1>7
<1>8. CASE r.ok
  <2> DEFINE e == r.dev
  <2>1. Good(e) /\ Whole(e) /\ NoEnd(e) /\ Behind(d, e, c, 2) /\ DataOffset <= Len(e.types)
    BY <1>6, <1>8 DEF GoodOut
  <2>2. o \in Region(WriteEOD(e), e)
    BY <1>5, <1>8
  <2> HIDE DEF e
  <2>3. \A w \in WriteEOD(e) : GoodOut(w) /\ Tried(e, w, Filemark, "eod")
    BY <2>1, EODWritten DEF Ready
  <2>4. Sound(WriteEOD(e))
    BY <2>3 DEF Sound
  <2>5. GoodOut(o) /\ o \in WriteEOD(e)
    BY <2>1, <2>2, <2>4, RegionLimits
  <2>6. R[2 + 1] = IF "eod" = "data" THEN Filemark ELSE [type |-> "eod"]
    BY <1>1, BlockKinds
  <2>7. /\ o.ok => Behind(d, o.dev, c, 2 + 1)
        /\ ~o.ok => Behind(d, o.dev, c, 2)
    <3>1. 2 \in 0 .. 2
      OBVIOUS
    <3>. QED  BY <2>1, <2>3, <2>5, <2>6, <3>1, RecordBehind DEF R
  <2>8. 2 \in 0 .. 3 /\ 2 + 1 \in 0 .. 3
    OBVIOUS
  <2>. QED  BY <2>7, <2>8
<1>. QED  BY <1>7, <1>8

\* The end of the data looked for is that of the data partition.
LEMMA EndSeen ==
  ASSUME NEW d, Good(d), Agrees(d)
  PROVE  /\ LastIsEOD(View(d)) <=> Len(d.types) - 1 >= DataOffset /\ d.types[Len(d.types)] = "eod"
         /\ Len(d.types) > DataOffset => Len(View(d)) = Len(d.types) - DataOffset
<1> DEFINE n == Len(d.types)
           k == n - DataOffset
           V == View(d)
<1>1. n \in Nat /\ n = Len(d.types) /\ DataOffset = 6
  BY Fields DEF DataOffset
<1>2. CASE n <= DataOffset
  <2>1. V = <<>>
    BY <1>2, ViewShape
  <2>2. ~LastIsEOD(V)
    BY <2>1 DEF LastIsEOD
  <2> HIDE DEF n, V
  <2>3. ~(n - 1 >= DataOffset) /\ ~(n > DataOffset)
    BY <1>1, <1>2
  <2>. QED  BY <1>1, <2>2, <2>3 DEF V
<1>3. CASE ~(n <= DataOffset)
  <2>1. /\ Len(V) = k /\ \A i \in 1 .. k : V[i] = Shown(d.types, d.med, i + DataOffset)
    <3>1. DataOffset <= Len(d.types)
      <4> HIDE DEF n
      <4>. QED  BY <1>1, <1>3
    <3>. QED  BY <3>1, ViewShape
  <2>2. n <= Len(d.med) /\ d.med \in Seq(Blocks) /\ Len(d.med) \in Nat /\ d.types \in Seq(Types)
    BY Fields
  <2> HIDE DEF n, V
  <2>3. k \in 1 .. k /\ k + DataOffset = n /\ k > 0 /\ n - 1 >= DataOffset /\ n > DataOffset
        /\ n \in 1 .. n
    BY <1>1, <1>3
  <2>4. V[k] = Shown(d.types, d.med, n)
    BY <2>1, <2>3
  <2>5. n \in 1 .. Len(d.med)
    BY <1>1, <2>2, <2>3
  <2>6. d.med[n] \in Blocks /\ d.types[n] \in Types
    BY <1>1, <2>2, <2>3, <2>5, ElementOfSeq
  <2>7. V[k].type = "eod" <=> d.types[n] = "eod"
    <3>1. CASE d.types[n] = "data"
      <4>1. d.med[n] # Filemark
        BY <1>1, <2>3, <3>1 DEF Agrees
      <4>2. d.med[n].type = "data"
        BY <2>6, <4>1, BlockKinds
      <4>. QED  BY <2>2, <2>4, <3>1, <4>2 DEF Shown
    <3>2. CASE d.types[n] # "data"
      BY <2>4, <3>2 DEF Shown
    <3>. QED  BY <3>1, <3>2
  <2> HIDE DEF k
  <2>8. LastIsEOD(V) <=> d.types[n] = "eod"
    BY <2>1, <2>3, <2>7 DEF LastIsEOD
  <2>. QED  BY <1>1, <2>1, <2>3, <2>8 DEF V, k
<1>. QED  BY <1>2, <1>3

\* AppendFileData of the drive is that of the data partition, up to a point.
LEMMA FileIsBehind ==
  ASSUME NEW d, Good(d), Whole(d) \/ Cut(d), "write" \notin Faults, IndexBlock < Len(d.types),
         NEW c \in Contents, NEW o \in appendFileData(d, c)
  PROVE  /\ IndexOf(o.dev.med) = IndexOf(d.med) /\ IndexBlock < Len(o.dev.med)
         /\ View(o.dev) = View(d) \/ \E k \in 0 .. 3 : View(o.dev) = AppendUpTo(View(d), c, k)
<1> DEFINE n == Len(d.types)
           last == n - 1
<1>1. n \in Nat /\ n = Len(d.types) /\ last + 1 = n
  BY Fields
<1>2. LastIsEOD(View(d)) <=> last >= DataOffset /\ d.types[n] = "eod"
  BY EndSeen DEF Whole, Cut
<1> HIDE DEF n
<1>3. CASE LastIsEOD(View(d))
  <2>1. last \in Nat /\ last < n /\ DataOffset <= last /\ last <= n /\ n > DataOffset
        /\ IndexBlock < last
    BY <1>1, <1>2, <1>3 DEF DataOffset, IndexBlock
  <2>2. ~Cut(d)
    <3>1. n \in 1 .. n /\ ~(n <= DataOffset)
      BY <1>1, <2>1 DEF DataOffset
    <3>. QED  BY <1>1, <1>2, <1>3, <3>1 DEF Cut, NoEnd
  <2>3. PICK s \in truncateAt(d, last) : o \in IF s.ok THEN AppendRecords(s.dev, c) ELSE {s}
    BY <1>1, <1>2, <1>3 DEF appendFileData, Then
  <2> DEFINE e == s.dev
  <2>4. /\ GoodOut(s) /\ e.med = d.med
        /\ s.ok => /\ Ready(e) /\ Len(e.types) = last
                   /\ \A i \in 1 .. last : e.types[i] = d.types[i]
        /\ ~s.ok => SameTape(d, e)
    BY <1>1, <2>1, <2>2, Truncation
  <2>5. Good(e)
    BY <2>4 DEF GoodOut
  <2>6. CASE ~s.ok
    <3>1. o = s /\ SameTape(d, e)
      BY <2>3, <2>4, <2>6
    <3>2. IndexBlock < Len(d.med)
      <4> DEFINE m == Len(d.med)
      <4>1. m \in Nat /\ n <= m
        BY <1>1, Fields
      <4> HIDE DEF m
      <4>2. IndexBlock < m
        BY <1>1, <2>1, <4>1 DEF IndexBlock
      <4>. QED  BY <4>2 DEF m
    <3>. QED  BY <3>1, <3>2, SameView DEF SameTape
  <2>7. CASE s.ok
    <3>1. o \in AppendRecords(e, c)
      BY <2>3, <2>7
    <3>2. View(e) = TruncateAt(View(d), last - DataOffset)
      <4> DEFINE b == last
      <4>1. b \in Nat /\ DataOffset <= b /\ b <= Len(d.types) /\ Len(e.types) = b
            /\ \A i \in 1 .. b : e.types[i] = d.types[i]
        BY <1>1, <2>1, <2>4, <2>7
      <4> HIDE DEF b, e
      <4>2. View(e) = TruncateAt(View(d), b - DataOffset)
        BY <2>4, <2>5, <4>1, ViewCut DEF e
      <4>. QED  BY <4>2 DEF b
    <3>3. Len(View(d)) = n - DataOffset /\ last - DataOffset = (n - DataOffset) - 1
      BY <1>1, <2>1, EndSeen DEF Whole, Cut, DataOffset
    <3>4. View(e) = WithoutEOD(View(d))
      BY <1>3, <3>2, <3>3 DEF WithoutEOD
    <3>5. IndexBlock < Len(e.types)
      BY <2>1, <2>4, <2>7
    <3> HIDE DEF e
    <3>6. PICK k \in 0 .. 3 : Behind(e, o.dev, c, k)
      BY <2>4, <2>5, <2>7, <3>1, <3>5, RecordsAreBehind DEF e
    <3>. QED  BY <2>4, <3>4, <3>6 DEF Behind, AppendUpTo, e
  <2>. QED  BY <2>6, <2>7
<1>4. CASE ~LastIsEOD(View(d))
  <2>1. o \in AppendRecords(d, c)
    BY <1>1, <1>2, <1>4 DEF appendFileData
  <2>2. Ready(d)
    <3>1. CASE Cut(d)
      BY <3>1 DEF Ready
    <3>2. CASE Whole(d)
      <4>1. SUFFICES ASSUME NEW i \in 1 .. n, d.types[i] = "eod", ~(i <= DataOffset)
                     PROVE  FALSE
        BY <1>1, <3>2 DEF Ready, NoEnd
      <4>2. CASE i = n
        <5>1. last >= DataOffset
          BY <1>1, <4>1, <4>2 DEF DataOffset
        <5>. QED  BY <1>2, <1>4, <4>1, <4>2, <5>1
      <4>3. CASE i # n
        <5>1. i \in 1 .. n - 1
          BY <1>1, <4>3
        <5>. QED  BY <1>1, <3>2, <4>1, <5>1 DEF Whole, EndOnly
      <4>. QED  BY <4>2, <4>3
    <3>. QED  BY <3>1, <3>2
  <2>3. WithoutEOD(View(d)) = View(d)
    BY <1>4 DEF WithoutEOD
  <2>4. PICK k \in 0 .. 3 : Behind(d, o.dev, c, k)
    BY <2>1, <2>2, RecordsAreBehind
  <2>. QED  BY <2>3, <2>4 DEF Behind, AppendUpTo
<1>. QED  BY <1>3, <1>4

-----------------------------------------------------------------------------
(***************************************************************************)
(* A format and a commit write the index region anew, from block n0 on.    *)
(***************************************************************************)
\* The tape has been written from block n0 on, with the index idx; there is nothing
\* behind the index region.
Rewritten(m, n0, idx) ==
  /\ n0 < Len(m) /\ Len(m) <= DataOffset
  /\ IndexBlock < Len(m) => m[IndexBlock + 1] = DataRecord(idx)

\* The tape is the one before; the table is, too, or has been cut at block n0.
Unwritten(d, e, n0) == e.med = d.med /\ (e.types = d.types \/ Len(e.types) = n0)

\* The outcomes S have written the blocks from n0 to n, or have stopped before.
Rewriting(d, S, n0, n, idx) ==
  \A s \in S :
    /\ GoodOut(s)
    /\ s.ok => /\ Ready(s.dev) /\ Len(s.dev.types) = n
               /\ IF n = n0 THEN s.dev.med = d.med
                  ELSE Whole(s.dev) /\ Rewritten(s.dev.med, n0, idx)
    /\ ~s.ok => Unwritten(d, s.dev, n0) \/ Rewritten(s.dev.med, n0, idx)

\* The outcomes T are those of S, the successful ones followed by a write.
Followed(S, T, rec, type) ==
  \A o \in T :
    /\ GoodOut(o)
    /\ \E s \in S : IF s.ok THEN /\ Tried(s.dev, o, rec, type)
                                 /\ Ready(o.dev) /\ Whole(o.dev)
                   ELSE o = s

\* One more write; block IndexBlock is the index.
LEMMA OneRewritten ==
  ASSUME NEW d, NEW S, NEW T, NEW n0 \in 0 .. IndexBlock, NEW n \in n0 .. DataOffset - 1,
         NEW idx, Rewriting(d, S, n0, n, idx), NEW rec, NEW type,
         n = IndexBlock => rec = DataRecord(idx), Followed(S, T, rec, type)
  PROVE  Rewriting(d, T, n0, n + 1, idx)
<1>1. SUFFICES ASSUME NEW o \in T
               PROVE  /\ o.ok => /\ Ready(o.dev) /\ Len(o.dev.types) = n + 1
                                 /\ Whole(o.dev) /\ Rewritten(o.dev.med, n0, idx)
                      /\ ~o.ok => Unwritten(d, o.dev, n0) \/ Rewritten(o.dev.med, n0, idx)
  <2>1. n + 1 # n0
    BY DEF IndexBlock, DataOffset
  <2>. QED  BY <1>1, <2>1 DEF Rewriting, Followed
<1>2. PICK s \in S : IF s.ok THEN /\ Tried(s.dev, o, rec, type)
                                  /\ Ready(o.dev) /\ Whole(o.dev)
                     ELSE o = s
  BY DEF Followed
<1>3. /\ s.ok => /\ Ready(s.dev) /\ Len(s.dev.types) = n
                 /\ IF n = n0 THEN s.dev.med = d.med
                    ELSE Whole(s.dev) /\ Rewritten(s.dev.med, n0, idx)
      /\ ~s.ok => Unwritten(d, s.dev, n0) \/ Rewritten(s.dev.med, n0, idx)
  BY DEF Rewriting
<1>4. CASE ~s.ok
  BY <1>2, <1>3, <1>4
<1>5. CASE s.ok /\ ~o.ok
  <2>1. o.dev.med = s.dev.med /\ o.dev.types = s.dev.types
    BY <1>2, <1>5 DEF Tried, SameTape
  <2>. QED  BY <1>3, <1>5, <2>1 DEF Unwritten
<1>6. CASE s.ok /\ o.ok
  <2> DEFINE a == s.dev
             e == o.dev
  <2>1. Puts(a, e, rec, type) /\ Whole(e) /\ Ready(e)
    BY <1>2, <1>6 DEF Tried
  <2>2. /\ Len(a.types) = n
        /\ n # n0 => Whole(a) /\ Rewritten(a.med, n0, idx)
    BY <1>3, <1>6
  <2> HIDE DEF a, e
  <2>3. /\ Len(e.types) = n + 1 /\ Len(e.med) = n + 1
        /\ \A i \in 1 .. n : e.med[i] = a.med[i]
        /\ e.med[n + 1] = rec
    BY <2>1, <2>2 DEF Puts, Whole
  <2>4. n \in Nat /\ n0 \in Nat /\ n0 < n + 1 /\ n + 1 <= DataOffset /\ IndexBlock = 3 /\ n0 <= 3
    BY DEF IndexBlock, DataOffset
  <2>5. IndexBlock < n + 1 => e.med[IndexBlock + 1] = DataRecord(idx)
    <3>1. CASE n = 3
      BY <2>3, <2>4, <3>1
    <3>2. CASE n > 3
      <4>1. n # n0 /\ 4 \in 1 .. n
        BY <2>4, <3>2
      <4>2. Len(a.med) = n
        BY <2>2, <4>1 DEF Whole
      <4>3. a.med[4] = DataRecord(idx)
        BY <2>2, <2>4, <3>2, <4>1, <4>2 DEF Rewritten
      <4>. QED  BY <2>3, <2>4, <4>1, <4>3
    <3>. QED  BY <2>4, <3>1, <3>2
  <2>. QED  BY <1>6, <2>1, <2>3, <2>4, <2>5 DEF Rewritten, e
<1>. QED  BY <1>4, <1>5, <1>6

LEMMA WriteRewrites ==
  ASSUME "write" \notin Faults, NEW d, NEW S, Sound(S),
         NEW n0 \in 0 .. IndexBlock, NEW n \in n0 .. DataOffset - 1,
         NEW idx, Rewriting(d, S, n0, n, idx), NEW c \in Contents \cup Indexes \cup {"label"},
         n = IndexBlock => c = idx
  PROVE  Sound(ThenWrite(S, c)) /\ Rewriting(d, ThenWrite(S, c), n0, n + 1, idx)
<1> DEFINE T == ThenWrite(S, c)
<1>1. Sound(T)
  BY WritesChained
<1>2. ASSUME NEW o \in T
      PROVE  GoodOut(o) /\ \E s \in S :
               IF s.ok THEN /\ Tried(s.dev, o, DataRecord(c), "data")
                            /\ Ready(o.dev) /\ Whole(o.dev)
               ELSE o = s
  <2>1. PICK s \in S : o \in IF s.ok THEN writeRecord(s.dev, c) ELSE {s}
    BY <1>2 DEF ThenWrite, Then
  <2>2. CASE ~s.ok
    BY <1>1, <2>1, <2>2 DEF Sound
  <2>3. CASE s.ok
    <3>1. o \in writeRecord(s.dev, c) /\ Ready(s.dev) /\ Good(s.dev)
      BY <2>1, <2>3 DEF Rewriting, GoodOut
    <3>2. Tried(s.dev, o, DataRecord(c), "data") /\ Whole(o.dev) /\ NoEnd(o.dev)
      BY <3>1, RecordWritten
    <3>. QED  BY <1>1, <1>2, <2>3, <3>2 DEF Sound, Ready
  <2>. QED  BY <2>2, <2>3
<1>3. n = IndexBlock => DataRecord(c) = DataRecord(idx)
  OBVIOUS
<1> DEFINE rec == DataRecord(c)
<1>4. /\ n = IndexBlock => rec = DataRecord(idx)
      /\ Followed(S, T, rec, "data")
  BY <1>2, <1>3 DEF Followed
<1> HIDE DEF T, rec
<1>5. Rewriting(d, T, n0, n + 1, idx)
  BY <1>4, OneRewritten
<1>. QED  BY <1>1, <1>5 DEF T

LEMMA MarkRewrites ==
  ASSUME NEW d, NEW S, Sound(S),
         NEW n0 \in 0 .. IndexBlock, NEW n \in n0 .. DataOffset - 1,
         NEW idx, Rewriting(d, S, n0, n, idx), n # n0, n # IndexBlock
  PROVE  Sound(ThenMark(S)) /\ Rewriting(d, ThenMark(S), n0, n + 1, idx)
<1> DEFINE T == ThenMark(S)
<1>1. Sound(T)
  BY MarksChained
<1>2. ASSUME NEW o \in T
      PROVE  GoodOut(o) /\ \E s \in S :
               IF s.ok THEN /\ Tried(s.dev, o, Filemark, "filemark")
                            /\ Ready(o.dev) /\ Whole(o.dev)
               ELSE o = s
  <2>1. PICK s \in S : o \in IF s.ok THEN writeFilemark(s.dev) ELSE {s}
    BY <1>2 DEF ThenMark, Then
  <2>2. CASE ~s.ok
    BY <1>1, <2>1, <2>2 DEF Sound
  <2>3. CASE s.ok
    <3>1. o \in writeFilemark(s.dev) /\ Ready(s.dev) /\ Good(s.dev) /\ Whole(s.dev)
      BY <2>1, <2>3 DEF Rewriting, GoodOut
    <3>2. NoEnd(s.dev)
      BY <3>1 DEF Ready, Cut
    <3>3. Tried(s.dev, o, Filemark, "filemark") /\ Whole(o.dev) /\ NoEnd(o.dev)
      BY <3>1, <3>2, FilemarkWritten
    <3>. QED  BY <1>1, <1>2, <2>3, <3>3 DEF Sound, Ready
  <2>. QED  BY <2>2, <2>3
<1> DEFINE rec == Filemark
<1>4. /\ n = IndexBlock => rec = DataRecord(idx)
      /\ Followed(S, T, rec, "filemark")
  BY <1>2 DEF Followed
<1> HIDE DEF T, rec
<1>5. Rewriting(d, T, n0, n + 1, idx)
  BY <1>4, OneRewritten
<1>. QED  BY <1>1, <1>5 DEF T

\* What a commit can leave.
LEMMA CommitRewrites ==
  ASSUME "write" \notin Faults, NEW d, Good(d), Whole(d), IndexBlock < Len(d.types),
         NEW idx \in Indexes, NEW o \in flushIndex(d, idx)
  PROVE  \/ o.dev.med = d.med /\ o.dev.types = d.types
         \/ Rewritten(o.dev.med, IndexBlock, idx)
<1> DEFINE S1 == truncateAt(d, IndexBlock)
           S2 == ThenWrite(S1, idx)
           S3 == ThenMark(S2)
           S4 == ThenMark(S3)
<1>1. IndexBlock = 3 /\ DataOffset = 6
  BY DEF IndexBlock, DataOffset
<1>2. Sound(S1) /\ Rewriting(d, S1, 3, 3, idx)
  <2>1. \A s \in S1 : /\ GoodOut(s) /\ s.dev.med = d.med
                      /\ s.ok => Ready(s.dev) /\ Len(s.dev.types) = 3
                      /\ ~s.ok => s.dev.types = d.types
    BY <1>1, Truncation DEF SameTape
  <2>. QED  BY <2>1, ZenonT(60) DEF Sound, Rewriting, Unwritten
<1>3. o \in Then(S4, Sync)
  BY DEF flushIndex
<1>4. 3 \in 0 .. IndexBlock /\ 3 \in 3 .. DataOffset - 1 /\ 3 + 1 = 4 /\ 4 + 1 = 5 /\ 5 + 1 = 6
      /\ 4 \in 3 .. DataOffset - 1 /\ 5 \in 3 .. DataOffset - 1
      /\ 4 # IndexBlock /\ 5 # IndexBlock /\ 4 # 3 /\ 5 # 3 /\ 6 # 3
  BY <1>1
<1> HIDE DEF S1
<1>5. Sound(S2) /\ Rewriting(d, S2, 3, 4, idx)
  BY <1>2, <1>4, WriteRewrites
<1> HIDE DEF S2
<1>6. Sound(S3) /\ Rewriting(d, S3, 3, 5, idx)
  BY <1>4, <1>5, MarkRewrites
<1> HIDE DEF S3
<1>7. Sound(S4) /\ Rewriting(d, S4, 3, 6, idx)
  BY <1>4, <1>6, MarkRewrites
<1> HIDE DEF S4
<1>8. Sound(Then(S4, Sync)) /\ \E s \in S4 : o.dev = s.dev
  BY <1>3, <1>7, SyncsChained
<1>9. PICK s \in S4 : o.dev = s.dev
  BY <1>8
<1>10. Unwritten(d, o.dev, 3) \/ Rewritten(o.dev.med, 3, idx)
  BY <1>4, <1>7, <1>9 DEF Rewriting
<1>11. Len(d.types) = Len(d.med) /\ Len(o.dev.types) = Len(o.dev.med)
  BY IndexFlushed DEF Whole
<1> DEFINE n == Len(d.types)
<1>12. n # 3
  <2>1. n \in Nat /\ 3 < n
    BY <1>1, Fields
  <2> HIDE DEF n
  <2>. QED  BY <2>1
<1>. QED  BY <1>1, <1>10, <1>11, <1>12 DEF Unwritten

\* What a format can leave.
LEMMA FormatRewrites ==
  ASSUME "write" \notin Faults, NEW d, Good(d), NEW o \in initialize(d)
  PROVE  /\ o.ok => Rewritten(o.dev.med, 0, Blank) /\ Len(o.dev.types) = 6
         /\ ~o.ok => o.dev.med = d.med \/ Rewritten(o.dev.med, 0, Blank)
<1> DEFINE e == [d EXCEPT !.head = 0, !.tapPos = 0, !.types = <<>>, !.writePos = 0]
           rewound == MayFail("position", d) \cup Ok(e)
           S2 == ThenWrite(rewound, "label")
           S3 == ThenWrite(S2, "label")
           S4 == ThenMark(S3)
           S5 == ThenWrite(S4, Blank)
           S6 == ThenMark(S5)
           S7 == ThenMark(S6)
<1>1. o \in Then(S7, Sync)
  BY DEF initialize
<1>2. Sound(rewound) /\ Rewriting(d, rewound, 0, 0, Blank)
  <2>1. Good(e) /\ Ready(e) /\ Len(e.types) = 0 /\ e.med = d.med
    <3>1. /\ e \in Devices /\ e.med = d.med /\ e.types = <<>>
          /\ e.head = 0 /\ e.tapPos = 0 /\ e.writePos = 0
      <4>1. <<>> \in Seq(Types)
        OBVIOUS
      <4>. QED  BY <4>1 DEF Good, Devices
    <3>2. Len(<<>>) = 0
      OBVIOUS
    <3> HIDE DEF e
    <3> DEFINE m == Len(d.med)
    <3>3. m \in Nat /\ m = Len(d.med) /\ m <= MaxBlocks
      BY Fields
    <3> HIDE DEF m
    <3>4. Good(e)
      BY <3>1, <3>2, <3>3 DEF Good
    <3>5. Agrees(e) /\ NoEnd(e) /\ EndOnly(e)
      BY <3>1, <3>2 DEF Agrees, NoEnd, EndOnly
    <3>6. 0 = m \/ 0 < m
      BY <3>3
    <3>. QED  BY <3>1, <3>2, <3>3, <3>4, <3>5, <3>6 DEF Ready, Cut, Whole, Tracked
  <2>2. ASSUME NEW s \in rewound
        PROVE  /\ GoodOut(s) /\ s.dev.med = d.med
               /\ s.ok => Ready(s.dev) /\ Len(s.dev.types) = 0
               /\ ~s.ok => s.dev.types = d.types
    <3>1. CASE s \in Ok(e)
      BY <2>1, <3>1, Certain DEF Ok
    <3>2. CASE s \in Failed(d)
      BY <3>2, FailedCall DEF SameTape
    <3>. QED  BY <3>1, <3>2 DEF MayFail
  <2> HIDE DEF rewound
  <2>. QED  BY <2>2 DEF Sound, Rewriting, Unwritten
<1>3. IndexBlock = 3 /\ DataOffset = 6 /\ Blank \in Indexes
  BY BlankAssumption DEF IndexBlock, DataOffset
<1>4. 0 \in 0 .. IndexBlock /\ \A n \in 0 .. 5 : n \in 0 .. DataOffset - 1
  BY <1>3
<1>5. /\ 0 \in 0 .. 5 /\ 1 \in 0 .. 5 /\ 2 \in 0 .. 5 /\ 3 \in 0 .. 5 /\ 4 \in 0 .. 5 /\ 5 \in 0 .. 5
      /\ 0 + 1 = 1 /\ 1 + 1 = 2 /\ 2 + 1 = 3 /\ 3 + 1 = 4 /\ 4 + 1 = 5 /\ 5 + 1 = 6
      /\ 0 # 3 /\ 1 # 3 /\ 2 # 3 /\ 4 # 3 /\ 5 # 3 /\ 2 # 0 /\ 4 # 0 /\ 5 # 0 /\ 6 # 0
  OBVIOUS
<1> HIDE DEF rewound
<1>6. Sound(S2) /\ Rewriting(d, S2, 0, 1, Blank)
  BY <1>2, <1>3, <1>4, <1>5, WriteRewrites
<1> HIDE DEF S2
<1>7. Sound(S3) /\ Rewriting(d, S3, 0, 2, Blank)
  BY <1>3, <1>4, <1>5, <1>6, WriteRewrites
<1> HIDE DEF S3
<1>8. Sound(S4) /\ Rewriting(d, S4, 0, 3, Blank)
  BY <1>3, <1>4, <1>5, <1>7, MarkRewrites
<1> HIDE DEF S4
<1>9. Sound(S5) /\ Rewriting(d, S5, 0, 4, Blank)
  BY <1>3, <1>4, <1>5, <1>8, WriteRewrites
<1> HIDE DEF S5
<1>10. Sound(S6) /\ Rewriting(d, S6, 0, 5, Blank)
  BY <1>3, <1>4, <1>5, <1>9, MarkRewrites
<1> HIDE DEF S6
<1>11. Sound(S7) /\ Rewriting(d, S7, 0, 6, Blank)
  BY <1>3, <1>4, <1>5, <1>10, MarkRewrites
<1> HIDE DEF S7
<1>12. PICK s \in S7 : o.dev = s.dev /\ (o.ok => s.ok)
  BY <1>1, <1>11, SyncsChained
<1>13. /\ s.ok => Rewritten(s.dev.med, 0, Blank) /\ Len(s.dev.types) = 6
       /\ s.dev.med = d.med \/ Rewritten(s.dev.med, 0, Blank)
  BY <1>5, <1>11 DEF Rewriting, Unwritten
<1>. QED  BY <1>12, <1>13

-----------------------------------------------------------------------------
(***************************************************************************)
(* Opening and closing.                                                    *)
(***************************************************************************)
\* A device as a scan of all its tape leaves it.
Reopened(d) ==
  [d EXCEPT !.head = Len(d.med), !.tapPos = Len(d.med),
            !.types = Scanned(d.med, Len(d.med)), !.writePos = Len(d.med)]

LEMMA ReopenedIsGood ==
  ASSUME NEW d, Good(d)
  PROVE  /\ Good(Reopened(d)) /\ Reopened(d).med = d.med
         /\ Reopened(d).types = Scanned(d.med, Len(d.med))
         /\ Len(Reopened(d).types) = Len(d.med)
<1> DEFINE n == Len(d.med)
           t == Scanned(d.med, n)
           e == [d EXCEPT !.head = n, !.tapPos = n, !.types = t, !.writePos = n]
<1>1. n \in Nat /\ n = Len(d.med) /\ n <= MaxBlocks /\ d \in Devices
  BY Fields DEF Good
<1>2. Reopened(d) = e
  BY DEF Reopened
<1> HIDE DEF n
<1>3. t \in Seq(Types) /\ Len(t) = n
  BY <1>1 DEF Scanned, Types
<1>4. t = Scanned(d.med, n)
  OBVIOUS
<1> HIDE DEF t
<1>5. /\ e \in Devices /\ e.med = d.med /\ e.types = t
      /\ e.head = n /\ e.tapPos = n /\ e.writePos = n
  BY <1>1, <1>3 DEF Devices
<1> HIDE DEF e
<1>6. Good(e)
  BY <1>1, <1>3, <1>5 DEF Good
<1>. QED  BY <1>1, <1>2, <1>3, <1>4, <1>5, <1>6

\* After a reload the last mark stands for the end of the data.
LEMMA ReloadSeen ==
  ASSUME NEW d, Whole(d)
  PROVE  View(Reopened(d)) = TP!Relabel(View(d))
<1> DEFINE e == Reopened(d)
           n == Len(d.types)
           k == n - DataOffset
           V == View(d)
           W == View(e)
           R == TP!Relabel(V)
<1>1. Good(d) /\ Agrees(d) /\ EndOnly(d) /\ Len(d.med) = n
  BY DEF Whole
<1>2. n \in Nat /\ n = Len(d.types) /\ d.types \in Seq(Types) /\ d.med \in Seq(Blocks)
  BY <1>1, Fields
<1>3. Good(e) /\ e.med = d.med /\ e.types = Scanned(d.med, n) /\ Len(e.types) = n
  BY <1>1, ReopenedIsGood
<1> HIDE DEF e, n
<1>4. DataOffset = 6
  BY DEF DataOffset
<1>5. CASE n <= DataOffset
  <2>1. V = <<>> /\ W = <<>>
    BY <1>1, <1>2, <1>3, <1>5, ViewShape
  <2>2. R = V
    BY <2>1 DEF TP!Relabel
  <2>. QED  BY <2>1, <2>2 DEF V, W, R, e
<1>6. CASE ~(n <= DataOffset)
  <2>1. DataOffset <= n /\ k \in Nat /\ k > 0 /\ k + DataOffset = n /\ k \in 1 .. k
    BY <1>2, <1>4, <1>6
  <2>2. /\ V \in LogOf(All) /\ Len(V) = k
        /\ \A i \in 1 .. k : V[i] = Shown(d.types, d.med, i + DataOffset)
    BY <1>1, <1>2, <2>1, ViewShape
  <2>3. /\ W \in LogOf(All) /\ Len(W) = k
        /\ \A i \in 1 .. k : W[i] = Shown(e.types, e.med, i + DataOffset)
    BY <1>3, <2>1, ViewShape
  <2>4. \A j \in 1 .. n : d.types[j] \in {"data", "filemark", "eod"} /\ d.med[j] \in Blocks
    <3>1. \A j \in 1 .. n : j \in 1 .. Len(d.med)
      BY <1>1
    <3>. QED  BY <1>2, <3>1, ElementOfSeq DEF Types
  <2>5. \A j \in 1 .. n : e.types[j] = IF d.med[j] # Filemark THEN "data"
                                       ELSE IF j = n THEN "eod" ELSE "filemark"
    BY <1>3 DEF Scanned
  <2>6. \A i \in 1 .. k : i + DataOffset \in 1 .. n /\ (i # k => i + DataOffset \in 1 .. n - 1)
                          /\ ~(i + DataOffset <= DataOffset) /\ (i + DataOffset = n <=> i = k)
    BY <1>2, <1>4, <2>1
  <2> HIDE DEF k, V, W
  <2>7. ASSUME NEW i \in 1 .. k, i # k
        PROVE  W[i] = V[i]
    <3> DEFINE j == i + DataOffset
    <3>1. j \in 1 .. n /\ j \in 1 .. n - 1 /\ ~(j <= DataOffset) /\ j # n
      BY <2>6, <2>7
    <3>2. V[i] = Shown(d.types, d.med, j) /\ W[i] = Shown(e.types, e.med, j)
      BY <2>2, <2>3
    <3> HIDE DEF j
    <3>3. d.types[j] # "eod"
      BY <1>1, <1>2, <3>1 DEF EndOnly
    <3>4. e.types[j] = d.types[j]
      BY <1>1, <1>2, <2>4, <2>5, <3>1, <3>3 DEF Agrees
    <3>. QED  BY <1>3, <3>2, <3>4 DEF Shown
  <2>8. n \in 1 .. n /\ n <= Len(d.med)
    BY <1>1, <1>2, <2>6, <2>1
  <2>9. V[k] = Shown(d.types, d.med, n) /\ W[k] = Shown(e.types, e.med, n)
    BY <2>1, <2>2, <2>3
  <2>10. CASE d.med[n] # Filemark
    <3>1. d.types[n] = "data" /\ e.types[n] = "data"
      BY <1>1, <1>2, <2>5, <2>8, <2>10 DEF Agrees
    <3>2. V[k] = d.med[n] /\ W[k] = V[k]
      BY <1>3, <2>8, <2>9, <3>1 DEF Shown
    <3>3. R = V
      <4>1. V[Len(V)] # Filemark
        BY <2>2, <2>10, <3>2
      <4>. QED  BY <4>1 DEF TP!Relabel, TP!Filemark, Filemark
    <3>4. \A i \in 1 .. Len(W) : W[i] = V[i]
      BY <2>3, <2>7, <3>2
    <3>5. W = V
      BY <2>2, <2>3, <3>4, SeqEqual DEF LogOf
    <3>. QED  BY <3>3, <3>5 DEF V, W, R, e
  <2>11. CASE d.med[n] = Filemark
    <3>1. d.types[n] \in {"filemark", "eod"} /\ e.types[n] = "eod"
      BY <1>1, <1>2, <2>4, <2>5, <2>8, <2>11 DEF Agrees
    <3>2. W[k] = EODMark /\ V[k] \in {Filemark, EODMark}
      BY <2>9, <3>1, BlockKinds DEF Shown
    <3> DEFINE X == [V EXCEPT ![k] = EODMark]
    <3>3. X \in Seq(Records(All)) /\ Len(X) = k
          /\ \A i \in 1 .. k : X[i] = IF i = k THEN EODMark ELSE V[i]
      <4>1. EODMark \in Records(All) /\ V \in Seq(Records(All))
        BY <2>2 DEF Records, LogOf
      <4>. QED  BY <2>1, <2>2, <4>1, ExceptSeq
    <3> HIDE DEF X
    <3>4. \A i \in 1 .. Len(W) : W[i] = X[i]
      BY <2>3, <2>7, <3>2, <3>3
    <3>5. W = X
      BY <2>3, <3>3, <3>4, SeqEqual DEF LogOf
    <3>6. CASE V[k] = Filemark
      <4>1. V # <<>>
        <5>1. Len(<<>>) = 0
          OBVIOUS
        <5>. QED  BY <2>1, <2>2, <5>1
      <4>2. R = X
        BY <2>2, <3>6, <4>1 DEF TP!Relabel, X, TP!Filemark, Filemark, TP!EODMark, EODMark
      <4>. QED  BY <3>5, <4>2 DEF V, W, R, e
    <3>7. CASE V[k] = EODMark
      <4>1. EODMark # Filemark
        BY BlockKinds
      <4>2. R = V
        BY <2>2, <3>7, <4>1 DEF TP!Relabel, TP!Filemark, Filemark
      <4>3. \A i \in 1 .. Len(W) : W[i] = V[i]
        BY <2>3, <2>7, <3>2, <3>7
      <4>4. W = V
        BY <2>2, <2>3, <4>3, SeqEqual DEF LogOf
      <4>. QED  BY <4>2, <4>4 DEF V, W, R, e
    <3>. QED  BY <3>2, <3>6, <3>7
  <2>. QED  BY <2>10, <2>11
<1>. QED  BY <1>5, <1>6

\* A block that is read is in the table, and changes nothing but the position.
LEMMA ParseSeen ==
  ASSUME NEW S, Sound(S), NEW b \in Nat, NEW o \in ThenParse(S, b)
  PROVE  /\ GoodOut(o)
         /\ \E s \in S : SameTape(s.dev, o.dev) /\ (o.ok => s.ok /\ b < Len(s.dev.types))
<1>1. GoodOut(o)
  BY ParsesChained DEF Sound
<1>2. PICK s \in S : o \in IF s.ok
                           THEN IF IsData(s.dev, b) THEN ReadBlock(s.dev, b) ELSE Fail(s.dev)
                           ELSE {s}
  BY DEF ThenParse, Then
<1>3. GoodOut(s) /\ Good(s.dev)
  BY DEF Sound, GoodOut
<1>4. CASE ~s.ok
  BY <1>1, <1>2, <1>4 DEF SameTape
<1>5. CASE s.ok /\ IsData(s.dev, b)
  <2>1. SameTape(s.dev, o.dev)
    BY <1>2, <1>3, <1>5, BlockRead
  <2>. QED  BY <1>1, <1>5, <2>1 DEF IsData
<1>6. CASE s.ok /\ ~IsData(s.dev, b)
  <2>1. o.dev = s.dev /\ ~o.ok
    BY <1>2, <1>3, <1>6, Certain
  <2>. QED  BY <1>1, <2>1 DEF SameTape
<1>. QED  BY <1>4, <1>5, <1>6

-----------------------------------------------------------------------------
(***************************************************************************)
(* The refinement.                                                         *)
(***************************************************************************)
\* The data partition of a closed device with the tape m.
Scannable(m) == RegionOf(Scanned(m, Len(m)), m)

LEMMA PartitionsSeen ==
  /\ DataRegion = (IF open THEN View(dev) ELSE Scannable(dev.med)) /\ TapeIndex = IndexOf(dev.med)
  /\ DataRegion' = (IF open' THEN View(dev') ELSE Scannable(dev'.med)) /\ TapeIndex' = IndexOf(dev'.med)
BY Seen DEF Table, View, Scannable

LEMMA ScannableSeen ==
  ASSUME NEW d, Good(d)
  PROVE  /\ Scannable(d.med) = View(Reopened(d))
         /\ Len(d.med) <= DataOffset => Scannable(d.med) = <<>>
<1>1. /\ Good(Reopened(d)) /\ Reopened(d).med = d.med
      /\ Reopened(d).types = Scanned(d.med, Len(d.med)) /\ Len(Reopened(d).types) = Len(d.med)
  BY ReopenedIsGood
<1>2. Scannable(d.med) = View(Reopened(d))
  BY <1>1 DEF Scannable, View
<1>. QED  BY <1>1, <1>2, ViewShape

\* What is rewritten is the index, or none.
LEMMA IndexRewritten ==
  ASSUME NEW d, Good(d), NEW n0, NEW idx \in Indexes, Rewritten(d.med, n0, idx)
  PROVE  /\ IndexOf(d.med) \in {idx, None}
         /\ n0 = IndexBlock => IndexOf(d.med) = idx
         /\ View(d) = <<>> /\ Scannable(d.med) = <<>>
<1>1. DataRecord(idx) \in [type : {"data"}, data : Indexes] /\ DataRecord(idx).data = idx
  BY DEF DataRecord
<1>2. Len(d.types) <= DataOffset
  <2> DEFINE n == Len(d.types)
             m == Len(d.med)
  <2>1. n \in Nat /\ m \in Nat /\ n <= m /\ m <= DataOffset
    BY Fields DEF Rewritten
  <2> HIDE DEF n, m
  <2>2. n <= DataOffset
    BY <2>1 DEF DataOffset
  <2>. QED  BY <2>2 DEF n
<1>3. Len(d.med) > IndexBlock <=> IndexBlock < Len(d.med)
  <2> DEFINE m == Len(d.med)
  <2>1. m \in Nat
    BY Fields
  <2> HIDE DEF m
  <2>2. m > IndexBlock <=> IndexBlock < m
    BY <2>1 DEF IndexBlock
  <2>. QED  BY <2>2 DEF m
<1>. QED  BY <1>1, <1>2, <1>3, ViewShape, ScannableSeen DEF Rewritten, IndexOf

\* An open device has an index block: a format writes it, and a load reads it.
Labelled == open => IndexBlock < Len(dev.med)

\* The result of opening the device, or of failing to.
LEMMA Opened ==
  ASSUME NEW S, Opening(S), Sound(S)
  PROVE  \E o \in S : /\ ~open /\ open' = o.ok /\ dev'.med = o.dev.med
                      /\ o.ok => dev' = o.dev
<1>1. PICK o \in S : /\ ~open /\ open' = o.ok
                     /\ dev' = IF o.ok THEN o.dev ELSE Closed(o.dev)
  BY DEF Opening
<1>2. Closed(o.dev).med = o.dev.med
  <2>1. o.dev \in Devices
    BY DEF Sound, GoodOut, Good
  <2>. QED  BY <2>1 DEF Closed, Devices
<1>. QED  BY <1>1, <1>2

LEMMA FormatRefines ==
  ASSUME "write" \notin Faults, IInv, IInv', Format
  PROVE  Labelled' /\ (TP!Format \/ UNCHANGED <<TapeIndex, DataRegion>>)
<1>1. Good(dev) /\ Good(dev') /\ Blank \in Indexes
  BY BlankAssumption DEF IInv
<1>2. Sound(initialize(dev)) /\ Sound(ThenParse(initialize(dev), 1))
  BY <1>1, Initialized, ParsesChained
<1>3. PICK o \in ThenParse(initialize(dev), 1) :
        /\ ~open /\ open' = o.ok /\ dev'.med = o.dev.med
        /\ o.ok => dev' = o.dev
  BY <1>2, Opened DEF Format
<1>4. PICK s \in initialize(dev) : SameTape(s.dev, o.dev) /\ (o.ok => s.ok)
  BY <1>2, ParseSeen
<1>5. /\ o.ok => Rewritten(dev'.med, 0, Blank) /\ Len(dev'.types) = 6
      /\ ~o.ok => dev'.med = dev.med \/ Rewritten(dev'.med, 0, Blank)
  BY <1>1, <1>3, <1>4, FormatRewrites DEF SameTape
<1>6. CASE Rewritten(dev'.med, 0, Blank)
  <2>1. /\ IndexOf(dev'.med) \in {Blank, None}
        /\ View(dev') = <<>> /\ Scannable(dev'.med) = <<>>
    BY <1>1, <1>6, IndexRewritten
  <2>2. TP!Format
    BY <2>1, PartitionsSeen DEF TP!Format
  <2>3. Labelled'
    <3>1. o.ok => 6 <= Len(dev'.med) /\ Len(dev'.med) \in Nat
      BY <1>1, <1>5, Fields
    <3> DEFINE m == Len(dev'.med)
    <3>2. o.ok => 6 <= m /\ m \in Nat
      BY <3>1
    <3> HIDE DEF m
    <3>3. o.ok => IndexBlock < m
      BY <3>2 DEF IndexBlock
    <3>. QED  BY <1>3, <3>3 DEF Labelled, m
  <2>. QED  BY <2>2, <2>3
<1>7. CASE ~Rewritten(dev'.med, 0, Blank)
  <2>1. ~open' /\ dev'.med = dev.med
    BY <1>3, <1>5, <1>7
  <2>. QED  BY <1>3, <2>1, PartitionsSeen DEF Labelled
<1>. QED  BY <1>6, <1>7

LEMMA LoadRefines ==
  ASSUME "read" \notin Faults, ~DoubleMarkEnds, IInv, IInv', Load
  PROVE  Labelled' /\ UNCHANGED <<TapeIndex, DataRegion>>
<1> DEFINE S1 == scan(dev)
           S2 == ThenParse(S1, 1)
           S3 == ThenParse(S2, 3)
<1>1. Good(dev) /\ Good(dev')
  BY DEF IInv
<1>2. Sound(S1)
  BY <1>1, ScanEnds DEF Sound
<1>3. \A s \in S1 : /\ s.dev.med = dev.med
                    /\ s.ok => s.dev.types = Scanned(dev.med, Len(dev.med))
  BY <1>1, ScanEnds
<1> HIDE DEF S1
<1>4. Sound(S2)
  BY <1>2, ParsesChained
<1>5. \A r \in S2 : \E s \in S1 : SameTape(s.dev, r.dev) /\ (r.ok => s.ok)
  BY <1>2, ParseSeen
<1>6. Opening(S3)
  BY DEF Load, S1
<1> HIDE DEF S2
<1>7. Sound(S3)
  BY <1>4, ParsesChained
<1>8. \A o \in S3 : \E r \in S2 : SameTape(r.dev, o.dev) /\ (o.ok => r.ok /\ 3 < Len(r.dev.types))
  BY <1>4, ParseSeen
<1> HIDE DEF S3
<1>9. PICK o \in S3 : /\ ~open /\ open' = o.ok /\ dev'.med = o.dev.med
                      /\ o.ok => dev' = o.dev
  BY <1>6, <1>7, Opened
<1>10. PICK r \in S2 : SameTape(r.dev, o.dev) /\ (o.ok => r.ok /\ 3 < Len(r.dev.types))
  BY <1>8
<1>11. PICK s \in S1 : SameTape(s.dev, r.dev) /\ (r.ok => s.ok)
  BY <1>5
<1>12. /\ dev'.med = dev.med
       /\ o.ok => dev'.types = Scanned(dev.med, Len(dev.med)) /\ 3 < Len(dev'.types)
  BY <1>3, <1>9, <1>10, <1>11 DEF SameTape
<1>13. open' => View(dev') = Scannable(dev.med)
  BY <1>9, <1>12 DEF View, Scannable
<1>14. Labelled'
  <2> DEFINE m == Len(dev'.med)
             n == Len(dev'.types)
  <2>1. m \in Nat /\ n \in Nat /\ n <= m /\ (o.ok => 3 < n)
    BY <1>1, <1>12, Fields
  <2> HIDE DEF m, n
  <2>2. o.ok => IndexBlock < m
    BY <2>1 DEF IndexBlock
  <2>. QED  BY <1>9, <2>2 DEF Labelled, m
<1>. QED  BY <1>9, <1>12, <1>13, <1>14, PartitionsSeen

LEMMA CloseRefines ==
  ASSUME IInv, TableInv, Close
  PROVE  Labelled' /\ TP!Reload
<1>1. Whole(dev) /\ Good(dev) /\ open /\ ~open' /\ dev' = Closed(dev)
  BY DEF Close, TableInv, IInv
<1>2. dev'.med = dev.med
  BY <1>1 DEF Closed, Good, Devices
<1>3. Scannable(dev'.med) = TP!Relabel(View(dev))
  BY <1>1, <1>2, ScannableSeen, ReloadSeen
<1>. QED  BY <1>1, <1>2, <1>3, PartitionsSeen DEF Labelled, TP!Reload

LEMMA AppendRefines ==
  ASSUME "write" \notin Faults, IInv, TableInv, Labelled, NEW c \in Contents, AppendFile(c)
  PROVE  Labelled' /\ TP!AppendFile
<1>1. Whole(dev) /\ Good(dev) /\ open /\ open' = open /\ IndexBlock < Len(dev.types)
  BY DEF AppendFile, Using, TableInv, IInv, Labelled, Whole
<1>2. PICK o \in appendFileData(dev, c) : dev' = o.dev
  BY DEF AppendFile, Using
<1>3. /\ IndexOf(dev'.med) = IndexOf(dev.med) /\ IndexBlock < Len(dev'.med)
      /\ View(dev') = View(dev) \/ \E k \in 0 .. 3 : View(dev') = AppendUpTo(View(dev), c, k)
  BY <1>1, <1>2, FileIsBehind
<1>4. View(dev') \in {AppendFileData(View(dev), c)} \cup FailedAppends(View(dev), c)
  <2>1. \A k \in 0 .. 3 : k \in 0 .. 2 \/ k = 3
    OBVIOUS
  <2>. QED  BY <1>3, <2>1 DEF FailedAppends, AppendFileData
<1>5. DataRegion' \in {AppendFileData(DataRegion, c)} \cup FailedAppends(DataRegion, c)
  <2>1. DataRegion = View(dev) /\ DataRegion' = View(dev')
    BY <1>1, PartitionsSeen
  <2>. QED  BY ONLY <1>4, <2>1, Zenon
<1>6. TapeIndex' = TapeIndex
  BY <1>3, PartitionsSeen
<1>7. TP!AppendFile
  BY <1>5, <1>6, ZenonT(60) DEF TP!AppendFile, TP!AppendFileData, AppendFileData, TP!FailedAppends, FailedAppends,
       TP!AppendUpTo, AppendUpTo, TP!WriteUpTo, WriteUpTo, TP!WithoutEOD, WithoutEOD,
       TP!LastIsEOD, LastIsEOD, TP!TruncateAt, TruncateAt, TP!FileRecords, FileRecords,
       TP!DataRecord, DataRecord, TP!Filemark, Filemark, TP!EODMark, EODMark
<1>. QED  BY <1>3, <1>7 DEF Labelled

LEMMA CommitRefines ==
  ASSUME "write" \notin Faults, IInv, IInv', TableInv, Labelled,
         NEW idx \in Indexes, Commit(idx)
  PROVE  Labelled' /\ (TP!CommitEnds \/ UNCHANGED <<TapeIndex, DataRegion>>)
<1>1. /\ Whole(dev) /\ Good(dev) /\ Good(dev') /\ open /\ open' = open
      /\ IndexBlock < Len(dev.types) /\ IndexBlock < Len(dev.med)
  BY DEF Commit, Using, TableInv, IInv, Labelled, Whole
<1>2. PICK o \in flushIndex(dev, idx) : dev' = o.dev
  BY DEF Commit, Using
<1>3. \/ dev'.med = dev.med /\ dev'.types = dev.types
      \/ Rewritten(dev'.med, IndexBlock, idx)
  BY <1>1, <1>2, CommitRewrites
<1>4. CASE Rewritten(dev'.med, IndexBlock, idx)
  <2>1. IndexOf(dev'.med) = idx /\ View(dev') = <<>>
    BY <1>1, <1>4, IndexRewritten
  <2>2. TP!CommitEnds
    BY <1>1, <2>1, PartitionsSeen DEF TP!CommitEnds
  <2>. QED  BY <1>4, <2>2 DEF Labelled, Rewritten
<1>5. CASE dev'.med = dev.med /\ dev'.types = dev.types
  BY <1>1, <1>5, PartitionsSeen DEF View, Labelled
<1>. QED  BY <1>3, <1>4, <1>5

LEMMA ReadRefines ==
  ASSUME IInv, Labelled, NEW b \in Nat, Read(b)
  PROVE  Labelled' /\ UNCHANGED <<TapeIndex, DataRegion>>
<1>1. Good(dev) /\ open /\ open' = open
  BY DEF Read, Using, IInv
<1>2. SameTape(dev, dev')
  BY <1>1, BlockRead DEF Read, Using
<1>. QED  BY <1>1, <1>2, SameView, PartitionsSeen DEF Labelled, SameTape

\* A defrag that moves a file cuts the data partition and writes the file's records.
LEMMA DefragRefines ==
  ASSUME "write" \notin Faults, "trim" \notin Uses, IInv, TableInv, Labelled,
         NEW b \in Nat, DataOffset <= b, NEW moved \in {{}} \cup {{c} : c \in Contents},
         Defrag(b, moved)
  PROVE  Labelled' /\ (TP!Defrag \/ UNCHANGED <<TapeIndex, DataRegion>>)
<1> DEFINE cut == truncateAt(dev, b)
           n == Len(dev.types)
<1>1. /\ Whole(dev) /\ Good(dev) /\ open /\ open' = open
      /\ b < n /\ moved # {} /\ IndexBlock < Len(dev.med)
  BY DEF Defrag, Using, TableInv, IInv, IsData, Labelled
<1>2. PICK c \in Contents : moved = {c}
  BY <1>1
<1> DEFINE files == Then(cut, LAMBDA e : UNION {appendFileData(e, x) : x \in moved})
<1>3. \A s \in cut : /\ GoodOut(s) /\ s.dev.med = dev.med
                     /\ IF s.ok THEN /\ Cut(s.dev) /\ Len(s.dev.types) = b
                                     /\ \A i \in 1 .. b : s.dev.types[i] = dev.types[i]
                        ELSE SameTape(dev, s.dev)
  BY <1>1, Truncation
<1>4. \A s \in files : \E r \in cut : IF r.ok THEN s \in appendFileData(r.dev, c) ELSE s = r
  BY <1>2 DEF Then
<1>5. Sound(files)
  <2>1. ASSUME NEW s \in files
        PROVE  GoodOut(s)
    <3>1. PICK r \in cut : IF r.ok THEN s \in appendFileData(r.dev, c) ELSE s = r
      BY <1>4
    <3>2. GoodOut(r) /\ Good(r.dev)
      BY <1>3 DEF GoodOut
    <3>. QED  BY <3>1, <3>2, FileAppended
  <2>. QED  BY <2>1 DEF Sound
<1>6. PICK o \in Then(files, Sync) : dev' = o.dev
  BY <1>1 DEF Defrag, Using
<1> HIDE DEF files
<1>7. PICK s \in files : dev' = s.dev
  BY <1>5, <1>6, SyncsChained
<1>8. PICK r \in cut : IF r.ok THEN s \in appendFileData(r.dev, c) ELSE s = r
  BY <1>4
<1>9. CASE ~r.ok
  <2>1. SameTape(dev, dev')
    BY <1>3, <1>7, <1>8, <1>9
  <2>. QED  BY <1>1, <2>1, SameView, PartitionsSeen DEF Labelled, SameTape
<1>10. CASE r.ok
  <2> DEFINE e == r.dev
             V == View(dev)
             j == b - DataOffset
  <2>1. /\ Good(e) /\ Cut(e) /\ e.med = dev.med /\ Len(e.types) = b
        /\ \A i \in 1 .. b : e.types[i] = dev.types[i]
    BY <1>3, <1>10 DEF GoodOut
  <2>2. n \in Nat
    BY <1>1, Fields
  <2> HIDE DEF n
  <2>3. b <= n /\ IndexBlock < b
    BY <1>1, <2>2 DEF IndexBlock, DataOffset
  <2>4. b <= Len(dev.types) /\ IndexBlock < Len(e.types)
    BY <2>1, <2>3 DEF n
  <2>5. s \in appendFileData(e, c)
    BY <1>8, <1>10
  <2> HIDE DEF e
  <2>6. j \in 0 .. Len(V) /\ View(e) = TruncateAt(V, j)
    BY <1>1, <2>1, <2>4, ViewCut
  <2>7. /\ IndexOf(dev'.med) = IndexOf(dev.med) /\ IndexBlock < Len(dev'.med)
        /\ View(dev') = View(e) \/ \E k \in 0 .. 3 : View(dev') = AppendUpTo(View(e), c, k)
    BY <1>7, <2>1, <2>4, <2>5, FileIsBehind
  <2>8. WithoutEOD(View(e)) = View(e)
    <3>1. ~LastIsEOD(View(e))
      <4>1. LastIsEOD(View(e)) <=> b - 1 >= DataOffset /\ e.types[b] = "eod"
        BY <2>1, EndSeen DEF Cut
      <4>2. b - 1 >= DataOffset => b \in 1 .. b /\ ~(b <= DataOffset)
        BY DEF DataOffset
      <4>. QED  BY <2>1, <4>1, <4>2 DEF Cut, NoEnd
    <3>. QED  BY <3>1 DEF WithoutEOD
  <2>9. View(e) = WriteUpTo(View(e), FileRecords(c), 0)
    <3>1. c \in All
      BY DEF All
    <3>. QED  BY <2>1, <3>1, ViewShape, RecordsWritten, NoneWritten
  <2>10. \E k \in 0 .. 3 : View(dev') = WriteUpTo(TruncateAt(V, j), FileRecords(c), k)
    <3>1. 0 \in 0 .. 3
      OBVIOUS
    <3>. QED  BY <2>6, <2>7, <2>8, <2>9, <3>1 DEF AppendUpTo
  <2>11. DataRegion = V /\ DataRegion' = View(dev') /\ TapeIndex' = TapeIndex
    BY <1>1, <2>7, PartitionsSeen
  <2> HIDE DEF V, j
  <2>12. \E x \in 0 .. Len(DataRegion), y \in Contents, k \in 0 .. 3 :
           DataRegion' = WriteUpTo(TruncateAt(DataRegion, x), FileRecords(y), k)
    BY <2>6, <2>10, <2>11
  <2>13. TP!Defrag
    BY <2>11, <2>12 DEF TP!Defrag, TP!WriteUpTo, WriteUpTo, TP!TruncateAt, TruncateAt,
         TP!FileRecords, FileRecords, TP!DataRecord, DataRecord, TP!Filemark, Filemark,
         TP!EODMark, EODMark
  <2>. QED  BY <2>7, <2>13 DEF Labelled
<1>. QED  BY <1>9, <1>10

LEMMA InitRefines == Init => Labelled /\ TP!Init
<1> SUFFICES ASSUME Init
             PROVE  Labelled /\ TP!Init
  OBVIOUS
<1>1. dev.med = <<>> /\ ~open
  BY DEF Init
<1>2. Good(dev)
  BY InitIInv DEF IInv
<1>3. Len(<<>>) = 0
  OBVIOUS
<1>4. Scannable(dev.med) = <<>>
  BY <1>1, <1>2, <1>3, ScannableSeen DEF DataOffset
<1>5. IndexOf(dev.med) = None
  BY <1>1, <1>3 DEF IndexOf, IndexBlock
<1>. QED  BY <1>1, <1>4, <1>5, PartitionsSeen DEF TP!Init, Labelled

\* As long as only seeks and marks fail, and a mark is one, a drive is what one tape can be
\* for two partitions, however loads, files, commits and defrags follow each other: an
\* append is an append, neither it nor a defrag or a load changes the index, and a
\* commit puts its index on the tape and ends the data there (scsi_linux.go, tapefs.go).
THEOREM ImplementsOneTape ==
  ASSUME Reliable
  PROVE  Spec => OneTapeSpec
<1>1. Reliable /\ "write" \notin Faults /\ "read" \notin Faults /\ "trim" \notin Uses /\ ~DoubleMarkEnds
  BY DEF Reliable
<1>2. Init => IInv /\ TableInv /\ Labelled /\ TP!Init
  BY InitIInv, InitRefines
<1>3. IInv /\ TableInv /\ [Next]_vars => (IInv /\ TableInv)'
  BY <1>1, InvariantStep
<1>4. IInv /\ TableInv /\ Labelled /\ IInv' /\ [Next]_vars => Labelled' /\ [TP!OneTapeNext]_(TP!vars)
  <2> DEFINE Step == Labelled' /\ [TP!OneTapeNext]_(TP!vars)
  <2>1. SUFFICES ASSUME IInv, TableInv, Labelled, IInv', [Next]_vars
                 PROVE  Step
    OBVIOUS
  <2>2. UNCHANGED <<TapeIndex, DataRegion>> => [TP!OneTapeNext]_(TP!vars)
    BY DEF TP!vars
  <2>3. Len(dev.types) \in Nat
    BY Fields DEF IInv
  <2>4. CASE Format
    BY <1>1, <2>1, <2>2, <2>4, FormatRefines DEF TP!OneTapeNext
  <2>5. CASE Load
    BY <1>1, <2>1, <2>2, <2>5, LoadRefines
  <2>6. CASE Close
    BY <2>1, <2>6, CloseRefines DEF TP!OneTapeNext
  <2>7. CASE \E c \in Contents : AppendFile(c)
    BY <1>1, <2>1, <2>7, AppendRefines DEF TP!OneTapeNext
  <2>8. CASE \E idx \in Indexes : Commit(idx)
    BY <1>1, <2>1, <2>2, <2>8, CommitRefines DEF TP!OneTapeNext
  <2>9. CASE \E b \in 0 .. (Len(dev.types) - 1) : Read(b)
    <3>1. PICK b \in 0 .. (Len(dev.types) - 1) : Read(b)
      BY <2>9
    <3>2. b \in Nat
      BY <2>3
    <3>. QED  BY <2>1, <2>2, <3>1, <3>2, ReadRefines
  <2>10. CASE \E b \in DataOffset .. (Len(dev.types) - 1), moved \in {{}} \cup {{c} : c \in Contents} :
                Defrag(b, moved)
    <3>1. PICK b \in DataOffset .. (Len(dev.types) - 1), moved \in {{}} \cup {{c} : c \in Contents} :
                 Defrag(b, moved)
      BY <2>10
    <3>2. b \in Nat /\ DataOffset <= b
      BY <2>3 DEF DataOffset
    <3>. QED  BY <1>1, <2>1, <2>2, <3>1, <3>2, DefragRefines DEF TP!OneTapeNext
  <2>11. CASE UNCHANGED vars
    <3>1. dev' = dev /\ open' = open
      BY <2>11 DEF vars
    <3>. QED  BY <2>1, <2>2, <3>1, PartitionsSeen DEF Labelled
  <2>. QED  BY <2>1, <2>4, <2>5, <2>6, <2>7, <2>8, <2>9, <2>10, <2>11 DEF Next
<1>. QED  BY <1>2, <1>3, <1>4, PTL DEF Spec, OneTapeSpec, TP!OneTapeSpec

=============================================================================
