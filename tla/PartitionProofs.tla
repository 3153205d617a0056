-------------------------- MODULE PartitionProofs --------------------------
(***************************************************************************)
(* Theorems about a partition image, for any bytes, any width of a length  *)
(* and files of any size.                                                  *)
(***************************************************************************)
EXTENDS Partition, SequenceTheorems, WellFoundedInduction, TLAPS

-----------------------------------------------------------------------------
(***************************************************************************)
(* The scan of a file f: Rebuilt is S(file)[0].                            *)
(***************************************************************************)
\* A set of numbers that is not empty has a least one.
LEMMA Least ==
  ASSUME NEW T \in SUBSET Nat, T # {}
  PROVE  \E x \in T : \A y \in T : x <= y
<1>1. IsWellFoundedOn(OpToRel(<, Nat), Nat)
  BY NatLessThanWellFounded
<1>2. PICK x \in T : \A y \in T : ~(<<y, x>> \in OpToRel(<, Nat))
  BY <1>1, WFMin
<1>3. \A y \in T : ~(y < x)
  BY <1>2 DEF OpToRel
<1>. QED  BY <1>3

\* Where the record at offset off of f ends, and whether it ends in f.
EndOf(f, off) == off + HeaderLen + f[off + 2]

Fits(f, off) == off + HeaderLen <= Len(f) /\ EndOf(f, off) <= Len(f)

\* The result of a scan from off, by that of one from the next record, g.
FromThere(f, g, off) ==
  IF off >= Len(f) THEN <<>>
  ELSE IF \/ off + HeaderLen > Len(f)
          \/ off + HeaderLen + f[off + 2] > Len(f)
       THEN Broken
       ELSE LET rest == g[off + HeaderLen + f[off + 2]]
            IN  IF rest = Broken THEN Broken ELSE <<off>> \o rest

Scan(f) == CHOOSE scan : scan = [off \in Nat |-> FromThere(f, scan, off)]

LEMMA RebuiltIsScan == Rebuilt = Scan(file)[0] /\ Rebuilt' = Scan(file')[0]
  BY DEF Rebuilt, Scan, FromThere, LenAt

\* Offsets grow along the scan, so its recursion has a solution.
LEMMA ScanExists ==
  ASSUME NEW f \in Seq(Nat)
  PROVE  \E g : g = [off \in Nat |-> FromThere(f, g, off)]
<1> DEFINE n == Len(f)
           Solves(g, m) == /\ g = [off \in Nat |-> g[off]]
                           /\ \A off \in Nat : off >= m => g[off] = FromThere(f, g, off)
           T == {k \in Nat : k <= n /\ ~ \E g : Solves(g, n - k)}
<1>1. n \in Nat /\ n = Len(f)
  BY LenProperties
<1>2. SUFFICES ASSUME T = {}
               PROVE  \E g : g = [off \in Nat |-> FromThere(f, g, off)]
  <2>1. SUFFICES ASSUME T # {}
                 PROVE  FALSE
    BY <1>2
  <2>2. PICK x \in T : \A y \in T : x <= y
    <3>1. T \in SUBSET Nat
      OBVIOUS
    <3> HIDE DEF T
    <3>. QED  BY <2>1, <3>1, Least
  <2>3. CASE x = 0
    <3> DEFINE g == [off \in Nat |-> <<>>]
    <3>1. Solves(g, n - 0)
      BY <1>1 DEF FromThere
    <3>. QED  BY <2>2, <2>3, <3>1
  <2>4. CASE x # 0
    <3> DEFINE m == n - x
    <3>1. x \in Nat /\ x - 1 \in Nat /\ x <= n /\ x - 1 <= n /\ n - (x - 1) = m + 1 /\ m \in Nat
      BY <1>1, <2>2, <2>4
    <3>2. x - 1 \notin T
      <4>1. ~(x <= x - 1)
        BY <3>1
      <4> HIDE DEF T
      <4>. QED  BY <2>2, <4>1
    <3>3. PICK g : Solves(g, m + 1)
      BY <3>1, <3>2
    <3> HIDE DEF m, n
    <3> DEFINE h == [off \in Nat |-> IF off = m THEN FromThere(f, g, m) ELSE g[off]]
    <3>4. ASSUME NEW off \in Nat, off >= m
          PROVE  FromThere(f, h, off) = FromThere(f, g, off)
      <4>1. CASE off >= Len(f) \/ off + HeaderLen > Len(f)
        BY <4>1 DEF FromThere
      <4>2. CASE ~(off >= Len(f)) /\ ~(off + HeaderLen > Len(f))
        <5>1. off + 2 \in 1 .. Len(f)
          BY <1>1, <4>2 DEF HeaderLen
        <5>2. f[off + 2] \in Nat
          BY <5>1, ElementOfSeq
        <5>3. off + HeaderLen + f[off + 2] \in Nat /\ off + HeaderLen + f[off + 2] # m
          <6> DEFINE l == f[off + 2]
          <6>1. l \in Nat /\ m \in Nat /\ off >= m
            BY <3>1, <3>4, <5>2
          <6> HIDE DEF l
          <6>2. off + 2 + l \in Nat /\ off + 2 + l # m
            BY <6>1
          <6>. QED  BY <6>2 DEF l, HeaderLen
        <5>4. h[off + HeaderLen + f[off + 2]] = g[off + HeaderLen + f[off + 2]]
          BY <5>3
        <5> HIDE DEF h
        <5>. QED  BY <5>4 DEF FromThere
      <4>. QED  BY <4>1, <4>2
    <3>5. ASSUME NEW off \in Nat, off >= m
          PROVE  h[off] = FromThere(f, g, off)
      <4>1. CASE off = m
        BY <4>1
      <4>2. CASE off # m
        <5>1. off >= m + 1
          BY <3>1, <3>5, <4>2
        <5>. QED  BY <3>3, <4>2, <5>1
      <4>. QED  BY <4>1, <4>2
    <3>6. h = [off \in Nat |-> h[off]]
      OBVIOUS
    <3> HIDE DEF h
    <3>7. Solves(h, m)
      BY <3>4, <3>5, <3>6
    <3>. QED  BY <2>2, <3>7 DEF m
  <2>. QED  BY <2>3, <2>4
<1>3. n \in Nat /\ n <= n /\ n - n = 0
  BY <1>1
<1>4. PICK g : Solves(g, 0)
  BY <1>2, <1>3
<1>5. \A off \in Nat : g[off] = FromThere(f, g, off)
  BY <1>4
<1>. QED  BY <1>4, <1>5

LEMMA ScanStep ==
  ASSUME NEW f \in Seq(Nat)
  PROVE  \A off \in Nat : Scan(f)[off] = FromThere(f, Scan(f), off)
<1> DEFINE s == Scan(f)
<1>1. s = [off \in Nat |-> FromThere(f, s, off)]
  BY ScanExists DEF Scan
<1> HIDE DEF s
<1>. QED  BY <1>1 DEF s

\* At the end of the file nothing is left; short of it a record that fits is followed
\* by the rest.
LEMMA ScanCases ==
  ASSUME NEW f \in Seq(Nat), NEW off \in 0 .. Len(f)
  PROVE  /\ off = Len(f) => Scan(f)[off] = <<>>
         /\ off # Len(f) /\ ~Fits(f, off) => Scan(f)[off] = Broken
         /\ off # Len(f) /\ Fits(f, off) =>
              /\ EndOf(f, off) \in Nat /\ off + 2 <= EndOf(f, off) /\ EndOf(f, off) <= Len(f)
              /\ Scan(f)[off] = IF Scan(f)[EndOf(f, off)] = Broken THEN Broken
                                ELSE <<off>> \o Scan(f)[EndOf(f, off)]
<1> DEFINE n == Len(f)
<1>1. n \in Nat /\ n = Len(f)
  BY LenProperties
<1> HIDE DEF n
<1>2. off \in Nat /\ off <= n
  BY <1>1
<1>3. Scan(f)[off] = FromThere(f, Scan(f), off)
  BY <1>2, ScanStep
<1>4. CASE off = n
  <2>1. off >= Len(f)
    BY <1>1, <1>4
  <2>. QED  BY <1>1, <1>3, <1>4, <2>1 DEF FromThere
<1>5. CASE off # n
  <2>1. ~(off >= Len(f))
    BY <1>1, <1>2, <1>5
  <2>2. CASE off + HeaderLen > Len(f)
    <3>1. ~Fits(f, off)
      BY <1>1, <1>2, <2>2 DEF Fits, HeaderLen
    <3>. QED  BY <1>1, <1>3, <1>5, <2>1, <2>2, <3>1 DEF FromThere
  <2>3. CASE ~(off + HeaderLen > Len(f))
    <3>1. off + 2 \in 1 .. Len(f)
      BY <1>1, <1>2, <2>3 DEF HeaderLen
    <3> DEFINE l == f[off + 2]
    <3>2. l \in Nat
      BY <3>1, ElementOfSeq
    <3>3. EndOf(f, off) = off + 2 + l
      BY DEF EndOf, HeaderLen
    <3> HIDE DEF l
    <3>4. off + 2 + l \in Nat /\ off + 2 <= off + 2 + l /\ off + 2 <= n
      BY <1>1, <1>2, <2>3, <3>2 DEF HeaderLen
    <3>5. CASE Fits(f, off)
      <4>1. ~(off + HeaderLen + f[off + 2] > Len(f)) /\ EndOf(f, off) <= Len(f)
        BY <1>1, <3>2, <3>3, <3>4, <3>5 DEF Fits, EndOf, l
      <4>. QED  BY <1>1, <1>3, <1>5, <2>1, <2>3, <3>3, <3>4, <3>5, <4>1 DEF FromThere, EndOf
    <3>6. CASE ~Fits(f, off)
      <4>1. off + HeaderLen <= Len(f)
        BY <1>1, <3>4 DEF HeaderLen
      <4>2. ~(off + 2 + l <= n)
        BY <1>1, <3>3, <3>6, <4>1 DEF Fits
      <4>3. off + 2 + l > n
        BY <1>1, <3>4, <4>2
      <4>4. off + HeaderLen + f[off + 2] > Len(f)
        BY <1>1, <4>3 DEF l, HeaderLen
      <4>. QED  BY <1>1, <1>3, <1>5, <2>1, <3>6, <4>4 DEF FromThere
    <3>. QED  BY <3>5, <3>6
  <2>. QED  BY <2>2, <2>3
<1>. QED  BY <1>4, <1>5

\* The records at the offsets s are in f, one behind the other.
Laid(f, s) ==
  \A i \in 1 .. Len(s) :
    Fits(f, s[i]) /\ \A j \in i + 1 .. Len(s) : EndOf(f, s[i]) <= s[j]

\* They follow each other without a gap.
AdjoinFrom(f, off, s) ==
  \A i \in 1 .. Len(s) : s[i] = IF i = 1 THEN off ELSE EndOf(f, s[i - 1])

\* Where the first i of them end.
After(f, s, i) == IF i = 0 THEN 0 ELSE EndOf(f, s[i])

FoundFrom(f, off, s) ==
  /\ s \in Seq(Nat)
  /\ Laid(f, s) /\ AdjoinFrom(f, off, s) /\ \A i \in 1 .. Len(s) : off <= s[i]
  /\ IF s = <<>> THEN off = Len(f) ELSE EndOf(f, s[Len(s)]) = Len(f)

\* A scan that does not fail finds adjoining records up to the end of the file.
LEMMA ScanFinds ==
  ASSUME NEW f \in Seq(Nat)
  PROVE  \A off \in 0 .. Len(f) : Scan(f)[off] = Broken \/ FoundFrom(f, off, Scan(f)[off])
<1> DEFINE n == Len(f)
           Good(off) == Scan(f)[off] = Broken \/ FoundFrom(f, off, Scan(f)[off])
           T == {k \in Nat : \E off \in Nat : off + k = n /\ ~Good(off)}
<1>1. n \in Nat /\ n = Len(f)
  BY LenProperties
<1> HIDE DEF n
<1>2. ASSUME T = {}, NEW off \in 0 .. Len(f)
      PROVE  Good(off)
  <2>1. n - off \in Nat /\ off \in Nat /\ off + (n - off) = n
    BY <1>1
  <2>2. n - off \notin T
    BY <1>2
  <2> HIDE DEF Good
  <2>. QED  BY <2>1, <2>2
<1>3. SUFFICES ASSUME T # {}
               PROVE  FALSE
  BY <1>2
<1>4. PICK x \in T : \A y \in T : x <= y
  <2>1. T \in SUBSET Nat
    OBVIOUS
  <2> HIDE DEF T
  <2>. QED  BY <1>3, <2>1, Least
<1>5. PICK off \in Nat : off + x = n /\ ~Good(off)
  BY <1>4
<1>6. x \in Nat /\ off \in 0 .. Len(f)
  BY <1>1, <1>4, <1>5
<1>7. off # n /\ Fits(f, off) /\ Scan(f)[off] # Broken
  <2>1. off # n
    <3>1. SUFFICES ASSUME off = n
                   PROVE  FALSE
      OBVIOUS
    <3>2. Scan(f)[off] = <<>>
      BY <1>1, <1>6, <3>1, ScanCases
    <3>3. FoundFrom(f, off, <<>>)
      BY <1>1, <3>1 DEF FoundFrom, Laid, AdjoinFrom
    <3>. QED  BY <1>5, <3>2, <3>3
  <2>. QED  BY <1>1, <1>5, <1>6, <2>1, ScanCases
<1> DEFINE e == EndOf(f, off)
           rest == Scan(f)[e]
<1>8. /\ e \in Nat /\ off + 2 <= e /\ e <= n
      /\ Scan(f)[off] = IF rest = Broken THEN Broken ELSE <<off>> \o rest
  BY <1>1, <1>6, <1>7, ScanCases
<1>9. Scan(f)[off] = <<off>> \o rest /\ rest # Broken
  BY <1>7, <1>8
<1> HIDE DEF e
<1>10. FoundFrom(f, e, rest)
  <2>1. n - e \in Nat /\ e + (n - e) = n /\ ~(x <= n - e)
    BY <1>1, <1>5, <1>6, <1>8
  <2>2. n - e \notin T
    <3> HIDE DEF T
    <3>. QED  BY <1>4, <2>1
  <2>3. Good(e)
    <3> HIDE DEF Good
    <3>. QED  BY <1>8, <2>1, <2>2
  <2>. QED  BY <1>9, <2>3
<1> HIDE DEF rest
<1> DEFINE r == <<off>> \o rest
           m == Len(rest)
<1>11. /\ r \in Seq(Nat) /\ Len(r) = m + 1 /\ r[1] = off /\ m \in Nat
       /\ \A i \in 1 .. m : r[i + 1] = rest[i]
  <2>1. <<off>> \in Seq(Nat) /\ Len(<<off>>) = 1 /\ <<off>>[1] = off
    OBVIOUS
  <2>2. rest \in Seq(Nat)
    BY <1>10 DEF FoundFrom
  <2>3. m \in Nat
    BY <2>2, LenProperties
  <2>4. /\ r \in Seq(Nat) /\ Len(r) = Len(<<off>>) + Len(rest)
        /\ \A i \in 1 .. Len(<<off>>) + Len(rest) :
             r[i] = IF i <= Len(<<off>>) THEN <<off>>[i] ELSE rest[i - Len(<<off>>)]
    BY <2>1, <2>2, ConcatProperties
  <2> HIDE DEF r, m
  <2>5. /\ r \in Seq(Nat) /\ Len(r) = 1 + m
        /\ \A i \in 1 .. 1 + m : r[i] = IF i <= 1 THEN <<off>>[i] ELSE rest[i - 1]
    BY <2>1, <2>4 DEF m
  <2>6. 1 \in 1 .. 1 + m /\ r[1] = off
    BY <2>1, <2>3, <2>5
  <2>7. ASSUME NEW i \in 1 .. m
        PROVE  r[i + 1] = rest[i]
    <3>1. i + 1 \in 1 .. 1 + m /\ ~(i + 1 <= 1) /\ i + 1 - 1 = i
      BY <2>3
    <3>. QED  BY <2>5, <3>1
  <2>. QED  BY <2>3, <2>5, <2>6, <2>7
<1> HIDE DEF r
<1>12. m = Len(rest)
  OBVIOUS
<1> HIDE DEF m
<1>13. ASSUME NEW i \in 1 .. Len(r)
       PROVE  \/ i = 1 /\ r[i] = off
              \/ i - 1 \in 1 .. m /\ i # 1 /\ r[i] = rest[i - 1]
  <2>1. i = 1 \/ (i # 1 /\ i - 1 \in 1 .. m /\ i - 1 + 1 = i)
    BY <1>11
  <2>2. i - 1 \in 1 .. m /\ i - 1 + 1 = i => r[i] = rest[i - 1]
    BY <1>11
  <2>. QED  BY <1>11, <2>1, <2>2
<1>14. \A i \in 1 .. m : e <= rest[i] /\ rest[i] \in Nat
  <2>1. rest \in Seq(Nat) /\ \A i \in 1 .. Len(rest) : e <= rest[i]
    BY <1>10 DEF FoundFrom
  <2>. QED  BY <1>12, <2>1, ElementOfSeq
<1>15. \A i \in 1 .. Len(r) : off <= r[i]
  <2>1. ASSUME NEW i \in 1 .. Len(r)
        PROVE  off <= r[i]
    <3>1. CASE i = 1 /\ r[i] = off
      BY <3>1
    <3>2. CASE i - 1 \in 1 .. m /\ i # 1 /\ r[i] = rest[i - 1]
      <4> DEFINE v == rest[i - 1]
      <4>1. v \in Nat /\ e <= v
        BY <1>14, <3>2
      <4> HIDE DEF v
      <4>2. off <= v
        BY <1>8, <4>1
      <4>. QED  BY <3>2, <4>2 DEF v
    <3>. QED  BY <1>13, <3>1, <3>2
  <2>. QED  BY <2>1
<1>16. Laid(f, r)
  <2>1. SUFFICES ASSUME NEW i \in 1 .. Len(r)
                 PROVE  Fits(f, r[i]) /\ \A j \in i + 1 .. Len(r) : EndOf(f, r[i]) <= r[j]
    BY DEF Laid
  <2>2. CASE i = 1 /\ r[i] = off
    <3>1. \A j \in i + 1 .. Len(r) : j \in 1 .. Len(r) /\ j # 1
      BY <1>11, <2>2
    <3>2. \A j \in i + 1 .. Len(r) : r[j] = rest[j - 1] /\ j - 1 \in 1 .. m
      BY <1>13, <3>1
    <3>. QED  BY <1>7, <1>14, <2>2, <3>2 DEF e
  <2>3. CASE i - 1 \in 1 .. m /\ i # 1 /\ r[i] = rest[i - 1]
    <3>1. \A j \in i + 1 .. Len(r) : j \in 1 .. Len(r) /\ j # 1 /\ j - 1 \in i - 1 + 1 .. m
      BY <1>11, <2>3
    <3>2. \A j \in i + 1 .. Len(r) : r[j] = rest[j - 1]
      BY <1>13, <3>1
    <3>3. Fits(f, rest[i - 1]) /\ \A j \in i - 1 + 1 .. m : EndOf(f, rest[i - 1]) <= rest[j]
      BY <1>10, <1>12, <2>3 DEF FoundFrom, Laid
    <3>. QED  BY <2>3, <3>1, <3>2, <3>3
  <2>. QED  BY <1>13, <2>2, <2>3
<1>17. AdjoinFrom(f, off, r)
  <2>1. SUFFICES ASSUME NEW i \in 1 .. Len(r), i # 1
                 PROVE  r[i] = EndOf(f, r[i - 1])
    BY <1>11 DEF AdjoinFrom
  <2>2. i - 1 \in 1 .. m /\ r[i] = rest[i - 1] /\ i - 1 \in 1 .. Len(r)
    BY <1>11, <1>13, <2>1
  <2>3. rest[i - 1] = IF i - 1 = 1 THEN e ELSE EndOf(f, rest[i - 1 - 1])
    BY <1>10, <1>12, <2>2 DEF FoundFrom, AdjoinFrom
  <2>4. CASE i - 1 = 1
    BY <1>11, <2>2, <2>3, <2>4 DEF e
  <2>5. CASE i - 1 # 1
    <3>1. r[i - 1] = rest[i - 1 - 1]
      BY <1>13, <2>2, <2>5
    <3>. QED  BY <2>2, <2>3, <2>5, <3>1
  <2>. QED  BY <2>4, <2>5
<1>18. r # <<>> /\ EndOf(f, r[Len(r)]) = Len(f)
  <2>0. r # <<>>
    <3>1. Len(<<>>) = 0 /\ Len(r) # 0
      BY <1>11
    <3>. QED  BY <3>1
  <2>1. CASE rest = <<>>
    <3>1. e = Len(f) /\ m = 0
      BY <1>10, <1>12, <2>1 DEF FoundFrom
    <3>. QED  BY <1>11, <2>0, <3>1 DEF e
  <2>2. CASE rest # <<>>
    <3>1. EndOf(f, rest[m]) = Len(f) /\ rest \in Seq(Nat)
      BY <1>10, <1>12, <2>2 DEF FoundFrom
    <3>2. m # 0
      BY <1>12, <2>2, <3>1, EmptySeq
    <3>3. r[m + 1] = rest[m]
      BY <1>11, <3>2
    <3>. QED  BY <1>11, <2>0, <3>1, <3>3
  <2>. QED  BY <2>1, <2>2
<1>19. FoundFrom(f, off, r)
  BY <1>11, <1>15, <1>16, <1>17, <1>18 DEF FoundFrom
<1>. QED  BY <1>5, <1>9, <1>19 DEF r

\* A scan goes along records that adjoin from the start of the file.
LEMMA ScanAlong ==
  ASSUME NEW f \in Seq(Nat), NEW s \in Seq(Nat), Laid(f, s), AdjoinFrom(f, 0, s)
  PROVE  \A i \in 0 .. Len(s) :
           /\ After(f, s, i) \in 0 .. Len(f)
           /\ Scan(f)[0] = IF Scan(f)[After(f, s, i)] = Broken THEN Broken
                           ELSE SubSeq(s, 1, i) \o Scan(f)[After(f, s, i)]
<1> DEFINE m == Len(s)
           Good(i) == /\ After(f, s, i) \in 0 .. Len(f)
                      /\ Scan(f)[0] = IF Scan(f)[After(f, s, i)] = Broken THEN Broken
                                      ELSE SubSeq(s, 1, i) \o Scan(f)[After(f, s, i)]
           T == {i \in Nat : i <= m /\ ~Good(i)}
<1>1. m \in Nat /\ m = Len(s) /\ Len(f) \in Nat
  BY LenProperties
<1> HIDE DEF m
<1>2. SUFFICES ASSUME T # {}
               PROVE  FALSE
  <2>1. SUFFICES ASSUME T = {}, NEW i \in 0 .. Len(s)
                 PROVE  Good(i)
    BY <1>2
  <2>2. i \in Nat /\ i <= m
    BY <1>1
  <2> HIDE DEF Good
  <2>. QED  BY <2>1, <2>2
<1>3. PICK x \in T : \A y \in T : x <= y
  <2>1. T \in SUBSET Nat
    OBVIOUS
  <2> HIDE DEF T
  <2>. QED  BY <1>2, <2>1, Least
<1>4. x \in Nat /\ x <= m /\ ~Good(x)
  BY <1>3
<1>5. x # 0
  <2>1. SUFFICES ASSUME x = 0
                 PROVE  FALSE
    OBVIOUS
  <2>2. 0 \in 0 .. Len(f) /\ After(f, s, 0) = 0
    BY <1>1 DEF After
  <2>3. SubSeq(s, 1, 0) = <<>>
    BY SubSeqEmpty
  <2>4. Scan(f)[0] = Broken \/ Scan(f)[0] \in Seq(Nat)
    BY <2>2, ScanFinds DEF FoundFrom
  <2>5. Scan(f)[0] \in Seq(Nat) => <<>> \o Scan(f)[0] = Scan(f)[0]
    BY ConcatEmptySeq
  <2>. QED  BY <1>4, <2>1, <2>2, <2>3, <2>4, <2>5
<1> DEFINE w == x - 1
           off == s[x]
           e == EndOf(f, off)
<1>6. w \in Nat /\ w <= m /\ ~(x <= w) /\ x \in 1 .. Len(s) /\ w + 1 = x
  BY <1>1, <1>4, <1>5
<1>7. Good(w)
  <2>1. w \notin T
    <3> HIDE DEF T, w
    <3>. QED  BY <1>3, <1>6
  <2> HIDE DEF Good, w
  <2>. QED  BY <1>6, <2>1
<1>8. Fits(f, off)
  BY <1>6 DEF Laid
<1>9. off = After(f, s, w)
  <2>1. off = IF x = 1 THEN 0 ELSE EndOf(f, s[x - 1])
    BY <1>6 DEF AdjoinFrom
  <2>. QED  BY <1>6, <2>1 DEF After
<1>10. off \in 0 .. Len(f) /\ off \in Nat /\ off # Len(f)
  <2>1. off \in Nat
    BY <1>6, ElementOfSeq
  <2> DEFINE n == Len(f)
  <2>2. off + 2 <= n /\ n \in Nat
    BY <1>1, <1>8 DEF Fits, HeaderLen
  <2> HIDE DEF off, n
  <2>3. off \in 0 .. n /\ off # n
    BY <2>1, <2>2
  <2>. QED  BY <2>1, <2>3 DEF n
<1>11. /\ e \in Nat /\ e <= Len(f)
       /\ Scan(f)[off] = IF Scan(f)[e] = Broken THEN Broken ELSE <<off>> \o Scan(f)[e]
  BY <1>8, <1>10, ScanCases
<1>12. e = After(f, s, x) /\ e \in 0 .. Len(f)
  BY <1>1, <1>5, <1>11 DEF After
<1> HIDE DEF e
<1> DEFINE r == Scan(f)[e]
           b == SubSeq(s, 1, w)
<1>13. Scan(f)[0] = IF Scan(f)[off] = Broken THEN Broken ELSE b \o Scan(f)[off]
  BY <1>7, <1>9
<1>14. r = Broken \/ r \in Seq(Nat)
  BY <1>12, ScanFinds DEF FoundFrom
<1> HIDE DEF r, off
<1>15. CASE r = Broken
  BY <1>4, <1>11, <1>12, <1>13, <1>15 DEF r
<1>16. CASE r # Broken
  <2>1. r \in Seq(Nat) /\ <<off>> \in Seq(Nat)
    BY <1>10, <1>14, <1>16
  <2>2. <<off>> \o r \in Seq(Nat)
    BY <2>1, ConcatProperties
  <2>3. Scan(f)[off] = <<off>> \o r /\ Scan(f)[off] # Broken
    BY <1>11, <1>16, <2>2, BrokenAssumption DEF r
  <2>4. b \in Seq(Nat)
    <3>1. \A i \in 1 .. w : s[i] \in Nat
      <4>1. \A i \in 1 .. w : i \in 1 .. Len(s)
        BY <1>1, <1>6
      <4>. QED  BY <4>1, ElementOfSeq
    <3>. QED  BY <1>6, <3>1, SubSeqProperties
  <2>5. b \o (<<off>> \o r) = (b \o <<off>>) \o r
    <3>1. \A t, u, v \in Seq(Nat) : (t \o u) \o v = t \o (u \o v)
      BY SMTT(30)
    <3> DEFINE u == <<off>>
    <3>2. u \in Seq(Nat)
      BY <2>1
    <3> HIDE DEF b, u
    <3>3. (b \o u) \o r = b \o (u \o r)
      BY <2>1, <2>4, <3>1, <3>2, ZenonT(60)
    <3>. QED  BY <3>3 DEF u
  <2>6. SubSeq(s, 1, x) = b \o <<off>>
    <3>1. CASE w = 0
      <4>1. b = <<>> /\ x = 1
        BY <1>6, <3>1, SubSeqEmpty
      <4>2. SubSeq(s, 1, 1) = <<s[1]>>
        <5>1. 1 \in 1 .. Len(s) /\ s[1] \in Nat
          BY <1>6, <4>1, ElementOfSeq
        <5>2. \A i \in 1 .. 1 : s[i] \in Nat
          BY <5>1
        <5>3. /\ SubSeq(s, 1, 1) \in Seq(Nat) /\ Len(SubSeq(s, 1, 1)) = 1
              /\ SubSeq(s, 1, 1)[1] = s[1]
          BY <5>2, SubSeqProperties
        <5> DEFINE v == s[1]
                   t == SubSeq(s, 1, 1)
        <5>4. v \in Nat
          BY <5>1
        <5> HIDE DEF v, t
        <5>5. <<v>> \in Seq(Nat) /\ Len(<<v>>) = 1 /\ <<v>>[1] = v
          BY <5>4
        <5>6. t \in Seq(Nat) /\ Len(t) = 1 /\ t[1] = v
          BY <5>3 DEF v, t
        <5>7. \A i \in 1 .. 1 : i = 1
          OBVIOUS
        <5>8. t = <<v>>
          BY <5>5, <5>6, <5>7, SeqEqual
        <5>. QED  BY <5>8 DEF v, t
      <4>3. <<>> \o <<off>> = <<off>>
        BY <2>1, ConcatEmptySeq
      <4>. QED  BY <4>1, <4>2, <4>3 DEF off
    <3>2. CASE w # 0
      <4>1. 1 \in 1 .. Len(s) /\ x \in 1 .. Len(s)
        BY <1>1, <1>6
      <4>2. SubSeq(s, 1, x) = SubSeq(s, 1, x - 1) \o <<s[x]>>
        BY <4>1, SubSeqRecursiveSecond
      <4>. QED  BY <4>2 DEF off
    <3>. QED  BY <3>1, <3>2
  <2>. QED  BY <1>4, <1>12, <1>13, <1>16, <2>3, <2>5, <2>6 DEF r
<1>. QED  BY <1>15, <1>16

\* So the scan finds the records s exactly where s adjoins from start to end.
LEMMA ScanWhole ==
  ASSUME NEW f \in Seq(Nat), NEW s \in Seq(Nat)
  PROVE  /\ Scan(f)[0] = s =>
              Laid(f, s) /\ AdjoinFrom(f, 0, s) /\ After(f, s, Len(s)) = Len(f)
         /\ Laid(f, s) /\ AdjoinFrom(f, 0, s) /\ After(f, s, Len(s)) = Len(f) =>
              Scan(f)[0] = s
         /\ Laid(f, s) /\ AdjoinFrom(f, 0, s) =>
              (Scan(f)[0] = Broken <=> Scan(f)[After(f, s, Len(s))] = Broken)
<1>1. Len(s) \in Nat /\ Len(f) \in Nat
  BY LenProperties
<1>2. 0 \in 0 .. Len(f)
  BY <1>1
<1>3. ASSUME Scan(f)[0] = s
      PROVE  Laid(f, s) /\ AdjoinFrom(f, 0, s) /\ After(f, s, Len(s)) = Len(f)
  <2>1. s # Broken
    BY BrokenAssumption
  <2>2. FoundFrom(f, 0, s)
    BY <1>2, <1>3, <2>1, ScanFinds
  <2>3. CASE s = <<>>
    <3>1. Len(s) = 0 /\ Len(f) = 0
      BY <2>2, <2>3 DEF FoundFrom
    <3>. QED  BY <2>2, <3>1 DEF FoundFrom, After
  <2>4. CASE s # <<>>
    <3>1. Len(s) # 0
      BY <2>4, EmptySeq, SMTT(30)
    <3>. QED  BY <2>2, <2>4, <3>1 DEF FoundFrom, After
  <2>. QED  BY <2>3, <2>4
<1>4. ASSUME Laid(f, s), AdjoinFrom(f, 0, s)
      PROVE  /\ Scan(f)[0] = Broken <=> Scan(f)[After(f, s, Len(s))] = Broken
             /\ After(f, s, Len(s)) = Len(f) => Scan(f)[0] = s
  <2> DEFINE e == After(f, s, Len(s))
             n == Len(s)
  <2>1. n \in 0 .. n /\ n = Len(s)
    <3>1. n \in Nat
      BY <1>1
    <3> HIDE DEF n
    <3>2. n \in 0 .. n
      BY <3>1
    <3>. QED  BY <3>2 DEF n
  <2>2. /\ e \in 0 .. Len(f)
        /\ Scan(f)[0] = IF Scan(f)[e] = Broken THEN Broken ELSE SubSeq(s, 1, Len(s)) \o Scan(f)[e]
    BY <1>4, <2>1, ScanAlong
  <2>3. SubSeq(s, 1, Len(s)) = s
    BY SubSeqFull
  <2>4. Scan(f)[e] = Broken \/ Scan(f)[e] \in Seq(Nat)
    BY <2>2, ScanFinds DEF FoundFrom
  <2> HIDE DEF e
  <2>5. Scan(f)[e] \in Seq(Nat) => s \o Scan(f)[e] \in Seq(Nat)
    BY ConcatProperties
  <2>6. e = Len(f) => Scan(f)[e] = <<>>
    BY <2>2, ScanCases
  <2>7. s \o <<>> = s /\ <<>> # Broken
    <3>1. <<>> \in Seq(Nat)
      OBVIOUS
    <3>. QED  BY <3>1, ConcatEmptySeq, BrokenAssumption
  <2>. QED  BY <2>2, <2>3, <2>4, <2>5, <2>6, <2>7, BrokenAssumption DEF e
<1>. QED  BY <1>3, <1>4

\* What a scan makes of the file behind an offset depends on that part only.
LEMMA ScanTail ==
  ASSUME NEW f \in Seq(Nat), NEW g \in Seq(Nat), NEW e \in Nat, Len(g) = Len(f),
         \A i \in 1 .. Len(f) : e < i => g[i] = f[i]
  PROVE  \A off \in 0 .. Len(f) : e <= off => Scan(g)[off] = Scan(f)[off]
<1> DEFINE n == Len(f)
           Good(off) == e <= off => Scan(g)[off] = Scan(f)[off]
           T == {k \in Nat : \E off \in Nat : off + k = n /\ ~Good(off)}
<1>1. n \in Nat /\ n = Len(f)
  BY LenProperties
<1> HIDE DEF n
<1>2. ASSUME T = {}, NEW off \in 0 .. Len(f)
      PROVE  Good(off)
  <2>1. n - off \in Nat /\ off \in Nat /\ off + (n - off) = n
    BY <1>1
  <2>2. n - off \notin T
    BY <1>2
  <2> HIDE DEF Good
  <2>. QED  BY <2>1, <2>2
<1>3. SUFFICES ASSUME T # {}
               PROVE  FALSE
  BY <1>2
<1>4. PICK x \in T : \A y \in T : x <= y
  <2>1. T \in SUBSET Nat
    OBVIOUS
  <2> HIDE DEF T
  <2>. QED  BY <1>3, <2>1, Least
<1>5. PICK off \in Nat : off + x = n /\ ~Good(off)
  BY <1>4
<1>6. x \in Nat /\ off \in 0 .. Len(f) /\ off \in 0 .. Len(g) /\ e <= off
  BY <1>1, <1>4, <1>5
<1>7. off # n
  <2>1. off = n => Scan(f)[off] = <<>> /\ Scan(g)[off] = <<>>
    BY <1>1, <1>6, ScanCases
  <2>. QED  BY <1>5, <2>1
<1>8. off + HeaderLen <= Len(f) => g[off + 2] = f[off + 2]
  <2>1. off + HeaderLen <= Len(f) => off + 2 \in 1 .. Len(f) /\ e < off + 2
    BY <1>1, <1>6 DEF HeaderLen
  <2>. QED  BY <2>1
<1>9. Fits(g, off) <=> Fits(f, off)
  BY <1>8 DEF Fits, EndOf
<1>10. CASE ~Fits(f, off)
  BY <1>1, <1>5, <1>6, <1>7, <1>9, <1>10, ScanCases
<1>11. CASE Fits(f, off)
  <2> DEFINE d == EndOf(f, off)
  <2>1. EndOf(g, off) = d
    BY <1>8, <1>11 DEF EndOf, Fits
  <2>2. /\ d \in Nat /\ off + 2 <= d /\ d <= n
        /\ Scan(f)[off] = IF Scan(f)[d] = Broken THEN Broken ELSE <<off>> \o Scan(f)[d]
    BY <1>1, <1>6, <1>7, <1>11, ScanCases
  <2>3. Scan(g)[off] = IF Scan(g)[d] = Broken THEN Broken ELSE <<off>> \o Scan(g)[d]
    BY <1>1, <1>6, <1>7, <1>9, <1>11, <2>1, ScanCases
  <2> HIDE DEF d
  <2>4. n - d \in Nat /\ d + (n - d) = n /\ ~(x <= n - d) /\ e <= d
    BY <1>1, <1>5, <1>6, <2>2
  <2>5. n - d \notin T
    <3> HIDE DEF T
    <3>. QED  BY <1>4, <2>4
  <2>6. Good(d)
    <3> HIDE DEF Good
    <3>. QED  BY <2>2, <2>4, <2>5
  <2>. QED  BY <1>5, <2>2, <2>3, <2>4, <2>6
<1>. QED  BY <1>10, <1>11

-----------------------------------------------------------------------------
(***************************************************************************)
(* The records at the offsets of a block index.                            *)
(***************************************************************************)
\* The record at offset off of f, and the log the offsets s lead to.
BlockOf(f, off) ==
  CASE f[off + 1] = RecordData     -> TL!DataRecord(SubSeq(f, off + 3, off + 2 + f[off + 2]))
    [] f[off + 1] = RecordFilemark -> TL!Filemark
    [] f[off + 1] = RecordEOD      -> TL!EODMark
    [] OTHER                       -> [type |-> "unknown"]

LogIn(f, s) == [i \in 1 .. Len(s) |-> BlockOf(f, s[i])]

ImageOf(f, s) ==
  CASE Scan(f)[0] = s                            -> "whole"
    [] Scan(f)[0] = Broken /\ AdjoinFrom(f, 0, s) -> "torn"
    [] OTHER                                     -> "spoiled"

LEMMA LogIsLogIn == Log = LogIn(file, blockIndex) /\ Log' = LogIn(file', blockIndex')
<1>1. \A i \in 1 .. Len(blockIndex) : i - 1 + 1 = i
  OBVIOUS
<1>2. ASSUME NEW i \in 1 .. Len(blockIndex)
      PROVE  ReadAt(i - 1) = BlockOf(file, blockIndex[i])
  BY <1>1 DEF ReadAt, BlockOf, TypeAt, LenAt, DataAt
<1>3. \A i \in 1 .. Len(blockIndex') : i - 1 + 1 = i
  OBVIOUS
<1>4. ASSUME NEW i \in 1 .. Len(blockIndex')
      PROVE  ReadAt(i - 1)' = BlockOf(file', blockIndex'[i])
  BY <1>3 DEF ReadAt, BlockOf, TypeAt, LenAt, DataAt
<1>. QED  BY <1>2, <1>4 DEF Log, LogIn, nextBlock

LEMMA AdjoinIsAdjoinFrom ==
  /\ BlocksAdjoin <=> AdjoinFrom(file, 0, blockIndex)
  /\ BlocksAdjoin' <=> AdjoinFrom(file', 0, blockIndex')
BY DEF BlocksAdjoin, AdjoinFrom, EndOf, LenAt, nextBlock

LEMMA ImageIsImageOf ==
  Image = ImageOf(file, blockIndex) /\ Image' = ImageOf(file', blockIndex')
<1>1. Image = ImageOf(file, blockIndex)
  BY RebuiltIsScan, AdjoinIsAdjoinFrom DEF Image, ImageOf
<1>2. Image' = ImageOf(file', blockIndex')
  BY RebuiltIsScan, AdjoinIsAdjoinFrom DEF Image, ImageOf
<1>. QED  BY <1>1, <1>2

LEMMA ImageCases ==
  ASSUME NEW f, NEW s \in Seq(Nat)
  PROVE  /\ ImageOf(f, s) \in {"whole", "torn", "spoiled"}
         /\ ImageOf(f, s) = "whole" <=> Scan(f)[0] = s
         /\ ImageOf(f, s) = "torn" <=> Scan(f)[0] = Broken /\ AdjoinFrom(f, 0, s)
<1>1. s # Broken
  BY BrokenAssumption
<1>2. CASE Scan(f)[0] = s
  BY <1>1, <1>2 DEF ImageOf
<1>3. CASE Scan(f)[0] # s
  BY <1>1, <1>3 DEF ImageOf
<1>. QED  BY <1>2, <1>3

\* Where records that are laid out start and end.
LEMMA LaidEnds ==
  ASSUME NEW f \in Seq(Nat), NEW s \in Seq(Nat), Laid(f, s)
  PROVE  /\ \A i \in 1 .. Len(s) :
              /\ s[i] \in Nat /\ EndOf(f, s[i]) \in Nat /\ f[s[i] + 2] \in Nat
              /\ s[i] + 2 <= EndOf(f, s[i]) /\ EndOf(f, s[i]) <= Len(f)
              /\ EndOf(f, s[i]) = s[i] + 2 + f[s[i] + 2]
         /\ \A i, j \in 1 .. Len(s) : i < j => EndOf(f, s[i]) <= s[j]
<1>1. Len(s) \in Nat /\ Len(f) \in Nat
  BY LenProperties
<1>2. ASSUME NEW i \in 1 .. Len(s)
      PROVE  /\ s[i] \in Nat /\ EndOf(f, s[i]) \in Nat /\ f[s[i] + 2] \in Nat
             /\ s[i] + 2 <= EndOf(f, s[i]) /\ EndOf(f, s[i]) <= Len(f)
             /\ EndOf(f, s[i]) = s[i] + 2 + f[s[i] + 2]
  <2> DEFINE off == s[i]
  <2>1. off \in Nat
    BY ElementOfSeq
  <2>2. off + HeaderLen <= Len(f) /\ EndOf(f, off) <= Len(f)
    BY DEF Laid, Fits
  <2> HIDE DEF off
  <2>3. off + 2 \in 1 .. Len(f)
    BY <1>1, <2>1, <2>2 DEF HeaderLen
  <2> DEFINE l == f[off + 2]
  <2>4. l \in Nat
    BY <2>3, ElementOfSeq
  <2>5. EndOf(f, off) = off + 2 + l
    BY DEF EndOf, HeaderLen
  <2> HIDE DEF l
  <2>6. off + 2 + l \in Nat /\ off + 2 <= off + 2 + l
    BY <2>1, <2>4
  <2>. QED  BY <2>1, <2>2, <2>4, <2>5, <2>6 DEF off, l
<1>3. ASSUME NEW i \in 1 .. Len(s), NEW j \in 1 .. Len(s), i < j
      PROVE  EndOf(f, s[i]) <= s[j]
  <2>1. j \in i + 1 .. Len(s)
    BY <1>1, <1>3
  <2>. QED  BY <2>1 DEF Laid
<1>. QED  BY <1>2, <1>3

\* A record is what its cells say.
LEMMA SameBlock ==
  ASSUME NEW f \in Seq(Nat), NEW g \in Seq(Nat), NEW off \in Nat, NEW n \in Nat,
         n <= Len(f), n <= Len(g), \A i \in 1 .. n : off < i => g[i] = f[i],
         off + 2 <= EndOf(f, off), EndOf(f, off) <= n, EndOf(f, off) \in Nat
  PROVE  /\ EndOf(g, off) = EndOf(f, off) /\ Fits(g, off)
         /\ BlockOf(g, off) = BlockOf(f, off)
<1>1. Len(f) \in Nat /\ Len(g) \in Nat
  BY LenProperties
<1>2. off + 1 \in 1 .. n /\ off + 2 \in 1 .. n /\ off < off + 1 /\ off < off + 2
  OBVIOUS
<1>3. g[off + 1] = f[off + 1] /\ g[off + 2] = f[off + 2]
  BY <1>2
<1> DEFINE l == f[off + 2]
           e == EndOf(f, off)
<1>4. off + 2 \in 1 .. Len(f)
  BY <1>1, <1>2
<1>5. l \in Nat /\ e = off + 2 + l
  BY <1>4, ElementOfSeq DEF EndOf, HeaderLen
<1>6. EndOf(g, off) = e /\ Fits(g, off)
  <2>1. EndOf(g, off) = e
    BY <1>3 DEF EndOf
  <2> HIDE DEF e
  <2>2. off + HeaderLen <= Len(g) /\ e <= Len(g)
    BY <1>1, <1>2 DEF HeaderLen, e
  <2>. QED  BY <2>1, <2>2 DEF Fits
<1>7. SubSeq(g, off + 3, off + 2 + l) = SubSeq(f, off + 3, off + 2 + l)
  <2>0. off + 2 + l <= n
    BY <1>5
  <2> HIDE DEF l
  <2> DEFINE a == off + 3
             b == off + 2 + l
  <2>1. a \in Int /\ b \in Int /\ b - a + 1 = l /\ (a <= b => b - a + 1 = l) /\ (~(a <= b) => l = 0)
    BY <1>5
  <2>2. ASSUME NEW i \in a .. b
        PROVE  i \in 1 .. n /\ i \in 1 .. Len(f) /\ i \in 1 .. Len(g) /\ off < i
    <3>1. l \in Nat /\ i \in Int /\ off + 3 <= i /\ i <= off + 2 + l
      BY <1>5
    <3>2. i \in Nat /\ 1 <= i /\ i <= n /\ off < i
      BY <2>0, <3>1
    <3>. QED  BY <1>1, <3>2, SMTT(30)
  <2>3. \A i \in a .. b : f[i] \in Nat /\ g[i] \in Nat
    BY <2>2, ElementOfSeq
  <2>4. ASSUME NEW i \in 1 .. l
        PROVE  a + i - 1 \in a .. b
    <3>1. l \in Nat /\ i \in Nat /\ 1 <= i /\ i <= l
      BY <1>5
    <3>. QED  BY <3>1
  <2> HIDE DEF a, b
  <2>5. /\ SubSeq(f, a, b) \in Seq(Nat) /\ Len(SubSeq(f, a, b)) = l
        /\ \A i \in 1 .. l : SubSeq(f, a, b)[i] = f[a + i - 1]
    BY <2>1, <2>3, SubSeqProperties, SMTT(30)
  <2>6. /\ SubSeq(g, a, b) \in Seq(Nat) /\ Len(SubSeq(g, a, b)) = l
        /\ \A i \in 1 .. l : SubSeq(g, a, b)[i] = g[a + i - 1]
    BY <2>1, <2>3, SubSeqProperties, SMTT(30)
  <2>7. \A i \in 1 .. l : g[a + i - 1] = f[a + i - 1]
    BY <2>2, <2>4
  <2>8. SubSeq(g, a, b) = SubSeq(f, a, b)
    <3>1. Len(SubSeq(g, a, b)) = Len(SubSeq(f, a, b))
      BY <2>5, <2>6
    <3>2. \A i \in 1 .. Len(SubSeq(g, a, b)) : SubSeq(g, a, b)[i] = SubSeq(f, a, b)[i]
      BY <2>5, <2>6, <2>7
    <3>. QED  BY <2>5, <2>6, <3>1, <3>2, SeqEqual
  <2>. QED  BY <2>8 DEF a, b
<1>8. BlockOf(g, off) = BlockOf(f, off)
  BY <1>3, <1>7 DEF BlockOf, l
<1>. QED  BY <1>6, <1>8

\* So a file with the same first n cells holds the same records in them.
LEMMA SameRecords ==
  ASSUME NEW f \in Seq(Nat), NEW g \in Seq(Nat), NEW s \in Seq(Nat), NEW n \in Nat,
         n <= Len(f), n <= Len(g), \A i \in 1 .. n : g[i] = f[i],
         Laid(f, s), \A i \in 1 .. Len(s) : EndOf(f, s[i]) <= n
  PROVE  /\ Laid(g, s) /\ LogIn(g, s) = LogIn(f, s)
         /\ \A i \in 1 .. Len(s) : EndOf(g, s[i]) = EndOf(f, s[i])
         /\ AdjoinFrom(f, 0, s) => AdjoinFrom(g, 0, s)
         /\ After(g, s, Len(s)) = After(f, s, Len(s))
<1>1. ASSUME NEW i \in 1 .. Len(s)
      PROVE  /\ EndOf(g, s[i]) = EndOf(f, s[i]) /\ Fits(g, s[i])
             /\ BlockOf(g, s[i]) = BlockOf(f, s[i])
  <2> DEFINE off == s[i]
  <2>1. off \in Nat /\ off + 2 <= EndOf(f, off) /\ EndOf(f, off) \in Nat /\ EndOf(f, off) <= n
    BY LaidEnds
  <2> HIDE DEF off
  <2>2. EndOf(g, off) = EndOf(f, off) /\ Fits(g, off) /\ BlockOf(g, off) = BlockOf(f, off)
    BY <2>1, SameBlock
  <2>. QED  BY <2>2 DEF off
<1>2. Len(s) \in Nat
  BY LenProperties
<1>3. Laid(g, s)
  BY <1>1 DEF Laid
<1>4. LogIn(g, s) = LogIn(f, s)
  BY <1>1 DEF LogIn
<1>5. AdjoinFrom(f, 0, s) => AdjoinFrom(g, 0, s)
  <2>1. \A i \in 1 .. Len(s) : i # 1 => i - 1 \in 1 .. Len(s)
    BY <1>2
  <2>. QED  BY <1>1, <2>1 DEF AdjoinFrom
<1>6. After(g, s, Len(s)) = After(f, s, Len(s))
  <2>1. Len(s) # 0 => Len(s) \in 1 .. Len(s)
    BY <1>2
  <2>. QED  BY <1>1, <2>1 DEF After
<1>. QED  BY <1>1, <1>3, <1>4, <1>5, <1>6

-----------------------------------------------------------------------------
(***************************************************************************)
(* The cells a record is written as.                                       *)
(***************************************************************************)
Cells == Bytes \cup (0 .. Width - 1) \cup {RecordData, RecordFilemark, RecordEOD}

LEMMA CellsAreNumbers == Cells \subseteq Nat
<1>1. 0 .. Width - 1 \subseteq Nat
  BY WidthAssumption
<1>2. {RecordData, RecordFilemark, RecordEOD} \subseteq Nat
  BY DEF RecordData, RecordFilemark, RecordEOD
<1>. QED  BY <1>1, <1>2, BytesAssumption DEF Cells

\* What the length cell keeps of a length.
LEMMA LengthCell ==
  ASSUME NEW l \in Nat
  PROVE  /\ l % Width \in 0 .. Width - 1 /\ l % Width <= l
         /\ l < Width => l % Width = l
<1>1. Width \in Nat /\ Width > 0
  BY WidthAssumption
<1>2. l % Width \in 0 .. Width - 1
  BY <1>1
<1>3. l < Width => l % Width = l
  BY <1>1
<1>4. l % Width <= l
  <2> DEFINE r == l % Width
  <2>1. r \in 0 .. Width - 1 /\ (l < Width => r = l)
    BY <1>2, <1>3
  <2> HIDE DEF r
  <2>2. r <= l
    BY <1>1, <2>1
  <2>. QED  BY <2>2 DEF r
<1>. QED  BY <1>2, <1>3, <1>4

LEMMA ContentsAreSeqs ==
  ASSUME NEW d \in Contents
  PROVE  d \in Seq(Bytes) /\ Len(d) \in Nat /\ Len(d) <= MaxData
<1>1. PICK n \in 0 .. MaxData : d \in [1 .. n -> Bytes]
  BY DEF Contents
<1>2. n \in Nat /\ n <= MaxData
  BY <1>1, BoundAssumption
<1>3. d \in Seq(Bytes) /\ Len(d) = n
  BY <1>1, <1>2
<1>. QED  BY <1>2, <1>3

LEMMA FramedCells ==
  ASSUME NEW rec \in RawRecords
  PROVE  /\ rec.data \in Seq(Bytes) /\ Len(rec.data) \in Nat /\ Len(rec.data) <= MaxData
         /\ Framed(rec) \in Seq(Cells) /\ Len(Framed(rec)) = 2 + Len(rec.data)
         /\ Framed(rec)[1] = rec.type /\ Framed(rec)[2] = Len(rec.data) % Width
         /\ \A i \in 1 .. Len(rec.data) : Framed(rec)[2 + i] = rec.data[i]
<1> DEFINE d == rec.data
           t == rec.type
           l == Len(d) % Width
           h == <<t, l>>
<1>1. d \in Seq(Bytes) /\ Len(d) \in Nat /\ Len(d) <= MaxData
  <2>1. CASE d \in Contents
    BY <2>1, ContentsAreSeqs
  <2>2. CASE d = <<>>
    <3>1. d \in Seq(Bytes) /\ Len(d) = 0
      BY <2>2
    <3>. QED  BY <3>1, BoundAssumption
  <2>3. d \in Contents \/ d = <<>>
    BY DEF RawRecords
  <2>. QED  BY <2>1, <2>2, <2>3
<1>2. t \in Cells
  BY DEF RawRecords, Cells
<1>3. l \in Cells
  BY <1>1, LengthCell DEF Cells
<1>4. d \in Seq(Cells)
  <2>1. Bytes \subseteq Cells
    BY DEF Cells
  <2>. QED  BY <1>1, <2>1, SeqMonotonic
<1>5. Framed(rec) = h \o d
  BY DEF Framed
<1> HIDE DEF d, t, l
<1>6. h \in Seq(Cells) /\ Len(h) = 2 /\ h[1] = t /\ h[2] = l
  BY <1>2, <1>3
<1> HIDE DEF h
<1>7. /\ h \o d \in Seq(Cells) /\ Len(h \o d) = Len(h) + Len(d)
      /\ \A i \in 1 .. Len(h) + Len(d) :
           (h \o d)[i] = IF i <= Len(h) THEN h[i] ELSE d[i - Len(h)]
  BY <1>4, <1>6, ConcatProperties
<1> DEFINE c == h \o d
           n == Len(d)
<1>8. n \in Nat
  BY <1>1
<1>9. /\ c \in Seq(Cells) /\ Len(c) = 2 + n
      /\ \A i \in 1 .. 2 + n : c[i] = IF i <= 2 THEN h[i] ELSE d[i - 2]
  BY <1>6, <1>7
<1> HIDE DEF c, n
<1>10. c[1] = h[1] /\ c[2] = h[2]
  <2>1. 1 \in 1 .. 2 + n /\ 2 \in 1 .. 2 + n
    BY <1>8
  <2>. QED  BY <1>9, <2>1
<1>11. ASSUME NEW i \in 1 .. n
       PROVE  c[2 + i] = d[i]
  <2>1. 2 + i \in 1 .. 2 + n /\ ~(2 + i <= 2) /\ 2 + i - 2 = i
    BY <1>8
  <2>. QED  BY <1>9, <2>1
<1>. QED  BY <1>1, <1>5, <1>6, <1>9, <1>10, <1>11 DEF c, n, d, t, l

\* The first k cells of c.
LEMMA PrefixCells ==
  ASSUME NEW S, NEW c \in Seq(S), NEW k \in 0 .. Len(c)
  PROVE  /\ SubSeq(c, 1, k) \in Seq(S) /\ Len(SubSeq(c, 1, k)) = k
         /\ \A i \in 1 .. k : SubSeq(c, 1, k)[i] = c[i]
<1>1. Len(c) \in Nat
  BY LenProperties
<1>2. k \in Nat /\ k <= Len(c)
  BY <1>1
<1>3. \A i \in 1 .. k : i \in 1 .. Len(c)
  BY <1>1, <1>2
<1>4. \A i \in 1 .. k : c[i] \in S
  BY <1>3, ElementOfSeq
<1>5. /\ SubSeq(c, 1, k) \in Seq(S) /\ Len(SubSeq(c, 1, k)) = IF 1 <= k THEN k - 1 + 1 ELSE 0
      /\ \A i \in 1 .. k - 1 + 1 : SubSeq(c, 1, k)[i] = c[1 + i - 1]
  BY <1>2, <1>4, SubSeqProperties
<1>6. (IF 1 <= k THEN k - 1 + 1 ELSE 0) = k /\ k - 1 + 1 = k /\ \A i \in 1 .. k : 1 + i - 1 = i
  BY <1>2
<1>. QED  BY <1>5, <1>6

\* The file f with the cells c behind it.
LEMMA WrittenBehind ==
  ASSUME NEW f \in Seq(Cells), NEW s \in Seq(Nat), Laid(f, s), NEW c \in Seq(Cells)
  PROVE  /\ f \o c \in Seq(Cells) /\ f \in Seq(Nat) /\ f \o c \in Seq(Nat)
         /\ Len(f) \in Nat /\ Len(c) \in Nat /\ Len(f \o c) = Len(f) + Len(c)
         /\ \A i \in 1 .. Len(f) : (f \o c)[i] = f[i]
         /\ \A i \in 1 .. Len(c) : (f \o c)[Len(f) + i] = c[i]
         /\ Laid(f \o c, s) /\ LogIn(f \o c, s) = LogIn(f, s)
         /\ \A i \in 1 .. Len(s) : EndOf(f \o c, s[i]) <= Len(f)
         /\ AdjoinFrom(f, 0, s) => AdjoinFrom(f \o c, 0, s)
         /\ After(f \o c, s, Len(s)) = After(f, s, Len(s))
<1> DEFINE g == f \o c
           n == Len(f)
           m == Len(c)
<1>1. n \in Nat /\ m \in Nat /\ n = Len(f) /\ m = Len(c)
  BY LenProperties
<1>2. /\ g \in Seq(Cells) /\ Len(g) = Len(f) + Len(c)
      /\ \A i \in 1 .. Len(f) + Len(c) : g[i] = IF i <= Len(f) THEN f[i] ELSE c[i - Len(f)]
  BY ConcatProperties
<1> HIDE DEF n, m
<1>12. \A i \in 1 .. n + m : g[i] = IF i <= n THEN f[i] ELSE c[i - n]
  BY <1>1, <1>2
<1> HIDE DEF g
<1>3. f \in Seq(Nat) /\ g \in Seq(Nat)
  BY <1>2, CellsAreNumbers, SeqMonotonic
<1>4. ASSUME NEW i \in 1 .. n
      PROVE  g[i] = f[i]
  <2>1. i \in 1 .. n + m /\ i <= n
    BY <1>1
  <2>. QED  BY <1>12, <2>1
<1>5. ASSUME NEW i \in 1 .. m
      PROVE  g[n + i] = c[i]
  <2>1. n + i \in 1 .. n + m /\ ~(n + i <= n) /\ n + i - n = i
    BY <1>1
  <2> DEFINE x == n + i
  <2>3. x \in Int /\ x \in 1 .. n + m /\ ~(x <= n) /\ x - n = i
    BY <1>1, <2>1
  <2> HIDE DEF x
  <2>2. g[x] = c[x - n]
    BY <1>12, <2>3
  <2>. QED  BY <2>2, <2>3 DEF x
<1>6. \A i \in 1 .. Len(s) : EndOf(f, s[i]) <= n
  BY <1>1, <1>3, LaidEnds
<1>7. n <= Len(f) /\ n <= Len(g)
  BY <1>1, <1>2
<1>8. /\ Laid(g, s) /\ LogIn(g, s) = LogIn(f, s)
      /\ \A i \in 1 .. Len(s) : EndOf(g, s[i]) = EndOf(f, s[i])
      /\ AdjoinFrom(f, 0, s) => AdjoinFrom(g, 0, s)
      /\ After(g, s, Len(s)) = After(f, s, Len(s))
  <2>1. \A i \in 1 .. n : g[i] = f[i]
    BY <1>4
  <2>2. \A i \in 1 .. Len(s) : EndOf(f, s[i]) <= n
    BY <1>6
  <2>3. n \in Nat /\ n <= Len(f) /\ n <= Len(g)
    BY <1>1, <1>7
  <2>4. f \in Seq(Nat) /\ g \in Seq(Nat) /\ Laid(f, s)
    BY <1>3
  <2> HIDE DEF g
  <2>. QED  BY <2>1, <2>2, <2>3, <2>4, SameRecords, ZenonT(60)
<1>. QED  BY <1>1, <1>2, <1>3, <1>4, <1>5, <1>6, <1>8 DEF g, n, m

\* A record behind the file is laid out there, even one whose length cell is wrong.
LEMMA RecordBehind ==
  ASSUME NEW f \in Seq(Cells), NEW s \in Seq(Nat), Laid(f, s), NEW rec \in RawRecords
  PROVE  LET g == f \o Framed(rec)
             t == Append(s, Len(f))
         IN  /\ g \in Seq(Cells) /\ t \in Seq(Nat) /\ Laid(g, t)
             /\ Len(t) = Len(s) + 1 /\ \A i \in 1 .. Len(s) : t[i] = s[i]
             /\ t[Len(s) + 1] = Len(f)
             /\ EndOf(g, Len(f)) = Len(f) + 2 + (Len(rec.data) % Width)
<1> DEFINE c == Framed(rec)
           g == f \o c
           t == Append(s, Len(f))
           n == Len(f)
           m == Len(s)
           d == Len(rec.data)
<1>1. m \in Nat /\ m = Len(s) /\ n = Len(f)
  BY LenProperties
<1>2. c \in Seq(Cells) /\ Len(c) = 2 + d /\ c[1] = rec.type /\ c[2] = d % Width /\ d \in Nat
  BY FramedCells
<1> DEFINE l == d % Width
<1>3. l \in Nat /\ l <= d
  <2>1. l \in 0 .. Width - 1 /\ l <= d
    BY <1>2, LengthCell
  <2> HIDE DEF l
  <2>2. l \in Nat
    BY <2>1, WidthAssumption
  <2>. QED  BY <2>1, <2>2
<1>4. c[2] = l
  BY <1>2
<1> HIDE DEF c, d, l
<1>5. /\ g \in Seq(Cells) /\ n \in Nat /\ Len(g) = n + Len(c) /\ g \in Seq(Nat)
      /\ \A i \in 1 .. Len(c) : g[n + i] = c[i]
      /\ Laid(g, s) /\ \A i \in 1 .. Len(s) : EndOf(g, s[i]) <= n
  BY <1>2, WrittenBehind
<1>6. g[n + 2] = l /\ Len(g) = n + 2 + d
  <2>1. 2 \in 1 .. Len(c)
    BY <1>2
  <2>. QED  BY <1>2, <1>4, <1>5, <2>1
<1>7. t \in Seq(Nat) /\ Len(t) = m + 1 /\ (\A i \in 1 .. m : t[i] = s[i]) /\ t[m + 1] = n
  BY <1>5, AppendProperties
<1> HIDE DEF g, t, n, m
<1>8. EndOf(g, n) = n + 2 + l
  BY <1>6 DEF EndOf, HeaderLen
<1>9. Fits(g, n)
  BY <1>2, <1>3, <1>5, <1>6, <1>8 DEF Fits, HeaderLen
<1>10. Laid(g, t)
  <2>1. SUFFICES ASSUME NEW i \in 1 .. m + 1
                 PROVE  Fits(g, t[i]) /\ \A j \in i + 1 .. m + 1 : EndOf(g, t[i]) <= t[j]
    BY <1>7 DEF Laid
  <2>2. CASE i = m + 1
    <3>1. i + 1 .. m + 1 = {}
      BY <1>1, <2>2
    <3>. QED  BY <1>7, <1>9, <2>2, <3>1
  <2>3. CASE i # m + 1
    <3>1. i \in 1 .. m
      BY <1>1, <2>3
    <3>2. \A j \in i + 1 .. m + 1 : j = m + 1 \/ j \in i + 1 .. m
      BY <1>1, <3>1
    <3>3. \A j \in i + 1 .. m : j \in 1 .. m
      BY <1>1, <3>1
    <3>4. Fits(g, s[i]) /\ (\A j \in i + 1 .. m : EndOf(g, s[i]) <= s[j]) /\ EndOf(g, s[i]) <= n
      BY <1>1, <1>5, <3>1 DEF Laid
    <3>. QED  BY <1>7, <3>1, <3>2, <3>3, <3>4
  <2>. QED  BY <2>2, <2>3
<1>. QED  BY <1>5, <1>7, <1>8, <1>10 DEF g, t, n, m, c, d, l

\* Cut at the start of a record, the file holds the records before it, and nothing else
\* if they adjoin.
LEMMA CutRecords ==
  ASSUME NEW f \in Seq(Cells), NEW s \in Seq(Nat), Laid(f, s), NEW b \in 0 .. Len(s) - 1
  PROVE  LET g == SubSeq(f, 1, s[b + 1])
             t == SubSeq(s, 1, b)
         IN  /\ g \in Seq(Cells) /\ t \in Seq(Nat) /\ Len(t) = b /\ Laid(g, t)
             /\ \A i \in 1 .. b : LogIn(g, t)[i] = LogIn(f, s)[i]
             /\ AdjoinFrom(f, 0, s) => Scan(g)[0] = t
<1> DEFINE n == s[b + 1]
           g == SubSeq(f, 1, n)
           t == SubSeq(s, 1, b)
           m == Len(s)
<1>1. f \in Seq(Nat) /\ Len(f) \in Nat /\ m \in Nat /\ m = Len(s)
  BY CellsAreNumbers, SeqMonotonic, LenProperties
<1> HIDE DEF m
<1>2. b \in Nat /\ b + 1 \in 1 .. Len(s) /\ b \in 0 .. Len(s)
  BY <1>1
<1>3. /\ \A i \in 1 .. m :
           s[i] \in Nat /\ EndOf(f, s[i]) \in Nat /\ s[i] + 2 <= EndOf(f, s[i])
           /\ EndOf(f, s[i]) <= Len(f)
      /\ \A i, j \in 1 .. m : i < j => EndOf(f, s[i]) <= s[j]
  BY <1>1, LaidEnds
<1>4. n \in Nat /\ n <= Len(f) /\ n \in 0 .. Len(f)
  <2>1. n \in Nat /\ EndOf(f, n) \in Nat /\ n + 2 <= EndOf(f, n) /\ EndOf(f, n) <= Len(f)
    BY <1>1, <1>2, <1>3
  <2> HIDE DEF n
  <2>. QED  BY <1>1, <2>1
<1>5. t \in Seq(Nat) /\ Len(t) = b /\ \A i \in 1 .. b : t[i] = s[i]
  BY <1>2, PrefixCells
<1>6. \A i \in 1 .. b : i \in 1 .. m /\ i < b + 1
  BY <1>1, <1>2
<1> HIDE DEF t
<1>7. \A i \in 1 .. b : EndOf(f, t[i]) <= n
  BY <1>1, <1>2, <1>3, <1>5, <1>6
<1> HIDE DEF n
<1>8. g \in Seq(Cells) /\ Len(g) = n /\ \A i \in 1 .. n : g[i] = f[i]
  BY <1>4, PrefixCells
<1> HIDE DEF g
<1>9. g \in Seq(Nat) /\ n <= Len(g)
  <2>1. g \in Seq(Nat)
    BY <1>8, CellsAreNumbers, SeqMonotonic
  <2>2. n <= n
    BY <1>4
  <2>. QED  BY <1>8, <2>1, <2>2
<1>10. Laid(f, t)
  <2>1. \A i \in 1 .. b : \A j \in i + 1 .. b : j \in 1 .. b /\ j \in i + 1 .. m
    BY <1>1, <1>2
  <2>. QED  BY <1>1, <1>5, <1>6, <2>1 DEF Laid
<1>11. /\ Laid(g, t) /\ LogIn(g, t) = LogIn(f, t)
       /\ \A i \in 1 .. Len(t) : EndOf(g, t[i]) = EndOf(f, t[i])
       /\ AdjoinFrom(f, 0, t) => AdjoinFrom(g, 0, t)
       /\ After(g, t, Len(t)) = After(f, t, Len(t))
  <2>1. \A i \in 1 .. Len(t) : EndOf(f, t[i]) <= n
    BY <1>5, <1>7
  <2>2. \A i \in 1 .. n : g[i] = f[i]
    BY <1>8
  <2>3. n \in Nat
    BY <1>4
  <2>4. n <= Len(f)
    BY <1>4
  <2>5. n <= Len(g)
    BY <1>9
  <2>6. f \in Seq(Nat)
    BY <1>1
  <2>7. g \in Seq(Nat)
    BY <1>9
  <2>8. t \in Seq(Nat)
    BY <1>5
  <2>. QED
    BY <1>10, <2>1, <2>2, <2>3, <2>4, <2>5, <2>6, <2>7, <2>8, SameRecords, ZenonT(60)
<1>12. \A i \in 1 .. b : LogIn(g, t)[i] = LogIn(f, s)[i]
  BY <1>1, <1>5, <1>6, <1>11 DEF LogIn
<1>13. ASSUME AdjoinFrom(f, 0, s)
       PROVE  Scan(g)[0] = t
  <2>1. AdjoinFrom(f, 0, t)
    <3>1. ASSUME NEW i \in 1 .. b
          PROVE  t[i] = IF i = 1 THEN 0 ELSE EndOf(f, t[i - 1])
      <4>1. s[i] = IF i = 1 THEN 0 ELSE EndOf(f, s[i - 1])
        BY <1>1, <1>6, <1>13 DEF AdjoinFrom
      <4>2. i # 1 => i - 1 \in 1 .. b
        BY <1>2
      <4>. QED  BY <1>5, <4>1, <4>2
    <3>. QED  BY <1>5, <3>1 DEF AdjoinFrom
  <2>2. After(f, t, b) = n
    <3>1. n = IF b + 1 = 1 THEN 0 ELSE EndOf(f, s[b + 1 - 1])
      BY <1>2, <1>13 DEF AdjoinFrom, n
    <3>2. b # 0 => b \in 1 .. b
      BY <1>2
    <3>3. b + 1 - 1 = b /\ (b + 1 = 1 <=> b = 0)
      BY <1>2
    <3>. QED  BY <1>5, <3>1, <3>2, <3>3 DEF After
  <2>. QED  BY <1>5, <1>8, <1>9, <1>11, <2>1, <2>2, ScanWhole
<1>. QED  BY <1>5, <1>8, <1>11, <1>12, <1>13 DEF g, t, n

\* The file f with the cells new from offset off on.
PatchOf(f, off, new) ==
  [i \in DOMAIN f |-> IF i > off /\ i <= off + Len(new) THEN new[i - off] ELSE f[i]]

\* Cells written into the data of a record change no other record, and no header.
LEMMA PatchedRecords ==
  ASSUME NEW f \in Seq(Cells), NEW s \in Seq(Nat), Laid(f, s), NEW b \in 1 .. Len(s),
         NEW new \in Seq(Cells), Len(new) <= f[s[b] + 2]
  PROVE  LET g == PatchOf(f, s[b] + HeaderLen, new)
         IN  /\ g \in Seq(Cells) /\ Len(g) = Len(f) /\ Laid(g, s)
             /\ \A i \in 1 .. Len(s) : i # b => BlockOf(g, s[i]) = BlockOf(f, s[i])
             /\ \A i \in 1 .. Len(s) : EndOf(g, s[i]) = EndOf(f, s[i])
             /\ AdjoinFrom(f, 0, s) => AdjoinFrom(g, 0, s)
             /\ After(g, s, Len(s)) = After(f, s, Len(s))
             /\ \A i \in 1 .. Len(f) : i <= s[b] + 2 \/ EndOf(f, s[b]) < i => g[i] = f[i]
             /\ \A i \in 1 .. Len(new) : g[s[b] + 2 + i] = new[i]
             /\ \A i \in 1 .. f[s[b] + 2] : Len(new) < i => g[s[b] + 2 + i] = f[s[b] + 2 + i]
<1> DEFINE off == s[b]
           e == EndOf(f, off)
           l == f[off + 2]
           g == PatchOf(f, off + HeaderLen, new)
           k == Len(new)
           n == Len(f)
           m == Len(s)
<1>1. /\ f \in Seq(Nat) /\ n \in Nat /\ m \in Nat /\ k \in Nat
      /\ m = Len(s) /\ n = Len(f) /\ k = Len(new) /\ DOMAIN f = 1 .. n
  BY CellsAreNumbers, SeqMonotonic, LenProperties
<1> HIDE DEF m, n
<1>2. /\ \A i \in 1 .. m :
           /\ s[i] \in Nat /\ EndOf(f, s[i]) \in Nat /\ f[s[i] + 2] \in Nat
           /\ s[i] + 2 <= EndOf(f, s[i]) /\ EndOf(f, s[i]) <= n
           /\ EndOf(f, s[i]) = s[i] + 2 + f[s[i] + 2]
      /\ \A i, j \in 1 .. m : i < j => EndOf(f, s[i]) <= s[j]
  BY <1>1, LaidEnds
<1>3. off \in Nat /\ e \in Nat /\ l \in Nat /\ e = off + 2 + l /\ e <= n /\ k <= l
  BY <1>1, <1>2
<1> HIDE DEF off, e, l, k
<1>4. g = [i \in 1 .. n |-> IF i > off + 2 /\ i <= off + 2 + k THEN new[i - (off + 2)] ELSE f[i]]
  BY <1>1 DEF PatchOf, HeaderLen, k
<1>5. ASSUME NEW i \in 1 .. n, i > off + 2 /\ i <= off + 2 + k
      PROVE  i - (off + 2) \in 1 .. k
  <2>1. i \in Int /\ i > off + 2 /\ i <= off + 2 + k
    BY <1>5
  <2>. QED  BY <1>1, <1>3, <2>1
<1>6. \A i \in 1 .. k : new[i] \in Cells
  BY ElementOfSeq DEF k
<1>7. \A i \in 1 .. n : f[i] \in Cells
  BY <1>1, ElementOfSeq
<1>8. g \in [1 .. n -> Cells]
  BY <1>4, <1>5, <1>6, <1>7
<1> HIDE DEF g
<1>9. g \in Seq(Cells) /\ Len(g) = n
  <2>1. n \in Nat
    BY <1>1
  <2>. QED  BY <1>8, <2>1
<1>10. g \in Seq(Nat)
  BY <1>9, CellsAreNumbers, SeqMonotonic
<1>10a. k \in Nat /\ l \in Nat /\ off \in Nat /\ n \in Nat /\ off + 2 + l <= n /\ k <= l
  BY <1>1, <1>3
<1>11. ASSUME NEW i \in 1 .. n, i <= off + 2 \/ off + 2 + k < i
       PROVE  g[i] = f[i]
  <2>1. ~(i > off + 2 /\ i <= off + 2 + k)
    BY <1>11, <1>10a
  <2>. QED  BY <1>4, <2>1
<1>12. ASSUME NEW i \in 1 .. k
       PROVE  g[off + 2 + i] = new[i]
  <2> DEFINE x == off + 2 + i
  <2>1. x \in 1 .. n /\ x > off + 2 /\ x <= off + 2 + k /\ x - (off + 2) = i
    BY <1>10a
  <2> HIDE DEF x
  <2>. QED  BY <1>4, <2>1 DEF x
<1>13. ASSUME NEW i \in 1 .. l, k < i
       PROVE  g[off + 2 + i] = f[off + 2 + i]
  <2> DEFINE x == off + 2 + i
  <2>1. x \in 1 .. n /\ off + 2 + k < x
    BY <1>13, <1>10a
  <2> HIDE DEF x
  <2>. QED  BY <1>11, <2>1 DEF x
<1>14. ASSUME NEW i \in 1 .. n, i <= off + 2 \/ e < i
       PROVE  g[i] = f[i]
  <2>1. i <= off + 2 \/ off + 2 + k < i
    BY <1>1, <1>3, <1>14
  <2>. QED  BY <1>11, <2>1
<1>15. ASSUME NEW i \in 1 .. m
       PROVE  /\ EndOf(g, s[i]) = EndOf(f, s[i]) /\ Fits(g, s[i])
              /\ i # b => BlockOf(g, s[i]) = BlockOf(f, s[i])
  <2> DEFINE o == s[i]
             d == EndOf(f, o)
  <2>1. o \in Nat /\ d \in Nat /\ o + 2 <= d /\ d <= n
    BY <1>2
  <2>2. CASE i # b
    <3>1. d <= off \/ e <= o
      <4>1. i < b \/ b < i
        BY <1>1, <2>2
      <4>. QED  BY <1>1, <1>2, <4>1 DEF off, e
    <3> HIDE DEF o
    <3>2. d <= Len(f) /\ d <= Len(g)
      BY <1>1, <1>9, <2>1
    <3>3. ASSUME NEW x \in 1 .. d, o < x
          PROVE  g[x] = f[x]
      <4>1. x \in 1 .. n /\ (x <= off + 2 \/ e < x)
        <5> HIDE DEF d
        <5>1. x \in Nat /\ 1 <= x /\ x <= d /\ o < x
          BY <2>1, <3>3
        <5>2. n \in Nat /\ off \in Nat /\ e \in Nat /\ o \in Nat /\ d \in Nat /\ d <= n
          BY <1>1, <1>3, <2>1
        <5>3. x <= n
          BY <5>1, <5>2
        <5>4. d <= off => x <= off + 2
          BY <5>1, <5>2
        <5>5. e <= o => e < x
          BY <5>1, <5>2
        <5>. QED  BY <3>1, <5>1, <5>2, <5>3, <5>4, <5>5
      <4>. QED  BY <1>14, <4>1
    <3>4. EndOf(g, o) = d /\ Fits(g, o) /\ BlockOf(g, o) = BlockOf(f, o)
      <4>1. d <= d
        BY <2>1
      <4>. QED  BY <1>1, <1>10, <2>1, <3>2, <3>3, <4>1, SameBlock
    <3>. QED  BY <3>4 DEF o
  <2>3. CASE i = b
    <3>1. o = off /\ d = e
      BY <2>3 DEF off, e
    <3> HIDE DEF o, d
    <3>2. off + 2 \in 1 .. n /\ off + 2 <= off + 2
      BY <1>1, <2>1, <3>1
    <3>3. g[off + 2] = f[off + 2]
      BY <1>14, <3>2
    <3>4. EndOf(g, off) = e
      BY <3>3 DEF EndOf, e
    <3>5. Fits(g, off)
      BY <1>1, <1>3, <1>9, <2>1, <3>1, <3>4 DEF Fits, HeaderLen
    <3>. QED  BY <2>3, <3>1, <3>4, <3>5 DEF o, d
  <2>. QED  BY <2>2, <2>3
<1>16. Laid(g, s)
  BY <1>1, <1>15 DEF Laid
<1>17. AdjoinFrom(f, 0, s) => AdjoinFrom(g, 0, s)
  <2>1. \A i \in 1 .. m : i # 1 => i - 1 \in 1 .. m
    BY <1>1
  <2>. QED  BY <1>1, <1>15, <2>1 DEF AdjoinFrom
<1>18. After(g, s, Len(s)) = After(f, s, Len(s))
  <2>1. m # 0 => m \in 1 .. m
    BY <1>1
  <2>. QED  BY <1>1, <1>15, <2>1 DEF After
<1>. QED  BY <1>1, <1>9, <1>12, <1>13, <1>14, <1>15, <1>16, <1>17, <1>18 DEF off, e, l, k, g

\* What OverwriteBlock writes over the l bytes of a record.
LEMMA PaddedCells ==
  ASSUME NEW l \in Nat, NEW d \in Seq(Bytes)
  PROVE  /\ ZeroPadded(l, d) \in Seq(Cells) /\ Len(ZeroPadded(l, d)) = l
         /\ \A i \in 1 .. l : ZeroPadded(l, d)[i] = IF i <= Len(d) THEN d[i] ELSE 0
<1>1. Bytes \subseteq Cells /\ 0 \in Cells
  BY BytesAssumption DEF Cells
<1>2. Len(d) \in Nat
  BY LenProperties
<1>3. ASSUME NEW i \in 1 .. l
      PROVE  (IF i <= Len(d) THEN d[i] ELSE 0) \in Cells
  <2>1. CASE i <= Len(d)
    <3>1. i \in 1 .. Len(d)
      BY <1>2, <2>1
    <3>. QED  BY <1>1, <2>1, <3>1, ElementOfSeq
  <2>2. CASE ~(i <= Len(d))
    BY <1>1, <2>2
  <2>. QED  BY <2>1, <2>2
<1> DEFINE z == [i \in 1 .. l |-> IF i <= Len(d) THEN d[i] ELSE 0]
<1>4. z \in [1 .. l -> Cells] /\ \A i \in 1 .. l : z[i] = IF i <= Len(d) THEN d[i] ELSE 0
  BY <1>3
<1>5. ZeroPadded(l, d) = z
  BY DEF ZeroPadded
<1> HIDE DEF z
<1>6. z \in Seq(Cells) /\ Len(z) = l
  BY <1>4
<1>. QED  BY <1>4, <1>5, <1>6

-----------------------------------------------------------------------------
(***************************************************************************)
(* The invariant: the block index leads to records that are in the file.   *)
(***************************************************************************)
IInv ==
  /\ file \in Seq(Cells)
  /\ open \in BOOLEAN
  /\ blockIndex \in Seq(Nat)
  /\ Laid(file, blockIndex)

LEMMA InitIInv == Init => IInv
<1>1. SUFFICES ASSUME Init
               PROVE  IInv
  OBVIOUS
<1>2. file = <<>> /\ open = FALSE /\ blockIndex = <<>>
  BY <1>1 DEF Init
<1>3. <<>> \in Seq(Cells) /\ <<>> \in Seq(Nat) /\ Laid(file, blockIndex)
  BY <1>2 DEF Laid
<1>. QED  BY <1>2, <1>3 DEF IInv

\* A step of OverwriteBlock, in terms of its file alone.
LEMMA OverwriteSteps ==
  ASSUME IInv, NEW b \in 0 .. (nextBlock - 1), NEW data \in Contents, OverwriteBlock(b, data)
  PROVE  LET l == file[blockIndex[b + 1] + 2]
         IN  /\ b + 1 \in 1 .. Len(blockIndex) /\ l \in Nat
             /\ data \in Seq(Bytes) /\ Len(data) \in Nat /\ Len(data) <= l
             /\ \E k \in 0 .. l :
                  LET new == SubSeq(ZeroPadded(l, data), 1, k)
                  IN  /\ new \in Seq(Cells) /\ Len(new) = k
                      /\ \A i \in 1 .. k : new[i] = ZeroPadded(l, data)[i]
                      /\ file' = PatchOf(file, blockIndex[b + 1] + HeaderLen, new)
             /\ open /\ open' /\ blockIndex' = blockIndex
<1> DEFINE off == blockIndex[b + 1]
           l == file[off + 2]
           z == ZeroPadded(l, data)
<1>1. b + 1 \in 1 .. Len(blockIndex)
  <2>1. Len(blockIndex) \in Nat
    BY LenProperties DEF IInv
  <2>. QED  BY <2>1 DEF nextBlock
<1>2. file \in Seq(Nat) /\ blockIndex \in Seq(Nat) /\ Laid(file, blockIndex)
  BY CellsAreNumbers, SeqMonotonic DEF IInv
<1>3. l \in Nat
  BY <1>1, <1>2, LaidEnds
<1>4. data \in Seq(Bytes) /\ Len(data) \in Nat
  BY ContentsAreSeqs
<1>5. /\ Len(data) <= l /\ open /\ open' = open /\ blockIndex' = blockIndex
      /\ \E k \in 0 .. Len(z) : file' = PatchOf(file, off + HeaderLen, SubSeq(z, 1, k))
  BY DEF OverwriteBlock, LenAt, Patched, PatchOf
<1> HIDE DEF l
<1>6. z \in Seq(Cells) /\ Len(z) = l
  BY <1>3, <1>4, PaddedCells
<1> HIDE DEF z
<1>7. PICK k \in 0 .. l : file' = PatchOf(file, off + HeaderLen, SubSeq(z, 1, k))
  BY <1>5, <1>6
<1>8. /\ SubSeq(z, 1, k) \in Seq(Cells) /\ Len(SubSeq(z, 1, k)) = k
      /\ \A i \in 1 .. k : SubSeq(z, 1, k)[i] = z[i]
  BY <1>6, PrefixCells
<1>. QED  BY <1>1, <1>3, <1>4, <1>5, <1>7, <1>8 DEF l, z

LEMMA InvariantStep == IInv /\ [Next]_vars => IInv'
<1>1. SUFFICES ASSUME IInv, [Next]_vars
               PROVE  IInv'
  OBVIOUS
<1>2. /\ file \in Seq(Cells) /\ file \in Seq(Nat) /\ open \in BOOLEAN
      /\ blockIndex \in Seq(Nat) /\ Laid(file, blockIndex) /\ Len(blockIndex) \in Nat
  BY <1>1, CellsAreNumbers, SeqMonotonic, LenProperties DEF IInv
<1>3. CASE Create
  <2>1. file' = <<>> /\ open' = TRUE /\ blockIndex' = <<>>
    BY <1>3 DEF Create
  <2>2. <<>> \in Seq(Cells) /\ <<>> \in Seq(Nat) /\ Laid(file', blockIndex')
    BY <2>1 DEF Laid
  <2>. QED  BY <2>1, <2>2 DEF IInv
<1>4. CASE Open
  <2>1. Rebuilt # Broken /\ open' = TRUE /\ blockIndex' = Rebuilt /\ file' = file
    BY <1>4 DEF Open
  <2>2. 0 \in 0 .. Len(file)
    <3>1. Len(file) \in Nat
      BY <1>2, LenProperties
    <3>. QED  BY <3>1
  <2>3. FoundFrom(file, 0, Rebuilt)
    BY <1>2, <2>1, <2>2, RebuiltIsScan, ScanFinds
  <2>4. Rebuilt \in Seq(Nat) /\ Laid(file, Rebuilt)
    BY <2>3 DEF FoundFrom
  <2>. QED  BY <1>2, <2>1, <2>4 DEF IInv
<1>5. CASE Close
  <2>1. open' = FALSE /\ file' = file /\ blockIndex' = blockIndex
    BY <1>5 DEF Close
  <2>. QED  BY <1>2, <2>1 DEF IInv
<1>6. ASSUME NEW rec \in RawRecords, WriteRecord(rec)
      PROVE  IInv'
  <2>1. file' = file \o Framed(rec) /\ blockIndex' = Append(blockIndex, Len(file)) /\ open' = open
    BY <1>6 DEF WriteRecord
  <2>2. file' \in Seq(Cells) /\ blockIndex' \in Seq(Nat) /\ Laid(file', blockIndex')
    BY <1>2, <2>1, RecordBehind
  <2>. QED  BY <1>2, <2>1, <2>2 DEF IInv
<1>7. ASSUME NEW rec \in RawRecords, WriteRecordFails(rec)
      PROVE  IInv'
  <2>1. PICK k \in 0 .. (Len(Framed(rec)) - 1) : file' = file \o SubSeq(Framed(rec), 1, k)
    BY <1>7 DEF WriteRecordFails
  <2>2. open' = open /\ blockIndex' = blockIndex
    BY <1>7 DEF WriteRecordFails
  <2> DEFINE c == Framed(rec)
             p == SubSeq(c, 1, k)
  <2>3. c \in Seq(Cells) /\ Len(c) \in Nat
    BY FramedCells, LenProperties
  <2>4. k \in 0 .. Len(c)
    BY <2>3
  <2>5. p \in Seq(Cells)
    BY <2>3, <2>4, PrefixCells
  <2> HIDE DEF p
  <2>6. file \o p \in Seq(Cells) /\ Laid(file \o p, blockIndex)
    BY <1>2, <2>5, WrittenBehind
  <2>. QED  BY <1>2, <2>1, <2>2, <2>6 DEF IInv, p
<1>8. ASSUME NEW b \in 0 .. nextBlock, TruncateAt(b)
      PROVE  IInv'
  <2>1. open' = open /\ blockIndex' = SubSeq(blockIndex, 1, b)
    BY <1>8 DEF TruncateAt, BlocksBelow
  <2>2. CASE b = nextBlock
    <3>1. file' = file /\ blockIndex' = blockIndex
      BY <1>2, <1>8, <2>1, <2>2, SubSeqFull DEF TruncateAt, nextBlock
    <3>. QED  BY <1>2, <2>1, <3>1 DEF IInv
  <2>3. CASE b # nextBlock
    <3>1. file' = SubSeq(file, 1, blockIndex[b + 1])
      BY <1>8, <2>3 DEF TruncateAt
    <3>2. b \in 0 .. Len(blockIndex) - 1
      BY <1>2, <2>3 DEF nextBlock
    <3>3. file' \in Seq(Cells) /\ blockIndex' \in Seq(Nat) /\ Laid(file', blockIndex')
      BY <1>2, <2>1, <3>1, <3>2, CutRecords
    <3>. QED  BY <1>2, <2>1, <3>3 DEF IInv
  <2>. QED  BY <2>2, <2>3
<1>9. ASSUME NEW b \in 0 .. (nextBlock - 1), NEW data \in Contents, OverwriteBlock(b, data)
      PROVE  IInv'
  <2> DEFINE x == b + 1
             l == file[blockIndex[x] + 2]
  <2>1. /\ x \in 1 .. Len(blockIndex) /\ l \in Nat
        /\ \E k \in 0 .. l :
             LET new == SubSeq(ZeroPadded(l, data), 1, k)
             IN  /\ new \in Seq(Cells) /\ Len(new) = k
                 /\ file' = PatchOf(file, blockIndex[x] + HeaderLen, new)
        /\ open' /\ blockIndex' = blockIndex
    BY <1>1, <1>9, OverwriteSteps
  <2>2. PICK new \in Seq(Cells) :
          Len(new) <= l /\ file' = PatchOf(file, blockIndex[x] + HeaderLen, new)
    <3> HIDE DEF l, x
    <3>1. \A k \in 0 .. l : k <= l
      BY <2>1
    <3>. QED  BY <2>1, <3>1
  <2> HIDE DEF x
  <2>3. file' \in Seq(Cells) /\ Laid(file', blockIndex)
    BY <1>2, <2>1, <2>2, PatchedRecords
  <2>. QED  BY <1>2, <2>1, <2>3 DEF IInv
<1>10. CASE UNCHANGED vars
  BY <1>2, <1>10 DEF IInv, vars
<1>. QED  BY <1>1, <1>3, <1>4, <1>5, <1>6, <1>7, <1>8, <1>9, <1>10 DEF Next

\* The file is made of bytes, types and lengths, and the block index of offsets,
\* whatever was torn, cut or overwritten.
THEOREM TypeCorrect == Spec => []TypeOK
<1>1. IInv => TypeOK
  BY DEF IInv, TypeOK, Cells
<1>. QED  BY <1>1, InitIInv, InvariantStep, PTL DEF Spec

-----------------------------------------------------------------------------
(***************************************************************************)
(* The log, as sequences.                                                  *)
(***************************************************************************)
BlocksOf(f, s) == {BlockOf(f, s[i]) : i \in 1 .. Len(s)}

LEMMA LogShape ==
  ASSUME NEW f, NEW s \in Seq(Nat)
  PROVE  /\ Len(s) \in Nat /\ LogIn(f, s) \in Seq(BlocksOf(f, s)) /\ Len(LogIn(f, s)) = Len(s)
         /\ \A i \in 1 .. Len(s) : LogIn(f, s)[i] = BlockOf(f, s[i])
<1> DEFINE n == Len(s)
           S == BlocksOf(f, s)
           L == LogIn(f, s)
<1>1. n \in Nat /\ n = Len(s)
  BY LenProperties
<1>2. L \in [1 .. n -> S] /\ \A i \in 1 .. n : L[i] = BlockOf(f, s[i])
  BY DEF LogIn, BlocksOf
<1> HIDE DEF n, S, L
<1>3. L \in Seq(S) /\ Len(L) = n
  <2>1. n \in Nat
    BY <1>1
  <2>. QED  BY <1>2, <2>1
<1>. QED  BY <1>1, <1>2, <1>3 DEF n, S, L

\* One more record at the end of the block index is one more at the end of the log.
LEMMA LogAppended ==
  ASSUME NEW f, NEW g, NEW s \in Seq(Nat), NEW t \in Seq(Nat), LogIn(g, s) = LogIn(f, s),
         Len(t) = Len(s) + 1, \A i \in 1 .. Len(s) : t[i] = s[i]
  PROVE  LogIn(g, t) = Append(LogIn(f, s), BlockOf(g, t[Len(s) + 1]))
<1> DEFINE m == Len(s)
           r == BlockOf(g, t[m + 1])
           S == BlocksOf(g, t)
           L == LogIn(f, s)
           K == LogIn(g, t)
           A == Append(L, r)
<1>1. m \in Nat /\ m = Len(s) /\ Len(t) = m + 1
  BY LenProperties
<1> HIDE DEF m
<1>2. m + 1 \in 1 .. m + 1 /\ \A i \in 1 .. m : i \in 1 .. m + 1
  BY <1>1
<1>3. K \in Seq(S) /\ Len(K) = m + 1 /\ \A i \in 1 .. m + 1 : K[i] = BlockOf(g, t[i])
  BY <1>1, LogShape
<1>4. Len(L) = m /\ L \in Seq(BlocksOf(g, s)) /\ \A i \in 1 .. m : L[i] = BlockOf(g, s[i])
  BY <1>1, LogShape
<1>5. BlocksOf(g, s) \subseteq S /\ r \in S
  BY <1>1, <1>2 DEF BlocksOf
<1> HIDE DEF r, S, L, K
<1>6. L \in Seq(S)
  BY <1>4, <1>5, SeqMonotonic
<1>7. A \in Seq(S) /\ Len(A) = m + 1 /\ (\A i \in 1 .. m : A[i] = L[i]) /\ A[m + 1] = r
  BY <1>4, <1>5, <1>6, AppendProperties
<1> HIDE DEF A
<1>8. ASSUME NEW i \in 1 .. m + 1
      PROVE  K[i] = A[i]
  <2>1. CASE i = m + 1
    BY <1>2, <1>3, <1>7, <2>1 DEF r
  <2>2. CASE i # m + 1
    <3>1. i \in 1 .. m
      BY <1>1, <2>2
    <3>. QED  BY <1>1, <1>2, <1>3, <1>4, <1>7, <3>1
  <2>. QED  BY <2>1, <2>2
<1>9. K = A
  <2>1. Len(K) = Len(A) /\ \A i \in 1 .. Len(K) : K[i] = A[i]
    BY <1>3, <1>7, <1>8
  <2>. QED  BY <1>3, <1>7, <2>1, SeqEqual
<1>. QED  BY <1>9 DEF m, r, L, K, A

\* A shorter block index leads to the first records of the log.
LEMMA LogCut ==
  ASSUME NEW f, NEW g, NEW s \in Seq(Nat), NEW t \in Seq(Nat), Len(t) \in 0 .. Len(s),
         \A i \in 1 .. Len(t) : LogIn(g, t)[i] = LogIn(f, s)[i]
  PROVE  LogIn(g, t) = SubSeq(LogIn(f, s), 1, Len(t))
<1> DEFINE m == Len(s)
           b == Len(t)
           S == BlocksOf(f, s)
           L == LogIn(f, s)
           K == LogIn(g, t)
           C == SubSeq(L, 1, b)
<1>1. m \in Nat /\ m = Len(s) /\ b \in 0 .. m /\ b = Len(t)
  BY LenProperties
<1>2. b \in Nat /\ \A i \in 1 .. b : i \in 1 .. m
  BY <1>1
<1>3. L \in Seq(S) /\ Len(L) = m /\ b \in 0 .. Len(L)
  BY <1>1, LogShape
<1>4. K = [i \in 1 .. b |-> K[i]] /\ \A i \in 1 .. b : K[i] = L[i]
  BY DEF LogIn
<1> HIDE DEF S, L, K, m, b
<1>5. C \in Seq(S) /\ Len(C) = b /\ \A i \in 1 .. b : C[i] = L[i]
  BY <1>3, PrefixCells
<1> HIDE DEF C
<1>6. \A i \in 1 .. b : K[i] \in S
  <2>1. \A i \in 1 .. b : i \in 1 .. Len(L)
    BY <1>2, <1>3
  <2>. QED  BY <1>3, <1>4, <2>1, ElementOfSeq
<1>7. K \in Seq(S) /\ Len(K) = b
  <2>1. K \in [1 .. b -> S]
    BY <1>4, <1>6
  <2>2. b \in Nat
    BY <1>2
  <2>. QED  BY <2>1, <2>2
<1>8. K = C
  <2>1. Len(K) = Len(C) /\ \A i \in 1 .. Len(K) : K[i] = C[i]
    BY <1>4, <1>5, <1>7
  <2>. QED  BY <1>5, <1>7, <2>1, SeqEqual
<1>. QED  BY <1>8 DEF L, K, C, b

-----------------------------------------------------------------------------
(***************************************************************************)
(* The image is the log of module RecordLog.                               *)
(***************************************************************************)
LEMMA EmptyImage == Scan(<<>>)[0] = <<>> /\ LogIn(<<>>, <<>>) = <<>>
<1>1. <<>> \in Seq(Nat) /\ Len(<<>>) = 0 /\ 0 \in 0 .. Len(<<>>)
  OBVIOUS
<1>2. Scan(<<>>)[0] = <<>>
  BY <1>1, ScanCases
<1>3. LogIn(<<>>, <<>>) = <<>>
  BY DEF LogIn
<1>. QED  BY <1>2, <1>3

\* The log and the state of the image, unprimed and primed, as the lemmas speak of them.
LEMMA Views ==
  ASSUME IInv
  PROVE  /\ Log = LogIn(file, blockIndex) /\ Len(Log) = Len(blockIndex)
         /\ Image \in {"whole", "torn", "spoiled"}
         /\ Image = "whole" <=> Scan(file)[0] = blockIndex
         /\ Image = "torn" <=> Scan(file)[0] = Broken /\ AdjoinFrom(file, 0, blockIndex)
BY LogIsLogIn, ImageIsImageOf, ImageCases, LogShape DEF IInv

LEMMA ViewsAfter ==
  ASSUME IInv'
  PROVE  /\ Log' = LogIn(file', blockIndex')
         /\ Image' \in {"whole", "torn", "spoiled"}
         /\ Image' = "whole" <=> Scan(file')[0] = blockIndex'
         /\ Image' = "torn" <=> Scan(file')[0] = Broken /\ AdjoinFrom(file', 0, blockIndex')
BY LogIsLogIn, ImageIsImageOf, ImageCases DEF IInv

LEMMA RefinesInit == Init => RL!Init
<1>1. SUFFICES ASSUME Init
               PROVE  RL!Init
  OBVIOUS
<1>2. file = <<>> /\ open = FALSE /\ blockIndex = <<>>
  BY <1>1 DEF Init
<1>3. IInv
  BY <1>1, InitIInv
<1>4. Log = <<>> /\ Image = "whole"
  BY <1>2, <1>3, EmptyImage, Views
<1>. QED  BY <1>2, <1>4 DEF RL!Init

LEMMA RefinesCreate == IInv' /\ Create => RL!Create
<1>1. SUFFICES ASSUME IInv', Create
               PROVE  RL!Create
  OBVIOUS
<1>2. ~open /\ open' = TRUE /\ file' = <<>> /\ blockIndex' = <<>>
  BY <1>1 DEF Create
<1>3. Log' = <<>> /\ Image' = "whole"
  BY <1>1, <1>2, EmptyImage, ViewsAfter
<1>. QED  BY <1>2, <1>3 DEF RL!Create

\* A torn image is not opened; a whole one is opened as what it was.
LEMMA RefinesOpen == IInv /\ IInv' /\ Open => RL!Open
<1>1. SUFFICES ASSUME IInv, IInv', Open
               PROVE  RL!Open
  OBVIOUS
<1>2. ~open /\ Rebuilt # Broken /\ open' /\ blockIndex' = Rebuilt /\ file' = file
  BY <1>1 DEF Open
<1>3. Image # "torn"
  BY <1>1, <1>2, RebuiltIsScan, Views
<1>4. ASSUME Image = "whole"
      PROVE  Log' = Log /\ Image' = Image
  <2>1. blockIndex' = blockIndex
    BY <1>1, <1>2, <1>4, RebuiltIsScan, Views
  <2>. QED  BY <1>1, <1>2, <1>4, <2>1, Views, ViewsAfter
<1>. QED  BY <1>2, <1>3, <1>4 DEF RL!Open

LEMMA SameFileSameLog ==
  ASSUME IInv, IInv', file' = file, blockIndex' = blockIndex
  PROVE  Log' = Log /\ Image' = Image
<1>1. Log' = Log
  BY Views, ViewsAfter
<1>2. Image' = Image
  BY ImageIsImageOf
<1>. QED  BY <1>1, <1>2

LEMMA RefinesClose == IInv /\ IInv' /\ Close => RL!Close
<1>1. SUFFICES ASSUME IInv, IInv', Close
               PROVE  RL!Close
  OBVIOUS
<1>2. open /\ open' = FALSE /\ file' = file /\ blockIndex' = blockIndex
  BY <1>1 DEF Close
<1>. QED  BY <1>1, <1>2, SameFileSameLog DEF RL!Close

\* Cells off + 3 .. off + 2 + l of f.
LEMMA DataSlice ==
  ASSUME NEW f \in Seq(Nat), NEW off \in Nat, NEW l \in Nat, off + 2 + l <= Len(f)
  PROVE  LET d == SubSeq(f, off + 3, off + 2 + l)
         IN  /\ d \in Seq(Nat) /\ Len(d) = l
             /\ \A i \in 1 .. l : d[i] = f[off + 2 + i]
<1> DEFINE a == off + 3
           b == off + 2 + l
           d == SubSeq(f, a, b)
<1>1. Len(f) \in Nat
  BY LenProperties
<1>2. a \in Int /\ b \in Int /\ b - a + 1 = l /\ (~(a <= b) => l = 0)
  OBVIOUS
<1>3. \A i \in a .. b : i \in 1 .. Len(f)
  BY <1>1
<1>4. \A i \in a .. b : f[i] \in Nat
  BY <1>3, ElementOfSeq
<1>5. \A i \in 1 .. l : a + i - 1 = off + 2 + i
  OBVIOUS
<1> HIDE DEF a, b
<1>6. /\ d \in Seq(Nat) /\ Len(d) = IF a <= b THEN b - a + 1 ELSE 0
      /\ \A i \in 1 .. b - a + 1 : d[i] = f[a + i - 1]
  BY <1>2, <1>4, SubSeqProperties
<1> HIDE DEF d
<1>7. Len(d) = l /\ \A i \in 1 .. l : d[i] = f[a + i - 1]
  BY <1>2, <1>6
<1>8. \A i \in 1 .. l : d[i] = f[off + 2 + i]
  BY <1>5, <1>7
<1>. QED  BY <1>6, <1>7, <1>8 DEF a, b, d

\* A record whose length its cell can hold is read back as it was written.
LEMMA ReadBack ==
  ASSUME NEW f \in Seq(Cells), NEW s \in Seq(Nat), Laid(f, s), NEW rec \in RawRecords,
         MaxData < Width
  PROVE  LET g == f \o Framed(rec)
         IN  /\ EndOf(g, Len(f)) = Len(g)
             /\ BlockOf(g, Len(f)) \in RL!Records(Contents)
<1> DEFINE c == Framed(rec)
           g == f \o c
           n == Len(f)
           d == rec.data
           l == Len(d)
<1>1. /\ c \in Seq(Cells) /\ Len(c) = 2 + l /\ c[1] = rec.type /\ c[2] = l % Width
      /\ d \in Seq(Bytes) /\ l \in Nat /\ l <= MaxData
      /\ \A i \in 1 .. l : c[2 + i] = d[i]
  BY FramedCells
<1>2. l % Width = l
  <2>1. l < Width
    BY <1>1, BoundAssumption, WidthAssumption
  <2>. QED  BY <1>1, <2>1, LengthCell
<1> HIDE DEF c, l
<1>3. /\ g \in Seq(Nat) /\ n \in Nat /\ Len(g) = n + Len(c)
      /\ \A i \in 1 .. Len(c) : g[n + i] = c[i]
  BY <1>1, WrittenBehind
<1> HIDE DEF g, n
<1>4. g[n + 1] = rec.type /\ g[n + 2] = l /\ Len(g) = n + 2 + l
  <2>1. 1 \in 1 .. Len(c) /\ 2 \in 1 .. Len(c)
    BY <1>1
  <2>2. Len(g) = n + 2 + l
    BY <1>1, <1>3
  <2>. QED  BY <1>1, <1>2, <1>3, <2>1, <2>2
<1>5. EndOf(g, n) = Len(g)
  BY <1>4 DEF EndOf, HeaderLen
<1> DEFINE r == SubSeq(g, n + 3, n + 2 + l)
<1>6. r = d
  <2>1. n + 2 + l <= Len(g)
    BY <1>1, <1>3, <1>4
  <2>2. r \in Seq(Nat) /\ Len(r) = l /\ \A i \in 1 .. l : r[i] = g[n + 2 + i]
    BY <1>1, <1>3, <2>1, DataSlice
  <2> HIDE DEF r
  <2>3. ASSUME NEW i \in 1 .. l
        PROVE  r[i] = d[i]
    <3>1. 2 + i \in 1 .. Len(c) /\ n + (2 + i) = n + 2 + i
      BY <1>1, <1>3
    <3>2. g[n + (2 + i)] = c[2 + i]
      BY <1>3, <3>1
    <3>. QED  BY <1>1, <2>2, <3>1, <3>2
  <2>4. d \in Seq(Nat) /\ Len(d) = l
    BY <1>1, BytesAssumption, SeqMonotonic DEF l
  <2>. QED  BY <2>2, <2>3, <2>4, SeqEqual
<1>7. BlockOf(g, n) =
        CASE rec.type = RecordData     -> TL!DataRecord(d)
          [] rec.type = RecordFilemark -> TL!Filemark
          [] rec.type = RecordEOD      -> TL!EODMark
          [] OTHER                     -> [type |-> "unknown"]
  BY <1>4, <1>6 DEF BlockOf
<1>8. BlockOf(g, n) \in RL!Records(Contents)
  <2>1. CASE rec.type = RecordData
    <3>1. d \in Contents
      BY <2>1 DEF RawRecords, RecordData, RecordFilemark, RecordEOD
    <3>2. BlockOf(g, n) = TL!DataRecord(d)
      BY <1>7, <2>1 DEF RecordData, RecordFilemark, RecordEOD
    <3>. QED  BY <3>1, <3>2 DEF TL!DataRecord, RL!Records
  <2>2. CASE rec.type = RecordFilemark
    <3>1. BlockOf(g, n) = TL!Filemark
      BY <1>7, <2>2 DEF RecordData, RecordFilemark, RecordEOD
    <3>. QED  BY <3>1 DEF TL!Filemark, RL!Filemark, RL!Records
  <2>3. CASE rec.type = RecordEOD
    <3>1. BlockOf(g, n) = TL!EODMark
      BY <1>7, <2>3 DEF RecordData, RecordFilemark, RecordEOD
    <3>. QED  BY <3>1 DEF TL!EODMark, RL!EODMark, RL!Records
  <2>4. rec.type \in {RecordData, RecordFilemark, RecordEOD}
    BY DEF RawRecords
  <2>. QED  BY <2>1, <2>2, <2>3, <2>4
<1>. QED  BY <1>5, <1>8 DEF g, n, c

\* A record that is written adds itself to the log, and a whole image stays whole.
LEMMA RefinesWrite ==
  ASSUME MaxData < Width, IInv, IInv', NEW rec \in RawRecords, WriteRecord(rec)
  PROVE  open /\ open' /\ RL!Write
<1> DEFINE n == Len(file)
           m == Len(blockIndex)
           g == file \o Framed(rec)
           t == Append(blockIndex, n)
<1>1. /\ file \in Seq(Cells) /\ blockIndex \in Seq(Nat) /\ Laid(file, blockIndex)
      /\ file \in Seq(Nat)
  BY CellsAreNumbers, SeqMonotonic DEF IInv
<1>2. open /\ open' /\ file' = g /\ blockIndex' = t
  BY DEF WriteRecord, CanWrite
<1>3. /\ g \in Seq(Cells) /\ t \in Seq(Nat) /\ Laid(g, t)
      /\ Len(t) = m + 1 /\ (\A i \in 1 .. m : t[i] = blockIndex[i]) /\ t[m + 1] = n
  BY <1>1, RecordBehind
<1>4. /\ LogIn(g, blockIndex) = LogIn(file, blockIndex) /\ g \in Seq(Nat)
      /\ AdjoinFrom(file, 0, blockIndex) => AdjoinFrom(g, 0, blockIndex)
      /\ After(g, blockIndex, m) = After(file, blockIndex, m)
  <2>1. Framed(rec) \in Seq(Cells)
    BY FramedCells
  <2>. QED  BY <1>1, <2>1, WrittenBehind
<1>5. EndOf(g, n) = Len(g) /\ BlockOf(g, n) \in RL!Records(Contents)
  BY <1>1, ReadBack
<1> HIDE DEF g, t, n
<1>6. LogIn(g, t) = Append(LogIn(file, blockIndex), BlockOf(g, n))
  BY <1>1, <1>3, <1>4, LogAppended
<1>7. Log' = Append(Log, BlockOf(g, n))
  BY <1>2, <1>6, Views, ViewsAfter
<1>8. ASSUME Image = "whole"
      PROVE  Image' = "whole"
  <2>1. Scan(file)[0] = blockIndex
    BY <1>8, Views
  <2>2. AdjoinFrom(file, 0, blockIndex) /\ After(file, blockIndex, m) = n
    BY <1>1, <2>1, ScanWhole DEF n
  <2>3. m \in Nat
    BY <1>1, LenProperties
  <2> HIDE DEF m
  <2>4. AdjoinFrom(g, 0, t)
    <3>1. ASSUME NEW i \in 1 .. m + 1
          PROVE  t[i] = IF i = 1 THEN 0 ELSE EndOf(g, t[i - 1])
      <4>1. CASE i = m + 1
        <5>1. n = IF m = 0 THEN 0 ELSE EndOf(g, blockIndex[m])
          BY <1>4, <2>2 DEF After, m
        <5>2. m # 0 => m \in 1 .. m
          BY <2>3
        <5>3. i - 1 = m /\ (i = 1 <=> m = 0)
          BY <2>3, <4>1
        <5>. QED  BY <1>3, <4>1, <5>1, <5>2, <5>3
      <4>2. CASE i # m + 1
        <5>1. i \in 1 .. m
          BY <2>3, <4>2
        <5>2. blockIndex[i] = IF i = 1 THEN 0 ELSE EndOf(g, blockIndex[i - 1])
          BY <1>4, <2>2, <5>1 DEF AdjoinFrom, m
        <5>3. i # 1 => i - 1 \in 1 .. m
          BY <2>3, <5>1
        <5>. QED  BY <1>3, <5>1, <5>2, <5>3
      <4>. QED  BY <4>1, <4>2
    <3>. QED  BY <1>3, <3>1 DEF AdjoinFrom
  <2>5. After(g, t, Len(t)) = Len(g)
    <3>1. m + 1 # 0
      BY <2>3
    <3>. QED  BY <1>3, <1>5, <3>1 DEF After
  <2>6. Scan(g)[0] = t
    BY <1>3, <1>4, <2>4, <2>5, ScanWhole
  <2>. QED  BY <1>2, <2>6, ViewsAfter
<1>. QED  BY <1>2, <1>5, <1>7, <1>8 DEF RL!Write

\* A write that fails leaves the log, and at worst cells that no scan gets over.
LEMMA RefinesWriteFails ==
  ASSUME MaxData < Width, IInv, IInv', NEW rec \in RawRecords, WriteRecordFails(rec)
  PROVE  open /\ open' /\ RL!WriteFails
<1> DEFINE n == Len(file)
           m == Len(blockIndex)
           c == Framed(rec)
           d == Len(rec.data)
<1>1. /\ file \in Seq(Cells) /\ blockIndex \in Seq(Nat) /\ Laid(file, blockIndex)
      /\ file \in Seq(Nat) /\ n \in Nat
  BY CellsAreNumbers, SeqMonotonic, LenProperties DEF IInv
<1>2. /\ c \in Seq(Cells) /\ Len(c) = 2 + d /\ c[2] = d % Width /\ d \in Nat /\ d <= MaxData
  BY FramedCells
<1>3. PICK k \in 0 .. (Len(c) - 1) : file' = file \o SubSeq(c, 1, k)
  BY DEF WriteRecordFails
<1>4. open /\ open' /\ blockIndex' = blockIndex
  BY DEF WriteRecordFails, CanWrite
<1> DEFINE p == SubSeq(c, 1, k)
           g == file \o p
<1>5. c[2] = d
  <2>1. d < Width
    BY <1>2, BoundAssumption, WidthAssumption
  <2>. QED  BY <1>2, <2>1, LengthCell
<1> HIDE DEF c, d
<1>6. k \in Nat /\ k \in 0 .. Len(c) /\ k < 2 + d
  BY <1>2, <1>3
<1>7. p \in Seq(Cells) /\ Len(p) = k /\ \A i \in 1 .. k : p[i] = c[i]
  BY <1>2, <1>6, PrefixCells
<1> HIDE DEF p
<1>8. /\ g \in Seq(Nat) /\ Len(g) = n + k /\ \A i \in 1 .. k : g[n + i] = p[i]
      /\ Laid(g, blockIndex) /\ LogIn(g, blockIndex) = LogIn(file, blockIndex)
      /\ AdjoinFrom(file, 0, blockIndex) => AdjoinFrom(g, 0, blockIndex)
      /\ After(g, blockIndex, m) = After(file, blockIndex, m)
  BY <1>1, <1>7, WrittenBehind
<1>9. file' = g
  BY <1>3 DEF p
<1> HIDE DEF g, n
<1>10. Log' = Log
  BY <1>4, <1>8, <1>9, Views, ViewsAfter
<1>11. ASSUME Image = "whole"
       PROVE  Image' \in {"whole", "torn"}
  <2>1. Scan(file)[0] = blockIndex
    BY <1>11, Views
  <2>2. AdjoinFrom(file, 0, blockIndex) /\ After(file, blockIndex, m) = n
    BY <1>1, <2>1, ScanWhole DEF n
  <2>3. AdjoinFrom(g, 0, blockIndex) /\ After(g, blockIndex, m) = n
    BY <1>8, <2>2
  <2>4. CASE k = 0
    <3>1. Len(g) = n
      BY <1>1, <1>8, <2>4
    <3>2. Scan(g)[0] = blockIndex
      BY <1>1, <1>8, <2>3, <3>1, ScanWhole
    <3>. QED  BY <1>4, <1>9, <3>2, ViewsAfter
  <2>5. CASE k # 0
    <3>1. n \in 0 .. Len(g) /\ n # Len(g)
      BY <1>1, <1>6, <1>8, <2>5
    <3>2. ~Fits(g, n)
      <4>1. CASE k = 1
        <5>1. ~(n + 2 <= n + k)
          BY <1>1, <4>1
        <5>. QED  BY <1>8, <5>1 DEF Fits, HeaderLen
      <4>2. CASE k # 1
        <5>1. 2 \in 1 .. k
          BY <1>6, <2>5, <4>2
        <5>2. g[n + 2] = d
          BY <1>5, <1>7, <1>8, <5>1
        <5>3. EndOf(g, n) = n + 2 + d
          BY <5>2 DEF EndOf, HeaderLen
        <5>4. ~(n + 2 + d <= n + k)
          BY <1>1, <1>2, <1>6
        <5>. QED  BY <1>8, <5>3, <5>4 DEF Fits
      <4>. QED  BY <4>1, <4>2
    <3>3. Scan(g)[n] = Broken
      BY <1>8, <3>1, <3>2, ScanCases
    <3>4. Scan(g)[0] = Broken
      BY <1>1, <1>8, <2>3, <3>3, ScanWhole
    <3>. QED  BY <1>4, <1>9, <2>3, <3>4, ViewsAfter
  <2>. QED  BY <2>4, <2>5
<1>. QED  BY <1>4, <1>10, <1>11 DEF RL!WriteFails

\* Cutting at the start of a record heals a torn image.
LEMMA RefinesTruncate ==
  ASSUME IInv, IInv', NEW b \in 0 .. nextBlock, TruncateAt(b)
  PROVE  open /\ open' /\ RL!Truncate
<1> DEFINE m == Len(blockIndex)
<1>1. /\ file \in Seq(Cells) /\ blockIndex \in Seq(Nat) /\ Laid(file, blockIndex)
      /\ file \in Seq(Nat) /\ m \in Nat
  BY CellsAreNumbers, SeqMonotonic, LenProperties DEF IInv
<1>2. open /\ open' /\ blockIndex' = SubSeq(blockIndex, 1, b) /\ b \in 0 .. m
  BY DEF TruncateAt, BlocksBelow, nextBlock
<1>3. Log = LogIn(file, blockIndex) /\ Len(Log) = m /\ Log \in Seq(BlocksOf(file, blockIndex))
  BY <1>1, Views, LogShape
<1>4. CASE b = m
  <2>1. file' = file /\ blockIndex' = blockIndex
    BY <1>1, <1>2, <1>4, SubSeqFull DEF TruncateAt, nextBlock
  <2>2. Log' = Log /\ Image' = Image
    BY <2>1, SameFileSameLog
  <2>3. Log' = RL!TruncateAt(Log, b)
    BY <1>3, <1>4, <2>2, SubSeqFull DEF RL!TruncateAt
  <2>. QED  BY <1>2, <1>3, <1>4, <2>2, <2>3 DEF RL!Truncate
<1>5. CASE b # m
  <2> DEFINE g == SubSeq(file, 1, blockIndex[b + 1])
             t == SubSeq(blockIndex, 1, b)
  <2>1. file' = g /\ blockIndex' = t
    BY <1>2, <1>5 DEF TruncateAt, nextBlock
  <2>2. b \in 0 .. m - 1
    BY <1>1, <1>2, <1>5
  <2>3. /\ g \in Seq(Cells) /\ t \in Seq(Nat) /\ Len(t) = b
        /\ \A i \in 1 .. b : LogIn(g, t)[i] = LogIn(file, blockIndex)[i]
        /\ AdjoinFrom(file, 0, blockIndex) => Scan(g)[0] = t
    BY <1>1, <2>2, CutRecords
  <2> HIDE DEF g, t
  <2>4. Log' = RL!TruncateAt(Log, b)
    <3>1. LogIn(g, t) = SubSeq(LogIn(file, blockIndex), 1, b)
      <4>1. b \in 0 .. Len(blockIndex)
        BY <1>2
      <4>2. t \in Seq(Nat)
        BY <2>3
      <4>3. Len(t) = b
        BY <2>3
      <4>4. \A i \in 1 .. b : LogIn(g, t)[i] = LogIn(file, blockIndex)[i]
        BY <2>3
      <4>5. blockIndex \in Seq(Nat)
        BY <1>1
      <4>6. LogIn(g, t) = SubSeq(LogIn(file, blockIndex), 1, Len(t))
        BY <4>1, <4>2, <4>3, <4>4, <4>5, LogCut
      <4>. QED  BY <4>3, <4>6
    <3>. QED  BY <1>3, <2>1, <3>1, ViewsAfter DEF RL!TruncateAt
  <2>5. ASSUME Image # "spoiled"
        PROVE  Image' = "whole"
    <3>1. Image = "whole" \/ Image = "torn"
      BY <2>5, Views
    <3>2. Image = "whole" => AdjoinFrom(file, 0, blockIndex)
      BY <1>1, Views, ScanWhole
    <3>3. AdjoinFrom(file, 0, blockIndex)
      BY <3>1, <3>2, Views
    <3>. QED  BY <2>1, <2>3, <3>3, ViewsAfter
  <2>. QED  BY <1>2, <1>3, <1>5, <2>4, <2>5 DEF RL!Truncate
<1>. QED  BY <1>4, <1>5

\* The first k of the cells z, and the cells d behind them.
LEMMA MergedCells ==
  ASSUME NEW d \in Seq(Nat), NEW z \in Seq(Nat), NEW l \in Nat, Len(d) = l, Len(z) = l,
         NEW k \in 0 .. l
  PROVE  LET w == SubSeq(z, 1, k) \o SubSeq(d, k + 1, l)
         IN  /\ w \in Seq(Nat) /\ Len(w) = l
             /\ \A i \in 1 .. l : w[i] = IF i <= k THEN z[i] ELSE d[i]
<1> DEFINE a == SubSeq(z, 1, k)
           b == SubSeq(d, k + 1, l)
           w == a \o b
<1>1. k \in Nat /\ k <= l /\ k \in 0 .. Len(z)
  OBVIOUS
<1>2. a \in Seq(Nat) /\ Len(a) = k /\ \A i \in 1 .. k : a[i] = z[i]
  BY <1>1, PrefixCells
<1>3. k + 1 \in Int /\ l \in Int /\ l - (k + 1) + 1 = l - k /\ (~(k + 1 <= l) => l - k = 0)
  BY <1>1
<1>4. \A i \in k + 1 .. l : i \in 1 .. Len(d)
  BY <1>1
<1>5. \A i \in k + 1 .. l : d[i] \in Nat
  BY <1>4, ElementOfSeq
<1>6. /\ b \in Seq(Nat) /\ Len(b) = IF k + 1 <= l THEN l - (k + 1) + 1 ELSE 0
      /\ \A i \in 1 .. l - (k + 1) + 1 : b[i] = d[k + 1 + i - 1]
  BY <1>3, <1>5, SubSeqProperties
<1>7. Len(b) = l - k
  BY <1>3, <1>6
<1> HIDE DEF a, b
<1>8. ASSUME NEW i \in 1 .. l - k
      PROVE  b[i] = d[k + i]
  <2>1. i \in 1 .. l - (k + 1) + 1 /\ k + 1 + i - 1 = k + i
    BY <1>1, <1>3
  <2>2. b[i] = d[k + 1 + i - 1]
    BY <1>6, <2>1
  <2>. QED  BY <2>1, <2>2
<1>9. /\ w \in Seq(Nat) /\ Len(w) = Len(a) + Len(b)
      /\ \A i \in 1 .. Len(a) + Len(b) : w[i] = IF i <= Len(a) THEN a[i] ELSE b[i - Len(a)]
  BY <1>2, <1>6, ConcatProperties
<1> HIDE DEF w
<1>10. Len(w) = l /\ \A i \in 1 .. l : w[i] = IF i <= k THEN a[i] ELSE b[i - k]
  <2>1. Len(a) + Len(b) = l
    BY <1>1, <1>2, <1>7
  <2>. QED  BY <1>2, <1>9, <2>1
<1>11. ASSUME NEW i \in 1 .. l
       PROVE  w[i] = IF i <= k THEN z[i] ELSE d[i]
  <2>1. CASE i <= k
    <3>1. i \in 1 .. k
      BY <1>1, <2>1
    <3>. QED  BY <1>2, <1>10, <2>1, <3>1
  <2>2. CASE ~(i <= k)
    <3> DEFINE j == i - k
    <3>1. j \in 1 .. l - k /\ k + j = i
      BY <1>1, <2>2
    <3>2. w[i] = b[j]
      BY <1>10, <2>2
    <3> HIDE DEF j
    <3>3. b[j] = d[k + j]
      BY <1>8, <3>1
    <3>. QED  BY <2>2, <3>1, <3>2, <3>3
  <2>. QED  BY <2>1, <2>2
<1>. QED  BY <1>9, <1>10, <1>11 DEF w, a, b

\* Overwriting changes no other block, and nothing about how the image is scanned.
LEMMA RefinesOverwrite ==
  ASSUME IInv, IInv', NEW b \in 0 .. (nextBlock - 1), NEW data \in Contents,
         OverwriteBlock(b, data)
  PROVE  open /\ open' /\ (RL!Overwrite \/ RL!WriteFails)
<1> DEFINE x == b + 1
           s == blockIndex
           m == Len(s)
           off == s[x]
           l == file[off + 2]
           z == ZeroPadded(l, data)
<1>1. /\ file \in Seq(Cells) /\ s \in Seq(Nat) /\ Laid(file, s)
      /\ file \in Seq(Nat) /\ m \in Nat /\ Len(file) \in Nat
  BY CellsAreNumbers, SeqMonotonic, LenProperties DEF IInv
<1>2. /\ x \in 1 .. m /\ l \in Nat
      /\ data \in Seq(Bytes) /\ Len(data) \in Nat /\ Len(data) <= l
      /\ \E k \in 0 .. l :
           LET new == SubSeq(z, 1, k)
           IN  /\ new \in Seq(Cells) /\ Len(new) = k
               /\ \A i \in 1 .. k : new[i] = z[i]
               /\ file' = PatchOf(file, off + HeaderLen, new)
      /\ open /\ open' /\ blockIndex' = s
  BY OverwriteSteps
<1>3. PICK k \in 0 .. l : \E new \in Seq(Cells) :
           /\ Len(new) = k /\ \A i \in 1 .. k : new[i] = z[i]
           /\ file' = PatchOf(file, off + HeaderLen, new)
  BY <1>2
<1>4. PICK new \in Seq(Cells) :
           /\ Len(new) = k /\ \A i \in 1 .. k : new[i] = z[i]
           /\ file' = PatchOf(file, off + HeaderLen, new)
  BY <1>3
<1> DEFINE e == EndOf(file, off)
           g == file'
<1>5. /\ off \in Nat /\ e \in Nat /\ e = off + 2 + l /\ e <= Len(file)
  BY <1>1, <1>2, LaidEnds
<1>6. k \in Nat /\ k <= l
  BY <1>2, <1>3
<1>7. /\ g \in Seq(Cells) /\ Len(g) = Len(file) /\ Laid(g, s)
      /\ \A i \in 1 .. m : i # x => BlockOf(g, s[i]) = BlockOf(file, s[i])
      /\ AdjoinFrom(file, 0, s) => AdjoinFrom(g, 0, s)
      /\ After(g, s, m) = After(file, s, m)
      /\ \A i \in 1 .. Len(file) : i <= off + 2 \/ e < i => g[i] = file[i]
      /\ \A i \in 1 .. k : g[off + 2 + i] = new[i]
      /\ \A i \in 1 .. l : k < i => g[off + 2 + i] = file[off + 2 + i]
  <2>1. Len(new) <= file[s[x] + 2]
    BY <1>4, <1>6
  <2>2. file' = PatchOf(file, s[x] + HeaderLen, new)
    BY <1>4
  <2>3. x \in 1 .. Len(s)
    BY <1>2
  <2>4. file \in Seq(Cells)
    BY <1>1
  <2>5. s \in Seq(Nat)
    BY <1>1
  <2>6. Laid(file, s)
    BY <1>1
  <2> DEFINE h == PatchOf(file, s[x] + HeaderLen, new)
  <2> HIDE DEF x
  <2>7. /\ h \in Seq(Cells) /\ Len(h) = Len(file) /\ Laid(h, s)
        /\ \A i \in 1 .. Len(s) : i # x => BlockOf(h, s[i]) = BlockOf(file, s[i])
        /\ AdjoinFrom(file, 0, s) => AdjoinFrom(h, 0, s)
        /\ After(h, s, Len(s)) = After(file, s, Len(s))
        /\ \A i \in 1 .. Len(file) : i <= s[x] + 2 \/ EndOf(file, s[x]) < i => h[i] = file[i]
        /\ \A i \in 1 .. Len(new) : h[s[x] + 2 + i] = new[i]
        /\ \A i \in 1 .. file[s[x] + 2] :
             Len(new) < i => h[s[x] + 2 + i] = file[s[x] + 2 + i]
    BY <2>1, <2>3, <2>4, <2>5, <2>6, PatchedRecords
  <2>8. h = g
    BY <2>2
  <2> HIDE DEF h
  <2>. QED  BY <1>4, <2>7, <2>8
<1>8. g \in Seq(Nat)
  BY <1>7, CellsAreNumbers, SeqMonotonic
<1>9. g[off + 1] = file[off + 1] /\ g[off + 2] = l
  <2> HIDE DEF off, e, l, g
  <2> DEFINE n == Len(file)
  <2>1. off \in Nat /\ l \in Nat /\ off + 2 + l <= n /\ n \in Nat
    BY <1>1, <1>2, <1>5
  <2> HIDE DEF n
  <2>2. off + 1 \in 1 .. n /\ off + 2 \in 1 .. n /\ off + 1 <= off + 2 /\ off + 2 <= off + 2
    BY <2>1
  <2>. QED  BY <1>7, <2>2 DEF l, n
<1> HIDE DEF x, off, e, l, g, z
<1>10. /\ Log = LogIn(file, s) /\ Len(Log) = m /\ Log' = LogIn(g, s)
       /\ \A i \in 1 .. m : Log[i] = BlockOf(file, s[i]) /\ Log'[i] = BlockOf(g, s[i])
  BY <1>1, <1>2, <1>7, <1>8, Views, ViewsAfter, LogShape DEF g
<1>11. ASSUME Image # "spoiled"
       PROVE  Image' = Image
  <2>1. CASE Image = "whole"
    <3>1. Scan(file)[0] = s
      BY <2>1, Views
    <3>2. AdjoinFrom(file, 0, s) /\ After(file, s, m) = Len(file)
      BY <1>1, <3>1, ScanWhole
    <3>3. AdjoinFrom(g, 0, s) /\ After(g, s, m) = Len(g)
      BY <1>7, <3>2
    <3>4. Scan(g)[0] = s
      BY <1>1, <1>7, <1>8, <3>3, ScanWhole
    <3>. QED  BY <1>2, <2>1, <3>4, ViewsAfter DEF g
  <2>2. CASE Image = "torn"
    <3> DEFINE q == After(file, s, m)
    <3>1. Scan(file)[0] = Broken /\ AdjoinFrom(file, 0, s)
      BY <2>2, Views
    <3>2. Scan(file)[q] = Broken
      BY <1>1, <3>1, ScanWhole
    <3>3. q \in Nat /\ e <= q /\ q \in 0 .. Len(file)
      <4>1. m \in 1 .. m /\ m # 0 /\ (x = m \/ x < m)
        BY <1>1, <1>2
      <4>2. q = EndOf(file, s[m])
        BY <4>1 DEF After
      <4>3. /\ EndOf(file, s[m]) \in Nat /\ s[m] \in Nat
            /\ s[m] + 2 <= EndOf(file, s[m]) /\ EndOf(file, s[m]) <= Len(file)
        BY <1>1, <4>1, LaidEnds
      <4>4. x < m => e <= s[m]
        BY <1>1, <1>2, <4>1, LaidEnds DEF e, off
      <4>5. x = m => e = EndOf(file, s[m])
        BY DEF e, off
      <4> HIDE DEF q
      <4>6. e <= q
        <5> DEFINE u == EndOf(file, s[m])
                   v == s[m]
        <5>1. u \in Nat /\ v \in Nat /\ v + 2 <= u /\ (e <= v \/ e = u)
          BY <4>1, <4>3, <4>4, <4>5
        <5> HIDE DEF u, v
        <5>2. e <= u
          BY <1>5, <5>1
        <5>. QED  BY <4>2, <5>2 DEF u
      <4>7. q \in Nat /\ q <= Len(file)
        BY <4>2, <4>3
      <4>8. q \in 0 .. Len(file)
        BY <1>1, <4>7
      <4>. QED  BY <4>6, <4>7, <4>8
    <3> HIDE DEF q
    <3>4. \A i \in 1 .. Len(file) : q < i => g[i] = file[i]
      <4>1. \A i \in 1 .. Len(file) : q < i => e < i
        BY <1>5, <3>3
      <4>. QED  BY <1>7, <4>1
    <3>5. Scan(g)[q] = Scan(file)[q]
      <4>1. q <= q
        BY <3>3
      <4>2. \A o \in 0 .. Len(file) : q <= o => Scan(g)[o] = Scan(file)[o]
        BY <1>1, <1>7, <1>8, <3>3, <3>4, ScanTail
      <4>. QED  BY <3>3, <4>1, <4>2
    <3>6. AdjoinFrom(g, 0, s) /\ After(g, s, m) = q
      BY <1>7, <3>1 DEF q
    <3>7. Scan(g)[0] = Broken
      BY <1>1, <1>7, <1>8, <3>2, <3>5, <3>6, ScanWhole
    <3>. QED  BY <1>2, <2>2, <3>6, <3>7, ViewsAfter DEF g
  <2>. QED  BY <1>11, <2>1, <2>2, Views
<1>12. CASE file[off + 1] # RecordData
  <2>1. BlockOf(g, off) = BlockOf(file, off)
    BY <1>9, <1>12 DEF BlockOf
  <2>2. \A i \in 1 .. m : BlockOf(g, s[i]) = BlockOf(file, s[i])
    BY <1>7, <2>1 DEF off
  <2>3. Log' = Log
    BY <1>10, <2>2 DEF LogIn
  <2>. QED  BY <1>2, <1>11, <2>3 DEF RL!WriteFails
<1>13. CASE file[off + 1] = RecordData
  <2> DEFINE d == SubSeq(file, off + 3, off + 2 + l)
             w == SubSeq(g, off + 3, off + 2 + l)
  <2>1. BlockOf(file, off) = TL!DataRecord(d) /\ BlockOf(g, off) = TL!DataRecord(w)
    BY <1>9, <1>13 DEF BlockOf, l, RecordData, RecordFilemark, RecordEOD
  <2>2. /\ d \in Seq(Nat) /\ Len(d) = l /\ \A i \in 1 .. l : d[i] = file[off + 2 + i]
    BY <1>1, <1>2, <1>5, DataSlice
  <2>3. /\ w \in Seq(Nat) /\ Len(w) = l /\ \A i \in 1 .. l : w[i] = g[off + 2 + i]
    BY <1>2, <1>5, <1>7, <1>8, DataSlice
  <2> HIDE DEF d, w
  <2>4. z \in Seq(Nat) /\ Len(z) = l
    <3>1. z \in Seq(Cells) /\ Len(z) = l
      BY <1>2, PaddedCells DEF z
    <3>. QED  BY <3>1, CellsAreNumbers, SeqMonotonic
  <2> DEFINE y == SubSeq(z, 1, k) \o SubSeq(d, k + 1, l)
  <2>5. y \in Seq(Nat) /\ Len(y) = l /\ \A i \in 1 .. l : y[i] = IF i <= k THEN z[i] ELSE d[i]
    <3>1. l \in Nat
      BY <1>2
    <3>2. d \in Seq(Nat)
      BY <2>2
    <3>3. z \in Seq(Nat)
      BY <2>4
    <3>4. Len(d) = l
      BY <2>2
    <3>5. Len(z) = l
      BY <2>4
    <3>. QED  BY <3>1, <3>2, <3>3, <3>4, <3>5, MergedCells
  <2> HIDE DEF y
  <2>6. ASSUME NEW i \in 1 .. l
        PROVE  w[i] = y[i]
    <3>1. CASE i <= k
      <4>1. i \in 1 .. k
        BY <1>2, <1>6, <3>1
      <4>. QED  BY <1>4, <1>7, <2>3, <2>5, <3>1, <4>1
    <3>2. CASE ~(i <= k)
      <4>1. k < i
        BY <1>2, <1>6, <3>2
      <4>. QED  BY <1>7, <2>2, <2>3, <2>5, <3>2, <4>1
    <3>. QED  BY <3>1, <3>2
  <2>7. w = y
    BY <2>3, <2>5, <2>6, SeqEqual
  <2>8. z = RL!Padded(d, data)
    BY <2>2 DEF RL!Padded, ZeroPadded, z
  <2>9. Log[x] = TL!DataRecord(d) /\ Log'[x] = TL!DataRecord(w)
    BY <1>2, <1>10, <2>1 DEF off
  <2>10. Log' = [Log EXCEPT ![x].data = w]
    <3>1. Log = [i \in 1 .. m |-> Log[i]] /\ Log' = [i \in 1 .. m |-> Log'[i]]
      BY <1>10 DEF LogIn
    <3>2. \A i \in 1 .. m : i # x => Log'[i] = Log[i]
      BY <1>7, <1>10
    <3>3. Log'[x] = [Log[x] EXCEPT !.data = w]
      BY <2>9 DEF TL!DataRecord
    <3>. QED  BY <1>2, <3>1, <3>2, <3>3
  <2>11. b \in 0 .. (Len(Log) - 1) /\ RL!IsDataBlock(Log, b)
    <3>1. b \in 0 .. (Len(Log) - 1)
      BY <1>10 DEF nextBlock
    <3>. QED  BY <2>9, <3>1 DEF RL!IsDataBlock, RL!HasBlock, RL!ReadAt, TL!DataRecord, x
  <2>12. Log[x].data = d
    BY <2>9 DEF TL!DataRecord
  <2>13. Log' = [Log EXCEPT ![b + 1].data =
                   SubSeq(RL!Padded(@, data), 1, k) \o SubSeq(@, k + 1, Len(@))]
    BY <2>2, <2>7, <2>8, <2>10, <2>12 DEF y, x
  <2>14. Len(data) <= Len(Log[b + 1].data) /\ k \in 0 .. Len(Log[b + 1].data)
    BY <1>2, <2>2, <2>12 DEF x
  <2>15. RL!Overwrite
    BY <1>11, <2>11, <2>13, <2>14 DEF RL!Overwrite
  <2>. QED  BY <1>2, <2>15
<1>. QED  BY <1>12, <1>13

\* A step of the image is one of the log, or does not show in it.
LEMMA RefinesNext == MaxData < Width /\ IInv /\ IInv' /\ [Next]_vars => [RL!Next]_(RL!vars)
<1>1. SUFFICES ASSUME MaxData < Width, IInv, IInv', [Next]_vars
               PROVE  [RL!Next]_(RL!vars)
  OBVIOUS
<1>2. Image' \in RL!Images
  BY <1>1, ViewsAfter DEF RL!Images
<1>3. CASE Create
  BY <1>1, <1>3, RefinesCreate DEF RL!Next
<1>4. CASE Open
  BY <1>1, <1>4, RefinesOpen DEF RL!Next
<1>5. CASE Close
  BY <1>1, <1>5, RefinesClose DEF RL!Next
<1>6. ASSUME NEW rec \in RawRecords, WriteRecord(rec)
      PROVE  RL!Next
  BY <1>1, <1>2, <1>6, RefinesWrite DEF RL!Next, RL!Edit
<1>7. ASSUME NEW rec \in RawRecords, WriteRecordFails(rec)
      PROVE  RL!Next
  BY <1>1, <1>2, <1>7, RefinesWriteFails DEF RL!Next, RL!Edit
<1>8. ASSUME NEW b \in 0 .. nextBlock, TruncateAt(b)
      PROVE  RL!Next
  BY <1>1, <1>2, <1>8, RefinesTruncate DEF RL!Next, RL!Edit
<1>9. ASSUME NEW b \in 0 .. (nextBlock - 1), NEW data \in Contents, OverwriteBlock(b, data)
      PROVE  RL!Next
  BY <1>1, <1>2, <1>9, RefinesOverwrite DEF RL!Next, RL!Edit
<1>10. CASE UNCHANGED vars
  <2>1. file' = file /\ blockIndex' = blockIndex /\ open' = open
    BY <1>10 DEF vars
  <2>2. Log' = Log /\ Image' = Image
    BY <1>1, <2>1, SameFileSameLog
  <2>. QED  BY <2>1, <2>2 DEF RL!vars
<1>. QED  BY <1>1, <1>3, <1>4, <1>5, <1>6, <1>7, <1>8, <1>9, <1>10 DEF Next

\* A partition image is a log of whole records: written whole or not at all while it is
\* open, opened as what was written, and torn by a failed write only in a way that opening
\* notices, as long as no record is longer than its length cell can say.
THEOREM ImplementsRecordLog == ASSUME MaxData < Width PROVE Spec => RecordLogSpec
<1>1. IInv /\ [Next]_vars => IInv'
  BY InvariantStep
<1>2. Spec => []IInv
  BY <1>1, InitIInv, PTL DEF Spec
<1>3. IInv /\ IInv' /\ [Next]_vars => [RL!Next]_(RL!vars)
  BY RefinesNext
<1>4. Init => RL!Init
  BY RefinesInit
<1>. QED  BY <1>2, <1>3, <1>4, PTL DEF Spec, RecordLogSpec, RL!Spec

=============================================================================
