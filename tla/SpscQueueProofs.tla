-------------------------- MODULE SpscQueueProofs --------------------------
(***************************************************************************)
(* The logger's ring buffer is a FIFO without a data race, for every       *)
(* capacity, word size, record length and set of bytes.                    *)
(***************************************************************************)
EXTENDS SpscQueue, SequenceTheorems, TLAPS

-----------------------------------------------------------------------------
(* Arithmetic modulo a positive number.                                    *)

\* What \div and % are.
LEMMA DivMod ==
    ASSUME NEW a \in Int, NEW m \in Nat \ {0}
    PROVE  /\ a % m \in 0..(m - 1)
           /\ a \div m \in Int
           /\ a = (m * (a \div m)) + (a % m)
  OBVIOUS

\* The remainder is unique.
LEMMA ModUnique ==
    ASSUME NEW m \in Nat \ {0}, NEW q \in Int, NEW r \in 0..(m - 1)
    PROVE  ((m * q) + r) % m = r
  OBVIOUS

\* Multiples of m do not matter modulo m.
LEMMA ModShift ==
    ASSUME NEW m \in Nat \ {0}, NEW q \in Int, NEW a \in Int
    PROVE  (a + (m * q)) % m = a % m
<1> DEFINE d == a \div m  s == a % m
<1>1. d \in Int /\ s \in 0..(m - 1) /\ a = (m * d) + s
  BY DivMod
<1> HIDE DEF d, s
<1>2. a + (m * q) = (m * (d + q)) + s
  BY <1>1
<1>3. ((m * (d + q)) + s) % m = s
  BY <1>1, ModUnique
<1> QED
  BY <1>2, <1>3 DEF s

\* Reducing one operand of a sum first changes nothing.
LEMMA ModAdd ==
    ASSUME NEW m \in Nat \ {0}, NEW a \in Int, NEW b \in Int
    PROVE  (a + b) % m = ((a % m) + b) % m
<1> DEFINE d == a \div m  s == a % m
<1>1. d \in Int /\ s \in 0..(m - 1) /\ a = (m * d) + s
  BY DivMod
<1> HIDE DEF d, s
<1>2. a + b = (s + b) + (m * d)
  BY <1>1
<1> DEFINE t == s + b
<1>3. t \in Int
  BY <1>1
<1> HIDE DEF t
<1>4. (t + (m * d)) % m = t % m
  BY <1>1, <1>3, ModShift
<1> QED
  BY <1>2, <1>4 DEF s, t

\* The buffer size divides the number of positions, so wrapping a position
\* does not change its index.
LEMMA ModMod ==
    ASSUME NEW m \in Nat \ {0}, NEW w \in Nat \ {0}, w % m = 0, NEW a \in Int
    PROVE  (a % w) % m = a % m
<1> DEFINE c == w \div m  d == a \div w  s == a % w
<1>1. c \in Int /\ w = m * c
  BY DivMod
<1>2. d \in Int /\ s \in Int /\ a = (w * d) + s
  BY DivMod
<1> HIDE DEF c, d, s
<1>3. a = s + (m * (c * d))
  BY <1>1, <1>2
<1> DEFINE q == c * d
<1>4. q \in Int
  BY <1>1, <1>2
<1> HIDE DEF q
<1>5. (s + (m * q)) % m = s % m
  BY <1>2, <1>4, ModShift
<1> QED
  BY <1>3, <1>5 DEF s, q

\* A number that is out of range by less than m.
LEMMA ModNear ==
    ASSUME NEW m \in Nat \ {0}, NEW a \in (-m)..(2 * m - 1)
    PROVE  a % m = IF a < 0 THEN a + m ELSE IF a < m THEN a ELSE a - m
  OBVIOUS

\* The smaller of two numbers.
LEMMA MinOfTwo ==
    ASSUME NEW a \in Int, NEW b \in Int
    PROVE  Min({a, b}) = IF a <= b THEN a ELSE b
<1> DEFINE c == IF a <= b THEN a ELSE b
<1>1. c \in {a, b} /\ \A y \in {a, b} : c <= y
  OBVIOUS
<1>2. \A x \in {a, b} : (\A y \in {a, b} : x <= y) => x = c
  OBVIOUS
<1> QED
  BY <1>1, <1>2 DEF Min

-----------------------------------------------------------------------------
(* Positions and indexes.                                                  *)

\* The sizes, as numbers.
LEMMA Sizes ==
    /\ capacity_ \in Nat \ {0} /\ WordSize \in Nat \ {0}
    /\ capacity_ < WordSize /\ WordSize % capacity_ = 0
    /\ MaxRecord \in Nat /\ MaxRecord < capacity_
  BY SpscAssumption

\* j places behind index m of the ring.
Behind(m, j) == IF m + j < capacity_ THEN m + j ELSE (m + j) - capacity_

\* Mask maps positions to indexes, and takes the wrap-around of the positions
\* and of the buffer into account.
LEMMA MaskFacts ==
    /\ \A a \in Int : Mask(a) \in Index /\ Mask(a) \in Int
    /\ \A a \in Int : Mask(a % WordSize) = Mask(a)
    /\ \A a \in Int, j \in Index : Mask(a + j) = Behind(Mask(a), j)
<1>1. \A a \in Int : Mask(a) \in Index /\ Mask(a) \in Int
  BY Sizes, DivMod DEF Mask, Index
<1>2. \A a \in Int : Mask(a % WordSize) = Mask(a)
  BY Sizes, ModMod DEF Mask
<1>3. ASSUME NEW a \in Int, NEW j \in Index PROVE Mask(a + j) = Behind(Mask(a), j)
  <2>0. j \in Int
    BY Sizes DEF Index
  <2>1. (a + j) % capacity_ = ((a % capacity_) + j) % capacity_
    BY Sizes, <2>0, ModAdd
  <2>2. Mask(a) + j \in (-capacity_)..(2 * capacity_ - 1) /\ Mask(a) + j >= 0
    BY <1>1, Sizes DEF Index
  <2>3. (Mask(a) + j) % capacity_ = IF Mask(a) + j < capacity_ THEN Mask(a) + j
                                    ELSE (Mask(a) + j) - capacity_
    BY <2>2, ModNear, Sizes
  <2> QED
    BY <2>1, <2>3 DEF Behind, Mask
<1> QED
  BY <1>1, <1>2, <1>3

\* How many bytes wait, from the two positions.
Distance(w, r) == (w - r) % WordSize

\* The distance between the positions, and what commit_write and consume do
\* to it.
LEMMA DistanceFacts ==
    ASSUME NEW w \in Pos, NEW r \in Pos
    PROVE  /\ Distance(w, r) \in 0..(WordSize - 1)
           /\ w = (r + Distance(w, r)) % WordSize
           /\ Distance(w, r) = 0 <=> w = r
           /\ \A n \in Nat : Distance(w, r) + n < WordSize =>
                 Distance((w + n) % WordSize, r) = Distance(w, r) + n
           /\ \A n \in Nat : n <= Distance(w, r) =>
                 Distance(w, (r + n) % WordSize) = Distance(w, r) - n
<1> USE Sizes
<1>1. w \in 0..(WordSize - 1) /\ r \in 0..(WordSize - 1)
  BY DEF Pos
<1>0. ASSUME NEW x \in (-WordSize)..(2 * WordSize - 1)
      PROVE  x % WordSize = IF x < 0 THEN x + WordSize
                            ELSE IF x < WordSize THEN x ELSE x - WordSize
  BY ModNear
<1>2. Distance(w, r) = IF w >= r THEN w - r ELSE (w - r) + WordSize
  <2> DEFINE x == w - r
  <2>1. x \in (-WordSize)..(2 * WordSize - 1)
    BY <1>1
  <2> HIDE DEF x
  <2>2. x % WordSize = IF x < 0 THEN x + WordSize
                       ELSE IF x < WordSize THEN x ELSE x - WordSize
    BY <1>0, <2>1
  <2> QED
    BY <1>1, <2>2 DEF Distance, x
<1>3. w = (r + Distance(w, r)) % WordSize
  <2> DEFINE x == r + Distance(w, r)
  <2>1. x \in (-WordSize)..(2 * WordSize - 1)
    BY <1>1, <1>2
  <2> HIDE DEF x
  <2>2. x % WordSize = IF x < 0 THEN x + WordSize
                       ELSE IF x < WordSize THEN x ELSE x - WordSize
    BY <1>0, <2>1
  <2> QED
    BY <1>1, <1>2, <2>2 DEF x
<1>4. ASSUME NEW n \in Nat, Distance(w, r) + n < WordSize
      PROVE  Distance((w + n) % WordSize, r) = Distance(w, r) + n
  <2> DEFINE x == w + n  v == x % WordSize  y == v - r
  <2>1. x \in (-WordSize)..(2 * WordSize - 1)
    BY <1>1, <1>2, <1>4
  <2> HIDE DEF x
  <2>2. v = IF x < 0 THEN x + WordSize ELSE IF x < WordSize THEN x ELSE x - WordSize
    BY <1>0, <2>1
  <2> HIDE DEF v
  <2>3. y \in (-WordSize)..(2 * WordSize - 1)
    BY <1>1, <1>2, <1>4, <2>2 DEF x
  <2> HIDE DEF y
  <2>4. y % WordSize = IF y < 0 THEN y + WordSize
                       ELSE IF y < WordSize THEN y ELSE y - WordSize
    BY <1>0, <2>3
  <2>5. Distance(v, r) = y % WordSize
    BY DEF Distance, y
  <2>6. Distance(v, r) = Distance(w, r) + n
    BY <1>1, <1>2, <1>4, <2>2, <2>4, <2>5 DEF x, y
  <2> QED
    BY <2>6 DEF v, x
<1>5. ASSUME NEW n \in Nat, n <= Distance(w, r)
      PROVE  Distance(w, (r + n) % WordSize) = Distance(w, r) - n
  <2> DEFINE x == r + n  v == x % WordSize  y == w - v
  <2>1. x \in (-WordSize)..(2 * WordSize - 1)
    BY <1>1, <1>2, <1>5
  <2> HIDE DEF x
  <2>2. v = IF x < 0 THEN x + WordSize ELSE IF x < WordSize THEN x ELSE x - WordSize
    BY <1>0, <2>1
  <2> HIDE DEF v
  <2>3. y \in (-WordSize)..(2 * WordSize - 1)
    BY <1>1, <1>2, <1>5, <2>2 DEF x
  <2> HIDE DEF y
  <2>4. y % WordSize = IF y < 0 THEN y + WordSize
                       ELSE IF y < WordSize THEN y ELSE y - WordSize
    BY <1>0, <2>3
  <2>5. Distance(w, v) = y % WordSize
    BY DEF Distance, y
  <2>6. Distance(w, v) = Distance(w, r) - n
    BY <1>1, <1>2, <1>5, <2>2, <2>4, <2>5 DEF x, y
  <2> QED
    BY <2>6 DEF v, x
<1> QED
  BY <1>1, <1>2, <1>3, <1>4, <1>5
\* The producer's index is as far behind the consumer's as bytes wait.
LEMMA Geometry ==
    ASSUME NEW w \in Pos, NEW r \in Pos, Distance(w, r) < capacity_
    PROVE  /\ Mask(w) \in Index /\ Mask(r) \in Index
           /\ Mask(w) = Behind(Mask(r), Distance(w, r))
<1>1. w \in Int /\ r \in Int /\ Distance(w, r) \in Index
  BY Sizes, DistanceFacts DEF Pos, Index
<1>2. r + Distance(w, r) \in Int
  BY <1>1, Sizes DEF Index
<1>3. Mask(w) = Mask(r + Distance(w, r))
  BY <1>2, DistanceFacts, MaskFacts
<1> QED
  BY <1>1, <1>3, MaskFacts

\* Bytes that may be written and bytes that wait are different bytes.
LEMMA Disjoint ==
    ASSUME NEW w \in Pos, NEW r \in Pos, Distance(w, r) < capacity_,
           NEW i \in Nat, i < capacity_ - Distance(w, r) - 1, i < ToEnd(w),
           NEW j \in Nat, j < Distance(w, r)
    PROVE  /\ Mask(w) + i \in Index
           /\ Mask(w) + i # Behind(Mask(r), j)
<1>1. /\ Mask(w) \in 0..(capacity_ - 1) /\ Mask(r) \in 0..(capacity_ - 1)
      /\ Mask(w) = Behind(Mask(r), Distance(w, r))
      /\ Distance(w, r) \in Nat
  BY Geometry, DistanceFacts, Sizes DEF Index
<1> QED
  BY <1>1, Sizes DEF Behind, ToEnd, Index

-----------------------------------------------------------------------------
(* The inductive invariant.                                                *)

SpscTypes ==
    /\ write_pos \in Pos /\ read_pos \in Pos
    /\ buffer \in [Index -> Byte]
    /\ ppc \in {"idle", "prepare", "copy"}
    /\ record \in Seq(Byte) /\ written \in Nat /\ promise \in Nat
    /\ cpc \in {"idle", "size", "copy"}
    /\ ptr \in Nat /\ avail \in Nat
    /\ got \in Seq(Byte) /\ out \in Seq(Byte)

\* One byte always stays free.
OneByteFree == Used < capacity_

\* The record fits between prepare_write and commit_write, although the
\* position it was compared with has moved since; what is copied is in place.
WriteOK ==
    ppc = "copy" =>
        /\ FitsFree(Len(record)) /\ FitsTail(Len(record))
        /\ written <= Len(record)
        /\ \A i \in 1..written : buffer[Mask(write_pos) + (i - 1)] = record[i]

\* peek's pointer and readable_bytes' length stay good until consume, and
\* what is copied is still what the buffer holds.
ReadOK ==
    /\ cpc # "idle" => ptr = Mask(read_pos)
    /\ cpc # "copy" => got = <<>>
    /\ cpc = "copy" =>
          /\ avail <= Used /\ avail <= ToEnd(read_pos)
          /\ Len(got) <= avail
          /\ \A i \in 1..Len(got) : got[i] = buffer[ptr + (i - 1)]

SpscInv == SpscTypes /\ OneByteFree /\ WriteOK /\ PromiseKept /\ ReadOK

\* What the positions and sizes are in a state of the invariant.
LEMMA StateFacts ==
    ASSUME SpscInv
    PROVE  /\ Used \in Nat /\ Used = Distance(write_pos, read_pos)
           /\ Mask(write_pos) \in Index /\ Mask(read_pos) \in Index
           /\ ToEnd(write_pos) \in 1..capacity_ /\ ToEnd(read_pos) \in 1..capacity_
           /\ read_pos = write_pos <=> Used = 0
           /\ Len(record) \in Nat /\ Len(got) \in Nat
           /\ writable_bytes \in Nat
           /\ \A len \in 1..writable_bytes : FitsFree(len) /\ FitsTail(len)
           /\ Readable \in Nat /\ Readable <= Used /\ Readable <= ToEnd(read_pos)
<1>1. /\ write_pos \in Pos /\ read_pos \in Pos /\ Used < capacity_
      /\ record \in Seq(Byte) /\ got \in Seq(Byte)
  BY DEF SpscInv, SpscTypes, OneByteFree
<1>2. Used = Distance(write_pos, read_pos)
  BY DEF Used, Distance
<1>3. /\ Used \in Nat /\ (read_pos = write_pos <=> Used = 0)
      /\ Mask(write_pos) \in Index /\ Mask(read_pos) \in Index
  BY <1>1, <1>2, DistanceFacts, Geometry, Sizes
<1>4. ToEnd(write_pos) \in 1..capacity_ /\ ToEnd(read_pos) \in 1..capacity_
  BY <1>3, Sizes DEF ToEnd, Index
<1> DEFINE free == (capacity_ - Used) - 1
<1>5. free \in Nat
  BY <1>1, <1>3, Sizes
<1>6. writable_bytes = IF free <= ToEnd(write_pos) THEN free ELSE ToEnd(write_pos)
  BY <1>4, <1>5, MinOfTwo DEF writable_bytes
<1>7. Readable = IF Used <= ToEnd(read_pos) THEN Used ELSE ToEnd(read_pos)
  BY <1>3, <1>4, MinOfTwo DEF Readable
<1>8. \A len \in 1..writable_bytes : FitsFree(len) /\ FitsTail(len)
  BY <1>4, <1>5, <1>6 DEF FitsFree, FitsTail
<1> HIDE DEF free
<1> QED
  BY <1>1, <1>2, <1>3, <1>4, <1>5, <1>6, <1>7, <1>8

\* The threads' regions are inside the buffer and disjoint: one ends where the
\* other begins, at the latest.
LEMMA InvImpliesNoRace == SpscInv => NoDataRace
<1> SUFFICES ASSUME SpscInv PROVE NoDataRace
  OBVIOUS
<1>1. /\ write_pos \in Pos /\ read_pos \in Pos /\ ptr \in Nat /\ avail \in Nat
      /\ Used < capacity_ /\ Used \in Nat /\ Used = Distance(write_pos, read_pos)
      /\ Mask(read_pos) \in Index /\ Len(record) \in Nat
      /\ ToEnd(write_pos) \in Nat
  BY StateFacts, Sizes DEF SpscInv, SpscTypes, OneByteFree
<1>2. ASSUME ppc = "copy", NEW i \in 0..(Len(record) - 1)
      PROVE  /\ Mask(write_pos) + i \in Index
             /\ \A j \in Nat : j < Used => Mask(write_pos) + i # Behind(Mask(read_pos), j)
  <2>1. i \in Nat /\ i < capacity_ - Distance(write_pos, read_pos) - 1 /\ i < ToEnd(write_pos)
    BY <1>1, <1>2, Sizes DEF SpscInv, WriteOK, FitsFree, FitsTail
  <2>3. ASSUME NEW j \in Nat, j < Used
        PROVE  Mask(write_pos) + i # Behind(Mask(read_pos), j)
    BY <1>1, <2>1, <2>3, Disjoint
  <2>4. Mask(write_pos) + i \in Index
    <3>1. Mask(write_pos) \in Index
      BY StateFacts
    <3> QED
      BY <2>1, <3>1, Sizes DEF Index, ToEnd
  <2> QED
    BY <2>3, <2>4
<1>3. ASSUME cpc = "copy", NEW j \in 0..(avail - 1)
      PROVE  ptr + j \in Index /\ j \in Nat /\ j < Used /\ ptr + j = Behind(Mask(read_pos), j)
  <2>1. ptr = Mask(read_pos) /\ j \in Nat /\ j < Used /\ j < ToEnd(read_pos)
    BY <1>1, <1>3, StateFacts DEF SpscInv, ReadOK
  <2> QED
    BY <1>1, <2>1, Sizes DEF Behind, ToEnd, Index
<1> QED
  BY <1>2, <1>3 DEF NoDataRace, WriteRegion, ReadRegion

\* The empty queue satisfies the invariant.
LEMMA SpscInitInv == SpscInit => SpscInv
<1> SUFFICES ASSUME SpscInit PROVE SpscInv
  OBVIOUS
<1>1. SpscTypes
  BY Sizes DEF SpscInit, SpscTypes, Pos
<1>2. Used = 0
  <2>1. 0 \in Pos
    BY Sizes DEF Pos
  <2> QED
    BY <2>1, DistanceFacts DEF SpscInit, Used, Distance
<1> QED
  BY <1>1, <1>2, Sizes DEF SpscInit, SpscInv, OneByteFree, WriteOK, PromiseKept, ReadOK
-----------------------------------------------------------------------------
(* Every step keeps the invariant.                                         *)

\* A record is a sequence of bytes.
LEMMA RecordIsSeq == \A x \in Record : x \in Seq(Byte) /\ Len(x) \in Nat
<1> SUFFICES ASSUME NEW n \in 0..MaxRecord, NEW x \in [1..n -> Byte]
             PROVE  x \in Seq(Byte) /\ Len(x) \in Nat
  BY DEF Record
<1> QED
  BY Sizes

\* The producer prepares: neither position nor the buffer changes.
LEMMA PrepareKeeps ==
    ASSUME SpscInv, NewRecord \/ AskWritable \/ prepare_write
    PROVE  SpscInv'
<1>0. UNCHANGED <<write_pos, buffer, read_pos, cpc, ptr, avail, got, out>>
  BY DEF NewRecord, AskWritable, prepare_write, consumerVars
<1>1. SpscTypes'
  BY <1>0, StateFacts, RecordIsSeq
     DEF SpscInv, SpscTypes, NewRecord, AskWritable, prepare_write
<1>2. OneByteFree' /\ ReadOK'
  BY <1>0 DEF SpscInv, OneByteFree, ReadOK, Used, ToEnd, Mask
<1>3. WriteOK'
  <2>1. CASE prepare_write
    <3>1. FitsFree(Len(record)) /\ FitsTail(Len(record))
      BY <2>1, StateFacts, Sizes
         DEF prepare_write, FitsFree, FitsTail, SpscInv, OneByteFree
    <3> QED
      BY <1>0, <2>1, <3>1, StateFacts
         DEF prepare_write, WriteOK, FitsFree, FitsTail, Used, ToEnd, Mask
  <2>2. CASE ~prepare_write
    BY <2>2 DEF NewRecord, AskWritable, WriteOK
  <2> QED
    BY <2>1, <2>2
<1>4. PromiseKept'
  <2>1. \A len : FitsFree(len)' <=> FitsFree(len)
    BY <1>0 DEF FitsFree, Used
  <2>2. \A len : FitsTail(len)' <=> FitsTail(len)
    BY <1>0 DEF FitsTail, ToEnd, Mask
  <2>3. promise' = promise \/ promise' = writable_bytes
    BY DEF NewRecord, AskWritable, prepare_write
  <2> QED
    BY <2>1, <2>2, <2>3, StateFacts DEF SpscInv, PromiseKept
<1> QED
  BY <1>1, <1>2, <1>3, <1>4 DEF SpscInv

\* Copying a byte in touches no byte that waits.
LEMMA CopyInKeeps ==
    ASSUME SpscInv, CopyIn
    PROVE  /\ SpscInv'
           /\ Mask(write_pos) + written \in Index
           /\ \A j \in Nat : j < Used =>
                 buffer'[Behind(Mask(read_pos), j)] = buffer[Behind(Mask(read_pos), j)]
<1> DEFINE at == Mask(write_pos) + written
<1>0. /\ ppc = "copy" /\ written \in Nat /\ written < Len(record) /\ Len(record) \in Nat
      /\ record \in Seq(Byte) /\ buffer \in [Index -> Byte]
      /\ write_pos \in Pos /\ read_pos \in Pos
      /\ Used \in Nat /\ Used < capacity_ /\ Used = Distance(write_pos, read_pos)
      /\ Mask(write_pos) \in Index /\ Mask(read_pos) \in Index
      /\ ToEnd(write_pos) \in Nat /\ ToEnd(read_pos) \in Nat
      /\ FitsFree(Len(record)) /\ FitsTail(Len(record))
  BY StateFacts, Sizes DEF CopyIn, SpscInv, SpscTypes, WriteOK, OneByteFree
<1>00. /\ buffer' = [buffer EXCEPT ![at] = record[written + 1]]
       /\ written' = written + 1
       /\ UNCHANGED <<write_pos, ppc, record, promise, read_pos, cpc, ptr, avail, got, out>>
  BY DEF CopyIn, consumerVars
<1>1. written < capacity_ - Distance(write_pos, read_pos) - 1 /\ written < ToEnd(write_pos)
  BY <1>0, Sizes DEF FitsFree, FitsTail
<1>2. at \in Index
  BY <1>0, <1>1, Sizes DEF ToEnd, Index
<1>3. ASSUME NEW j \in Nat, j < Used
      PROVE  buffer'[Behind(Mask(read_pos), j)] = buffer[Behind(Mask(read_pos), j)]
  <2>1. at # Behind(Mask(read_pos), j)
    BY <1>0, <1>1, <1>3, Disjoint
  <2>2. Behind(Mask(read_pos), j) \in Index
    BY <1>0, <1>3, Sizes DEF Behind, Index
  <2> QED
    BY <1>0, <1>00, <2>1, <2>2
<1>4. SpscTypes'
  BY <1>0, <1>00, <1>2 DEF SpscInv, SpscTypes
<1>5. OneByteFree' /\ PromiseKept'
  <2>1. \A len : FitsFree(len)' <=> FitsFree(len)
    BY <1>00 DEF FitsFree, Used
  <2>2. \A len : FitsTail(len)' <=> FitsTail(len)
    BY <1>00 DEF FitsTail, ToEnd, Mask
  <2> QED
    BY <1>00, <2>1, <2>2 DEF SpscInv, OneByteFree, PromiseKept, Used
<1>6. WriteOK'
  <2>1. \A i \in 1..written : buffer[Mask(write_pos) + (i - 1)] = record[i]
    BY <1>0 DEF SpscInv, WriteOK
  <2>2. ASSUME NEW i \in 1..(written + 1)
        PROVE  buffer'[Mask(write_pos) + (i - 1)] = record[i]
    <3>1. Mask(write_pos) + (i - 1) \in Index
      BY <1>0, <1>2, Sizes DEF Index
    <3>2. CASE i = written + 1
      BY <1>0, <1>00, <1>2, <3>2, Sizes DEF Index
    <3>3. CASE i \in 1..written
      <4>1. Mask(write_pos) + (i - 1) # at
        BY <1>0, <3>3, Sizes DEF Index
      <4> QED
        BY <1>0, <1>00, <2>1, <3>1, <3>3, <4>1
    <3> QED
      BY <1>0, <3>2, <3>3
  <2>3. Mask(write_pos') = Mask(write_pos)
    BY <1>00
  <2>4. FitsFree(Len(record))' /\ FitsTail(Len(record))'
    BY <1>0, <1>00 DEF FitsFree, FitsTail, Used, ToEnd, Mask
  <2> QED
    BY <1>0, <1>00, <2>2, <2>3, <2>4 DEF WriteOK
<1>7. ReadOK'
  <2>1. ASSUME cpc = "copy", NEW i \in 1..Len(got)
        PROVE  got[i] = buffer'[ptr + (i - 1)]
    <3>1. /\ ptr = Mask(read_pos) /\ got[i] = buffer[ptr + (i - 1)]
          /\ i - 1 \in Nat /\ i - 1 < Used /\ i - 1 < ToEnd(read_pos)
      BY <1>0, <2>1, StateFacts DEF SpscInv, ReadOK, SpscTypes
    <3>2. ptr + (i - 1) = Behind(Mask(read_pos), i - 1)
      BY <1>0, <3>1, Sizes DEF Behind, ToEnd, Index
    <3> QED
      BY <1>3, <3>1, <3>2
  <2>2. Used' = Used /\ ToEnd(read_pos') = ToEnd(read_pos) /\ Mask(read_pos') = Mask(read_pos)
    BY <1>00 DEF Used
  <2> QED
    BY <1>00, <2>1, <2>2 DEF SpscInv, ReadOK, Used, ToEnd, Mask
<1> HIDE DEF at
<1> QED
  BY <1>2, <1>3, <1>4, <1>5, <1>6, <1>7 DEF SpscInv, at
\* commit_write hands the record over: as many more bytes wait.
LEMMA CommitKeeps ==
    ASSUME SpscInv, commit_write
    PROVE  SpscInv' /\ Used' = Used + Len(record)
<1> DEFINE len == Len(record)
<1>0. /\ ppc = "copy" /\ len \in Nat /\ write_pos \in Pos /\ read_pos \in Pos
      /\ Used \in Nat /\ Used < capacity_ /\ Used = Distance(write_pos, read_pos)
      /\ FitsFree(len)
  BY StateFacts DEF commit_write, SpscInv, SpscTypes, WriteOK, OneByteFree
<1>00. /\ write_pos' = (write_pos + len) % WordSize
       /\ ppc' = "idle" /\ record' = <<>> /\ written' = 0 /\ promise' = 0
       /\ UNCHANGED <<buffer, read_pos, cpc, ptr, avail, got, out>>
  BY DEF commit_write, consumerVars
<1>1. Used + len < capacity_
  BY <1>0, Sizes DEF FitsFree
<1>2. Used' = Used + len
  <2>1. Used' = Distance(write_pos', read_pos')
    BY DEF Used, Distance
  <2>2. Distance(write_pos, read_pos) + len < WordSize
    BY <1>0, <1>1, Sizes
  <2> QED
    BY <1>0, <1>00, <2>1, <2>2, DistanceFacts
<1>3. write_pos' \in Pos
  <2>1. write_pos + len \in Int
    BY <1>0, Sizes DEF Pos
  <2> QED
    BY <1>00, <2>1, DivMod, Sizes DEF Pos
<1>4. SpscTypes'
  BY <1>00, <1>3 DEF SpscInv, SpscTypes
<1>5. OneByteFree' /\ WriteOK' /\ PromiseKept'
  BY <1>00, <1>1, <1>2 DEF OneByteFree, WriteOK, PromiseKept
<1>6. ReadOK'
  <2>1. ToEnd(read_pos)' = ToEnd(read_pos) /\ Mask(read_pos)' = Mask(read_pos)
    BY <1>00 DEF ToEnd, Mask
  <2> QED
    BY <1>0, <1>00, <1>2, <2>1 DEF SpscInv, SpscTypes, ReadOK
<1> QED
  BY <1>2, <1>4, <1>5, <1>6 DEF SpscInv

\* peek, readable_bytes and the copying out change only what the consumer knows.
LEMMA PeekKeeps ==
    ASSUME SpscInv, peek \/ readable_bytes \/ CopyOut
    PROVE  SpscInv'
<1>0. UNCHANGED <<read_pos, out, buffer, write_pos, ppc, record, written, promise>>
  BY DEF peek, readable_bytes, CopyOut, producerVars
<1>1. /\ Mask(read_pos) \in Nat /\ Readable \in Nat /\ ptr \in Nat /\ avail \in Nat
      /\ got \in Seq(Byte) /\ Len(got) \in Nat /\ buffer \in [Index -> Byte]
      /\ Readable <= Used /\ Readable <= ToEnd(read_pos)
      /\ Used \in Nat /\ ToEnd(read_pos) \in Nat /\ Mask(read_pos) \in Index
  BY StateFacts, Sizes DEF SpscInv, SpscTypes, Index
<1>2. OneByteFree' /\ WriteOK' /\ PromiseKept'
  BY <1>0 DEF SpscInv, OneByteFree, WriteOK, PromiseKept, FitsFree, FitsTail, Used, ToEnd, Mask
<1>3. Used' = Used /\ ToEnd(read_pos)' = ToEnd(read_pos) /\ Mask(read_pos)' = Mask(read_pos)
  BY <1>0 DEF Used, ToEnd, Mask
<1>4. CASE peek
  <2>1. SpscTypes'
    BY <1>0, <1>1, <1>4 DEF peek, SpscInv, SpscTypes
  <2> QED
    BY <1>0, <1>2, <1>3, <1>4, <2>1 DEF peek, SpscInv, ReadOK
<1>5. CASE readable_bytes
  <2>1. SpscTypes'
    BY <1>0, <1>1, <1>5 DEF readable_bytes, SpscInv, SpscTypes
  <2> QED
    BY <1>0, <1>1, <1>2, <1>3, <1>5, <2>1 DEF readable_bytes, SpscInv, ReadOK
<1>6. CASE CopyOut
  <2>1. /\ cpc = "copy" /\ Len(got) < avail /\ ptr = Mask(read_pos)
        /\ avail <= Used /\ avail <= ToEnd(read_pos)
        /\ got' = Append(got, buffer[ptr + Len(got)])
        /\ UNCHANGED <<cpc, ptr, avail>>
    BY <1>6 DEF CopyOut, SpscInv, ReadOK
  <2>2. ptr + Len(got) \in Index
    BY <1>1, <2>1, Sizes DEF ToEnd, Index
  <2>3. buffer[ptr + Len(got)] \in Byte
    BY <1>1, <2>2
  <2>4. got' \in Seq(Byte) /\ Len(got') = Len(got) + 1
    BY <1>1, <2>1, <2>3
  <2>5. \A i \in 1..Len(got) : got[i] = buffer[ptr + (i - 1)]
    BY <2>1 DEF SpscInv, ReadOK
  <2>6. \A i \in 1..Len(got') : got'[i] = buffer'[ptr' + (i - 1)]
    BY <1>0, <1>1, <2>1, <2>3, <2>4, <2>5
  <2>7. SpscTypes'
    BY <1>0, <2>1, <2>4 DEF SpscInv, SpscTypes
  <2>8. ReadOK'
    BY <1>0, <1>1, <1>3, <2>1, <2>4, <2>6 DEF ReadOK
  <2> QED
    BY <1>2, <2>7, <2>8 DEF SpscInv
<1> QED
  BY <1>4, <1>5, <1>6

\* consume gives room back: what the producer was told still holds.
LEMMA ConsumeKeeps ==
    ASSUME SpscInv, consume
    PROVE  SpscInv' /\ Len(got) \in 1..Used /\ Used' = Used - Len(got)
<1> DEFINE n == Len(got)
<1>0. /\ cpc = "copy" /\ n \in Nat /\ got \in Seq(Byte) /\ got # <<>>
      /\ write_pos \in Pos /\ read_pos \in Pos /\ avail \in Nat
      /\ Used \in Nat /\ Used < capacity_ /\ Used = Distance(write_pos, read_pos)
      /\ n <= avail /\ avail <= Used
  BY StateFacts DEF consume, SpscInv, SpscTypes, ReadOK, OneByteFree
<1>00. /\ read_pos' = (read_pos + n) % WordSize
       /\ out' = got /\ cpc' = "idle" /\ ptr' = 0 /\ avail' = 0 /\ got' = <<>>
       /\ UNCHANGED <<buffer, write_pos, ppc, record, written, promise>>
  BY DEF consume, producerVars
<1>1. n \in 1..Used
  BY <1>0
<1>2. Used' = Used - n
  <2>1. Used' = Distance(write_pos', read_pos')
    BY DEF Used, Distance
  <2> QED
    BY <1>0, <1>00, <1>1, <2>1, DistanceFacts
<1>3. read_pos' \in Pos
  <2>1. read_pos + n \in Int
    BY <1>0, Sizes DEF Pos
  <2> QED
    BY <1>00, <2>1, DivMod, Sizes DEF Pos
<1>4. SpscTypes'
  BY <1>0, <1>00, <1>3 DEF SpscInv, SpscTypes
<1>5. OneByteFree' /\ ReadOK'
  BY <1>0, <1>00, <1>1, <1>2, Sizes DEF OneByteFree, ReadOK
<1>6. \A len \in Nat : FitsFree(len) => FitsFree(len)'
  BY <1>0, <1>1, <1>2, Sizes DEF FitsFree
<1>7. \A len : FitsTail(len)' <=> FitsTail(len)
  BY <1>00 DEF FitsTail, ToEnd, Mask
<1>8. PromiseKept'
  BY <1>00, <1>6, <1>7 DEF SpscInv, SpscTypes, PromiseKept
<1>9. WriteOK'
  <2>1. Len(record) \in Nat
    BY StateFacts
  <2>2. CASE ppc = "copy"
    <3>1. FitsFree(Len(record))' /\ FitsTail(Len(record))'
      <4>1. FitsFree(Len(record)) /\ FitsTail(Len(record))
        BY <2>2 DEF SpscInv, WriteOK
      <4> QED
        BY <1>0, <1>00, <1>1, <1>2, <2>1, <4>1, Sizes DEF FitsFree, FitsTail, ToEnd, Mask
    <3>2. Mask(write_pos') = Mask(write_pos)
      BY <1>00
    <3> QED
      BY <1>00, <2>2, <3>1, <3>2 DEF SpscInv, WriteOK
  <2>3. CASE ppc # "copy"
    BY <1>00, <2>3 DEF WriteOK
  <2> QED
    BY <2>2, <2>3
<1> QED
  BY <1>1, <1>2, <1>4, <1>5, <1>8, <1>9 DEF SpscInv

\* Every step of the two threads keeps the invariant.
LEMMA SpscNextInv == SpscInv /\ [SpscNext]_spscVars => SpscInv'
<1> SUFFICES ASSUME SpscInv, [SpscNext]_spscVars PROVE SpscInv'
  OBVIOUS
<1>1. CASE UNCHANGED spscVars
  BY <1>1
     DEF SpscInv, SpscTypes, OneByteFree, WriteOK, PromiseKept, ReadOK, FitsFree, FitsTail,
         Used, ToEnd, Mask, spscVars, producerVars, consumerVars
<1> QED
  BY <1>1, PrepareKeeps, CopyInKeeps, CommitKeeps, PeekKeeps, ConsumeKeeps DEF SpscNext

\* The invariant holds at all times.
THEOREM SpscInductive == SpscSpec => []SpscInv
  BY SpscInitInv, SpscNextInv, PTL DEF SpscSpec

\* The producer copies bytes in and the consumer copies bytes out without a
\* lock, and never touch the same byte of buffer_ or one outside it.
THEOREM NoRaceAlways == SpscSpec => []NoDataRace
  BY SpscInductive, InvImpliesNoRace, PTL

\* Space reported by writable_bytes stays until the producer uses it.
THEOREM PromiseKeptAlways == SpscSpec => []PromiseKept
<1>1. SpscInv => PromiseKept
  BY DEF SpscInv
<1> QED
  BY <1>1, SpscInductive, PTL
-----------------------------------------------------------------------------
(* The queue implements the bounded FIFO: one lemma per kind of step.      *)

\* The waiting bytes as a function of the buffer and the positions.
Content(b, w, r) == [i \in 1..Distance(w, r) |-> b[Mask(r + i - 1)]]

\* The waiting bytes start at the consumer's index and go round the buffer.
LEMMA ContentFacts ==
    ASSUME NEW b \in [Index -> Byte], NEW w \in Pos, NEW r \in Pos, Distance(w, r) < capacity_
    PROVE  /\ Content(b, w, r) \in Seq(Byte)
           /\ Len(Content(b, w, r)) = Distance(w, r)
           /\ \A i \in 1..Distance(w, r) :
                 /\ Content(b, w, r)[i] = b[Behind(Mask(r), i - 1)]
                 /\ Behind(Mask(r), i - 1) \in Index
<1>1. r \in Int /\ Distance(w, r) \in Nat /\ Mask(r) \in Index
  BY DistanceFacts, Geometry, Sizes DEF Pos
<1>2. ASSUME NEW i \in 1..Distance(w, r)
      PROVE  Mask(r + i - 1) = Behind(Mask(r), i - 1) /\ Behind(Mask(r), i - 1) \in Index
  <2>1. i - 1 \in Index
    BY <1>1, Sizes DEF Index
  <2>2. r + i - 1 = r + (i - 1)
    BY <1>1
  <2>3. Mask(r + (i - 1)) = Behind(Mask(r), i - 1)
    BY <1>1, <2>1, MaskFacts
  <2> QED
    BY <1>1, <2>1, <2>2, <2>3, Sizes DEF Behind, Index
<1>3. \A i \in 1..Distance(w, r) : b[Mask(r + i - 1)] \in Byte
  BY <1>2
<1>4. Content(b, w, r) \in [1..Distance(w, r) -> Byte]
  BY <1>3 DEF Content
<1>5. Content(b, w, r) \in Seq(Byte) /\ Len(Content(b, w, r)) = Distance(w, r)
  BY <1>1, <1>4
<1>6. \A i \in 1..Distance(w, r) : Content(b, w, r)[i] = b[Behind(Mask(r), i - 1)]
  BY <1>2 DEF Content
<1> QED
  BY <1>2, <1>5, <1>6

\* The queue of the abstract specification, before and after a step.
LEMMA WaitingIs ==
    /\ Waiting = Content(buffer, write_pos, read_pos)
    /\ Waiting' = Content(buffer', write_pos', read_pos')
  BY DEF Waiting, Content, Used, Distance

\* commit_write appends the record to what waits.
LEMMA CommitWrites ==
    ASSUME SpscInv, commit_write
    PROVE  Waiting' = Waiting \o record /\ Len(Waiting) + Len(record) <= capacity_ - 1
<1> DEFINE len == Len(record)  u == Distance(write_pos, read_pos)
           v == Distance(write_pos', read_pos')
<1>0. /\ SpscInv' /\ v = u + len /\ u = Used
  BY CommitKeeps, StateFacts DEF Used, Distance
<1>1. /\ write_pos \in Pos /\ read_pos \in Pos /\ buffer \in [Index -> Byte]
      /\ write_pos' \in Pos /\ read_pos' = read_pos /\ buffer' = buffer
      /\ record \in Seq(Byte) /\ len \in Nat /\ u \in Nat /\ u < capacity_ /\ v < capacity_
      /\ FitsTail(len) /\ written = len
      /\ \A i \in 1..len : buffer[Mask(write_pos) + (i - 1)] = record[i]
  BY <1>0, StateFacts
     DEF SpscInv, SpscTypes, OneByteFree, WriteOK, commit_write, consumerVars, Used, Distance
<1>2. /\ Waiting \in Seq(Byte) /\ Len(Waiting) = u
      /\ \A i \in 1..u : Waiting[i] = buffer[Behind(Mask(read_pos), i - 1)]
  BY <1>1, WaitingIs, ContentFacts
<1>3. /\ Waiting' \in Seq(Byte) /\ Len(Waiting') = v
      /\ \A i \in 1..v : Waiting'[i] = buffer[Behind(Mask(read_pos), i - 1)]
  BY <1>1, WaitingIs, ContentFacts
<1>4. ASSUME NEW i \in 1..len
      PROVE  Behind(Mask(read_pos), (u + i) - 1) = Mask(write_pos) + (i - 1)
  <2>1. /\ Mask(write_pos) = Behind(Mask(read_pos), u)
        /\ Mask(write_pos) \in Index /\ Mask(read_pos) \in Index
    BY <1>1, Geometry
  <2>2. (i - 1) < ToEnd(write_pos)
    BY <1>1, <2>1, Sizes DEF FitsTail, ToEnd, Index
  <2> QED
    BY <1>1, <2>1, <2>2, Sizes DEF Behind, ToEnd, Index
<1> DEFINE both == Waiting \o record
<1> HIDE DEF len, u, v
<1>5. /\ both \in Seq(Byte) /\ Len(both) = u + len
      /\ \A i \in 1..(u + len) : both[i] = IF i <= u THEN Waiting[i] ELSE record[i - u]
  BY <1>1, <1>2, ConcatProperties DEF len
<1> HIDE DEF both
<1>6. ASSUME NEW i \in 1..v PROVE Waiting'[i] = both[i]
  <2>1. CASE i <= u
    BY <1>0, <1>1, <1>2, <1>3, <1>5, <2>1
  <2>2. CASE i > u
    <3>1. i - u \in 1..len /\ (u + (i - u)) - 1 = i - 1
      BY <1>0, <1>1, <2>2
    <3>2. Behind(Mask(read_pos), i - 1) = Mask(write_pos) + ((i - u) - 1)
      BY <1>4, <3>1
    <3> QED
      BY <1>0, <1>1, <1>3, <1>5, <2>2, <3>1, <3>2
  <2> QED
    BY <1>1, <2>1, <2>2
<1>7. Waiting' = both
  BY <1>0, <1>3, <1>5, <1>6, SeqEqual
<1> QED
  BY <1>0, <1>1, <1>2, <1>7, Sizes DEF both, len

\* consume takes what it copied off the front of what waits.
LEMMA ConsumeReads ==
    ASSUME SpscInv, consume
    PROVE  \E n \in 1..Len(Waiting) :
               /\ out' = SubSeq(Waiting, 1, n)
               /\ Waiting' = SubSeq(Waiting, n + 1, Len(Waiting))
<1> DEFINE n == Len(got)  u == Distance(write_pos, read_pos)
           v == Distance(write_pos', read_pos')
<1>0. /\ SpscInv' /\ n \in 1..u /\ v = u - n /\ u = Used
  BY ConsumeKeeps, StateFacts DEF Used, Distance
<1>1. /\ write_pos \in Pos /\ read_pos \in Pos /\ buffer \in [Index -> Byte]
      /\ read_pos' \in Pos /\ write_pos' = write_pos /\ buffer' = buffer
      /\ read_pos' = (read_pos + n) % WordSize
      /\ got \in Seq(Byte) /\ n \in Nat /\ u \in Nat /\ u < capacity_ /\ v < capacity_
      /\ ptr = Mask(read_pos) /\ n <= ToEnd(read_pos) /\ out' = got
      /\ \A i \in 1..n : got[i] = buffer[ptr + (i - 1)]
  <2>1. n <= avail /\ avail <= ToEnd(read_pos) /\ avail \in Nat /\ ToEnd(read_pos) \in Nat
    BY StateFacts DEF SpscInv, SpscTypes, ReadOK, consume
  <2>2. n \in Nat /\ n <= ToEnd(read_pos)
    BY <1>0, <2>1, StateFacts
  <2> QED
    BY <1>0, <2>2, StateFacts
       DEF SpscInv, SpscTypes, OneByteFree, ReadOK, consume, producerVars, Used, Distance
<1>2. /\ Waiting \in Seq(Byte) /\ Len(Waiting) = u
      /\ \A i \in 1..u : Waiting[i] = buffer[Behind(Mask(read_pos), i - 1)]
  BY <1>1, WaitingIs, ContentFacts
<1>3. /\ Waiting' \in Seq(Byte) /\ Len(Waiting') = v
      /\ \A i \in 1..v : Waiting'[i] = buffer[Behind(Mask(read_pos'), i - 1)]
  BY <1>1, WaitingIs, ContentFacts
<1>4. Mask(read_pos) \in Index
  BY StateFacts
<1>5. Mask(read_pos') = Behind(Mask(read_pos), n)
  <2>1. n \in Index /\ read_pos \in Int /\ read_pos + n \in Int
    BY <1>0, <1>1, Sizes DEF Index, Pos
  <2> QED
    BY <1>1, <2>1, MaskFacts
<1>6. out' = SubSeq(Waiting, 1, n)
  <2>1. ASSUME NEW i \in 1..n PROVE got[i] = Waiting[i]
    <3>1. Behind(Mask(read_pos), i - 1) = ptr + (i - 1)
      BY <1>1, <1>4, Sizes DEF Behind, ToEnd, Index
    <3> QED
      BY <1>0, <1>1, <1>2, <3>1
  <2> DEFINE front == SubSeq(Waiting, 1, n)
  <2>2. front \in Seq(Byte) /\ Len(front) = n /\ \A i \in 1..n : front[i] = Waiting[i]
    BY <1>0, <1>1, <1>2
  <2> QED
    BY <1>1, <2>1, <2>2
<1>7. Waiting' = SubSeq(Waiting, n + 1, Len(Waiting))
  <2> DEFINE rest == SubSeq(Waiting, n + 1, u)
  <2>1. rest \in Seq(Byte) /\ Len(rest) = v /\ \A i \in 1..v : rest[i] = Waiting[n + i]
    BY <1>0, <1>1, <1>2
  <2> HIDE DEF rest, n, u, v
  <2>2. ASSUME NEW i \in 1..v PROVE Waiting'[i] = Waiting[n + i]
    <3>1. n + i \in 1..u
      BY <1>0, <1>1
    <3>2. Behind(Mask(read_pos'), i - 1) = Behind(Mask(read_pos), (n + i) - 1)
      BY <1>0, <1>1, <1>4, <1>5, <3>1, Sizes DEF Behind, Index
    <3> QED
      BY <1>2, <1>3, <3>1, <3>2
  <2>3. Waiting' = rest
    BY <1>3, <2>1, <2>2, SeqEqual
  <2> QED
    BY <1>2, <2>3 DEF rest
<1> QED
  BY <1>0, <1>2, <1>6, <1>7

\* All other steps leave what waits alone, the copying of a byte included.
LEMMA WaitingStays ==
    ASSUME SpscInv, ~commit_write, ~consume, [SpscNext]_spscVars
    PROVE  Waiting' = Waiting /\ out' = out
<1>1. CASE CopyIn
  <2> DEFINE u == Distance(write_pos, read_pos)
  <2>1. /\ SpscInv' /\ UNCHANGED <<write_pos, read_pos, out>> /\ u = Used
        /\ \A j \in Nat : j < u =>
              buffer'[Behind(Mask(read_pos), j)] = buffer[Behind(Mask(read_pos), j)]
    BY <1>1, CopyInKeeps, StateFacts DEF CopyIn, consumerVars
  <2>2. /\ write_pos \in Pos /\ read_pos \in Pos /\ u \in Nat /\ u < capacity_
        /\ buffer \in [Index -> Byte] /\ buffer' \in [Index -> Byte]
    BY <2>1, StateFacts DEF SpscInv, SpscTypes, OneByteFree
  <2>3. /\ Waiting \in Seq(Byte) /\ Len(Waiting) = u
        /\ \A i \in 1..u : Waiting[i] = buffer[Behind(Mask(read_pos), i - 1)]
    BY <2>2, WaitingIs, ContentFacts
  <2>4. /\ Waiting' \in Seq(Byte) /\ Len(Waiting') = u
        /\ \A i \in 1..u : Waiting'[i] = buffer'[Behind(Mask(read_pos), i - 1)]
    BY <2>1, <2>2, WaitingIs, ContentFacts
  <2>5. \A i \in 1..u : i - 1 \in Nat /\ i - 1 < u
    BY <2>2
  <2>6. \A i \in 1..u : Waiting'[i] = Waiting[i]
    BY <2>1, <2>3, <2>4, <2>5
  <2> QED
    BY <2>1, <2>3, <2>4, <2>6
<1>2. CASE ~CopyIn
  <2>1. UNCHANGED <<buffer, write_pos, read_pos, out>>
    BY <1>2
       DEF SpscNext, NewRecord, AskWritable, prepare_write, peek, readable_bytes, CopyOut,
           spscVars, producerVars, consumerVars
  <2> QED
    BY <2>1, WaitingIs
<1> QED
  BY <1>1, <1>2

\* Every step of the queue is a step of the FIFO or none.
LEMMA StepSimulation ==
    SpscInv /\ [SpscNext]_spscVars =>
        [Abstract!Offer \/ Abstract!Write \/ Abstract!Read]_(Abstract!fifoVars)
<1> SUFFICES ASSUME SpscInv, [SpscNext]_spscVars
             PROVE  \/ Abstract!Offer \/ Abstract!Write \/ Abstract!Read
                    \/ UNCHANGED Abstract!fifoVars
  OBVIOUS
<1>1. CASE commit_write
  BY <1>1, CommitWrites DEF Abstract!Write, commit_write, consumerVars
<1>2. CASE consume
  BY <1>2, ConsumeReads DEF Abstract!Read, consume, producerVars
<1>3. CASE NewRecord
  <2>1. ~commit_write /\ ~consume
    BY <1>3 DEF NewRecord, commit_write, consume, consumerVars
  <2> QED
    BY <1>3, <2>1, WaitingStays DEF Abstract!Offer, NewRecord
<1>4. CASE ~commit_write /\ ~consume /\ ~NewRecord
  <2>1. record' = record
    BY <1>4
       DEF SpscNext, AskWritable, prepare_write, CopyIn, peek, readable_bytes, CopyOut,
           spscVars, producerVars
  <2> QED
    BY <1>4, <2>1, WaitingStays DEF Abstract!fifoVars
<1> QED
  BY <1>1, <1>2, <1>3, <1>4

\* The lock-free ring buffer implements a bounded FIFO of bytes: the consumer
\* gets the bytes of the committed records in order, each once, and never more
\* than capacity_ - 1 wait.
THEOREM RefinesFifo == SpscSpec => ImplementsFifo
<1>1. SpscInit => Abstract!FifoInit
  <2> SUFFICES ASSUME SpscInit PROVE Abstract!FifoInit
    OBVIOUS
  <2>1. Distance(write_pos, read_pos) = 0
    <3>1. 0 \in Pos
      BY Sizes DEF Pos
    <3> QED
      BY <3>1, DistanceFacts DEF SpscInit
  <2>2. Waiting = <<>>
    BY <2>1, WaitingIs DEF Content
  <2> QED
    BY <2>2 DEF Abstract!FifoInit, SpscInit
<1> QED
  BY <1>1, StepSimulation, SpscInductive, PTL DEF SpscSpec, ImplementsFifo, Abstract!Fifo
=============================================================================
