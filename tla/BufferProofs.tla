---------------------------- MODULE BufferProofs ----------------------------
(***************************************************************************)
(* Theorems about Buffer, for every allocation size, every frame size and  *)
(* every sequence of operations.                                           *)
(***************************************************************************)
EXTENDS Buffer, SequenceTheorems, TLAPS

USE BufferAssumption

\* The inductive invariant: the pointers are where they should be and every
\* byte between them was written.
IInv == TypeOK /\ NoJunk

\* The measurements agree with each other: what is used fits in the region
\* with one byte to spare, and a run in place is never longer than it may be.
LEMMA Measures ==
    ASSUME TypeOK
    PROVE  /\ BufUsed \in Nat
           /\ size > 0 => BufUsed < size /\ BufSpace = size - BufUsed - 1
           /\ size = 0 => BufUsed = 0 /\ BufContWrite = 0
           /\ BufContRead \in Nat /\ BufContWrite \in Nat
           /\ BufContRead <= BufUsed
           /\ BufSpace \in Nat
           /\ readp + BufContRead <= size /\ writep + BufContWrite <= size
BY DEF TypeOK, BufUsed, BufSpace, BufContRead, BufContWrite, Unsigned

\* Moving a pointer by no more than the size keeps it in the region.
LEMMA AdvanceInRegion ==
    ASSUME TypeOK, NEW p \in Nat, NEW by \in Nat,
           by <= size, size > 0 => p < size /\ by < size, size = 0 => p = 0
    PROVE  /\ Advance(p, by) \in Nat
           /\ size > 0 => Advance(p, by) < size
           /\ size = 0 => Advance(p, by) = 0
BY DEF TypeOK, Advance

\* A slot of an unread byte lies inside the allocation.
LEMMA SlotInMemory ==
    ASSUME TypeOK, NEW i \in Nat, i < BufUsed
    PROVE  Slot(i) \in 0 .. base_size - 1 /\ Slot(i) < size
BY Measures DEF TypeOK, Slot

LEMMA TypeInit == Init => TypeOK
<1> SUFFICES ASSUME Init PROVE TypeOK
    OBVIOUS
<1>1. out \in Seq(Byte)
    BY EmptySeq DEF Init
<1> QED
    BY <1>1 DEF Init, TypeOK, Malloc

\* Whatever the frame size, rounding down to whole frames does not grow.
LEMMA RoundDown ==
    ASSUME NEW b \in Nat, NEW m \in Nat \ {0}
    PROVE  (b \div m) * m \in Nat /\ (b \div m) * m <= b
<1>1. b \div m \in Nat /\ b % m \in Nat /\ b = (m * (b \div m)) + (b % m)
    OBVIOUS
<1> DEFINE q == b \div m
<1> HIDE DEF q
<1>2. q \in Nat /\ q * m = m * q /\ m * q \in Nat
    BY <1>1 DEF q
<1> QED
    BY <1>1, <1>2 DEF q

(* Every operation preserves the invariant *)

\* A write leaves every unread byte and adds bytes of s behind them.
LEMMA WriteKeeps ==
    ASSUME IInv, NEW n \in Nat, NEW s \in [1 .. n -> Byte], Write(s)
    PROVE  /\ TypeOK'
           /\ BufUsed' = BufUsed + n
           /\ \A i \in 0 .. BufUsed - 1 : mem'[Slot(i)'] = mem[Slot(i)]
           /\ \A i \in BufUsed .. BufUsed + n - 1 :
                 mem'[Slot(i)'] = s[i - BufUsed + 1]
<1>0. TypeOK
    BY DEF IInv
<1>1. Len(s) = n /\ s \in Seq(Byte)
    OBVIOUS
<1>2. n <= BufSpace /\ n <= BufContWrite
    BY <1>1, Measures DEF IInv, Write, Smaller
<1>3. size = 0 => n = 0
    BY <1>2, Measures DEF IInv
<1>4. /\ readp' = readp /\ wrap' = wrap /\ size' = size
      /\ base_size' = base_size /\ unit' = unit /\ out' = out
      /\ writep' = Advance(writep, n)
      /\ mem' = [i \in DOMAIN mem |-> IF i \in writep .. writep + n - 1
                                      THEN s[i - writep + 1] ELSE mem[i]]
    BY <1>1 DEF Write, BufIncWritep
<1>5. TypeOK'
  <2>1. mem' \in [0 .. base_size - 1 -> Byte \cup {Junk}]
    <3>1. \A i \in 0 .. base_size - 1 :
             i \in writep .. writep + n - 1 => s[i - writep + 1] \in Byte
        BY DEF IInv, TypeOK
    <3> QED
        BY <3>1, <1>4 DEF IInv, TypeOK
  <2>2. writep' \in Nat /\ (size > 0 => writep' < size) /\ (size = 0 => writep' = 0)
    <3>1. n <= size /\ (size > 0 => n < size)
      <4>1. size \in Nat /\ BufUsed \in Nat /\ BufSpace \in Nat
          BY <1>0, Measures DEF TypeOK
      <4>2. size > 0 => BufSpace = size - BufUsed - 1
          BY <1>0, Measures
      <4> QED
          BY <4>1, <4>2, <1>2, <1>3
    <3>2. writep \in Nat /\ (size > 0 => writep < size) /\ (size = 0 => writep = 0)
        BY <1>0 DEF TypeOK
    <3> QED
        BY <1>0, <1>4, <3>1, <3>2, AdvanceInRegion
  <2> QED
      BY <2>1, <2>2, <1>4 DEF IInv, TypeOK
<1>6. BufUsed' = BufUsed + n
    BY <1>2, <1>3, <1>4, Measures
       DEF IInv, TypeOK, BufUsed, BufContWrite, Advance
<1>7. ASSUME NEW i \in 0 .. BufUsed - 1
      PROVE  mem'[Slot(i)'] = mem[Slot(i)]
  <2>1. Slot(i)' = Slot(i)
      BY <1>4 DEF Slot
  <2>2. Slot(i) \notin writep .. writep + n - 1
      BY <1>2, <1>3, Measures
         DEF IInv, TypeOK, Slot, BufUsed, BufContWrite
  <2>3. Slot(i) \in DOMAIN mem
    <3>1. i \in Nat /\ i < BufUsed
        BY <1>0, Measures
    <3> QED
        BY <1>0, <3>1, SlotInMemory DEF TypeOK
  <2> QED
      BY <2>1, <2>2, <2>3, <1>4
<1>8. ASSUME NEW i \in BufUsed .. BufUsed + n - 1
      PROVE  mem'[Slot(i)'] = s[i - BufUsed + 1]
  <2>0. i \in Nat /\ BufUsed \in Nat
      BY Measures DEF IInv
  <2>1. Slot(i)' = writep + (i - BufUsed)
      BY <2>0, <1>2, <1>3, <1>4, Measures
         DEF IInv, TypeOK, Slot, BufUsed, BufContWrite
  <2>2. writep + (i - BufUsed) \in DOMAIN mem
      BY <2>0, <1>2, <1>3, Measures DEF IInv, TypeOK
  <2> QED
      BY <2>0, <2>1, <2>2, <1>4 DEF IInv, TypeOK
<1> QED
    BY <1>5, <1>6, <1>7, <1>8

\* Moving the reader over n unread bytes leaves the others where they are.
LEMMA ConsumeKeeps ==
    ASSUME IInv, NEW n \in Nat, n <= BufUsed, BufIncReadp(n),
           UNCHANGED <<mem, writep, wrap, size, base_size, unit>>,
           out' \in Seq(Byte)
    PROVE  /\ TypeOK'
           /\ BufUsed' = BufUsed - n
           /\ \A i \in 0 .. BufUsed - n - 1 : Slot(i)' = Slot(i + n)
<1>0. TypeOK
    BY DEF IInv
<1>1. readp' = Advance(readp, n)
    BY DEF BufIncReadp
<1>2. (size = 0 => n = 0) /\ (size > 0 => n < size) /\ n <= size
    BY <1>0, Measures DEF TypeOK
<1>3. readp' \in Nat /\ (size > 0 => readp' < size) /\ (size = 0 => readp' = 0)
  <2>1. readp \in Nat /\ (size > 0 => readp < size) /\ (size = 0 => readp = 0)
      BY <1>0 DEF TypeOK
  <2> QED
      BY <1>0, <1>1, <1>2, <2>1, AdvanceInRegion
<1>4. TypeOK'
    BY <1>3 DEF IInv, TypeOK
<1>5. BufUsed' = BufUsed - n
    BY <1>1, <1>2, Measures DEF IInv, TypeOK, BufUsed, Advance
<1>6. ASSUME NEW i \in 0 .. BufUsed - n - 1
      PROVE  Slot(i)' = Slot(i + n)
  <2>1. i \in Nat /\ i + n < size /\ size > 0
      BY <1>0, <1>2, Measures DEF TypeOK
  <2>2. readp' = IF readp + n >= size THEN readp + n - size ELSE readp + n
      BY <1>0, <1>1 DEF Advance, TypeOK
  <2>3. readp \in Nat /\ readp < size /\ size \in Nat /\ size' = size
      BY <1>0, <2>1 DEF TypeOK
  <2> QED
      BY <2>1, <2>2, <2>3 DEF Slot
<1> QED
    BY <1>4, <1>5, <1>6

\* The run a reader sees is the front of the contents.
LEMMA ReadSees ==
    ASSUME IInv, NEW n \in Nat, n <= BufContRead
    PROVE  \A i \in 1 .. n : /\ Slot(i - 1) = readp + i - 1
                             /\ mem[readp + i - 1] \in Byte
<1>1. ASSUME NEW i \in 1 .. n
      PROVE  Slot(i - 1) = readp + i - 1
    BY Measures DEF IInv, TypeOK, Slot
<1> QED
    BY <1>1, Measures DEF IInv, NoJunk

\* A buffer whose pointers were both set back is empty and well-formed.
LEMMA RewindEmpties ==
    ASSUME Rewind
    PROVE  BufUsed' = 0
BY DEF Rewind, BufUsed

LEMMA AdjustType ==
    ASSUME TypeOK, NEW m \in Mods, BufAdjust(m)
    PROVE  TypeOK'
<1>1. m \in Nat \ {0}
    OBVIOUS
<1>2. size' \in Nat /\ size' <= base_size
    BY <1>1, RoundDown DEF BufAdjust, TypeOK
<1> QED
    BY <1>1, <1>2 DEF BufAdjust, Rewind, TypeOK

LEMMA ResizeType ==
    ASSUME TypeOK, NEW n \in NewSizes, BufResize(n)
    PROVE  TypeOK'
<1>1. size' \in Nat /\ size' < UMod
    BY DEF BufResize, TypeOK
<1>2. mem' \in [0 .. size' - 1 -> Byte \cup {Junk}]
    BY DEF BufResize, Malloc
<1>3. size' \in Nat /\ base_size' = size' /\ wrap' = size' /\ readp' = 0 /\ writep' = 0
    BY <1>1 DEF BufResize, Rewind
<1>4. unit' \in Nat \ {0} /\ out' \in Seq(Byte)
    BY DEF BufResize, TypeOK
<1>5. mem' \in [0 .. base_size' - 1 -> Byte \cup {Junk}]
    BY <1>2, <1>3
<1>6. base_size' < UMod /\ size' <= base_size'
    BY <1>1, <1>3
<1> QED
    BY <1>3, <1>4, <1>5, <1>6 DEF TypeOK

\* The invariant is inductive.
LEMMA Invariance == IInv /\ [Next]_vars => IInv'
<1> SUFFICES ASSUME IInv, [Next]_vars PROVE IInv'
    OBVIOUS
<1>1. ASSUME NEW n \in 0 .. size, NEW s \in [1 .. n -> Byte], Write(s)
      PROVE  IInv'
  <2>1. n \in Nat /\ BufUsed \in Nat
      BY Measures DEF IInv, TypeOK
  <2>2. ASSUME NEW i \in 0 .. BufUsed' - 1
        PROVE  mem'[Slot(i)'] \in Byte
    <3>1. CASE i \in 0 .. BufUsed - 1
        BY <1>1, <2>1, <3>1, WriteKeeps DEF IInv, NoJunk
    <3>2. CASE i \in BufUsed .. BufUsed + n - 1
        BY <1>1, <2>1, <3>2, WriteKeeps
    <3> QED
        BY <1>1, <2>1, <3>1, <3>2, WriteKeeps
  <2> QED
      BY <1>1, <2>1, <2>2, WriteKeeps DEF IInv, NoJunk
<1>2. ASSUME NEW n \in 0 .. size, Read(n) \/ Skip(n)
      PROVE  IInv'
  <2>1. n \in Nat /\ BufUsed \in Nat
      BY Measures DEF IInv, TypeOK
  <2>2. n <= BufUsed /\ BufIncReadp(n)
        /\ UNCHANGED <<mem, writep, wrap, size, base_size, unit>>
      BY <1>2, Measures DEF IInv, Read, Skip, Smaller
  <2>3. out' \in Seq(Byte)
    <3>1. CASE Skip(n)
        BY <3>1 DEF Skip, IInv, TypeOK
    <3>2. CASE Read(n)
      <4>1. n <= BufContRead
          BY <3>2, Measures DEF IInv, Read, Smaller
      <4>2. out' = [i \in 1 .. n |-> mem[readp + i - 1]]
          BY <3>2 DEF Read
      <4>3. out' \in [1 .. n -> Byte]
          BY <4>1, <4>2, <2>1, ReadSees
      <4> QED
          BY <4>3, <2>1
    <3> QED
        BY <1>2, <3>1, <3>2
  <2>4. TypeOK' /\ BufUsed' = BufUsed - n
        /\ \A i \in 0 .. BufUsed - n - 1 : Slot(i)' = Slot(i + n)
      BY <2>1, <2>2, <2>3, ConsumeKeeps
  <2>5. ASSUME NEW i \in 0 .. BufUsed' - 1
        PROVE  mem'[Slot(i)'] \in Byte
    <3>1. i + n \in 0 .. BufUsed - 1 /\ mem'[Slot(i)'] = mem[Slot(i + n)]
        BY <2>1, <2>2, <2>4
    <3> QED
        BY <3>1 DEF IInv, NoJunk
  <2> QED
      BY <2>4, <2>5 DEF IInv, NoJunk
<1>3. CASE BufFlush
    BY <1>3, RewindEmpties DEF IInv, TypeOK, NoJunk, BufFlush, Rewind
<1>4. ASSUME NEW m \in Mods, BufAdjust(m)
      PROVE  IInv'
  <2>1. TypeOK'
      BY <1>4, AdjustType DEF IInv
  <2> QED
      BY <1>4, <2>1, RewindEmpties DEF IInv, NoJunk, BufAdjust
<1>5. CASE Resize
  <2>1. PICK n \in NewSizes : BufResize(n)
      BY <1>5 DEF Resize
  <2>2. TypeOK'
      BY <2>1, ResizeType DEF IInv
  <2> QED
      BY <2>1, <2>2, RewindEmpties DEF IInv, NoJunk, BufResize
<1>6. CASE UNCHANGED vars
    BY <1>6 DEF vars, IInv, TypeOK, NoJunk, BufUsed, Slot
<1> QED
    BY <1>1, <1>2, <1>3, <1>4, <1>5, <1>6 DEF Next

LEMMA Invariant == Spec => []IInv
<1>1. Init => IInv
  <2>1. ASSUME Init PROVE NoJunk
      BY <2>1 DEF Init, NoJunk, BufUsed
  <2> QED
      BY <2>1, TypeInit DEF IInv
<1> QED
    BY <1>1, Invariance, PTL DEF Spec

------------------------------------------------------------------------------
(* What the invariant gives *)

\* Every field keeps its type and both pointers stay inside the allocation,
\* through every flush, buf_adjust and (also failed) _buf_resize.
THEOREM TypeCorrect == Spec => []TypeOK
BY Invariant, PTL DEF IInv

\* No reader of a struct buffer is ever handed memory nobody wrote.
THEOREM OnlyWrittenIsRead == Spec => []NoJunk
BY Invariant, PTL DEF IInv

\* The chunked loops over a buffer with room or with data always advance.
THEOREM LoopsProgress == Spec => []Progress
<1>1. TypeOK => Progress
    BY Measures DEF TypeOK, Progress, BufUsed, BufSpace, BufContRead,
                    BufContWrite, Smaller, Unsigned
<1> QED
    BY <1>1, Invariant, PTL DEF IInv

\* A writer that stays within min(_buf_space, _buf_cont_write) overwrites no
\* unread byte and stays inside the allocation.
THEOREM WritesNeverOverlap == Spec => []WritesFit
<1>1. TypeOK => WritesFit
  <2> SUFFICES ASSUME TypeOK PROVE WritesFit
      OBVIOUS
  <2> DEFINE n == Smaller(BufSpace, BufContWrite)
  <2>1. n \in Nat /\ n <= BufSpace /\ n <= BufContWrite
      BY Measures DEF Smaller
  <2>2. size = 0 => n = 0
      BY <2>1, Measures
  <2> HIDE DEF n
  <2>3. writep + n <= base_size
      BY <2>1, Measures DEF TypeOK
  <2>4. ASSUME NEW i \in 0 .. BufUsed - 1
        PROVE  Slot(i) \notin writep .. writep + n - 1
      BY <2>1, <2>2, Measures DEF TypeOK, Slot, BufUsed, BufContWrite
  <2> QED
      BY <2>3, <2>4 DEF WritesFit, n
<1> QED
    BY <1>1, Invariant, PTL DEF IInv

\* The chunked loops of codecs and output advance and stay in their own memory.
THEOREM LoopsAlwaysWork == Spec => []LoopsWork
BY LoopsProgress, WritesNeverOverlap, PTL DEF LoopsWork

------------------------------------------------------------------------------
(* Frames do not straddle the wrap *)

\* x is a whole number of frames of u bytes.
Whole(x, u) == \E q \in Nat : x = q * u

\* What buf_adjust establishes and every read keeps: the region and the reader's
\* place in it are whole frames. (The writer's place need not be.)
Aligned == Whole(size, unit) /\ Whole(readp, unit)

LEMMA WholeNone == ASSUME NEW u \in Nat PROVE Whole(0, u)
<1>1. 0 = 0 * u
    OBVIOUS
<1> QED
    BY <1>1 DEF Whole

LEMMA WholeOne == ASSUME NEW x \in Nat PROVE Whole(x, 1)
<1>1. x = x * 1
    OBVIOUS
<1> QED
    BY <1>1 DEF Whole

LEMMA WholeRest ==
    ASSUME NEW n \in Nat, NEW u \in Nat \ {0}, n % u = 0
    PROVE  Whole(n, u)
<1>1. n \div u \in Nat /\ n % u \in Nat /\ n = (u * (n \div u)) + (n % u)
    OBVIOUS
<1> DEFINE q == n \div u
<1> HIDE DEF q
<1>2. q \in Nat /\ n = q * u
    BY <1>1 DEF q
<1> QED
    BY <1>2 DEF Whole

LEMMA WholeSum ==
    ASSUME NEW x \in Nat, NEW y \in Nat, NEW u \in Nat, Whole(x, u), Whole(y, u)
    PROVE  Whole(x + y, u)
<1>1. PICK p \in Nat, q \in Nat : x = p * u /\ y = q * u
    BY DEF Whole
<1>2. p + q \in Nat /\ x + y = (p + q) * u
    BY <1>1
<1> QED
    BY <1>2 DEF Whole

LEMMA WholeDifference ==
    ASSUME NEW x \in Nat, NEW y \in Nat, NEW u \in Nat \ {0}, y <= x,
           Whole(x, u), Whole(y, u)
    PROVE  Whole(x - y, u) /\ (y < x => x - y >= u)
<1>1. PICK p \in Nat, q \in Nat : x = p * u /\ y = q * u
    BY DEF Whole
<1>2. x - y = (p - q) * u
    BY <1>1
<1>3. p >= q
  <2>1. SUFFICES ASSUME p < q PROVE FALSE
      OBVIOUS
  <2>2. (q - p) * u > 0
      BY <2>1
  <2> QED
      BY <1>1, <2>2
<1>4. y < x => p - q >= 1
    BY <1>1, <1>3
<1>5. p - q \in Nat
    BY <1>3
<1>6. p - q >= 1 => (p - q) * u >= u
    BY <1>5
<1> QED
    BY <1>2, <1>4, <1>5, <1>6 DEF Whole

\* Moving the reader by whole frames leaves it on a frame.
LEMMA ConsumeAligned ==
    ASSUME TypeOK, Aligned, NEW n \in Nat, n <= BufUsed, n % unit = 0, BufIncReadp(n),
           UNCHANGED <<size, unit>>
    PROVE  Aligned'
<1>1. size \in Nat /\ readp \in Nat /\ unit \in Nat \ {0} /\ wrap = size
    BY DEF TypeOK
<1>2. Whole(n, unit)
    BY <1>1, WholeRest
<1>3. Whole(readp + n, unit) /\ readp + n \in Nat
    BY <1>1, <1>2, WholeSum DEF Aligned
<1>4. readp + n >= size => Whole(readp + n - size, unit)
    BY <1>1, <1>3, WholeDifference DEF Aligned
<1>5. readp' = IF readp + n >= size THEN readp + n - size ELSE readp + n
    BY <1>1 DEF BufIncReadp, Advance
<1>6. Whole(readp', unit)
    BY <1>3, <1>4, <1>5
<1> QED
    BY <1>6 DEF Aligned

LEMMA AlignedInvariance == TypeOK /\ Aligned /\ [Next]_vars => Aligned'
<1> SUFFICES ASSUME TypeOK, Aligned, [Next]_vars PROVE Aligned'
    OBVIOUS
<1>0. size \in Nat /\ base_size \in Nat /\ unit \in Nat \ {0}
    BY DEF TypeOK
<1>1. ASSUME NEW n \in 0 .. size, NEW s \in [1 .. n -> Byte], Write(s)
      PROVE  Aligned'
    BY <1>1 DEF Write, Aligned
<1>2. ASSUME NEW n \in 0 .. size, Read(n) \/ Skip(n)
      PROVE  Aligned'
  <2>1. n \in Nat /\ n <= BufUsed /\ n % unit = 0 /\ BufIncReadp(n) /\ UNCHANGED <<size, unit>>
      BY <1>0, <1>2, Measures DEF Read, Skip, Smaller
  <2> QED
      BY <2>1, ConsumeAligned
<1>3. CASE BufFlush
    BY <1>0, <1>3, WholeNone DEF BufFlush, Rewind, Aligned
<1>4. ASSUME NEW m \in Mods, BufAdjust(m)
      PROVE  Aligned'
  <2>1. m \in Nat \ {0}
      OBVIOUS
  <2>2. base_size \div m \in Nat
      BY <1>0, <2>1
  <2>3. Whole((base_size \div m) * m, m)
      BY <2>2 DEF Whole
  <2> QED
      BY <1>4, <2>1, <2>3, WholeNone DEF BufAdjust, Rewind, Aligned
<1>5. CASE Resize
  <2>1. PICK n \in NewSizes : BufResize(n)
      BY <1>5 DEF Resize
  <2>2. size' \in Nat /\ unit' = 1 /\ readp' = 0
      BY <1>0, <2>1 DEF BufResize, Rewind
  <2> QED
      BY <2>2, WholeOne DEF Aligned
<1>6. CASE UNCHANGED vars
    BY <1>6 DEF vars, Aligned
<1> QED
    BY <1>1, <1>2, <1>3, <1>4, <1>5, <1>6 DEF Next

\* buf_adjust's promise: once a whole frame is in the buffer it can be read in one
\* piece, for every frame size, size of the buffer and place of the writer.
THEOREM FramesAreWhole == Spec => []FrameNeverStraddles
<1>1. Init => Aligned
    BY WholeOne, WholeNone DEF Init, Aligned
<1>2. TypeOK /\ Aligned => FrameNeverStraddles
  <2> SUFFICES ASSUME TypeOK, Aligned, BufUsed >= unit PROVE BufContRead >= unit
      BY DEF FrameNeverStraddles
  <2>1. CASE writep >= readp
      BY <2>1 DEF BufUsed, BufContRead
  <2>2. CASE writep < readp
    <3>1. size \in Nat /\ readp \in Nat /\ writep \in Nat /\ unit \in Nat \ {0}
          /\ readp < size /\ wrap = size
        BY <2>2 DEF TypeOK
    <3>2. size - readp >= unit
        BY <3>1, WholeDifference DEF Aligned
    <3> QED
        BY <2>2, <3>1, <3>2 DEF BufContRead
  <2> QED
      BY <2>1, <2>2 DEF TypeOK
<1> QED
    BY <1>1, <1>2, AlignedInvariance, TypeCorrect, PTL DEF Spec

------------------------------------------------------------------------------
(* The circular buffer is a queue *)

\* Contents is the sequence its definition suggests.
ContentsOK == /\ Contents \in Seq(Byte)
              /\ Len(Contents) = BufUsed
              /\ \A i \in 1 .. BufUsed : Contents[i] = mem[Slot(i - 1)]

LEMMA ContentsType == IInv => BufUsed \in Nat /\ ContentsOK
<1> SUFFICES ASSUME IInv PROVE BufUsed \in Nat /\ ContentsOK
    OBVIOUS
<1>1. BufUsed \in Nat
    BY Measures DEF IInv
<1>2. ASSUME NEW i \in 1 .. BufUsed
      PROVE  mem[Slot(i - 1)] \in Byte
    BY <1>1 DEF IInv, NoJunk
<1>3. Contents \in [1 .. BufUsed -> Byte]
    BY <1>2 DEF Contents
<1> QED
    BY <1>1, <1>3 DEF Contents, ContentsOK

LEMMA ContentsTypeNext == (IInv => BufUsed \in Nat /\ ContentsOK)'
BY ContentsType, PTL

\* Consuming n bytes drops the first n of the contents.
LEMMA ConsumeDrops ==
    ASSUME IInv, IInv', NEW n \in Nat, n <= BufUsed, BufIncReadp(n),
           UNCHANGED <<mem, writep, wrap, size, base_size, unit>>
    PROVE  Contents' = SubSeq(Contents, n + 1, Len(Contents))
<1>0. out' \in Seq(Byte)
    BY DEF IInv, TypeOK
<1>1. /\ BufUsed \in Nat /\ BufUsed' = BufUsed - n
      /\ \A i \in 0 .. BufUsed - n - 1 : Slot(i)' = Slot(i + n)
    BY <1>0, Measures, ConsumeKeeps DEF IInv
<1>2. ContentsOK /\ ContentsOK'
    BY ContentsType, ContentsTypeNext
<1>3. \A i \in n + 1 .. BufUsed : Contents[i] \in Byte
    BY <1>1, <1>2, ElementOfSeq DEF ContentsOK
<1>4. /\ SubSeq(Contents, n + 1, BufUsed) \in Seq(Byte)
      /\ Len(SubSeq(Contents, n + 1, BufUsed)) = BufUsed - n
      /\ \A i \in 1 .. BufUsed - n :
            SubSeq(Contents, n + 1, BufUsed)[i] = Contents[n + i]
  <2>1. BufUsed - (n + 1) + 1 = BufUsed - n
        /\ \A i \in Nat : (n + 1) + i - 1 = n + i
      BY <1>1
  <2> QED
      BY <1>1, <1>3, <2>1, SubSeqProperties
<1>5. ASSUME NEW i \in 1 .. BufUsed - n
      PROVE  Contents'[i] = Contents[n + i]
  <2>1. i - 1 \in 0 .. BufUsed - n - 1 /\ n + i \in 1 .. BufUsed
        /\ (i - 1) + n = (n + i) - 1
      BY <1>1
  <2>2. Slot(i - 1)' = Slot((n + i) - 1)
      BY <1>1, <2>1
  <2>3. Contents[n + i] = mem[Slot((n + i) - 1)]
      BY <1>2, <2>1 DEF ContentsOK
  <2>4. Contents'[i] = mem'[Slot(i - 1)']
      BY <1>1, <1>2 DEF ContentsOK
  <2> QED
      BY <2>2, <2>3, <2>4
<1>6. Contents' \in Seq(Byte) /\ Len(Contents') = BufUsed - n
    BY <1>1, <1>2 DEF ContentsOK
<1>7. Len(Contents) = BufUsed
    BY <1>2 DEF ContentsOK
<1> QED
    BY <1>4, <1>5, <1>6, <1>7, SeqEqual

\* What a read returns is the front of the contents.
LEMMA ReadTakes ==
    ASSUME IInv, IInv', NEW n \in Nat, Read(n)
    PROVE  out' = SubSeq(Contents, 1, n)
<1>1. n <= BufUsed /\ n <= BufContRead /\ BufUsed \in Nat
    BY Measures DEF IInv, Read, Smaller
<1>2. out' = [i \in 1 .. n |-> mem[readp + i - 1]] /\ out' \in Seq(Byte)
    BY DEF Read, IInv, TypeOK
<1>3. ContentsOK
    BY ContentsType
<1>4. \A i \in 1 .. n : Contents[i] \in Byte
    BY <1>1, <1>3, ElementOfSeq DEF ContentsOK
<1>5. /\ SubSeq(Contents, 1, n) \in Seq(Byte)
      /\ Len(SubSeq(Contents, 1, n)) = n
      /\ \A i \in 1 .. n : SubSeq(Contents, 1, n)[i] = Contents[i]
    BY <1>4, SubSeqProperties
<1>6. \A i \in 1 .. n : Contents[i] = out'[i]
    BY <1>1, <1>2, <1>3, ReadSees DEF ContentsOK
<1>7. Len(out') = n
    BY <1>2
<1> QED
    BY <1>2, <1>5, <1>6, <1>7, SeqEqual

LEMMA WritePuts ==
    ASSUME IInv, IInv', NEW n \in Nat, NEW s \in [1 .. n -> Byte], Write(s)
    PROVE  F!Put
<1>1. /\ BufUsed \in Nat /\ BufUsed' = BufUsed + n
      /\ \A i \in 0 .. BufUsed - 1 : mem'[Slot(i)'] = mem[Slot(i)]
    BY Measures, WriteKeeps DEF IInv
<1>2. Contents \in Seq(Byte) /\ Len(Contents) = BufUsed
      /\ \A i \in 1 .. BufUsed : Contents[i] = mem[Slot(i - 1)]
    BY ContentsType DEF ContentsOK
<1>3. Contents' \in Seq(Byte) /\ Len(Contents') = BufUsed'
      /\ \A i \in 1 .. BufUsed' : Contents'[i] = mem'[Slot(i - 1)']
    BY ContentsTypeNext DEF ContentsOK
<1>4. SubSeq(Contents', 1, BufUsed) = Contents
  <2>1. \A i \in 1 .. BufUsed : Contents'[i] = Contents[i]
      BY <1>1, <1>2, <1>3
  <2>2. \A i \in 1 .. BufUsed : Contents'[i] \in Byte
      BY <2>1, <1>2, ElementOfSeq
  <2>3. /\ SubSeq(Contents', 1, BufUsed) \in Seq(Byte)
        /\ Len(SubSeq(Contents', 1, BufUsed)) = BufUsed
        /\ \A i \in 1 .. BufUsed : SubSeq(Contents', 1, BufUsed)[i] = Contents'[i]
      BY <1>1, <2>2, SubSeqProperties
  <2> QED
      BY <1>2, <2>1, <2>3, SeqEqual
<1>5. out' = out
    BY DEF Write
<1> QED
    BY <1>1, <1>2, <1>3, <1>4, <1>5 DEF F!Put

LEMMA RewindClears ==
    ASSUME Rewind
    PROVE  Contents' = << >>
BY RewindEmpties DEF Contents

\* Every step of the buffer is a step of the queue, or changes neither.
LEMMA StepRefines == IInv /\ IInv' /\ [Next]_vars => [F!FifoNext]_(F!fifoVars)
<1> SUFFICES ASSUME IInv, IInv', [Next]_vars
             PROVE  [F!FifoNext]_(F!fifoVars)
    OBVIOUS
<1>0. BufUsed \in Nat /\ size \in Nat /\ Len(Contents) = BufUsed
    BY ContentsType DEF ContentsOK, IInv, TypeOK
<1>1. ASSUME NEW n \in 0 .. size, NEW s \in [1 .. n -> Byte], Write(s)
      PROVE  F!FifoNext
  <2>1. n \in Nat
      BY <1>0
  <2> QED
      BY <1>1, <2>1, WritePuts DEF F!FifoNext
<1>2. ASSUME NEW n \in 0 .. size, Read(n) \/ Skip(n)
      PROVE  F!FifoNext
  <2>1. /\ n \in Nat /\ n <= BufUsed /\ BufIncReadp(n)
        /\ UNCHANGED <<mem, writep, wrap, size, base_size, unit>>
      BY <1>0, <1>2, Measures DEF IInv, Read, Skip, Smaller
  <2>2. Contents' = SubSeq(Contents, n + 1, Len(Contents))
      BY <2>1, ConsumeDrops
  <2>3. n \in 0 .. Len(Contents)
      BY <1>0, <2>1
  <2>4. CASE Read(n)
    <3>1. F!Take(n)
        BY <2>1, <2>2, <2>4, ReadTakes DEF F!Take
    <3> QED
        BY <2>3, <3>1 DEF F!FifoNext
  <2>5. CASE Skip(n)
    <3>1. F!Drop(n)
        BY <2>2, <2>5 DEF F!Drop, Skip
    <3> QED
        BY <2>3, <3>1 DEF F!FifoNext
  <2> QED
      BY <1>2, <2>4, <2>5
<1>3. CASE BufFlush
    BY <1>3, RewindClears DEF BufFlush, F!FifoNext, F!Clear
<1>4. ASSUME NEW m \in Mods, BufAdjust(m)
      PROVE  F!FifoNext
    BY <1>4, RewindClears DEF BufAdjust, F!FifoNext, F!Clear
<1>5. CASE Resize
    BY <1>5, RewindClears DEF Resize, BufResize, F!FifoNext, F!Clear
<1>6. CASE UNCHANGED vars
    BY <1>6 DEF vars, F!fifoVars, Contents, BufUsed, Slot
<1> QED
    BY <1>1, <1>2, <1>3, <1>4, <1>5, <1>6 DEF Next

\* A struct buffer is a first-in first-out queue of bytes: what is read is what
\* was written, in order, each byte once, and a flush, an adjustment or a
\* resize empties it.
THEOREM BufferIsQueue == Spec => ImplementsFifo
<1>1. Init => F!FifoInit
    BY DEF Init, F!FifoInit, Contents, BufUsed
<1> QED
    BY <1>1, StepRefines, Invariant, PTL DEF Spec, ImplementsFifo, F!FifoSpec
=============================================================================
