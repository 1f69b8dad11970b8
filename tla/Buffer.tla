------------------------------- MODULE Buffer -------------------------------
(***************************************************************************)
(* struct buffer of buffer.c: the circular buffer between the stream       *)
(* thread and the decoder (streambuf) and between the decoder and the      *)
(* output thread (outputbuf).  Pointers are offsets from buf->buf; every   *)
(* operation runs with buf->mutex held, so one operation is one step.      *)
(*                                                                         *)
(* mem holds what the allocation holds; bytes nobody wrote are Junk, which *)
(* is no Byte, so reading one is visible.  unit is a history variable: the *)
(* mod of the last buf_adjust, the frame a reader then reads in multiples. *)
(***************************************************************************)
EXTENDS Sequences, Integers

CONSTANTS Byte,       \* the values a byte can have
          Junk,       \* the content of memory nobody wrote
          InitSize,   \* the size given to buf_init
          Mods,       \* what buf_adjust is called with (streambuf)
          NewSizes,   \* what _buf_resize is called with (outputbuf)
          UMod        \* UINT_MAX + 1

ASSUME BufferAssumption ==
    /\ Junk \notin Byte
    /\ InitSize \in Nat \ {0}
    /\ Mods \subseteq Nat \ {0}
    /\ NewSizes \subseteq Nat
    /\ UMod \in Nat
    /\ InitSize < UMod
    /\ \A n \in NewSizes : n < UMod

VARIABLES mem, readp, writep, wrap, size, base_size, unit, out

vars == <<mem, readp, writep, wrap, size, base_size, unit, out>>

Smaller(a, b) == IF a < b THEN a ELSE b

\* C's conversion of a (possibly negative) int to unsigned.
Unsigned(n) == IF n < 0 THEN n + UMod ELSE n

------------------------------------------------------------------------------
(* The four measurements *)

BufUsed == IF writep >= readp THEN writep - readp
                              ELSE size - (readp - writep)

BufSpace == Unsigned(size - BufUsed - 1)

BufContRead == IF writep >= readp THEN writep - readp ELSE wrap - readp

\* Mutant: the run written in place is not cut at the wrap.
WriteAcrossWrap == BufSpace

BufContWrite == IF writep >= readp THEN wrap - writep ELSE readp - writep

------------------------------------------------------------------------------
(* The two pointer moves *)

Advance(p, by) == IF p + by >= wrap THEN p + by - size ELSE p + by

BufIncReadp(by) == readp' = Advance(readp, by)

BufIncWritep(by) == writep' = Advance(writep, by)

\* Fresh memory from malloc(n).
Malloc(n) == [i \in 0 .. n - 1 |-> Junk]

\* Mutant: the reader is left where it was.
RewindWriter == readp' = readp /\ writep' = 0

Rewind == readp' = 0 /\ writep' = 0

------------------------------------------------------------------------------
(* The operations *)

Init == /\ mem = Malloc(InitSize)
        /\ readp = 0 /\ writep = 0
        /\ wrap = InitSize /\ size = InitSize /\ base_size = InitSize
        /\ unit = 1 /\ out = << >>

\* A writer fetches s into the contiguous free run at writep, then advances:
\* stream_thread's read or recv, a decoder's or the resampler's output.
Write(s) ==
    /\ Len(s) <= Smaller(BufSpace, BufContWrite)
    /\ mem' = [i \in DOMAIN mem |-> IF i \in writep .. writep + Len(s) - 1
                                    THEN s[i - writep + 1] ELSE mem[i]]
    /\ BufIncWritep(Len(s))
    /\ UNCHANGED <<readp, wrap, size, base_size, unit, out>>

\* A reader uses n bytes in place at readp, whole frames of them, then advances.
Read(n) ==
    /\ n <= Smaller(BufUsed, BufContRead)
    /\ n % unit = 0
    /\ out' = [i \in 1 .. n |-> mem[readp + i - 1]]
    /\ BufIncReadp(n)
    /\ UNCHANGED <<mem, writep, wrap, size, base_size, unit>>

\* A reader discards n bytes, possibly across the wrap, without looking at them.
Skip(n) ==
    /\ n <= BufUsed
    /\ n % unit = 0
    /\ BufIncReadp(n)
    /\ UNCHANGED <<mem, writep, wrap, size, base_size, unit, out>>

BufFlush ==
    /\ Rewind
    /\ UNCHANGED <<mem, wrap, size, base_size, unit, out>>

\* Mutant: the size is not rounded down to whole frames.
AdjustUnrounded(mod) ==
    /\ size' = base_size
    /\ wrap' = size'
    /\ Rewind
    /\ unit' = mod
    /\ UNCHANGED <<mem, base_size, out>>

BufAdjust(mod) ==
    /\ size' = (base_size \div mod) * mod
    /\ wrap' = size'
    /\ Rewind
    /\ unit' = mod
    /\ UNCHANGED <<mem, base_size, out>>

\* malloc of the new size, else of the old one, else nothing at all.
BufResize(n) ==
    /\ size' \in {n, size, 0}
    /\ mem' = Malloc(size')
    /\ Rewind
    /\ wrap' = size' /\ base_size' = size'
    /\ unit' = 1
    /\ out' = out

\* _checkfade resizes an empty output buffer that has the default size.
Resize == /\ BufUsed = 0 /\ readp = 0 /\ size = InitSize
          /\ \E n \in NewSizes : BufResize(n)

Next == \/ \E n \in 0 .. size : \E s \in [1 .. n -> Byte] : Write(s)
        \/ \E n \in 0 .. size : Read(n) \/ Skip(n)
        \/ BufFlush
        \/ \E m \in Mods : BufAdjust(m)
        \/ Resize

Spec == Init /\ [][Next]_vars

------------------------------------------------------------------------------
(* Properties *)

\* Where the i-th unread byte (from 0) lies.
Slot(i) == IF readp + i >= size THEN readp + i - size ELSE readp + i

\* The unread bytes, oldest first.
Contents == [i \in 1 .. BufUsed |-> mem[Slot(i - 1)]]

\* The types of the fields; both pointers stay inside the allocation, and the
\* end of the region in use is never beyond the end of the allocation.
TypeOK ==
    /\ size \in Nat /\ base_size \in Nat /\ size <= base_size /\ base_size < UMod
    /\ wrap = size
    /\ mem \in [0 .. base_size - 1 -> Byte \cup {Junk}]
    /\ readp \in Nat /\ writep \in Nat
    /\ size > 0 => readp < size /\ writep < size
    /\ size = 0 => readp = 0 /\ writep = 0
    /\ unit \in Nat \ {0}
    /\ out \in Seq(Byte)

\* Everything between the pointers was written: no reader sees the allocator's
\* leftovers, however flushes, adjustments and resizes interleave with writes.
NoJunk == \A i \in 0 .. BufUsed - 1 : mem[Slot(i)] \in Byte

\* A writer with room can write at least one byte in place, a reader with data
\* can read one: the loops that fill the output buffer chunk by chunk
\* (`while (frames > 0)` in mad.c and the other decoders) make progress.
\* A buffer that lost its memory in a failed resize is excluded: there
\* _buf_space wraps around while no byte can be written.
Progress ==
    size > 0 => /\ BufSpace > 0 => Smaller(BufSpace, BufContWrite) > 0
                /\ BufUsed > 0 => Smaller(BufUsed, BufContRead) > 0

\* No contiguous run a writer may use reaches a byte that is still unread or
\* ends beyond the allocation, also when size has become 0.
WritesFit ==
    LET n == Smaller(BufSpace, BufContWrite)
    IN  /\ writep + n <= base_size
        /\ \A i \in 0 .. BufUsed - 1 : Slot(i) \notin writep .. writep + n - 1

\* What a loop that fills or empties the buffer in place relies on: it advances, and
\* nothing it writes lands on an unread byte or beyond the memory.
LoopsWork == Progress /\ WritesFit

\* buf_adjust's purpose (buffer.c:70): "reading in multiple always wraps on
\* frame boundary", so a whole frame in the buffer can be read in one piece.
FrameNeverStraddles == BufUsed >= unit => BufContRead >= unit

\* The buffer is a first-in first-out queue.
F == INSTANCE Fifo WITH queue <- Contents
ImplementsFifo == F!FifoSpec
=============================================================================
