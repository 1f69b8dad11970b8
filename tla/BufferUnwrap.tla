---------------------------- MODULE BufferUnwrap ----------------------------
(***************************************************************************)
(* _buf_unwrap of buffer.c: shift the unread bytes of a circular buffer    *)
(* down so that `cont' bytes from the read pointer on lie in one piece.    *)
(* The mp4 parsers of alac.c and faad.c call it on streambuf when an atom  *)
(* they must see whole does not lie in one piece yet.                      *)
(*                                                                         *)
(* A buffer is a record: m its memory (from 0), rp and wp the pointers as  *)
(* offsets, ub whether a memcpy or memmove was called with arguments C     *)
(* leaves undefined.  size_t arithmetic matters: `size' is unsigned in the *)
(* code, so its test size <= 0 holds only for 0, and a negative overlap is *)
(* a huge malloc, which fails.  `scratch' says whether a small one succeeds. *)
(***************************************************************************)
EXTENDS Integers, Sequences

CONSTANT Size     \* buf->size

Least(x, y) == IF x < y THEN x ELSE y

\* A buffer with these pointers whose unread bytes are numbered from 1.
Numbered(rp, wp) ==
    [rp |-> rp, wp |-> wp, ub |-> FALSE,
     m |-> [i \in 0 .. Size - 1 |-> LET k == (i - rp) % Size
                                    IN  IF k < (wp - rp) % Size THEN k + 1 ELSE 0]]

Used(c) == IF c.wp >= c.rp THEN c.wp - c.rp ELSE Size - (c.rp - c.wp)
ContRead(c) == IF c.wp >= c.rp THEN c.wp - c.rp ELSE Size - c.rp
Unread(c) == [i \in 1 .. Used(c) |-> c.m[(c.rp + i - 1) % Size]]

------------------------------------------------------------------------------
\* n bytes from src to dst, overlapping allowed; a negative n is undefined.
Memmove(c, dst, src, n) ==
    IF n < 0 \/ c.ub THEN [c EXCEPT !.ub = TRUE]
    ELSE [c EXCEPT !.m = [i \in DOMAIN c.m |->
             IF i \in dst .. dst + n - 1 THEN c.m[src + i - dst] ELSE c.m[i]]]

\* The same, undefined also when the two regions overlap.
Memcpy(c, dst, src, n) ==
    IF n > 0 /\ dst < src + n /\ src < dst + n
    THEN [c EXCEPT !.ub = TRUE]
    ELSE Memmove(c, dst, src, n)

\* The data lies in one piece already: move it up.
MoveUp(c, by) ==
    LET d == Memmove(c, c.rp - by, c.rp, c.wp - c.rp)
    IN  [d EXCEPT !.rp = c.rp - by, !.wp = c.wp - by]

\* The free gap takes the shift: move the upper part down, refill its end from
\* the bottom of the buffer, close up the rest.
Direct(c, by) ==
    LET len == c.wp
        d1 == Memmove(c, c.rp - by, c.rp, Size - c.rp)
        d2 == Memcpy(d1, Size - by, 0, Least(len, by))
        d3 == Memmove(d2, 0, by, len - by)
    IN  IF len > by THEN [d3 EXCEPT !.rp = c.rp - by, !.wp = c.wp - by]
                    ELSE [d2 EXCEPT !.rp = c.rp - by, !.wp = c.wp + Size - by]

\* Mutant: the saved bytes are put back at the old write pointer.
ViaScratchLate(c, by, size) ==
    LET len == c.wp
        d1 == Memmove(c, c.rp - by, c.rp, Size - c.rp)
        d2 == Memcpy(d1, Size - by, 0, by)
        d3 == Memmove(d2, 0, by, len - by - size)
    IN  [d3 EXCEPT !.rp = c.rp - by, !.wp = c.wp - by,
            !.m = [i \in DOMAIN c.m |->
                     IF i \in c.wp - size .. c.wp - 1 THEN c.m[i] ELSE d3.m[i]]]

\* The shift overwrites `size' bytes below the write pointer: save them first.
ViaScratch(c, by, size) ==
    LET len == c.wp
        d1 == Memmove(c, c.rp - by, c.rp, Size - c.rp)
        d2 == Memcpy(d1, Size - by, 0, by)
        d3 == Memmove(d2, 0, by, len - by - size)
        wp == c.wp - by
    IN  [d3 EXCEPT !.rp = c.rp - by, !.wp = wp,
            !.m = [i \in DOMAIN c.m |->
                     IF i \in wp - size .. wp - 1 THEN c.m[i + by] ELSE d3.m[i]]]

RECURSIVE Unwrap(_, _, _)
Unwrap(c, n, scratch) ==
    LET by   == n - (Size - c.rp)
        size == by - (c.rp - c.wp)
    IN  IF by <= 0 \/ n >= Size \/ c.ub THEN c
        ELSE IF c.wp >= c.rp THEN MoveUp(c, by)
        ELSE IF size = 0 THEN Direct(c, by)
        ELSE IF size > 0 /\ scratch THEN ViaScratch(c, by, size)
        ELSE \* malloc failed: of a small zone, or of a negative size
             Unwrap(Unwrap(c, n \div 2, scratch), n - n \div 2, scratch)
=============================================================================
