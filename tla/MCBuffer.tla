------------------------------ MODULE MCBuffer ------------------------------
(***************************************************************************)
(* Buffer, and _buf_unwrap on every content it can come to: the mp4 parsers  *)
(* call it at any time for an atom that is longer than what lies in one      *)
(* piece and not longer than the buffer.                                   *)
(***************************************************************************)
EXTENDS Buffer

U == INSTANCE BufferUnwrap WITH Size <- size

Unwraps == [cont : (IF size = 0 THEN 1 ELSE BufContRead + 1) .. size, scratch : BOOLEAN]

\* A call made of defined memory operations loses, duplicates and reorders no
\* unread byte, through the direct move, the scratch zone and the recursion.
ContentsKept(b, c) == ~c.ub => U!Unread(c) = U!Unread(b)

\* Unread bytes that lie in one piece are always moved far enough up for n
\* bytes to follow the read pointer, and by defined operations only.
RoomAbove(b, c, n) == (n < size /\ b.wp >= b.rp) => ~c.ub /\ c.rp + n <= size

\* What _buf_unwrap can be relied on for, wherever the pointers came to stand and
\* whatever frame length or size the buffer was given before.
UnwrapWorks ==
    LET b == U!Numbered(readp, writep)
    IN  \A u \in Unwraps : LET c == U!Unwrap(b, u.cont, u.scratch)
                           IN  ContentsKept(b, c) /\ RoomAbove(b, c, u.cont)

\* What both callers rely on (alac.c:308, faad.c:317: "make sure there is 'len'
\* contiguous space"), also when the unread bytes wrap.
Contiguous ==
    LET b == U!Numbered(readp, writep)
    IN  \A u \in Unwraps : LET c == U!Unwrap(b, u.cont, u.scratch)
                           IN  u.cont < size => ~c.ub /\ c.rp + u.cont <= size
=============================================================================
