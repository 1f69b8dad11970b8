-------------------------------- MODULE Fifo --------------------------------
(***************************************************************************)
(* What a struct buffer promises its users: a first-in first-out queue of  *)
(* bytes.  A writer puts a run of bytes at the end, a reader takes a run   *)
(* from the front (and sees exactly those bytes) or drops one unread, a    *)
(* flush empties the queue.  Nothing here knows about pointers; Buffer.tla *)
(* implements this specification.                                          *)
(***************************************************************************)
EXTENDS Sequences, Integers

CONSTANT Byte     \* the values a byte can have

VARIABLES queue,  \* the bytes held, oldest first
          out     \* the run of bytes the last read returned

fifoVars == <<queue, out>>

FifoInit == queue = << >> /\ out = << >>

Put == /\ queue' \in Seq(Byte)
       /\ Len(queue') >= Len(queue)
       /\ SubSeq(queue', 1, Len(queue)) = queue
       /\ out' = out

Take(n) == /\ out' = SubSeq(queue, 1, n)
           /\ queue' = SubSeq(queue, n + 1, Len(queue))

Drop(n) == /\ queue' = SubSeq(queue, n + 1, Len(queue))
           /\ out' = out

Clear == queue' = << >> /\ out' = out

FifoNext == \/ Put
            \/ \E n \in 0 .. Len(queue) : Take(n) \/ Drop(n)
            \/ Clear

FifoSpec == FifoInit /\ [][FifoNext]_fifoVars
=============================================================================
