-------------------------------- MODULE Dsd --------------------------------
(****************************************************************************)
(* dsd.c: dsf, whose audio comes in a block per channel, and dff, whose audio *)
(* comes in frames. `file.atoms' are the chunks of the header up to and with  *)
(* the one before the audio; `file.audio' is the length the header gives:     *)
(* bytes of one channel (dsf), of all (dff). S and O are held from the call   *)
(* to its end; the loop over the chunks is the steps at pc "header", which    *)
(* works on the bytes that were in one piece at its start. A dsf frame is one *)
(* byte of each channel, as for PCM and DSD_U8.                               *)
(****************************************************************************)
EXTENDS Codec, Functions

CONSTANTS Magic,        \* bytes looked at for the type of the file (4)
          ChunkHead     \* and for a chunk (16)

DsdKinds == {"dsf", "dff"}

\* dsd_open clears the type only: what an earlier stream still had to skip stays.
DsdInit(stale) == [type |-> FALSE, consume |-> stale, left |-> 0, bytes |-> 0]

ChunkAt(p) == {a \in Range(file.atoms) : a.at = p}

DsdCall ==
    /\ Called(DsdKinds)
    /\ LET n == Least(c.consume, Cont)
       IN  IF (ended /\ Used = 0) \/ (~new_stream /\ c.left = 0)
           THEN /\ Returns("COMPLETE")
                /\ Stays
                /\ UNCHANGED c
           ELSE /\ Consumed(n)
                /\ c' = [c EXCEPT !.consume = @ - n,
                             !.bytes = Least(Used - n, Size - ((rd + n) % Size))]
                /\ IF c.consume > n THEN Returns("RUNNING")
                   ELSE /\ pc' = IF new_stream THEN "header" ELSE "samples"
                        /\ UNCHANGED state
    /\ Look
    /\ UNCHANGED <<stream, new_stream, out, lost>>

------------------------------------------------------------------------------
(* _read_header *)

\* A header that is not complete yet (0) is an error like a bad one (-1):
\* dsd_decode tests r < 1 before it tests r == 0.
HeaderLater == Returns("ERROR")

\* Of a chunk that is passed over in part, what is left.
RestOf(a, bytes) == a.size - bytes

Chunk(a) ==
    IF a.name = "audio"                           \* "DSD " or "data"
    THEN /\ Consumed(a.size)
         /\ c' = [c EXCEPT !.type = TRUE, !.bytes = @ - a.size,
                           !.left = file.audio]
         /\ StartsTrack
         /\ pc' = "samples"
         /\ UNCHANGED state
    ELSE /\ UNCHANGED new_stream
         /\ IF c.bytes >= a.size
            THEN /\ Consumed(a.size)
                 /\ c' = [c EXCEPT !.type = TRUE, !.bytes = @ - a.size]
                 /\ UNCHANGED <<state, pc>>
            ELSE /\ HeaderLater
                 /\ IF a.name = "fmt"             \* come back later
                    THEN /\ Stays
                         /\ c' = [c EXCEPT !.type = TRUE]
                    ELSE /\ Consumed(c.bytes)
                         /\ c' = [c EXCEPT !.type = TRUE,
                                           !.consume = RestOf(a, c.bytes)]

\* At a position where no chunk starts, because of what dsd_open left, there is
\* no type; a stream whose first bytes have not come has none yet.
dsd_read_header ==
    /\ pc = "header" /\ file.kind \in DsdKinds
    /\ \/ /\ c.bytes < ChunkHead
          /\ HeaderLater
          /\ Stays
          /\ UNCHANGED <<new_stream, c>>
       \/ /\ c.bytes >= ChunkHead
          /\ \E a \in ChunkAt(pos) : Chunk(a)
       \/ /\ c.bytes >= Magic /\ ChunkAt(pos) = {}
          /\ Returns("ERROR")
          /\ Stays
          /\ UNCHANGED <<new_stream, c>>
    /\ Look
    /\ UNCHANGED <<stream, out, lost>>

------------------------------------------------------------------------------
(* _decode_dsf, _decode_dsdiff *)

Fewer(left, n) == IF left > n THEN left - n ELSE 0

\* The zeros that may end the last block, when the length in the header is too long;
\* a block is taken for the last one when nothing behind it has arrived.
Padding == IF Used = file.block * file.channels /\ c.left > Used
           THEN 0 .. file.block - 1 ELSE {0}

\* One block of each channel, to the end of the samples; the blocks of the
\* channels after the second are passed over as they arrive.
DsfBlock ==
    /\ pc = "samples" /\ file.kind = "dsf"
    /\ \E padding \in Padding :
       LET n == Least(file.block - padding, c.left)
       IN  IF Used < file.block * file.channels
           THEN /\ Returns("COMPLETE")            \* stream too short
                /\ Stays
                /\ UNCHANGED <<c, out>>
           ELSE /\ Returns("RUNNING")
                /\ Consumed(n + padding + (IF file.channels > 1 THEN file.block ELSE 0))
                /\ c' = [c EXCEPT !.left = Fewer(@, n),
                             !.consume = IF file.channels > 2
                                         THEN file.block * (file.channels - 2) ELSE @]
                /\ out' = out + 1
    /\ Look
    /\ UNCHANGED <<stream, new_stream, lost>>

\* The bytes of a frame that does not lie in one piece: all of it if more than a
\* frame is there, otherwise what lies before the wrap, filled with silence. It
\* may be the start of a frame whose rest is just after the wrap or on its way.
Straddles(bytes) == IF Used > file.bpf THEN file.bpf ELSE bytes

DffFrames ==
    /\ pc = "samples" /\ file.kind = "dff"
    /\ \E room \in 1 .. Burst :
       LET n     == Least(Least(Cont, c.left) \div file.bpf, room)
           split == n = 0 /\ Cont < file.bpf
           size  == IF split THEN Straddles(Cont) ELSE n * file.bpf
       IN  /\ Returns("RUNNING")
           /\ Consumed(size)
           /\ c' = [c EXCEPT !.left = Fewer(@, size)]
           /\ out' = out + (IF split THEN 1 ELSE n)
           /\ lost' = IF size < file.bpf /\ c.left >= file.bpf
                      THEN lost \cup {"frame"} ELSE lost
    /\ Look
    /\ UNCHANGED <<stream, new_stream>>

DsdStep == DsdCall \/ dsd_read_header \/ DsfBlock \/ DffFrames

------------------------------------------------------------------------------
(* For the properties. *)

DsdNext == file.head + out * (IF file.kind = "dsf" THEN file.block * file.channels
                                                   ELSE file.bpf)

\* What dsd_open left of an earlier stream is passed over in this one.
DsdMissed == file.kind \in DsdKinds /\ file.stale > 0

\* The header was not there in full in the first call, which has to read all of it
\* (dsd.c:756): it is longer than what the codec waits for, or than streambuf.
DsdHeaderLong == file.kind \in DsdKinds /\ new_stream /\ pos + seen < file.head

\* The announced length ends in the middle of a frame and other chunks follow.
DsdStuck == file.kind = "dff" /\ 0 < c.left /\ c.left < file.bpf /\ Cont >= file.bpf
==============================================================================
