-------------------------------- MODULE Mp4 --------------------------------
(****************************************************************************)
(* alac.c and faad.c: the two codecs that read an mp4 file, and faad.c on an  *)
(* adts stream. `file.atoms' are the atoms in the order they are met (a       *)
(* container counts for the bytes the parser steps over to read into it),     *)
(* each with its name, its first byte and its size; `config' stands for the   *)
(* atom with the decoder's configuration, esds or alac. `file.samples' are    *)
(* the blocks of the decoder and `file.chunks' the runs they lie in: first    *)
(* byte, and number of samples before. `file.fixed' says that stsz gives one  *)
(* size for all blocks. Allocations succeed.                                  *)
(*                                                                            *)
(* S is held from the call to its end: the loops over the atoms and the       *)
(* decoding of one sample are steps at pc "header" and "samples".              *)
(****************************************************************************)
EXTENDS Codec, Functions

CONSTANT AtomHead   \* bytes of an atom's header (8)

Mp4Kinds == {"alac", "faad", "adts"}

\* The statics; `stale' is the track an earlier stream left in faad's `play'.
Mp4Init(stale) ==
    [consume |-> 0, bytes |-> 0, trak |-> stale, play |-> stale,
     stsc |-> FALSE, info |-> FALSE, sizes |-> FALSE, sample |-> 0, chunk |-> 0]

\* Atoms whose contents are read, and those that are left until they are whole.
Read  == IF file.kind = "alac" THEN {"config", "stsc", "stco", "stsz"}
                               ELSE {"config", "stsc", "stco"}
Whole == IF file.kind = "alac" THEN {"stts", "stsc", "stco", "stsz"}
                               ELSE {"stts", "stsc", "stco", "config"}

AtomAt(p)   == {a \in Range(file.atoms) : a.at = p}
SampleAt(p) == {s \in Range(file.samples) : s.at = p}

------------------------------------------------------------------------------
(* read_mp4_header *)

\* What an atom tells, if more than its length lies in one piece.
Learns(a) ==
    LET whole == c.bytes > a.size
    IN  CASE a.name = "moov" -> [c EXCEPT !.trak = 0, !.play = 0]
          [] a.name = "trak" -> [c EXCEPT !.trak = @ + 1]
          [] a.name = "config" /\ whole -> [c EXCEPT !.play = c.trak]
          [] a.name = "stsc" /\ whole /\ ~c.info -> [c EXCEPT !.stsc = TRUE]
          [] a.name = "stsz" /\ whole -> [c EXCEPT !.sizes = TRUE]
          [] a.name = "stco" /\ whole /\ c.play = c.trak -> [c EXCEPT !.info = TRUE]
          [] OTHER -> c

Forgotten(a) == IF a.name \in Read /\ c.bytes <= a.size THEN lost \cup {a.name} ELSE lost

\* _buf_unwrap (see BufferUnwrap): where readp is afterwards. A wrapped atom
\* stays where it is while the free gap is larger than the shift.
Unwrapped(n) ==
    LET by      == n - (Size - rd)
        wrapped == rd + Used >= Size
    IN  IF by <= 0 \/ n >= Size \/ (wrapped /\ Size - Used > by) THEN rd ELSE Size - n

\* The start of the media: skip to the first chunk and go on to decode, unless
\* no track can be played.
FoundMedia(a) ==
    LET p   == pos + AtomHead
        gap == IF c.info /\ file.chunks[1].at > p THEN file.chunks[1].at - p ELSE 0
        now == gap <= c.bytes - AtomHead
    IN  /\ Consumed(IF now /\ c.play > 0 THEN AtomHead + gap ELSE AtomHead)
        /\ IF c.play = 0
           THEN /\ Returns("ERROR")
                /\ UNCHANGED <<c, new_stream>>
           ELSE /\ StartsTrack
                /\ c' = [c EXCEPT !.sample = 1, !.chunk = 1,
                                  !.consume = IF now THEN 0 ELSE gap]
                /\ pc' = "samples"
                /\ UNCHANGED state
        /\ UNCHANGED lost

Passes(a) == c.bytes >= a.size

NextAtom(a) ==
    /\ UNCHANGED new_stream
    /\ \/ /\ Passes(a)                          \* parsed, or of no interest
          /\ Consumed(a.size)
          /\ c' = [Learns(a) EXCEPT !.bytes = @ - a.size]
          /\ lost' = Forgotten(a)
          /\ UNCHANGED <<state, pc>>
       \/ /\ ~Passes(a) /\ a.name \notin Whole
          /\ Consumed(c.bytes)
          /\ c' = [Learns(a) EXCEPT !.bytes = 0, !.consume = a.size - c.bytes]
          /\ lost' = Forgotten(a)
          /\ Returns("RUNNING")
       \/ /\ ~Passes(a) /\ a.name \in Whole     \* come back when it is there
          /\ IF a.size > Size
             THEN /\ Returns("ERROR")
                  /\ Stays
             ELSE /\ Returns("RUNNING")
                  /\ rd' = Unwrapped(a.size)
                  /\ UNCHANGED pos
          /\ UNCHANGED <<c, lost>>

read_mp4_header ==
    /\ pc = "header" /\ file.kind \in {"alac", "faad"}
    /\ IF c.bytes < AtomHead
       THEN /\ Returns("RUNNING")
            /\ Stays
            /\ UNCHANGED <<new_stream, c, lost>>
       ELSE \E a \in AtomAt(pos) : IF a.name = "mdat" THEN FoundMedia(a) ELSE NextAtom(a)
    /\ Look
    /\ UNCHANGED <<stream, out>>

\* adts: one byte after the other until the sync word of a frame.
SeekAdts ==
    /\ pc = "header" /\ file.kind = "adts"
    /\ LET n == Least(file.samples[1].at - pos, IF Cont > 1 THEN Cont - 1 ELSE 0)
       IN  /\ Consumed(n)
           /\ IF Cont - n >= 2 THEN /\ StartsTrack
                                    /\ pc' = "samples"
                                    /\ UNCHANGED state
                               ELSE /\ Returns("RUNNING")
                                    /\ UNCHANGED new_stream
    /\ Look
    /\ UNCHANGED <<stream, c, out, lost>>

------------------------------------------------------------------------------
(* alac_decode and faad_decode *)

\* Bytes that were to be passed over and had not arrived: alac takes them round
\* the wrap.
Skips == /\ c.consume > 0
         /\ LET n == Least(c.consume, IF file.kind = "alac" THEN Used ELSE Cont)
            IN  /\ Consumed(n)
                /\ c' = [c EXCEPT !.consume = @ - n]
         /\ Returns("RUNNING")
         /\ UNCHANGED new_stream

Mp4Call ==
    /\ Called(Mp4Kinds)
    /\ \/ /\ file.kind # "alac" /\ ended /\ Used = 0
          /\ Returns("COMPLETE")
          /\ Stays
          /\ UNCHANGED <<c, new_stream>>
       \/ /\ file.kind = "alac" \/ ~(ended /\ Used = 0)
          /\ \/ Skips
             \/ /\ c.consume = 0
                /\ pc' = IF new_stream THEN "header" ELSE "samples"
                /\ c' = [c EXCEPT !.bytes = Cont]
                /\ Stays
                /\ UNCHANGED <<state, new_stream>>
    /\ Look
    /\ UNCHANGED <<stream, out, lost>>

\* The table has another chunk, and this sample was the last one before it.
EndsChunk == /\ c.info /\ c.stsc /\ c.chunk < Len(file.chunks)
             /\ c.sample = file.chunks[c.chunk + 1].before

\* Mutant: the position is taken after the sample, not before it.
SkipAfterSample(size) ==
    LET skip == file.chunks[c.chunk + 1].at - pos
        d    == [c EXCEPT !.chunk = @ + 1, !.sample = @ + 1]
    IN  IF Used >= skip THEN /\ Consumed(skip + size) /\ c' = d
                        ELSE /\ Stays /\ c' = [d EXCEPT !.consume = skip]

\* The sample and the gap to the next chunk are passed over together, now or
\* when they have arrived.
SkipToChunk(size) ==
    LET skip == file.chunks[c.chunk + 1].at - pos
        d    == [c EXCEPT !.chunk = @ + 1, !.sample = @ + 1]
    IN  IF Used >= skip THEN /\ Consumed(skip) /\ c' = d
                        ELSE /\ Stays /\ c' = [d EXCEPT !.consume = skip]

\* After a sample of `size' bytes; 0 when the decoder could not take one.
Advance(size) ==
    IF EndsChunk
    THEN /\ SkipToChunk(size)
         /\ Returns("RUNNING")
    ELSE /\ Consumed(size)
         /\ c' = [c EXCEPT !.sample = @ + 1]
         /\ Returns(IF size > 0 THEN "RUNNING" ELSE "ERROR")

\* alac: the size of the block is known, the same for all or from a table that ends
\* with 0; the block is copied when it wraps.
AlacBlock == IF file.fixed THEN file.samples[1].size
             ELSE IF out < Len(file.samples) THEN file.samples[out + 1].size ELSE 0

AlacSample ==
    /\ pc = "samples" /\ file.kind = "alac"
    /\ IF ~c.sizes                    \* l->block_size is a null pointer
       THEN /\ Returns("CRASHED") /\ Stays /\ UNCHANGED <<c, out>>
       ELSE IF ended /\ (Used = 0 \/ AlacBlock = 0)
       THEN /\ Returns("COMPLETE") /\ Stays /\ UNCHANGED <<c, out>>
       ELSE IF Used < AlacBlock
       THEN /\ Returns("RUNNING") /\ Stays /\ UNCHANGED <<c, out>>
       ELSE IF \E s \in SampleAt(pos) : s.size = AlacBlock
       THEN /\ Advance(AlacBlock) /\ out' = out + 1
       ELSE /\ Returns("ERROR") /\ Stays /\ UNCHANGED <<c, out>>
    /\ Look
    /\ UNCHANGED <<stream, new_stream, lost>>

\* Mutant: the local copy is not made.
WindowInOnePiece == Cont

\* faad: the decoder is shown what lies in one piece, or a copy of WRAPBUF_LEN
\* bytes, which is the codec's minimum too, when less than that lies before the
\* wrap and more than that is there.
Window == IF Cont < MinRead /\ Used > MinRead THEN MinRead ELSE Cont

FaadSample ==
    /\ pc = "samples" /\ file.kind \in {"faad", "adts"}
    /\ LET whole == {s \in SampleAt(pos) : s.size <= Window}
           size  == IF whole = {} THEN 0 ELSE (CHOOSE s \in whole : TRUE).size
       IN  /\ Advance(size)
           /\ out' = IF whole = {} THEN out ELSE out + 1
           \* a frame that fails at the end of a chunk is passed over with it
           /\ lost' = IF whole = {} /\ EndsChunk THEN lost \cup {"frame"} ELSE lost
    /\ Look
    /\ UNCHANGED <<stream, new_stream>>

Mp4Step == Mp4Call \/ read_mp4_header \/ SeekAdts \/ AlacSample \/ FaadSample

------------------------------------------------------------------------------
(* For the properties. *)

Mp4Next == LET last == file.samples[Len(file.samples)]
           IN  IF out < Len(file.samples) THEN file.samples[out + 1].at
                                          ELSE last.at + last.size

\* Where the decoder is shown what is not a frame. faad.c:412 copies a frame that
\* straddles the wrap only when more than WRAPBUF_LEN bytes are there; of less, at
\* the end or just after the header, it sees one piece. And a gap in front of the
\* first chunk that has not arrived is noted (faad.c:250, alac.c:240) but decoding
\* goes on at once.
Blind == \/ file.kind \in {"faad", "adts"} /\ seen <= MinRead
         \/ file.kind \in Mp4Kinds /\ c.consume > 0

\* With one size for all blocks alac does not know the last one: of what follows the
\* media it makes another block, or waits for it.
PastBlocks == file.kind = "alac" /\ file.fixed /\ out = Len(file.samples) /\ Used > 0

\* A header or a block that is waited for never comes when the stream was cut, and
\* faad.c:367 looks for a sync word in one piece only: it stays in front of the
\* wrap.
Mp4Stuck == \/ ended /\ arrived < file.len
            \/ PastBlocks /\ ended /\ Used < AlacBlock
            \/ file.kind = "adts" /\ new_stream /\ Cont = 1
============================================================================
