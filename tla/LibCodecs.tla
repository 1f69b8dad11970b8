----------------------------- MODULE LibCodecs -----------------------------
(****************************************************************************)
(* The codecs that hand bytes to a decoder library: mad.c, mpg.c, flac.c,     *)
(* vorbis.c, opus.c and ffmpeg.c. The library keeps what it was given and     *)
(* makes a frame of it when all of the frame's bytes are there; with          *)
(* `file.bad' it may give up. `file.samples' are the frames (for wma the      *)
(* packets, each behind a chunk header, to be padded to `file.packet').       *)
(*                                                                            *)
(* mad and mpg take their input once a call. The others are called back by    *)
(* the library, with D held and S free in between: flac, vorbis and opus wait *)
(* for bytes, ffmpeg takes an empty streambuf for the end of the file.        *)
(****************************************************************************)
EXTENDS Codec, FiniteSetsExt

CONSTANTS ReadSize,     \* most bytes of one read (READBUF_SIZE, READ_SIZE)
          Id3Head,      \* bytes looked at for an id3 tag (10)
          MmshHead      \* bytes of an mmsh chunk's header (12)

LibKinds == {"mad", "mpg", "flac", "vorbis", "opus", "ffmpeg", "wma"}

LibInit == [tags |-> IF file.kind = "mad" THEN 1 ELSE 0, consume |-> 0,
            meta |-> IF file.kind = "flac" THEN 1 ELSE 0, eos |-> FALSE,
            left |-> 0, pad |-> 0]

EndOf(k) == file.samples[k].at + file.samples[k].size

\* Frames whose bytes have all been given to the library by position p.
FramesAt(p) == Cardinality({k \in DOMAIN file.samples : EndOf(k) <= p})
Available   == FramesAt(pos) > out

\* The library has the header of the stream.
HasHeader == pos >= file.samples[1].at

Gives(n) == out' = out + n
Idle     == UNCHANGED <<out, new_stream>>

------------------------------------------------------------------------------
(* mad_decode and mpg_decode *)

\* An id3 tag at the start is passed over, as it arrives, before anything else.
MadTag == LET d == IF c.tags = 1
                   THEN [c EXCEPT !.tags = 2,
                                  !.consume = IF Cont > Id3Head THEN file.head ELSE 0]
                   ELSE c
              n == Least(d.consume, Cont)
          IN  [d |-> d, n |-> n]

\* Bytes of a frame in progress, moved to the start of the library's buffer.
MadHeld == IF out < Len(file.samples) THEN pos - Least(pos, file.samples[out + 1].at) ELSE 0

\* All is in the library's buffer and no more will come.
Ends(n) == ended /\ Used = n

mad_decode ==
    /\ Called({"mad"})
    /\ LET t   == MadTag
           n   == Least(Cont, ReadSize - MadHeld)
           new == FramesAt(pos + n) - out
       IN  IF c.tags > 0 /\ t.d.consume > 0
           THEN /\ Consumed(t.n)
                /\ c' = [t.d EXCEPT !.consume = @ - t.n]
                /\ Returns("RUNNING")
                /\ Idle
           ELSE /\ Consumed(n)
                /\ c' = [t.d EXCEPT !.tags = 0]
                /\ Gives(new)
                /\ new_stream' = (new_stream /\ new = 0)
                /\ \/ Returns(IF Ends(n) THEN "COMPLETE" ELSE "RUNNING")
                   \/ file.bad /\ Returns("COMPLETE")
    /\ Look
    /\ UNCHANGED <<stream, lost>>

\* The first call with a frame finds the format and gives no room for output.
mpg_decode ==
    /\ Called({"mpg"})
    /\ \E room \in 1 .. Burst :
       LET n    == Least(Cont, ReadSize)
           have == FramesAt(pos + n) - out
           gets == IF new_stream THEN 0 ELSE Least(have, room)
       IN  /\ Consumed(n)
           /\ Gives(gets)
           /\ new_stream' = (new_stream /\ have = 0)
           /\ \/ Returns(IF n = 0 /\ gets = 0 /\ ended THEN "COMPLETE" ELSE "RUNNING")
              \/ file.bad /\ Returns("COMPLETE")
    /\ Look
    /\ UNCHANGED <<stream, c, lost>>

------------------------------------------------------------------------------
(* flac: process_single ends with a metadata block, a frame, or the stream. *)

FlacCall == /\ Called({"flac"})
            /\ pc' = "flac"
            /\ UNCHANGED <<stream, pos, rd, state, new_stream, c, out, seen, lost>>

FlacEnds(n) == ended /\ n = 0

\* read_cb: without bytes, and without the end, it sleeps and is called again.
read_cb ==
    /\ pc = "flac" /\ ~Available
    /\ LET n == Least(Cont, ReadSize)
       IN  /\ Consumed(n)
           /\ IF FlacEnds(n) THEN Returns("COMPLETE") ELSE n > 0 /\ UNCHANGED <<state, pc>>
    /\ Look
    /\ UNCHANGED <<stream, new_stream, c, out, lost>>

\* write_cb, and what process_single returns.
FlacReturns ==
    /\ pc = "flac"
    /\ \/ /\ Available
          /\ Gives(1) /\ StartsTrack
          /\ Returns("RUNNING")
          /\ UNCHANGED c
       \/ /\ HasHeader /\ c.meta > 0
          /\ c' = [c EXCEPT !.meta = @ - 1]
          /\ Returns("RUNNING")
          /\ Idle
       \/ /\ file.bad
          /\ Returns("ERROR")
          /\ Idle
          /\ UNCHANGED c
    /\ UNCHANGED <<stream, pos, rd, seen, lost>>

------------------------------------------------------------------------------
(* vorbis and opus: open_callbacks reads the headers of a new stream and waits *)
(* for them; afterwards a read without bytes ends the library's read.          *)

OggKinds == {"vorbis", "opus"}

OggCall == /\ Called(OggKinds)
           /\ pc' = IF new_stream THEN "open" ELSE "read"
           /\ UNCHANGED <<stream, pos, rd, state, new_stream, c, out, seen, lost>>

\* The loop of _read_cb ends with bytes, at the end, or when a stream is running.
ReadReturns(n) == n > 0 \/ ended \/ ~new_stream

_read_cb ==
    /\ \/ pc = "open" /\ ~HasHeader
       \/ pc = "read" /\ file.kind \in OggKinds /\ ~Available
    /\ LET n == Least(Cont, ReadSize)
       IN  /\ ReadReturns(n)
           /\ Consumed(n)
           /\ IF n > 0 THEN UNCHANGED <<state, pc>>
              ELSE IF pc = "open" THEN Returns("COMPLETE")   \* open_callbacks error
              ELSE pc' = "none" /\ UNCHANGED state           \* no frame decoded
    /\ Look
    /\ UNCHANGED <<stream, new_stream, c, out, lost>>

OggOpened == /\ pc = "open" /\ HasHeader
             /\ StartsTrack
             /\ pc' = "read"
             /\ UNCHANGED <<stream, pos, rd, state, c, out, seen, lost>>

\* What ov_read and op_read return: samples, nothing, or an error. The state of
\* the stream is looked at without S.
OggReturns ==
    /\ \/ /\ pc = "read" /\ file.kind \in OggKinds /\ Available
          /\ Gives(1)
          /\ Returns("RUNNING")
       \/ /\ pc = "none"
          /\ Returns(IF ended THEN "COMPLETE" ELSE "RUNNING")
          /\ UNCHANGED out
       \/ /\ pc = "read" /\ file.bad
          /\ Returns("COMPLETE")
          /\ UNCHANGED out
    /\ UNCHANGED <<stream, pos, rd, new_stream, c, seen, lost>>

------------------------------------------------------------------------------
(* ffmpeg: _read_data never waits. *)

FfKinds == {"ffmpeg", "wma"}

FfCall == /\ Called(FfKinds)
          /\ pc' = "ff"
          /\ UNCHANGED <<stream, pos, rd, state, new_stream, c, out, seen, lost>>

\* What a read gives: n bytes are consumed, `got' are handed over (payload and
\* padding), and the chunk in progress has `left' bytes and `pad' to come.
\* `early' says that padding was handed over in front of payload.
Hands(n, got, left, pad) ==
    [n |-> n, got |-> got, left |-> left, pad |-> pad, early |-> FALSE]

\* Bytes of a chunk that are still to be read.
ChunkLeft(len, n) == len - n

\* Padding goes out with the payload when it fits into the buffer.
Padded(n, got, left, pad) ==
    IF pad > 0 /\ got + pad < ReadSize
    THEN [Hands(n, got + pad, left, 0) EXCEPT !.early = (left > 0)]
    ELSE Hands(n, got, left, pad)

\* The chunks of wma over http: a header, perhaps across the wrap, whose length
\* bounds what is read of the payload; the rest of the payload; padding.
MmshRead ==
    LET bytes == Least(Cont, ReadSize)
        len   == file.samples[out + 1].size
        \* what is left of the read once the header is passed over
        rest  == IF bytes >= MmshHead THEN bytes - MmshHead
                 ELSE Least(Least(Used - MmshHead, Size - ((rd + MmshHead) % Size)), ReadSize)
        n     == Least(rest, len)
    IN  IF c.left > 0
        THEN LET m == Least(bytes, c.left) IN Padded(m, m, c.left - m, c.pad)
        ELSE IF c.pad > 0
        THEN LET m == Least(c.pad, ReadSize) IN Hands(0, m, 0, c.pad - m)
        ELSE IF Used >= MmshHead /\ out < Len(file.samples)
        THEN Padded(MmshHead + n, n, ChunkLeft(len, n), file.packet - len)
        ELSE Hands(0, 0, 0, 0)

FfRead ==
    LET n == Least(Cont, ReadSize)
    IN  IF file.kind = "wma" THEN MmshRead ELSE Hands(n, n, 0, 0)

\* Mutant: the end of the stream is looked for while there is input.
EndWithInput == ended /\ Cont > 0

EndOfStream == ended /\ Cont = 0

\* A packet is handed over when its payload and its padding are.
Complete(r) == r.left = 0 /\ r.pad = 0 /\ (r.n > 0 \/ r.got > 0)

_read_data ==
    /\ pc = "ff"
    /\ IF file.kind = "wma" THEN TRUE ELSE ~(IF new_stream THEN HasHeader ELSE Available)
    /\ LET r == FfRead
       IN  /\ Consumed(r.n)
           /\ c' = [c EXCEPT !.left = r.left, !.pad = r.pad, !.eos = EndOfStream]
           /\ lost' = IF r.early THEN lost \cup {"packet"} ELSE lost
           /\ IF r.got = 0                  \* taken for the end of the file
              THEN /\ Returns(IF new_stream THEN "ERROR"
                              ELSE IF EndOfStream THEN "COMPLETE" ELSE "RUNNING")
                   /\ Idle
              ELSE IF file.kind = "wma"
              THEN /\ StartsTrack
                   /\ Gives(IF Complete(r) THEN 1 ELSE 0)
                   /\ IF Complete(r) THEN Returns("RUNNING") ELSE UNCHANGED <<state, pc>>
              ELSE /\ Idle
                   /\ UNCHANGED <<state, pc>>
    /\ Look
    /\ UNCHANGED stream

\* A stream is open, or a frame is decoded, or the library fails.
FfReturns ==
    /\ pc = "ff" /\ file.kind = "ffmpeg"
    /\ \/ /\ new_stream /\ HasHeader
          /\ StartsTrack
          /\ UNCHANGED <<state, pc, out>>
       \/ /\ ~new_stream /\ Available
          /\ Gives(1)
          /\ Returns("RUNNING")
          /\ UNCHANGED new_stream
       \/ /\ file.bad
          /\ Returns("ERROR")
          /\ Idle
    /\ UNCHANGED <<stream, pos, rd, c, seen, lost>>

LibStep == \/ mad_decode \/ mpg_decode
           \/ FlacCall \/ read_cb \/ FlacReturns
           \/ OggCall \/ _read_cb \/ OggOpened \/ OggReturns
           \/ FfCall \/ _read_data \/ FfReturns

==============================================================================
