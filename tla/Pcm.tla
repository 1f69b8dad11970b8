-------------------------------- MODULE Pcm --------------------------------
(****************************************************************************)
(* pcm.c: raw, wav and aiff. One region under S and O per call. `file.par' is *)
(* the frame the server announced, `file.bpf' the frame of the audio, which   *)
(* starts at `file.head' (0 without a header); with `file.limit' the header   *)
(* says that `file.audio' bytes of audio follow. `file.fmt' is where the      *)
(* chunk with the format ends; `file.check' is the option to look at headers  *)
(* of all streams, `file.local' a file that the player reads itself.          *)
(****************************************************************************)
EXTENDS Codec

\* The statics: bytes of a frame the open call was given (channels times
\* sample_size), bytes_per_frame, limit, audio_left.
PcmInit(stale) == [par |-> file.par, bpf |-> stale, limit |-> FALSE, left |-> 0]

\* stream.state = STREAMING_FILE: not any more when all of the file was read.
StreamingFile == file.local /\ ~ended

\* _check_header: with the format chunk in one piece the server's values are
\* overridden, with the data chunk's header in one piece both are skipped.
\* It skips nothing when it runs out of data. The length of aiff is taken from
\* files only.
CheckHeader ==
    IF (file.check \/ StreamingFile) /\ file.head > 0 /\ Cont >= file.fmt
    THEN LET d     == [c EXCEPT !.par = file.bpf]
             limit == file.limit /\ (~file.aiff \/ StreamingFile)
         IN  IF Cont < file.head
             THEN [skip |-> 0, c |-> d]
             ELSE [skip |-> file.head,
                   c |-> [d EXCEPT !.limit = limit,
                             !.left = IF limit THEN file.audio ELSE @]]
    ELSE [skip |-> 0, c |-> c]

\* Whole frames in one piece, or one that is put together from both ends.
FramesIn(bytes, used, bpf) ==
    IF bytes \div bpf = 0 /\ bytes > 0 /\ used >= bpf THEN 1 ELSE bytes \div bpf

\* Mutant: frames are counted against the limit in frames, not in bytes.
WithinLimitByFrames(frames, d) ==
    IF d.limit /\ frames > d.left THEN d.left \div d.bpf ELSE frames

\* The announced length cuts the last frames.
WithinLimit(frames, d) ==
    IF d.limit /\ frames * d.bpf > d.left THEN d.left \div d.bpf ELSE frames

pcm_decode ==
    /\ Called({"pcm"})
    /\ LET h     == IF new_stream THEN CheckHeader ELSE [skip |-> 0, c |-> c]
           used  == Used - h.skip
           bytes == Least(used, Size - ((rd + h.skip) % Size))
           d     == IF new_stream THEN [h.c EXCEPT !.bpf = h.c.par] ELSE h.c
       IN  /\ lost' = IF new_stream /\ h.skip < file.head THEN lost \cup {"header"} ELSE lost
           /\ IF (ended /\ bytes < h.c.bpf) \/ (h.c.limit /\ h.c.left = 0)
              THEN /\ Returns("COMPLETE")
                   /\ Consumed(h.skip)
                   /\ c' = h.c
                   /\ UNCHANGED <<new_stream, out>>
              ELSE \E room \in 1 .. Burst :
                   LET in == FramesIn(bytes, used, d.bpf)
                       n  == WithinLimit(Least(in, room), d)
                   IN  /\ Returns("RUNNING")
                       /\ StartsTrack
                       /\ Consumed(h.skip + n * d.bpf)
                       /\ c' = IF d.limit THEN [d EXCEPT !.left = @ - n * d.bpf] ELSE d
                       /\ out' = out + n
    /\ Look
    /\ UNCHANGED stream

------------------------------------------------------------------------------
(* For the properties. *)

\* Where the next frame of a file starts, when its header was skipped.
PcmNext == file.head + out * file.bpf

\* The end of what can be played: the announced length or what was received.
PcmEnd == IF file.limit /\ (~file.aiff \/ c.limit) THEN Least(arrived, file.head + file.audio) ELSE arrived

\* pcm.c:198 looks at one piece only: a frame that straddles the wrap when the
\* stream has ended is taken for the end, and with it all that follows.
PcmLosesTail == file.kind = "pcm" /\ ended /\ Size - rd < c.bpf /\ Used >= c.bpf

\* The announced length ends in the middle of a frame: the rest is never played
\* and never given up.
PcmStuck == c.limit /\ 0 < c.left /\ c.left < c.bpf /\ Cont >= c.bpf
==============================================================================
