------------------------------- MODULE Codec -------------------------------
(****************************************************************************)
(* What every codec works between (struct codec of squeezelite.h): streambuf, *)
(* which the stream thread fills until the stream ends, and decode_thread,    *)
(* which calls codec->decode().                                               *)
(*                                                                            *)
(* Bytes are counted, not stored: `file' is the layout of what the server     *)
(* sends (which byte is where in it), `arrived' and `pos' are how much of it  *)
(* was received and consumed, `rd' is the offset of streambuf->readp. Lengths *)
(* are scaled down (a header of 8 bytes is 2).                                *)
(*                                                                            *)
(* A call of decode() holds D throughout and S for one or several regions.    *)
(* What it does under O at its end touches outputbuf only, which nobody else  *)
(* writes, so that region is taken with the last one under S; `pc' names the  *)
(* point between two steps of a call that takes several.                      *)
(****************************************************************************)
EXTENDS Integers, Sequences, FiniteSets

CONSTANTS Files,        \* the layouts, records with a field `kind', the codec
          MinRead,      \* codec->min_read_bytes
          Burst         \* frames that fit in outputbuf at once, at most

ASSUME CodecAssumption ==
    /\ MinRead \in Nat /\ \A f \in Files : f.buf \in Nat /\ f.mod \in 1 .. f.buf - MinRead
    /\ Burst \in Nat \ {0}

VARIABLES file, arrived, ended, pos, rd,
          state,        \* decode.state
          new_stream,   \* decode.new_stream
          pc,           \* where the call of decode() is
          c,            \* the statics of the codec
          out,          \* history: units decoded
          seen,         \* history: bytes in streambuf when the codec last left S
          lost          \* history: headers and atoms passed over unread, frames cut

stream  == <<file, arrived, ended>>
decoder == <<pos, rd, state, new_stream, pc, c, out, seen, lost>>
vars    == <<stream, decoder>>

Least(a, b) == IF a < b THEN a ELSE b

------------------------------------------------------------------------------
(* streambuf *)

\* `file.buf' is its base_size; buf_adjust (see Buffer): pcm makes the size a
\* multiple of the frame the server announced.
Size == file.buf - (file.buf % file.mod)

Used == arrived - pos                          \* _buf_used
Cont == Least(Used, Size - rd)                 \* and _buf_cont_read

\* _buf_inc_readp, for n bytes that are there.
Consumed(n) == /\ pos' = pos + n
               /\ rd'  = (rd + n) % Size

\* The stream thread takes S between the regions of a codec: one more byte of
\* the body, or the end of the connection, at the end of the file or before.
Free == pc \notin {"header", "samples"}

Deliver == /\ Free /\ ~ended
           /\ arrived < file.len /\ Used + 1 < Size
           /\ arrived' = arrived + 1
           /\ UNCHANGED <<file, ended, decoder>>

End == /\ Free /\ ~ended
       /\ arrived = file.len \/ file.cut
       /\ ended' = TRUE
       /\ UNCHANGED <<file, arrived, decoder>>

------------------------------------------------------------------------------
(* decode_thread and the end of a call *)

\* decode_thread calls when more than the codec's minimum is there, or the rest.
Called(kinds) == /\ file.kind \in kinds /\ pc = "idle" /\ state = "RUNNING"
                 /\ Used > MinRead \/ ended

Returns(s) == /\ state' = s
              /\ pc' = "idle"

\* The codec leaves S without having moved.
Stays == UNCHANGED <<pos, rd>>
Look  == seen' = arrived - pos'

\* The track start is set in the region that finds the format of a new stream.
StartsTrack == new_stream' = FALSE

==============================================================================
