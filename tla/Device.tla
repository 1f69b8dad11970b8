------------------------------- MODULE Device -------------------------------
(****************************************************************************)
(* What the outputs share: struct outputstate and outputbuf as the device      *)
(* threads see them, and the threads that change them, the decoder and the     *)
(* controller with its commands and its tick. Alsa, PortAudio and Pulse extend  *)
(* it with a device, Devices puts them together.                               *)
(*                                                                            *)
(* outputbuf is a sequence of frames, a frame is the number of its track, and   *)
(* output.track_start is a place in the sequence, 0 for NULL. Fades and delays  *)
(* are in Fades; the start threshold is zero. What goes wrong outside the      *)
(* program is counted, at most MaxMishaps times.                               *)
(****************************************************************************)
EXTENDS Integers, Sequences, FiniteSets

CONSTANTS Tracks,       \* tracks played one after the other
          Frames,       \* frames of each
          BufFrames,    \* frames outputbuf holds
          Rates, DefaultRate,
          Block,        \* frames a device takes at once
          Ops,          \* what may happen: "aude", "stop", "close"
          MaxOps,       \* commands of these kinds
          MaxMishaps

ASSUME DeviceAssumption ==
    /\ Tracks \in Nat \ {0} /\ Frames \in Nat \ {0} /\ BufFrames \in Nat \ {0}
    /\ Rates \subseteq Nat \ {0} /\ DefaultRate \in Rates /\ Block \in Nat \ {0}
    /\ Ops \subseteq {"aude", "stop", "close"}
    /\ MaxOps \in Nat /\ MaxMishaps \in Nat

VARIABLES state, current_sample_rate, next_sample_rate,        \* output
          track_start, error_opening, idle_to,
          buf,                                      \* outputbuf
          track, left, autostart,                   \* decoder and controller
          rates,        \* the rate of each track
          running,      \* FALSE once output_close_* was called
          held,         \* O is held over a call that waits
          hw,           \* external: the device is there
          ops, mishaps  \* counted and bounded

output  == <<state, current_sample_rate, next_sample_rate, track_start, error_opening>>
decoder == <<track, left, autostart>>
outside == <<hw, mishaps>>
fixed   == <<rates, idle_to>>
deviceVars == <<output, buf, decoder, running, held, ops, outside, fixed>>

Quiet == UNCHANGED deviceVars
Mishap == mishaps < MaxMishaps /\ mishaps' = mishaps + 1
Least(a, b) == IF a < b THEN a ELSE b

DeviceInit ==
    /\ rates \in [1 .. Tracks -> Rates]
    /\ idle_to \in BOOLEAN
    /\ state = IF idle_to THEN "OFF" ELSE "STOPPED"
    /\ current_sample_rate = DefaultRate /\ next_sample_rate = DefaultRate
    /\ track_start = 0 /\ error_opening = FALSE
    /\ buf = << >>
    /\ track = 0 /\ left = 0 /\ autostart = FALSE
    /\ running = TRUE /\ held = FALSE
    /\ hw = TRUE
    /\ ops = 0 /\ mishaps = 0

------------------------------------------------------------------------------
(* The decoder *)

\* The first frame of a track is written with its track start and rate.
WriteFrame ==
    /\ ~held /\ left > 0 /\ Len(buf) < BufFrames
    /\ buf' = Append(buf, track)
    /\ left' = left - 1
    /\ IF left = Frames
       THEN /\ track_start' = Len(buf) + 1
            /\ next_sample_rate' = rates[track]
       ELSE UNCHANGED <<track_start, next_sample_rate>>
    /\ UNCHANGED <<state, current_sample_rate, error_opening, track, autostart, running, held,
                   ops, outside, fixed>>

------------------------------------------------------------------------------
(* The controller *)

\* 's' for the next track, when the one before was decoded and has started (STMs).
StrmStart ==
    /\ running /\ ~held
    /\ track < Tracks /\ left = 0 /\ ~autostart /\ track_start = 0
    /\ track' = track + 1 /\ autostart' = TRUE
    /\ UNCHANGED <<output, buf, left, running, held, ops, outside, fixed>>

\* A tick starts the decoder, and under O the output; there it also sees the
\* underrun and the idle timeout.
TickStates ==
    IF autostart /\ state \in {"STOPPED", "OFF"} THEN {"BUFFER"}
    ELSE IF state = "RUNNING" /\ buf = << >> /\ left = 0 /\ ~autostart THEN {"STOPPED"}
    ELSE {state} \cup IF state = "STOPPED" /\ idle_to THEN {"OFF"} ELSE {}
TickEnds == /\ state' \in TickStates
            /\ left' = IF autostart THEN Frames ELSE left
            /\ autostart' = FALSE

\* output_flush in 'q', with the decoder stopped before. It leaves track_start, which
\* the next track sets with its first frame.
Flush ==
    /\ "stop" \in Ops /\ running /\ ~held /\ ops < MaxOps
    /\ ops' = ops + 1
    /\ buf' = << >> /\ left' = 0 /\ autostart' = FALSE
    /\ IF state = "OFF" THEN UNCHANGED <<state, current_sample_rate>>
       ELSE /\ state' = "STOPPED"
            /\ current_sample_rate' = IF error_opening THEN DefaultRate ELSE current_sample_rate
    /\ track_start' = 0
    /\ UNCHANGED <<next_sample_rate, error_opening, track, running, held, outside, fixed>>

\* process_aude turns the output off and, without an idle timeout, on.
Aude ==
    /\ "aude" \in Ops /\ running /\ ~held
    /\ \/ state # "OFF" /\ state' = "OFF" /\ ops < MaxOps /\ ops' = ops + 1
       \/ state = "OFF" /\ ~idle_to /\ state' = "STOPPED" /\ UNCHANGED ops
    /\ UNCHANGED <<current_sample_rate, next_sample_rate, track_start, error_opening, buf,
                   decoder, running, held, outside, fixed>>

------------------------------------------------------------------------------
(* External: the device is unplugged and comes back. *)

Unplug == /\ hw /\ Mishap /\ hw' = FALSE
          /\ UNCHANGED <<output, buf, decoder, running, held, ops, fixed>>
Plug   == /\ ~hw /\ hw' = TRUE
          /\ UNCHANGED <<output, buf, decoder, running, held, ops, mishaps, fixed>>

------------------------------------------------------------------------------
(* _output_frames *)

\* What one call does with room for `avail' frames; `played' were written.
Now == [state |-> state, buf |-> buf, start |-> track_start,
        rate |-> current_sample_rate, wrote |-> 0]

OutputFrames(o, avail) ==
    LET s == IF o.state = "BUFFER" /\ o.buf # << >> THEN "RUNNING" ELSE o.state
        n == Least(Len(o.buf), avail)                     \* frames to write
        m == IF o.start = 0 THEN n ELSE Least(n, o.start - 1)  \* before the track start
        begins == o.start # 0 /\ m < n
    IN  IF s # "RUNNING" \/ n = 0
        THEN [o EXCEPT !.state = s, !.wrote = avail]        \* silence
        ELSE [state |-> s,
              buf   |-> SubSeq(o.buf, m + 1, Len(o.buf)),
              start |-> IF begins \/ o.start = 0 THEN 0 ELSE o.start - m,
              rate  |-> IF begins THEN next_sample_rate ELSE o.rate,
              wrote |-> m]

Becomes(o) == /\ state' = o.state /\ buf' = o.buf
              /\ track_start' = o.start /\ current_sample_rate' = o.rate
=============================================================================
