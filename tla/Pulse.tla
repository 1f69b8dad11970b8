-------------------------------- MODULE Pulse --------------------------------
(****************************************************************************)
(* output_pulse.c: one thread that runs the main loop of PulseAudio, creates   *)
(* the stream when the output is on and destroys it when it is off. And         *)
(* output_stdout.c, the same loop around a file that is always there.          *)
(*                                                                            *)
(* PulseAudio is external: a stream is ready, or failed when the sink or the    *)
(* server has gone. An iteration of the main loop returns while there is a      *)
(* stream that plays, or the timer that looks at output.state.                 *)
(****************************************************************************)
EXTENDS Device

VARIABLES upc,          \* output_thread
          pstream,      \* pulse.stream: "null", "ready" or "failed"
          urate,        \* its sample rate
          output_off

pulseVars == <<upc, pstream, urate, output_off>>

PulseInit == /\ upc = "top" /\ pstream = "null" /\ urate = 0
             /\ output_off = (state = "OFF")

PulseExits == /\ upc = "top" /\ ~running
              /\ upc' = "exit" /\ pstream' = "null"
              /\ Quiet /\ UNCHANGED <<urate, output_off>>

\* Mutant: the stream stays when the output is off.
PulseOffKeeps == /\ upc = "top" /\ running /\ output_off
                 /\ upc' = "iterate"
                 /\ Quiet /\ UNCHANGED <<pstream, urate, output_off>>
PulseOff == /\ upc = "top" /\ running /\ output_off
            /\ pstream' = "null"
            /\ upc' = "iterate"
            /\ Quiet /\ UNCHANGED <<urate, output_off>>

\* pulse_stream_create, at a rate that is read without O.
PulseCreates == /\ upc = "top" /\ running /\ ~output_off /\ pstream = "null"
                /\ hw
                /\ pstream' = "ready" /\ urate' = current_sample_rate
                /\ upc' = "play"
                /\ Quiet /\ UNCHANGED <<output_off>>
PulseRefused == /\ upc = "top" /\ running /\ ~output_off /\ pstream = "null"
                /\ IF hw THEN Mishap ELSE UNCHANGED mishaps
                /\ error_opening' = TRUE
                /\ upc' = "iterate"
                /\ UNCHANGED <<state, current_sample_rate, next_sample_rate, track_start, buf,
                               decoder, running, held, ops, hw, fixed, pstream, urate, output_off>>
PulseHas == /\ upc = "top" /\ running /\ ~output_off /\ pstream # "null"
            /\ upc' = "play"
            /\ Quiet /\ UNCHANGED <<pstream, urate, output_off>>

\* There is room. The rate of the stream follows a track start.
PulsePlays ==
    /\ upc = "play" /\ pstream = "ready"
    /\ Becomes(OutputFrames(Now, Block))
    /\ urate' = IF current_sample_rate' # current_sample_rate THEN next_sample_rate ELSE urate
    /\ upc' = "iterate"
    /\ UNCHANGED <<next_sample_rate, error_opening, decoder, running, held, ops, outside, fixed,
                   pstream, output_off>>

\* pa_stream_writable_size of a failed stream is (size_t) -1: everything is taken
\* from outputbuf.
PulseLoses ==
    /\ upc = "play" /\ pstream = "failed"
    /\ Becomes(OutputFrames(Now, BufFrames + 1))
    /\ upc' = "iterate"
    /\ UNCHANGED <<next_sample_rate, error_opening, decoder, running, held, ops, outside, fixed,
                   pstream, urate, output_off>>

\* Mutant: nothing ends the iteration at close.
PulseSleepsOn == /\ upc = "iterate" /\ (pstream = "ready" \/ output_off)
                 /\ output_off' = (state = "OFF")
                 /\ upc' = "top"
                 /\ Quiet /\ UNCHANGED <<pstream, urate>>
\* output.state is read without O. pa_mainloop_wakeup ends the iteration at close.
PulseIterates == /\ upc = "iterate" /\ (pstream = "ready" \/ output_off \/ ~running)
                 /\ output_off' = (state = "OFF")
                 /\ upc' = "top"
                 /\ Quiet /\ UNCHANGED <<pstream, urate>>

PulseStep == \/ PulseExits \/ PulseOff \/ PulseCreates \/ PulseRefused \/ PulseHas
             \/ PulsePlays \/ PulseLoses \/ PulseIterates

\* External: the sink or the server goes.
PulseFails == /\ pstream = "ready" /\ ~hw /\ pstream' = "failed"
              /\ Quiet /\ UNCHANGED <<upc, urate, output_off>>

PulseClose == /\ running /\ running' = FALSE
              /\ UNCHANGED <<output, buf, decoder, held, ops, outside, fixed, pulseVars>>
PulseExited == upc = "exit"

------------------------------------------------------------------------------
(* output_stdout.c *)

StdoutPlays ==
    /\ upc = "top" /\ running
    /\ Becomes(OutputFrames(Now, Block))
    /\ upc' = "write"
    /\ UNCHANGED <<next_sample_rate, error_opening, decoder, running, held, ops, outside, fixed,
                   pstream, urate, output_off>>
\* fwrite, without O.
StdoutWrites == /\ upc = "write"
                /\ upc' = "top"
                /\ Quiet /\ UNCHANGED <<pstream, urate, output_off>>

StdoutStep == StdoutPlays \/ StdoutWrites \/ PulseExits
=============================================================================
