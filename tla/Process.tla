------------------------------ MODULE Process ------------------------------
(****************************************************************************)
(* process.c and resample.c between a codec and outputbuf, with the output of *)
(* Fades behind it. A codec writes to outputbuf itself (direct), or to inbuf: *)
(* then decode_thread has libsoxr convert each block, and writes what came    *)
(* out, waiting a while for room; at the end of the track it drains what the  *)
(* filter still holds. D is held all the while. Frames are counted after the  *)
(* conversion. libsoxr's errors are left out.                                 *)
(****************************************************************************)
EXTENDS Fades

CONSTANTS MaxFrames,    \* frames of a block: max_in_frames, max_out_frames
          Latency,      \* frames that the filter holds back
          Tries         \* waits for room in outputbuf, 10 in the code

ASSUME ProcessAssumption ==
    MaxFrames \in Nat \ {0} /\ Latency \in Nat /\ Tries \in Nat

VARIABLES direct,       \* decode.direct
          fed, made,      \* samples given to libsoxr and taken from it
          todo, tries,    \* _write_samples: what is left, and the waits
          draining        \* process_drain

process     == <<direct, fed, made, todo, tries, draining>>
processVars == <<vars, process>>

Held  == fed - made
DFree == todo = 0 /\ ~draining
Room  == Size - Used - 1

ProcessInit == /\ Init
               /\ direct = TRUE /\ fed = 0 /\ made = 0
               /\ todo = 0 /\ tries = 0 /\ draining = FALSE

\* process_newstream: with rates that match nothing is processed.
NewStream == /\ NewTrack
             /\ direct' \in {TRUE, "process" \notin Ops}
             /\ fed' = 0 /\ made' = 0
             /\ UNCHANGED <<todo, tries, draining>>

\* What was converted is to be written.
Converted(odone) == /\ made' = made + odone
                    /\ todo' = odone
                    /\ tries' = Tries

\* The codec decodes a block, perhaps its last, and process_samples converts it.
DecodeBlock ==
    /\ phase = "running" /\ ~direct /\ DFree
    /\ Room > MaxFrames * BPF
    /\ \E n \in 1 .. Least(left, MaxFrames) :
          /\ left' = left - n
          /\ fed' = fed + n * BPF
          /\ Converted(IF fed' - made > Latency * BPF THEN fed' - made - Latency * BPF ELSE 0)
    /\ draining' \in {FALSE, left' = 0}
    /\ UNCHANGED <<buffer, starts, wanted, fades, period, track, phase, rates, len, history,
                   odd, direct>>

\* A call that finds the end of the track and no more samples.
DecodeNoMore ==
    /\ phase = "running" /\ ~direct /\ DFree /\ left = 0
    /\ Room > MaxFrames * BPF
    /\ draining' = TRUE
    /\ UNCHANGED <<vars, direct, fed, made, todo, tries>>

\* process_drain.
DrainBlock ==
    /\ draining /\ todo = 0 /\ Held > 0
    /\ Converted(Least(Held, MaxFrames * BPF))
    /\ UNCHANGED <<vars, direct, fed, draining>>

\* _write_samples under O, as much as there is room for; then it waits, or gives up.
WriteSamples ==
    /\ todo > 0 /\ pc = "idle"
    /\ LET n    == Least(todo, (Room \div BPF) * BPF)
           here == [i \in 0 .. n - 1 |-> Wrapped(writep + i)]
       IN  /\ mem' = [p \in DOMAIN mem |->
                        IF \E i \in DOMAIN here : here[i] = p
                        THEN <<track, made - todo + (CHOOSE i \in DOMAIN here : here[i] = p)>>
                        ELSE mem[p]]
           /\ writep' = Wrapped(writep + n)
           /\ len' = [len EXCEPT ![track] = @ + n]
           /\ IF n < todo /\ tries = 0
              THEN /\ todo' = 0
                   /\ Odd("dropped", TRUE)
              ELSE /\ todo' = todo - n
                   /\ UNCHANGED odd
           /\ tries' = IF n < todo /\ tries > 0 THEN tries - 1 ELSE tries
    /\ UNCHANGED <<readp, slots, starts, wanted, fades, period, track, phase, left, rates,
                   history, direct, fed, made, draining>>

\* Mutant: the track ends when the last block was converted.
CompleteUndrained == /\ EndTrack
                     /\ direct \/ (draining /\ todo = 0)
                     /\ draining' = FALSE
                     /\ UNCHANGED <<direct, fed, made, todo, tries>>
\* decode_thread, when the codec is done and nothing is left to drain.
Complete == /\ EndTrack
            /\ direct \/ (draining /\ todo = 0 /\ Held = 0)
            /\ draining' = FALSE
            /\ UNCHANGED <<direct, fed, made, todo, tries>>

\* decode_flush, with process_flush, waits for D.
Flush == /\ DFree /\ FlushStreaming
         /\ UNCHANGED process

DecoderStep == \/ EarlyTrackStart /\ UNCHANGED process
               \/ NewStream
               \/ direct /\ Write /\ UNCHANGED process
               \/ DecodeBlock \/ DecodeNoMore \/ DrainBlock \/ WriteSamples
               \/ Complete

Running == ~Lost /\ \/ OutputStep /\ UNCHANGED process
                    \/ StrmStart /\ UNCHANGED process
                    \/ DecoderStep

ProcessNext == \/ Running
               \/ ~Lost /\ Flush
               \/ Lost /\ UNCHANGED processVars

\* The threads run, in any order that does not leave all of them waiting.
ProcessSpec == ProcessInit /\ [][ProcessNext]_processVars /\ WF_processVars(Running)

------------------------------------------------------------------------------
(* Properties *)

\* When a resampled track is complete, libsoxr holds none of it any more, and all
\* of it is in outputbuf, unless _write_samples gave up for want of room.
NothingHeldBack ==
    [][draining /\ ~draining' =>
          fed = made /\ (len[track] = fed \/ Excepted({"dropped"}))]_processVars

\* The tracks are decoded and played to their end: no chunk of no frames, fade or
\* pause that does not end holds the output up, and the decoder finds room.
Drains == <>[](phase = "ended" /\ Used = 0 /\ track = Tracks) \/ <>(odd # {})
=============================================================================
