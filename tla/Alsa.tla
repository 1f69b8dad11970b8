-------------------------------- MODULE Alsa --------------------------------
(****************************************************************************)
(* output_alsa.c: one thread that opens the device at the rate of the output,  *)
(* recovers it from underruns, waits for it when it is unplugged, closes it     *)
(* when the output is off, and calls _output_frames when there is room.        *)
(*                                                                            *)
(* pcmp is "null", "open", or "closed" where it still points to a handle that  *)
(* was closed. alsa-lib is external: a pcm runs or not and its buffer has room  *)
(* or not; a call fails when the device is gone, or as a mishap.               *)
(****************************************************************************)
EXTENDS Device

CONSTANT MaxRecovers    \* failed recoveries in write before the device is closed, 10

ASSUME AlsaAssumption == MaxRecovers \in Nat \ {0}

VARIABLES apc,                          \* output_thread
          pcmp, arate, recovers,        \* pcmp, alsa.rate, recover_count
          off, probe, start,            \* output_off, probe_device, start
          runs, room, xrun              \* external: the pcm

pcm  == <<runs, room, xrun>>
flags == <<off, probe, start>>
alsaVars == <<apc, pcmp, arate, recovers, flags, pcm>>

\* probe_device: rates were given, so the device was not opened before.
AlsaInit ==
    /\ pcmp = "null" /\ arate = 0 /\ recovers = 0
    /\ off = (state = "OFF") /\ probe \in BOOLEAN /\ start = TRUE
    /\ apc = IF off THEN "off" ELSE IF probe THEN "probe" ELSE "check"
    /\ runs = FALSE /\ room = TRUE /\ xrun = FALSE

Goto(l) == apc' = l

\* A pcm that was just opened or recovered.
Prepared == runs' = FALSE /\ room' = TRUE /\ xrun' = FALSE

\* The head of the loop, which is passed with the step before it.
Top == IF ~running THEN "exit" ELSE IF off' THEN "off" ELSE IF probe' THEN "probe" ELSE "check"

\* Disabled output: looks at output.state every 100 ms.
AlsaOff ==
    /\ apc = "off" /\ ~held
    /\ off' = (state = "OFF")
    /\ Quiet /\ UNCHANGED <<pcmp, arate, recovers, probe, start, pcm>>
    /\ Goto(Top)

\* Wait until the device returns; `running' is not looked at.
AlsaProbe ==
    /\ apc = "probe" /\ hw
    /\ probe' = FALSE
    /\ Goto("check")
    /\ Quiet /\ UNCHANGED <<pcmp, arate, recovers, off, start, pcm>>

AlsaCheck ==
    /\ apc = "check"
    /\ Goto(IF pcmp = "null" \/ arate # current_sample_rate THEN "open" ELSE "query")
    /\ Quiet /\ UNCHANGED <<pcmp, arate, recovers, flags, pcm>>

\* alsa_open, once or (alsa.reopen) twice, which closes an open device first. It fails without the device,
\* or later, with a handle that is left open.
AlsaOpens ==
    /\ apc = "open" /\ ~held /\ hw /\ pcmp # "closed"
    /\ pcmp' = "open" /\ arate' = current_sample_rate
    /\ Prepared
    /\ error_opening' = FALSE /\ start' = TRUE
    /\ Goto("query")
    /\ UNCHANGED <<state, current_sample_rate, next_sample_rate, track_start, buf, decoder,
                   running, held, ops, outside, fixed, recovers, off, probe>>

AlsaOpenFails ==
    /\ apc = "open" /\ ~held /\ pcmp # "closed"
    /\ \/ /\ IF hw THEN Mishap ELSE UNCHANGED mishaps
          /\ pcmp' = IF pcmp = "null" THEN "null" ELSE "closed"
       \/ hw /\ Mishap /\ pcmp' = "open"
    /\ arate' = 0
    /\ error_opening' = TRUE
    /\ UNCHANGED <<state, current_sample_rate, next_sample_rate, track_start, buf, decoder,
                   running, held, ops, hw, fixed, recovers, flags, pcm>>
    /\ Goto(Top)

\* The next alsa_open closes the handle again: memory that was freed.
AlsaClosesTwice ==
    /\ apc = "open" /\ ~held /\ pcmp = "closed"
    /\ Goto("crashed")
    /\ Quiet /\ UNCHANGED <<pcmp, arate, recovers, flags, pcm>>

------------------------------------------------------------------------------

\* Mutant: pcmp is not reset.
ClosedKept == pcmp' = "closed" /\ UNCHANGED <<arate, pcm>>
\* alsa_close and pcmp = NULL.
Closed == pcmp' = "null" /\ UNCHANGED <<arate, pcm>>

\* snd_pcm_state.
AlsaQuery ==
    /\ apc = "query" /\ hw
    /\ IF xrun THEN Prepared /\ start' = TRUE
       ELSE UNCHANGED <<pcm, start>>
    /\ Quiet /\ UNCHANGED <<pcmp, arate, recovers, off, probe>>
    /\ Goto(IF xrun THEN Top ELSE "avail")

\* The device is gone: disconnected, or ENODEV when it is to be recovered.
AlsaGone ==
    /\ apc \in {"query", "avail"} /\ ~hw
    /\ Closed
    /\ probe' = TRUE
    /\ Quiet /\ UNCHANGED <<recovers, off, start>>
    /\ Goto(Top)

\* snd_pcm_avail_update.
AlsaAvail ==
    /\ apc = "avail" /\ hw /\ room
    /\ IF xrun THEN Prepared /\ start' = TRUE
       ELSE UNCHANGED <<pcm, start>>
    /\ Quiet /\ UNCHANGED <<pcmp, arate, recovers, off, probe>>
    /\ Goto(IF xrun THEN Top ELSE "play")

\* No room: the pcm is started, or waited for.
AlsaStart ==
    /\ apc = "avail" /\ hw /\ ~room /\ start
    /\ runs' = TRUE /\ start' = FALSE
    /\ Quiet /\ UNCHANGED <<pcmp, arate, recovers, off, probe, room, xrun>>
    /\ Goto(Top)
AlsaWait ==
    /\ apc = "avail" /\ hw /\ ~room /\ ~start
    /\ start' = ~runs
    /\ Quiet /\ UNCHANGED <<pcmp, arate, recovers, off, probe, pcm>>
    /\ Goto(Top)

\* The output is off: the device is closed.
AlsaTurnsOff ==
    /\ apc = "play" /\ ~held /\ state = "OFF"
    /\ Closed
    /\ off' = TRUE
    /\ Quiet /\ UNCHANGED <<recovers, probe, start>>
    /\ Goto(Top)

\* Mutant: the rate is not looked at again while the device plays.
AlsaPlaysOn ==
    /\ apc = "play" /\ ~held /\ state # "OFF" /\ ~xrun
    /\ Becomes(OutputFrames(Now, Block))
    /\ room' = (OutputFrames(Now, Block).wrote = 0)
    /\ Goto("query")
    /\ UNCHANGED <<next_sample_rate, error_opening, decoder, running, held, ops, outside, fixed,
                   pcmp, arate, recovers, flags, runs, xrun>>
AlsaPlays ==
    /\ apc = "play" /\ ~held /\ state # "OFF" /\ ~xrun
    /\ Becomes(OutputFrames(Now, Block))
    /\ room' = (OutputFrames(Now, Block).wrote = 0)
    /\ UNCHANGED <<next_sample_rate, error_opening, decoder, running, held, ops, outside, fixed,
                   pcmp, arate, recovers, flags, runs, xrun>>
    /\ Goto(Top)

AlsaDelayFails ==
    /\ apc = "play" /\ state # "OFF" /\ (xrun \/ ~hw)
    /\ Quiet /\ UNCHANGED <<pcmp, arate, recovers, flags, pcm>>
    /\ Goto(Top)

\* A write fails: after MaxRecovers failures to recover the device is closed.
AlsaWriteFails ==
    /\ apc = "play" /\ ~held /\ state # "OFF"
    /\ IF hw THEN Mishap ELSE UNCHANGED mishaps
    /\ LET o == OutputFrames(Now, Block)
       IN  o.wrote > 0 /\ state' = o.state
    /\ \/ UNCHANGED <<recovers, pcmp>>
       \/ /\ recovers' = (recovers + 1) % MaxRecovers
          /\ pcmp' = IF recovers' = 0 THEN "null" ELSE "open"
    /\ UNCHANGED <<current_sample_rate, next_sample_rate, track_start, error_opening, buf,
                   decoder, running, held, ops, hw, fixed, arate, flags, pcm>>
    /\ Goto(Top)

AlsaStep == \/ AlsaOff \/ AlsaProbe \/ AlsaCheck \/ AlsaOpens \/ AlsaOpenFails
            \/ AlsaClosesTwice \/ AlsaQuery \/ AlsaGone \/ AlsaAvail \/ AlsaStart \/ AlsaWait
            \/ AlsaTurnsOff \/ AlsaPlays \/ AlsaDelayFails \/ AlsaWriteFails

\* External: the device plays, and runs dry.
PcmPlays == /\ pcmp = "open" /\ runs /\ ~room /\ room' = TRUE
            /\ Quiet /\ UNCHANGED <<apc, pcmp, arate, recovers, flags, runs, xrun>>
PcmXrun  == /\ pcmp = "open" /\ runs /\ room /\ ~xrun /\ Mishap
            /\ xrun' = TRUE /\ runs' = FALSE
            /\ UNCHANGED <<output, buf, decoder, running, held, ops, hw, fixed,
                           apc, pcmp, arate, recovers, flags, room>>

\* output_close_alsa, which joins the thread.
AlsaClose == /\ running /\ ~held /\ running' = FALSE
             /\ UNCHANGED <<output, buf, decoder, held, ops, outside, fixed, alsaVars>>
AlsaExited == apc = "exit"
=============================================================================
