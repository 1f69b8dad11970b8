---------------------------- MODULE OutputThread ----------------------------
(***************************************************************************)
(* output.c: _output_frames, which the output thread (or the callback of   *)
(* the audio library) calls for every period with O held, and the two ways *)
(* the controller flushes outputbuf.  A period is one unit long.           *)
(*                                                                         *)
(* Left out: fades and crossfades, the delay inserted when the rate or the *)
(* format changes, gains.                                                  *)
(***************************************************************************)
EXTENDS Pipeline

CONSTANT Idle    \* whether the device is closed when it idles (output.idle_to)

ASSUME IdleAssumption == Idle \in BOOLEAN

OutputInit == ostate = IF Idle THEN "OUTPUT_OFF" ELSE "OUTPUT_STOPPED"

------------------------------------------------------------------------------
(* _output_frames *)

\* The state the period is played in; clock says that start_at was reached.
PeriodState(clock) ==
    IF \/ ostate = "OUTPUT_BUFFER" /\ Used > StartLevel
       \/ ostate = "OUTPUT_SKIP_FRAMES"
       \/ ostate = "OUTPUT_PAUSE_FRAMES" /\ due = 0
       \/ ostate = "OUTPUT_START_AT" /\ clock
    THEN "OUTPUT_RUNNING" ELSE ostate

\* Mutant: it skips although there is nothing left to skip.
SkippedBlindly == IF ostate # "OUTPUT_SKIP_FRAMES" THEN 0 ELSE due

Skipped == IF ostate # "OUTPUT_SKIP_FRAMES" THEN 0
           ELSE IF Used < due THEN Used ELSE due

\* The period ends where a track starts, and is silent unless the output runs
\* and there is something to play.
_output_frames ==
    /\ ostate # "OUTPUT_OFF"
    /\ \E clock \in BOOLEAN :
          LET state == PeriodState(clock)
              at == Ahead(readp, Skipped)
              silence == state # "OUTPUT_RUNNING" \/ Used = Skipped
          IN /\ ostate' = state
             /\ due' = IF state = "OUTPUT_PAUSE_FRAMES" THEN due - 1 ELSE due
             /\ \/ /\ silence
                   /\ readp' = at
                   /\ UNCHANGED <<trackStart, trackStarted, started, played>>
                \/ /\ ~silence /\ trackStart = at
                   /\ readp' = at
                   /\ trackStart' = NULL
                   /\ trackStarted' = TRUE
                   /\ started' = mem[at][1]
                   /\ UNCHANGED played
                \/ /\ ~silence /\ trackStart # at
                   /\ readp' = Ahead(at, 1)
                   /\ played' = mem[at]
                   /\ UNCHANGED <<trackStart, trackStarted, started>>
    /\ UNCHANGED <<streamVars, decodeVars, mem, writep>>

------------------------------------------------------------------------------
(* Called by the controller; each is one O region *)

\* The first half of output_flush: buf_flush(outputbuf).
FlushOutputbuf ==
    /\ readp' = 0
    /\ writep' = 0
    /\ UNCHANGED <<ostate, mem, trackStart, trackStarted, due, played, started>>

\* Mutant: only an output that runs is stopped.
StopRunning ==
    /\ ostate' = IF ostate = "OUTPUT_RUNNING" THEN "OUTPUT_STOPPED" ELSE ostate
    /\ UNCHANGED <<mem, readp, writep, trackStart, trackStarted, due, played, started>>

\* The second half of output_flush.
StopOutput ==
    /\ ostate' = IF ostate = "OUTPUT_OFF" THEN ostate ELSE "OUTPUT_STOPPED"
    /\ UNCHANGED <<mem, readp, writep, trackStart, trackStarted, due, played, started>>

\* Mutant: the track start is kept.
FlushKeepsStart ==
    /\ writep' = IF trackStart # NULL THEN trackStart ELSE writep
    /\ UNCHANGED <<ostate, mem, readp, trackStart, trackStarted, due, played, started>>

\* Its result is whether there was a track start to go back to.
output_flush_streaming ==
    /\ writep' = IF trackStart # NULL THEN trackStart ELSE writep
    /\ trackStart' = NULL
    /\ UNCHANGED <<ostate, mem, readp, trackStarted, due, played, started>>

\* What process_strm does under O for 'p', 'a' and 'u'.
SetOutput(state, n) ==
    /\ ostate' = state
    /\ due' = n
    /\ UNCHANGED <<mem, readp, writep, trackStart, trackStarted, played, started>>
=============================================================================
