------------------------------ MODULE PortAudio ------------------------------
(****************************************************************************)
(* output_pa.c: a callback that PortAudio calls for frames, _pa_open, called   *)
(* at the start, by the controller's tick when a stream has finished, and by   *)
(* a monitor thread that waits for the output to be on or the device to        *)
(* return. O is given up where _pa_open closes and starts a stream.            *)
(*                                                                            *)
(* PortAudio is external. A stream is opened, active, calling (its callback     *)
(* waits for O), complete (the callback returned paComplete), finishing (its   *)
(* finished callback waits for O) or finished, until it is closed.             *)
(****************************************************************************)
EXTENDS Device

CONSTANTS Streams,      \* streams that may be open
          Monitors      \* monitor threads that are in _pa_open at a time

ASSUME PortAudioAssumption == /\ Streams \subseteq Nat \ {0} /\ IsFiniteSet(Streams)
                              /\ {"main", "controller"} \cap Monitors = {}

VARIABLES stream, prate,        \* pa.stream, 0 for NULL, and pa.rate
          status, srate,        \* external: the streams and their rates
          ppc, old, err,        \* _pa_open of each thread
          pa_reopen,
          monitors, monitor,    \* monitor threads that were created; the one that runs
          monitor_off,          \* output_off
          lost                  \* history: a finished stream that was not noticed

Openers == {"main", "controller"} \cup Monitors
opener  == <<ppc, old, err>>
watch   == <<monitors, monitor, monitor_off>>
paVars  == <<stream, prate, status, srate, opener, pa_reopen, watch, lost>>

PaInit ==
    /\ stream = 0 /\ prate = 0
    /\ status = [s \in Streams |-> "closed"] /\ srate = [s \in Streams |-> 0]
    /\ ppc = [t \in Openers |-> IF t = "main" THEN "called" ELSE "idle"]
    /\ old = [t \in Openers |-> 0] /\ err = [t \in Openers |-> FALSE]
    /\ pa_reopen = FALSE
    /\ monitors = 0 /\ monitor = "none" /\ monitor_off = FALSE
    /\ lost = FALSE

------------------------------------------------------------------------------
(* The callback *)

Status(s, new) == status' = [status EXCEPT ![s] = new]

PaCalls == \E s \in Streams :
    /\ status[s] = "active"
    /\ Status(s, "calling")
    /\ Quiet /\ UNCHANGED <<stream, prate, srate, opener, pa_reopen, watch, lost>>

\* do { _output_frames } while frames are wanted and something was written. The first
\* call ends at a track start or where outputbuf does, the second where outputbuf
\* does, and what is wanted beyond that is silence: a fourth never follows.
CallbackFrames(o, wanted) ==
    LET first  == OutputFrames(o, wanted)
        rest   == wanted - first.wrote
        second == OutputFrames(first, rest)
        third  == OutputFrames(second, rest - second.wrote)
    IN  IF first.wrote \in {0, wanted} THEN first
        ELSE IF second.wrote \in {0, rest} THEN second
        ELSE third

PaCallback == \E s \in Streams :
    /\ status[s] = "calling" /\ ~held
    /\ Becomes(CallbackFrames(Now, Block))
    /\ Status(s, IF state' = "OFF" \/ prate # current_sample_rate' THEN "complete" ELSE "active")
    /\ UNCHANGED <<next_sample_rate, error_opening, decoder, running, held, ops, outside, fixed,
                   stream, prate, srate, opener, pa_reopen, watch, lost>>

\* pa_stream_finished looks at `running' without O.
PaFinishes == \E s \in Streams :
    /\ status[s] = "complete"
    /\ Status(s, IF running THEN "finishing" ELSE "finished")
    /\ Quiet /\ UNCHANGED <<stream, prate, srate, opener, pa_reopen, watch, lost>>
pa_stream_finished == \E s \in Streams :
    /\ status[s] = "finishing" /\ ~held
    /\ Status(s, "finished")
    /\ pa_reopen' = TRUE
    /\ Quiet /\ UNCHANGED <<stream, prate, srate, opener, watch, lost>>

------------------------------------------------------------------------------
(* _pa_open *)

\* What the caller does at the end of _pa_open, before it gives O up.
Returns(t) ==
    /\ ppc' = [ppc EXCEPT ![t] = "idle"]
    /\ IF t = "controller"
       THEN /\ pa_reopen' = FALSE
            /\ lost' = (lost \/ \E s \in Streams : status'[s] = "finished" /\ stream' = s)
            /\ TickEnds
       ELSE UNCHANGED <<pa_reopen, lost, state, left, autostart>>

\* An error creates a monitor thread, unless one runs.
Fails(failed, watched) ==
    /\ monitors' = IF failed /\ ~watched THEN monitors + 1 ELSE monitors
    /\ error_opening' = failed

\* With O, no stream and the streams st: the device is opened, unless the output
\* is off.
Opens(t, st, watched) ==
    \/ /\ IF state = "OFF" \/ ~hw THEN UNCHANGED mishaps ELSE Mishap
       /\ Fails(TRUE, watched)
       /\ stream' = 0 /\ status' = st
       /\ UNCHANGED <<prate, srate>>
       /\ Returns(t)
    \/ /\ state # "OFF" /\ hw
       /\ \E s \in Streams :
             /\ st[s] = "closed" /\ \A r \in 1 .. s - 1 : r \in Streams => st[r] # "closed"
             /\ stream' = s
             /\ status' = [st EXCEPT ![s] = "opened"]
             /\ srate' = [srate EXCEPT ![s] = current_sample_rate]
       /\ prate' = current_sample_rate
       /\ ppc' = [ppc EXCEPT ![t] = "starting"]
       /\ UNCHANGED <<mishaps, monitors, error_opening, pa_reopen, lost, state, left, autostart>>

OpensOnly == UNCHANGED <<current_sample_rate, next_sample_rate, track_start, buf, track,
                         running, held, ops, hw, fixed>>

\* Called by main, or by a tick that sees pa_reopen.
PaOpen(t) ==
    /\ ~held
    /\ \/ t = "main" /\ ppc[t] = "called"
       \/ t = "controller" /\ ppc[t] = "idle" /\ ppc["main"] = "idle" /\ running /\ pa_reopen
    /\ IF stream = 0
       THEN /\ Opens(t, status, monitor # "none") /\ OpensOnly
            /\ UNCHANGED <<old, err, monitor, monitor_off>>
       ELSE /\ old' = [old EXCEPT ![t] = stream]
            /\ stream' = 0
            /\ ppc' = [ppc EXCEPT ![t] = "closing"]
            /\ Quiet
            /\ UNCHANGED <<prate, status, srate, err, pa_reopen, watch, lost>>

\* Pa_CloseStream, without O, of a stream whose callbacks have returned.
PaCloses(t) ==
    /\ ppc[t] = "closing" /\ status[old[t]] \in {"opened", "finished", "closed"}
    /\ Status(old[t], "closed")
    /\ ppc' = [ppc EXCEPT ![t] = "closed"]
    /\ Quiet /\ UNCHANGED <<stream, prate, srate, old, err, pa_reopen, watch, lost>>

PaReopens(t) ==
    /\ ppc[t] = "closed" /\ ~held
    /\ Opens(t, status, monitor # "none") /\ OpensOnly
    /\ old' = [old EXCEPT ![t] = 0]
    /\ UNCHANGED <<err, monitor, monitor_off>>

\* Pa_StartStream, without O.
PaStarts(t) ==
    /\ ppc[t] = "starting"
    /\ ppc' = [ppc EXCEPT ![t] = "started"]
    /\ \/ Status(stream, "active") /\ err' = [err EXCEPT ![t] = FALSE] /\ UNCHANGED mishaps
       \/ err' = [err EXCEPT ![t] = TRUE] /\ Mishap /\ UNCHANGED status
    /\ UNCHANGED <<output, buf, decoder, running, held, ops, hw, fixed,
                   stream, prate, srate, old, pa_reopen, watch, lost>>

PaStarted(t) ==
    /\ ppc[t] = "started" /\ ~held
    /\ Fails(err[t], monitor # "none")
    /\ err' = [err EXCEPT ![t] = FALSE]
    /\ UNCHANGED <<stream, status>>
    /\ Returns(t)
    /\ OpensOnly
    /\ UNCHANGED <<mishaps, prate, srate, old, monitor, monitor_off>>

------------------------------------------------------------------------------
(* The monitor thread *)

\* A second one ends at once.
MonitorStarts ==
    /\ monitors > 0 /\ ~held
    /\ monitors' = monitors - 1
    /\ IF monitor = "none" THEN monitor' = "runs" /\ monitor_off' = (state = "OFF")
       ELSE UNCHANGED <<monitor, monitor_off>>
    /\ Quiet /\ UNCHANGED <<stream, prate, status, srate, opener, pa_reopen, lost>>

\* Pa_Terminate closes every stream, and waits for its callbacks.
Terminates(st) == /\ \A s \in Streams : status[s] \notin {"calling", "finishing"}
                  /\ st = [s \in Streams |-> "closed"]

\* The device has not come back.
MonitorWaits ==
    /\ monitor = "runs" /\ ~held /\ running /\ ~monitor_off /\ ~hw
    /\ Terminates(status')
    /\ stream' = 0
    /\ Quiet /\ UNCHANGED <<prate, srate, opener, pa_reopen, watch, lost>>

\* The output is on, or the device is found: the monitor ends with _pa_open. The one
\* before it may still be there, between Pa_StartStream and its end.
MonitorEnds ==
    LET t == CHOOSE m \in Monitors : ppc[m] = "idle"
    IN  /\ monitor = "runs" /\ ~held /\ running
        /\ \E m \in Monitors : ppc[m] = "idle"
        /\ \E st \in [Streams -> {"closed"}] \cup {status} :
              /\ IF monitor_off THEN state # "OFF" /\ st = status ELSE hw /\ Terminates(st)
              /\ Opens(t, st, FALSE)
        /\ monitor' = "none"
        /\ OpensOnly
        /\ UNCHANGED <<old, err, monitor_off>>

PaCallbacks == PaCalls \/ PaCallback \/ PaFinishes \/ pa_stream_finished
PaOpener == \E t \in Openers : PaOpen(t) \/ PaCloses(t) \/ PaReopens(t) \/ PaStarts(t)
                                 \/ PaStarted(t)
PaMonitor == MonitorStarts \/ MonitorWaits \/ MonitorEnds
PaStep == PaCallbacks \/ PaOpener \/ PaMonitor

\* output_close_pa, called by the thread that was the controller, holds O while
\* Pa_AbortStream waits for the callback. A monitor that sleeps is not followed
\* further: it wakes up in a process that is about to end.
PaClose ==
    /\ running /\ ~held /\ ppc["main"] = "idle" /\ ppc["controller"] = "idle"
    /\ running' = FALSE /\ held' = TRUE
    /\ monitor' = "none"
    /\ UNCHANGED <<output, buf, decoder, ops, outside, fixed, stream, prate, status, srate, opener,
                   pa_reopen, monitors, monitor_off, lost>>
PaAborts ==
    /\ held /\ Terminates(status')
    /\ held' = FALSE
    /\ UNCHANGED <<output, buf, decoder, running, ops, outside, fixed, stream, prate, srate, opener,
                   pa_reopen, watch, lost>>
PaExited == ~running /\ ~held
=============================================================================
