------------------------------- MODULE Devices -------------------------------
(****************************************************************************)
(* The outputs of Alsa, PortAudio and Pulse under one controller and decoder.  *)
(* Which one it is, is fixed by the command line.                              *)
(****************************************************************************)
EXTENDS Alsa, PortAudio, Pulse

CONSTANT Kinds          \* "alsa", "pa", "pulse", "stdout"

ASSUME DevicesAssumption == Kinds \subseteq {"alsa", "pa", "pulse", "stdout"}

VARIABLE kind

vars == <<kind, deviceVars, alsaVars, paVars, pulseVars>>

Init == /\ kind \in Kinds
        /\ DeviceInit /\ AlsaInit /\ PaInit /\ PulseInit
        /\ kind # "alsa" => ~probe
        /\ kind = "stdout" => ~idle_to

\* A tick without pa_reopen.
Tick == /\ running /\ ~held
        /\ ppc["controller"] = "idle" /\ ~pa_reopen
        /\ kind = "pa" => ppc["main"] = "idle"
        /\ TickEnds
        /\ UNCHANGED <<current_sample_rate, next_sample_rate, track_start, error_opening, buf,
                       track, running, held, ops, outside, fixed>>

\* The controller is one thread.
Commands == /\ ppc["controller"] = "idle"
            /\ kind = "pa" => ppc["main"] = "idle"
            /\ StrmStart \/ Flush \/ Aude

Shared == Tick \/ Commands \/ WriteFrame \/ (kind # "stdout" /\ (Unplug \/ Plug))

Others == UNCHANGED <<alsaVars, paVars, pulseVars>>

Close == /\ "close" \in Ops
         /\ \/ kind = "alsa" /\ AlsaClose /\ UNCHANGED <<paVars, pulseVars>>
            \/ kind = "pa" /\ PaClose /\ UNCHANGED <<alsaVars, pulseVars>>
            \/ kind \in {"pulse", "stdout"} /\ PulseClose /\ UNCHANGED <<alsaVars, paVars>>

Alone == UNCHANGED <<alsaVars, pulseVars, kind>>

Output == \/ kind = "alsa" /\ AlsaStep /\ UNCHANGED <<paVars, pulseVars>>
          \/ kind = "pa" /\ (PaStep \/ PaAborts) /\ UNCHANGED <<alsaVars, pulseVars>>
          \/ kind = "pulse" /\ PulseStep /\ UNCHANGED <<alsaVars, paVars>>
          \/ kind = "stdout" /\ StdoutStep /\ UNCHANGED <<alsaVars, paVars>>

External == \/ kind = "alsa" /\ (PcmPlays \/ PcmXrun) /\ UNCHANGED <<paVars, pulseVars>>
            \/ kind = "pulse" /\ PulseFails /\ UNCHANGED <<alsaVars, paVars>>

Exited == CASE kind = "alsa" -> AlsaExited
            [] kind = "pa" -> PaExited
            [] OTHER -> PulseExited

Next == /\ UNCHANGED kind
        /\ (Shared /\ Others) \/ Close \/ Output \/ External

\* The tick is periodic, a codec writes while there is room, and each thread of an
\* output and each callback goes on. A recovered or opened pcm plays.
Fairness == /\ WF_vars(Tick /\ Others /\ UNCHANGED kind)
            /\ WF_vars(WriteFrame /\ Others /\ UNCHANGED kind)
            /\ WF_vars(kind # "pa" /\ Output /\ UNCHANGED kind)
            /\ WF_vars(kind = "pa" /\ PaCallbacks /\ Alone)
            /\ WF_vars(kind = "pa" /\ PaOpener /\ Alone)
            /\ WF_vars(kind = "pa" /\ PaMonitor /\ Alone)
            /\ WF_vars(kind = "pa" /\ PaAborts /\ Alone)
            /\ WF_vars(kind = "alsa" /\ PcmPlays /\ UNCHANGED <<paVars, pulseVars, kind>>)

Spec == Init /\ [][Next]_vars /\ Fairness

------------------------------------------------------------------------------
(* Properties *)

\* The rate at which a frame is played now.
DeviceRate == CASE kind = "alsa" -> arate
                [] kind = "pulse" -> urate
                [] OTHER -> 0

Played == IF Len(buf') < Len(buf) /\ state' = "RUNNING" THEN Len(buf) - Len(buf') ELSE 0

\* The stream whose callback ran.
PlayedBy == CHOOSE s \in Streams : status[s] = "calling" /\ status'[s] # "calling"

\* A frame is played by an open device at the rate of its track. Excepted are
\* PortAudio, from a track start on to the end of the period, and PulseAudio, once
\* error_opening is set (it is never reset) or the stream has failed.
RateMatches ==
    [][\A i \in 1 .. Played :
          LET rate == rates[buf[i]]
          IN  \/ kind = "alsa" /\ pcmp = "open" /\ arate = rate
              \/ kind = "pa" /\ (srate[PlayedBy] = rate \/ (track_start # 0 /\ i >= track_start))
              \/ kind = "pulse" /\ (urate = rate \/ error_opening \/ pstream = "failed")
              \/ kind = "stdout"]_vars

IsOpen(s) == status[s] # "closed"

\* No thread uses a pcm or a stream that another step has closed, and no second
\* stream is opened beside one that still is: a pcm that is read or written is
\* open, the stream that _pa_open starts is there, and every other one is being
\* closed, or could not be started and was forgotten by the monitor. Excepted is
\* PortAudio once output_close_pa was called: the monitor is not waited for.
HandleLive ==
    /\ apc \in {"query", "avail", "play"} => pcmp = "open"
    /\ running => \A t \in Openers :
                     ppc[t] = "starting" => stream # 0 /\ status[stream] = "opened"
    /\ \A s \in Streams : IsOpen(s) => \/ s = stream \/ \E t \in Openers : old[t] = s
                                      \/ status[s] = "opened"
    /\ stream # 0 => IsOpen(stream) \/ ~running

\* A PortAudio stream that could not be started stays open in any case.
DeviceOpen == CASE kind = "alsa" -> pcmp = "open"
                [] kind = "pa" -> \E s \in Streams : status[s] \notin {"closed", "opened"}
                [] kind = "pulse" -> pstream # "null"
                [] OTHER -> FALSE

\* What is to be played is played, and an output that is off gives up its device,
\* unless the device is gone for good, the pcm was closed twice, the end of a
\* PortAudio stream was missed, or PulseAudio refused or lost the stream.
Settles ==
    \/ <>[](state \in {"STOPPED", "OFF"} /\ (state = "OFF" => ~DeviceOpen))
    \/ <>[]~hw
    \/ <>(~running \/ apc = "crashed" \/ lost \/ (kind = "pulse" /\ error_opening)
          \/ pstream = "failed")

\* output_close_* returns, unless alsa waits for a device that is gone or its
\* handle was closed twice, or a PortAudio callback waits for O.
CloseReturns ==
    ~running ~> \/ Exited
                \/ kind = "alsa" /\ (apc = "crashed" \/ (apc = "probe" /\ ~hw))
                \/ held /\ \E s \in Streams : status[s] \in {"calling", "finishing"}

\* "Pa_CloseStream can wait for an in-flight data callback, which needs this mutex
\* - so never close the stream while holding it": O is never held where a callback
\* that PortAudio waits for needs it.
NeverHeldOverClose ==
    ~(held /\ \E s \in Streams : status[s] \in {"calling", "finishing"})
=============================================================================
