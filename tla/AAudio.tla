------------------------------- MODULE AAudio -------------------------------
(****************************************************************************)
(* pa_aaudio.c: the device calls the data callback of a stream from a thread of  *)
(* its own, and an error callback from another one when it is disconnected. Both  *)
(* mark the stream as stopped and call the finished callback; the data callback    *)
(* always asks the device to continue.                                         *)
(*                                                                            *)
(* AAudio is external: it calls one callback of a stream at a time, requestStop   *)
(* does not wait for it, close does and lets none begin, and after a disconnection  *)
(* there is no data callback.                                                   *)
(****************************************************************************)
EXTENDS Front

VARIABLES aa        \* each stream's device, data callback and error callback

NoAaudio == [device |-> "open", data |-> "idle", error |-> "idle"]

AaInit == aa = [s \in Streams |-> NoAaudio]

OnAaudio(s) == stream[s].open /\ stream[s].api = "AAudio"
AaOnly == UNCHANGED frontVars
Set(s, field, value) == aa' = [aa EXCEPT ![s][field] = value]

------------------------------------------------------------------------------
(* The device, and opening *)

\* Eight rates are listed, five are tried; the input is not asked for its channels.
AaRates == <<384000, 192000, 96000, 48000, 44100>>
PaAAudio_Initialize ==
    {IF "AAudio" \notin build.enabled THEN Disabled
     ELSE IF FirstOf(AaRates, build.out.rates) = 0 THEN Found("no rate", 0, 0)
     ELSE Found("device", FirstOf(<<2, 1>>, build.out.channels), 0)}

\* With any format of PortAudio it selects one that AAudio has.
AaSelects(in, out) == /\ in # NoParameters => Selects({"Int16", "Float32"}, in)
                      /\ out # NoParameters => Selects({"Int16", "Int24", "Float32"}, out)
AaAccepts(in, out, rate) == HasChannels(in, out) /\ AaSelects(in, out) /\ rate \in build.out.rates

\* An OpenStream that fails closes the stream, as CloseStream does.
AaSteps == <<"stream", "device", "processor">>
AaFrees == {"stream", "device", "processor"}
AaOpenFails == /\ Mishap("open")
               /\ \E i \in DOMAIN AaSteps : FailsAt(AaSteps, i, AaFrees)

------------------------------------------------------------------------------
(* Calls of the client, which Streams dispatches *)

\* The flags are set before the device is asked.
AaStarts(s) ==
    /\ \/ Set(s, "device", "started") /\ UNCHANGED mishaps
       \/ Mishap("start") /\ UNCHANGED aa
    /\ stream' = [stream EXCEPT ![s].started = TRUE, ![s].isStopped = FALSE, ![s].isActive = TRUE]

\* StopStream, and AbortStream the same: no finished callback.
AaStops(s) ==
    /\ Flags(s, TRUE, FALSE)
    /\ IF aa[s].device = "started" THEN Set(s, "device", "stopping") ELSE UNCHANGED aa

\* LibAAudioStream_close waits for what is being called.
AaClosed(s) == aa[s].data = "idle" /\ aa[s].error = "idle"

------------------------------------------------------------------------------
(* AaudioDataCallback *)

AaCalls(s) ==
    /\ OnAaudio(s) /\ aa[s].device \in {"started", "stopping"}
    /\ aa[s].data = "idle" /\ aa[s].error = "idle" /\ ~(call.s = s /\ call.at = "close")
    /\ Set(s, "data", "calling")
    /\ AaOnly

AaReturns(s) ==
    /\ OnAaudio(s) /\ aa[s].data = "calling"
    /\ \E r \in IF stream[s].ends THEN {"continue", "complete", "abort"} ELSE {"continue"} :
          IF r = "continue"
          THEN Set(s, "data", "idle") /\ AaOnly
          ELSE /\ Set(s, "data", "complete")
               /\ Flags(s, TRUE, FALSE)
               /\ UNCHANGED <<build, tables, resources, call, mishaps, undefined>>

AaFinishes(s) == OnAaudio(s) /\ aa[s].data = "complete" /\ Set(s, "data", "finishing") /\ AaOnly
AaFinished(s) == OnAaudio(s) /\ aa[s].data = "finishing" /\ Set(s, "data", "idle") /\ AaOnly

------------------------------------------------------------------------------
(* AaudioErrorCallback *)

AaErrorCallback(s) ==
    /\ OnAaudio(s) /\ aa[s].error = "called"
    /\ Flags(s, TRUE, FALSE)
    /\ Set(s, "error", "finishing")
    /\ UNCHANGED <<build, tables, resources, call, mishaps, undefined>>
AaErrorReturns(s) == OnAaudio(s) /\ aa[s].error = "finishing" /\ Set(s, "error", "idle") /\ AaOnly

AaCallbacks(s) == \/ AaCalls(s) \/ AaReturns(s) \/ AaFinishes(s) \/ AaFinished(s)
                  \/ AaErrorCallback(s) \/ AaErrorReturns(s)

------------------------------------------------------------------------------
(* External *)

AaDisconnects(s) ==
    /\ OnAaudio(s) /\ aa[s].device = "started" /\ AaClosed(s) /\ Mishap("disconnect")
    /\ aa' = [aa EXCEPT ![s].device = "disconnected", ![s].error = "called"]
    /\ UNCHANGED <<build, tables, stream, resources, call, undefined>>
AaRests(s) == OnAaudio(s) /\ aa[s].device = "stopping" /\ AaClosed(s) /\ Set(s, "device", "stopped") /\ AaOnly
=============================================================================
