------------------------------ MODULE Streams ------------------------------
(****************************************************************************)
(* PortAudio in the Android build: the Pa_ functions of pa_front.c over both host   *)
(* APIs, called by one client, with the stream threads and the devices.           *)
(*                                                                            *)
(* A call that waits is a record of what it is in: `join' for the stream thread,    *)
(* `drain' for the queue of a blocking stream, `close', `sem' and `copy' of a read   *)
(* or write. A client that is Tame does nothing of what the code is known to leave   *)
(* undefined (README), among it what the Android player does at its end.          *)
(****************************************************************************)
EXTENDS OpenSles, AAudio

CONSTANTS Many,          \* bound: the host APIs that have more than one stream open
          Asked          \* what Pa_IsFormatSupported is asked for

vars == <<frontVars, slVars, aa>>

Init == FrontInit /\ SlInit /\ AaInit

HostOnly == UNCHANGED <<build, mishaps, undefined>>
SameStreams == UNCHANGED <<stream, resources, slVars, aa>>

------------------------------------------------------------------------------
(* Pa_Initialize *)

paHostApiInitializers == <<PaOpenSLES_Initialize, PaAAudio_Initialize>>

Pa_Initialize ==
    /\ Idle
    /\ IF Initialised
       THEN /\ initializationCount < MaxInits
            /\ initializationCount' = initializationCount + 1
            /\ UNCHANGED <<hostApis, defaultHostApi, mishaps, undefined, leaked>>
       ELSE InitializeHostApis(paHostApiInitializers)
    /\ UNCHANGED <<build, openStreams, call, stream, held, slVars, aa>>

------------------------------------------------------------------------------
(* Opening *)

Opens(s, api, mode, sides, ends) ==
    /\ \A r \in Streams : stream[r].open => {api, stream[r].api} \subseteq Many
    /\ PaUtil_InitializeStreamRepresentation(s, api, mode, sides, ends)
    /\ Acquires(s, IF api = "AAudio" THEN AaSteps ELSE SlSteps(sides))
    /\ AddOpenStream(s)
    /\ SlOpens(s)
    /\ aa' = [aa EXCEPT ![s] = NoAaudio]
    /\ UNCHANGED <<mishaps, undefined>>
Refused == UNCHANGED <<openStreams, stream, slVars, aa>>

\* A blocking stream on AAudio is not opened although there is no error: Pa_OpenStream
\* then lists a stream that is not there.
Pa_OpenStream(s) ==
    /\ Idle /\ ~stream[s].open
    /\ \A r \in Streams : r < s => stream[r].open
    /\ \E r \in Requests, mode \in {"callback", "blocking"}, ends \in BOOLEAN :
          LET sides == SidesOf(r.in, r.out)
          IN  /\ ValidateOpenStreamParameters(r.in, r.out, r.rate)
              /\ (mode = "blocking") => ~ends
              /\ IF HostApiOf(r.in, r.out).type = "OpenSLES"
                 THEN /\ SlAccepts(r.in, r.out, r.rate)
                      /\ \/ /\ "in" \in sides => IsInputSampleRateSupported(r.rate)
                            /\ Opens(s, "OpenSLES", mode, sides, ends)
                         \/ OpenStreamFails(sides, r.rate) /\ Refused /\ UNCHANGED undefined
                 ELSE IF mode = "callback"
                      THEN \/ AaAccepts(r.in, r.out, r.rate) /\ Opens(s, "AAudio", mode, sides, ends)
                           \/ AaOpenFails /\ Refused /\ UNCHANGED undefined
                      ELSE /\ ~Tame
                           /\ undefined' = "no stream"
                           /\ Refused /\ UNCHANGED <<resources, mishaps>>
    /\ UNCHANGED <<build, initializationCount, hostApis, defaultHostApi, call>>

------------------------------------------------------------------------------
(* Starting and stopping *)

Pa_StartStream(s) ==
    /\ Idle /\ PaUtil_ValidateStreamPointer(s) /\ stream[s].isStopped
    /\ Tame => ~stream[s].started
    /\ IF stream[s].api = "OpenSLES" THEN SlStarts(s) /\ UNCHANGED aa
                                     ELSE AaStarts(s) /\ UNCHANGED slVars
    /\ UNCHANGED <<build, undefined, tables, resources, call>>

\* Stop or Abort of the host API; the caller goes on at `then'.
Stops(s, op, abort, then) ==
    IF stream[s].api = "OpenSLES"
    THEN SlStops(s, op, abort) /\ UNCHANGED aa
    ELSE /\ AaStops(s)
         /\ IF then = "done" THEN call' = NoCall ELSE Within(op, s, then)
         /\ UNCHANGED slVars

\* IsStopped is the guard of both; else they return paStreamIsStopped.
Pa_StopStream(s) ==
    /\ Idle /\ PaUtil_ValidateStreamPointer(s) /\ ~stream[s].isStopped
    /\ Tame => ~stream[s].ends
    /\ Stops(s, "stop", FALSE, "done")
    /\ HostOnly /\ UNCHANGED <<tables, resources>>
Pa_AbortStream(s) ==
    /\ Idle /\ PaUtil_ValidateStreamPointer(s) /\ ~stream[s].isStopped
    /\ Tame => ~stream[s].ends
    /\ Stops(s, "abort", TRUE, "done")
    /\ HostOnly /\ UNCHANGED <<tables, resources>>

\* What a caller does when its stream has stopped.
Resumes == IF call.op \in {"stop", "abort"} THEN call' = NoCall ELSE Within(call.op, call.s, "close")

\* PaUnixThread_Terminate: a thread is joined once, and there must have been one.
PaUnixThread_Terminate ==
    /\ call.at = "join"
    /\ LET pc == thread[call.s].pc
       IN  IF pc \in {"none", "joined"}
           THEN undefined' = "join" /\ UNCHANGED <<call, thread>>
           ELSE /\ pc = "exit"
                /\ Goto(call.s, "joined")
                /\ Resumes
                /\ UNCHANGED undefined
    /\ UNCHANGED <<build, tables, stream, resources, mishaps, line, aa>>

\* End of a blocking stream, when the devices have emptied the queues.
Drains ==
    /\ call.at = "drain"
    /\ \A d \in stream[call.s].sides : line[call.s][d].queue = << >>
    /\ End(call.s, TRUE)
    /\ Within(call.op, call.s, "notify")
    /\ HostOnly /\ UNCHANGED <<tables, resources, thread, aa>>
Drained ==
    /\ call.at = "notify"
    /\ Resumes
    /\ HostOnly /\ SameStreams /\ UNCHANGED tables

------------------------------------------------------------------------------
(* Closing *)

\* The stream leaves the list first, and is aborted unless it is stopped.
Closes(s, op) ==
    /\ RemoveOpenStream(s)
    /\ IF stream[s].isStopped THEN Within(op, s, "close") /\ SameStreams
                              ELSE Stops(s, op, TRUE, "close")
    /\ HostOnly /\ UNCHANGED <<initializationCount, hostApis, defaultHostApi, resources>>

Pa_CloseStream(s) == Idle /\ PaUtil_ValidateStreamPointer(s) /\ Closes(s, "close")

\* CloseStream of the host API frees the stream.
CloseStream ==
    /\ call.at = "close"
    /\ IF stream[call.s].api = "AAudio" THEN AaClosed(call.s) /\ Frees(call.s, AaFrees) ELSE SlCloses(call.s)
    /\ stream' = [stream EXCEPT ![call.s] = Closed]
    /\ SlOpens(call.s)
    /\ aa' = [aa EXCEPT ![call.s] = NoAaudio]
    /\ IF call.op = "close" THEN call' = NoCall ELSE Within(call.op, 0, "next")
    /\ HostOnly /\ UNCHANGED tables

Pa_Terminate ==
    /\ Idle /\ Initialised
    /\ Tame => Terminates(hostApis) \/ initializationCount > 1
    /\ IF initializationCount > 1
       THEN initializationCount' = initializationCount - 1 /\ UNCHANGED call
       ELSE Within("terminate", 0, "next") /\ UNCHANGED initializationCount
    /\ HostOnly /\ SameStreams /\ UNCHANGED <<hostApis, defaultHostApi, openStreams>>

CloseOpenStreams ==
    /\ call.at = "next" /\ openStreams # << >>
    /\ Closes(Head(openStreams), "terminate")
Terminated ==
    /\ call.at = "next" /\ openStreams = << >>
    /\ TerminateHostApis
    /\ initializationCount' = 0
    /\ call' = NoCall
    /\ SameStreams /\ UNCHANGED <<build, mishaps, openStreams>>

------------------------------------------------------------------------------
(* Reading and writing: one buffer at a time, each waiting for the semaphore *)

Side(op) == IF op = "read" THEN "in" ELSE "out"

Pa_ReadOrWriteStream(s, op) ==
    /\ Idle /\ PaUtil_ValidateStreamPointer(s) /\ ~stream[s].isStopped
    /\ stream[s].mode = "blocking" /\ Side(op) \in stream[s].sides
    /\ Within(op, s, "sem")
    /\ HostOnly /\ SameStreams /\ UNCHANGED tables
Pa_ReadStream(s) == Pa_ReadOrWriteStream(s, "read")
Pa_WriteStream(s) == Pa_ReadOrWriteStream(s, "write")

\* A read queues its buffer before it copies what is in it.
ReadStream ==
    /\ call.op = "read"
    /\ LET l == line[call.s]["in"]
       IN  \/ /\ call.at = "sem" /\ l.sem > 0
              /\ Update(call.s, "in", Queued([l EXCEPT !.sem = @ - 1]))
              /\ Within("read", call.s, "copy")
           \/ /\ call.at = "copy"
              /\ Update(call.s, "in", Rotated(l))
              /\ call' \in {NoCall, [call EXCEPT !.at = "sem"]}
    /\ HostOnly /\ UNCHANGED <<tables, stream, resources, thread, aa>>
WriteStream ==
    /\ call.op = "write"
    /\ LET l == line[call.s]["out"]
       IN  \/ /\ call.at = "sem" /\ l.sem > 0
              /\ Update(call.s, "out", [l EXCEPT !.sem = @ - 1])
              /\ Within("write", call.s, "copy")
           \/ /\ call.at = "copy"
              /\ Update(call.s, "out", Enqueue(l))
              /\ call' \in {NoCall, [call EXCEPT !.at = "sem"]}
    /\ HostOnly /\ UNCHANGED <<tables, stream, resources, thread, aa>>

------------------------------------------------------------------------------
Waiting == PaUnixThread_Terminate \/ Drains \/ Drained \/ CloseStream \/ CloseOpenStreams
              \/ Terminated \/ ReadStream \/ WriteStream

Client == \/ Pa_Initialize \/ Pa_Terminate \/ Waiting
          \/ \E s \in Streams :
                \/ Pa_OpenStream(s)
                \/ Pa_StartStream(s) \/ Pa_StopStream(s) \/ Pa_AbortStream(s) \/ Pa_CloseStream(s)
                \/ Pa_ReadStream(s) \/ Pa_WriteStream(s)

Devices == \E s \in Streams :
    \/ \E d \in {"out", "in"} : (SlPlays(s, d) \/ SlSticks(s, d)) /\ UNCHANGED aa
    \/ (AaDisconnects(s) \/ AaRests(s)) /\ UNCHANGED slVars

Threads == \E s \in Streams : \/ SlThread(s) /\ UNCHANGED aa
                              \/ AaCallbacks(s) /\ UNCHANGED slVars

Next == undefined = "nothing" /\ (Client \/ Devices \/ Threads)

\* No legal sequence of calls of a tame client reaches a freed host API, a function that
\* is not there or a second join, and no stream outlives its host API.
Defined == undefined = "nothing"

\* The threads run, callbacks return, a device that is not stuck goes on, and a read
\* or write is of finitely many buffers.
ClientGoes     == Defined /\ Waiting
Returns        == Defined /\ call.at = "copy" /\ call' = NoCall /\ Waiting
ThreadGoes(s)  == Defined /\ SlThread(s) /\ UNCHANGED aa
AaGoes(s)      == Defined /\ AaCallbacks(s) /\ UNCHANGED slVars
Plays(s, d)    == Defined /\ SlPlays(s, d) /\ UNCHANGED aa
Fairness ==
    /\ WF_vars(ClientGoes) /\ SF_vars(Returns)
    /\ \A s \in Streams : /\ WF_vars(ThreadGoes(s)) /\ WF_vars(AaGoes(s))
                          /\ \A d \in {"out", "in"} : WF_vars(Plays(s, d))

Spec == Init /\ [][Next]_vars /\ Fairness

------------------------------------------------------------------------------
(* Properties *)

\* The buffer the program works on is not in the queue of the device, which plays or
\* fills it: while the callback has it, and while a write copies into it.
BufferIsOurs == \A s \in Streams : \A d \in stream[s].sides :
    (OnOpenSles(s) /\ (thread[s].pc = "calling" \/ (d = "out" /\ call = [op |-> "write", s |-> s, at |-> "copy"])))
       => line[s][d].current \notin ToSet(line[s][d].queue)

\* An output that is not opened, or a stream that is closed, leaves nothing behind. (An
\* input and the buffer processor do, and an engine that cannot be realised.)
NothingLeaks == leaked \subseteq {"engine", "processor", "recorder", "inputBuffers"}

\* The two numberings of the devices are inverse to each other, also beside an API that
\* has none, and the default output device is one of them though the default API may have
\* none. The default device of an API is its own, but for an API without a device, which
\* says it has one (see DefaultsExist). What Pa_IsFormatSupported calls supported is then
\* opened, of whatever device, channels, format and rate on both sides.
Numbered(i, n) ==
    LET d == Pa_HostApiDeviceIndexToDeviceIndex(i, n)
    IN  FindHostApi(d) = i /\ HostApiDevice(d) = n /\ PaUtil_DeviceIndexToHostApiDeviceIndex(d, i) = n
Accepted(r) ==
    IF HostApiOf(r.in, r.out).type = "AAudio" THEN AaAccepts(r.in, r.out, r.rate)
    ELSE SlAccepts(r.in, r.out, r.rate) /\ (r.in # NoParameters => IsInputSampleRateSupported(r.rate))
DevicesServe == (Initialised /\ Idle /\ openStreams = << >>) =>
    /\ \A i \in DOMAIN hostApis : \A n \in 0 .. hostApis[i].deviceCount - 1 : Numbered(i, n)
    /\ Pa_GetDeviceCount > 0 => FindHostApi(Pa_GetDefaultOutputDevice) # 0
    /\ \A i \in DOMAIN hostApis :
          hostApis[i].deviceCount > 0 => FindHostApi(hostApis[i].defaultOutputDevice) = i
    /\ \A r \in Asked : Pa_IsFormatSupported(r) => Accepted(r)

\* Where a stream stands for StreamPromise.
SlStatus(s) ==
    LET t == thread[s]
    IN  IF stream[s].mode = "blocking"
        THEN IF ~stream[s].started THEN "opened"
             ELSE IF call.s = s /\ call.at = "notify" THEN "finishing"
             ELSE IF stream[s].isStopped THEN "finished" ELSE "active"
        ELSE CASE t.pc = "none" -> "opened"
               [] t.pc \in {"calling", "finishing"} -> t.pc
               [] t.pc = "check" /\ t.result # "continue" -> "complete"
               [] t.pc \in {"exit", "joined"} -> "finished"
               [] OTHER -> "active"
AaStatus(s) ==
    IF aa[s].data # "idle" THEN aa[s].data
    ELSE IF aa[s].error = "finishing" THEN "finishing"
    ELSE IF aa[s].device = "open" THEN "opened"
    ELSE IF stream[s].isStopped THEN "finished" ELSE "active"
Status(s) == IF ~stream[s].open THEN "closed"
             ELSE IF stream[s].api = "AAudio" THEN AaStatus(s) ELSE SlStatus(s)

Promise == INSTANCE StreamPromise
             WITH status <- [s \in Streams |-> Status(s)],
                  repeating <- {s \in Streams : OnAaudio(s)}

\* Both host APIs keep the promise that output_pa.c is written for, AAudio as an API that repeats.
KeepsPromise == Promise!Spec

\* A device that the wait does not time out for: a blocking stream's, and every input.
Stalled(s) == \E d \in stream[s].sides :
    /\ d = "in" \/ stream[s].mode = "blocking"
    /\ line[s][d].stuck \/ (stream[s].started /\ ~line[s][d].on)

\* A call returns, a stream that was started calls on, also after its device got stuck,
\* and what has ended is finished.
GoesOn ==
    /\ ~Idle ~> (Idle \/ (call.s # 0 /\ Stalled(call.s)))
    /\ \A s \in Streams :
          /\ (stream[s].mode = "callback" /\ Status(s) = "active") ~> (Status(s) # "active" \/ Stalled(s))
          /\ (Status(s) = "complete") ~> (Status(s) \in {"finished", "closed"})

------------------------------------------------------------------------------
(* What a comment of the code says, and a run that expects a violation refutes *)

\* portaudio.h:325, of a host API: "The value will be a device index ranging from 0 to
\* (Pa_GetDeviceCount()-1), or paNoDevice if no default output device is available".
DefaultsExist == Defined =>
    \A i \in DOMAIN hostApis :
       hostApis[i].defaultOutputDevice \in {NoDevice} \cup 0 .. Pa_GetDeviceCount - 1
=============================================================================
