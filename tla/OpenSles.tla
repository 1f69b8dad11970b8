------------------------------ MODULE OpenSles ------------------------------
(****************************************************************************)
(* pa_opensles.c: a stream has a queue of buffers for each side. The device     *)
(* takes a buffer from the queue and posts a semaphore when it is through with   *)
(* it; a thread of the stream, or the client of a blocking stream, waits for the  *)
(* semaphore, works on the next buffer and queues it again.                     *)
(*                                                                            *)
(* The buffer processor between a buffer and the callback is BufferProcessor;     *)
(* with paFramesPerBufferUnspecified it holds nothing back.                      *)
(****************************************************************************)
EXTENDS Front

CONSTANTS numberOfBuffers,
          MaxPosts       \* bound: posts nobody has waited for

ASSUME OpenSlesAssumption == numberOfBuffers \in Nat \ {0} /\ MaxPosts \in Nat

VARIABLES thread,        \* the stream thread
          line           \* each stream's queues

slVars == <<thread, line>>

NoThread == [pc |-> "none", result |-> "continue", made |-> FALSE, doStop |-> FALSE, doAbort |-> FALSE]
NoLine   == [queue |-> << >>, sem |-> 0, current |-> 0, on |-> FALSE, stuck |-> FALSE]

SlInit == /\ thread = [s \in Streams |-> NoThread]
          /\ line = [s \in Streams |-> [d \in {"out", "in"} |-> NoLine]]

OnOpenSles(s) == stream[s].open /\ stream[s].api = "OpenSLES"
Rotated(l) == [l EXCEPT !.current = (l.current + 1) % numberOfBuffers]
\* A full queue refuses a buffer, which nobody notices.
Queued(l) == IF Len(l.queue) < numberOfBuffers THEN [l EXCEPT !.queue = Append(@, l.current)] ELSE l
\* Mutant: the same buffer is worked on next.
EnqueueSame(l) == Queued(l)

Enqueue(l) == Rotated(Queued(l))

Update(s, d, l) == line' = [line EXCEPT ![s][d] = l]
Sides(s, F(_)) == line' = [line EXCEPT ![s] = [d \in {"out", "in"} |->
                               IF d \in stream[s].sides THEN F(line[s][d]) ELSE line[s][d]]]

------------------------------------------------------------------------------
(* The engine and its device *)

IsOutputSampleRateSupported(rate) == rate \in build.out.rates
IsInputSampleRateSupported(rate) == rate \in build.in.rates
IsOutputChannelCountSupported(n) == n \in build.out.channels
IsInputChannelCountSupported(n) == n \in build.in.channels

\* The preferred rate has to be one of both sides.
SlRates == <<48000, 44100, 32000, 24000, 16000>>
PaOpenSLES_Initialize ==
    IF "OpenSLES" \notin build.enabled THEN {Disabled}
    ELSE LET rates == {r \in ToSet(SlRates) : IsOutputSampleRateSupported(r) /\ IsInputSampleRateSupported(r)}
             out == {n \in 1 .. 2 : IsOutputChannelCountSupported(n)}
             in == {n \in 1 .. 2 : IsInputChannelCountSupported(n)}
         IN  {IF FirstOf(SlRates, rates) = 0 THEN Found("no rate", 0, 0)
              ELSE Found("device", FirstOf(<<2, 1>>, out), FirstOf(<<2, 1>>, in))}
         \cup (IF "engine" \in Faults THEN {Found("no engine", 0, 0)} ELSE {})

------------------------------------------------------------------------------
(* Opening *)

SlSelects(in, out) == /\ in # NoParameters => Selects({"Int16", "UInt8"}, in)
                      /\ out # NoParameters => Selects({"Int16", "UInt8", "Float32"}, out)
SlAccepts(in, out, rate) ==
    /\ HasChannels(in, out) /\ SlSelects(in, out)
    /\ out # NoParameters => IsOutputSampleRateSupported(rate)

\* "realised" stands for a step that acquires nothing.
InitializeInputStream  == <<"recorder", "realised", "inputBuffers">>
InitializeOutputStream == <<"outputMix", "player", "realised", "outputBuffers">>
SlSteps(sides) ==
    <<"stream", "processor">>
    \o (IF "in" \in sides THEN <<"inputStream">> \o InitializeInputStream ELSE << >>)
    \o (IF "out" \in sides THEN <<"outputStream">> \o InitializeOutputStream ELSE << >>)

\* Mutant: an output that fails keeps its player and mix.
SlFreesLessAt(steps, i) ==
    {"stream", "inputStream", "outputStream", "realised"}
    \cup (IF steps[i] = "inputBuffers" THEN {"recorder"} ELSE {})

\* What is freed when step i fails. A recorder that is not realised is not destroyed (it
\* crashed), and an output that fails forgets the input and the buffer processor.
SlFreesAt(steps, i) ==
    {"stream", "inputStream", "outputStream", "realised"}
    \cup (IF steps[i] = "inputBuffers" THEN {"recorder"} ELSE {})
    \cup (IF "outputMix" \in ToSet(SubSeq(steps, 1, i - 1)) THEN {"outputMix", "player"} ELSE {})

\* The mix is not checked. A rate the input does not have fails at its recorder.
OpenStreamFails(sides, rate) ==
    LET steps == SlSteps(sides)
    IN  \/ /\ "in" \in sides /\ ~IsInputSampleRateSupported(rate)
           /\ FailsAt(steps, 4, SlFreesAt(steps, 4))
           /\ UNCHANGED mishaps
        \/ /\ Mishap("open")
           /\ \E i \in {j \in DOMAIN steps : steps[j] # "outputMix"} :
                 FailsAt(steps, i, SlFreesAt(steps, i))

\* CloseStream
SlCloses(s) ==
    Frees(s, {"stream", "processor", "realised"}
             \cup (IF "out" \in stream[s].sides
                   THEN {"outputStream", "outputMix", "player", "outputBuffers"} ELSE {})
             \cup (IF "in" \in stream[s].sides THEN {"inputStream", "recorder", "inputBuffers"} ELSE {}))

------------------------------------------------------------------------------
(* Calls of the client, which Streams dispatches *)

SlOpens(s) == /\ thread' = [thread EXCEPT ![s] = NoThread]
              /\ line' = [line EXCEPT ![s] = [d \in {"out", "in"} |-> NoLine]]

\* The buffers are queued, empty, before the thread and then the devices start. The
\* semaphores keep what they were posted before.
Primed(l, on) == [l EXCEPT !.queue = [i \in 1 .. numberOfBuffers |-> i - 1], !.current = 0, !.on = on]
SlStartsThread(s) ==
    thread' = [thread EXCEPT ![s] = [NoThread EXCEPT
                  !.pc = IF stream[s].mode = "blocking" THEN "none" ELSE "wait"]]
\* With all in place SetPlayState or SetRecordState may fail; so may Enqueue, and then
\* there is no thread, though the flags say active.
Runs(d, fault) == fault = "none" \/ (fault = "record" /\ d = "out")
SlStarts(s) ==
    /\ \E fault \in {"none", "state", "record", "enqueue"} :
          /\ IF fault = "none" THEN UNCHANGED mishaps ELSE Mishap(fault)
          /\ (fault = "record") => "in" \in stream[s].sides
          /\ Tame => fault # "enqueue"
          /\ IF fault = "enqueue" THEN UNCHANGED slVars
             ELSE /\ line' = [line EXCEPT ![s] = [d \in {"out", "in"} |->
                                IF d \in stream[s].sides THEN Primed(line[s][d], Runs(d, fault)) ELSE line[s][d]]]
                  /\ SlStartsThread(s)
    /\ stream' = [stream EXCEPT ![s].started = TRUE, ![s].isStopped = FALSE, ![s].isActive = TRUE]

\* Mutant: AbortStream asks the thread to end and does not wait for it.
SlStopsAtOnce(s, op, abort) ==
    /\ thread' = [thread EXCEPT ![s].doStop = @ \/ ~abort, ![s].doAbort = @ \/ abort]
    /\ IF op \in {"stop", "abort"} THEN call' = NoCall ELSE Within(op, s, "close")
    /\ UNCHANGED <<line, stream>>

\* StopStream and AbortStream ask the thread and join it; on a blocking stream they
\* end it themselves.
SlStops(s, op, abort) ==
    /\ IF stream[s].mode = "blocking"
       THEN Within(op, s, "drain") /\ UNCHANGED thread
       ELSE /\ thread' = [thread EXCEPT ![s].doStop = @ \/ ~abort, ![s].doAbort = @ \/ abort]
            /\ Within(op, s, "join")
    /\ UNCHANGED <<line, stream>>

------------------------------------------------------------------------------
(* StreamProcessingCallback, the stream thread *)

At(s, pc) == OnOpenSles(s) /\ thread[s].pc = pc
Goto(s, pc) == thread' = [thread EXCEPT ![s].pc = pc]

SlWaitsOutput(s) ==
    /\ At(s, "wait") /\ "out" \in stream[s].sides /\ line[s]["out"].sem > 0
    /\ Update(s, "out", [line[s]["out"] EXCEPT !.sem = @ - 1])
    /\ Goto(s, IF "in" \in stream[s].sides THEN "input" ELSE "ready")
    /\ UNCHANGED frontVars

\* Mutant: the thread waits as long as the device needs.
SlWaitsForever(s) == At(s, "wait") /\ FALSE /\ UNCHANGED <<frontVars, slVars>>

\* The wait is longer than all the buffers: it times out when the device has stopped.
DeviceRests(l) == l.sem = 0 /\ (l.stuck \/ ~l.on \/ l.queue = << >>)
SlTimesOut(s) ==
    /\ At(s, "wait") /\ "out" \in stream[s].sides /\ DeviceRests(line[s]["out"])
    /\ Update(s, "out", [line[s]["out"] EXCEPT !.queue = << >>, !.on = TRUE, !.stuck = FALSE])
    /\ Goto(s, IF "in" \in stream[s].sides THEN "input" ELSE "ready")
    /\ UNCHANGED frontVars

SlWaitsInput(s) ==
    /\ At(s, "input") \/ (At(s, "wait") /\ stream[s].sides = {"in"})
    /\ line[s]["in"].sem > 0
    /\ Update(s, "in", [line[s]["in"] EXCEPT !.sem = @ - 1])
    /\ Goto(s, "ready")
    /\ UNCHANGED frontVars

SlCalls(s) ==
    /\ At(s, "ready")
    /\ IF thread[s].doStop \/ thread[s].doAbort
       THEN thread' = [thread EXCEPT ![s].pc = "check", ![s].made = FALSE]
       ELSE Goto(s, "calling")
    /\ UNCHANGED <<frontVars, line>>

\* The callback returns; the buffers go back to the devices unless it aborted.
Results(s) == IF stream[s].ends THEN {"continue", "complete", "abort"} ELSE {"continue"}
SlReturns(s) ==
    /\ At(s, "calling")
    /\ \E r \in Results(s) :
          /\ thread' = [thread EXCEPT ![s].pc = "check", ![s].result = r, ![s].made = r # "abort"]
          /\ IF r # "abort" THEN Sides(s, Enqueue) ELSE UNCHANGED line
    /\ UNCHANGED frontVars

\* End: the device is stopped and its queue dropped, then the finished callback.
End(s, markStopped) ==
    /\ Sides(s, LAMBDA l : [l EXCEPT !.queue = << >>, !.on = FALSE, !.stuck = FALSE])
    /\ Flags(s, stream[s].isStopped \/ markStopped, FALSE)

\* A stream that its callback ended is not marked as stopped.
Stopped(s) == thread[s].doAbort \/ (thread[s].doStop /\ ~thread[s].made)
SlChecks(s) ==
    /\ At(s, "check")
    /\ IF Stopped(s) \/ thread[s].result # "continue"
       THEN End(s, Stopped(s)) /\ Goto(s, "finishing")
       ELSE Goto(s, "wait") /\ UNCHANGED <<line, stream>>
    /\ UNCHANGED <<build, tables, resources, call, mishaps, undefined>>

SlFinished(s) == At(s, "finishing") /\ Goto(s, "exit") /\ UNCHANGED <<frontVars, line>>

SlThread(s) == \/ SlWaitsOutput(s) \/ SlTimesOut(s) \/ SlWaitsInput(s)
               \/ SlCalls(s) \/ SlReturns(s) \/ SlChecks(s) \/ SlFinished(s)

------------------------------------------------------------------------------
(* External: the devices *)

\* NotifyBufferFreeCallback
SlPlays(s, d) ==
    LET l == line[s][d]
    IN  /\ OnOpenSles(s) /\ l.on /\ ~l.stuck /\ l.queue # << >> /\ l.sem < MaxPosts
        /\ Update(s, d, [l EXCEPT !.queue = Tail(@), !.sem = @ + 1])
        /\ UNCHANGED <<frontVars, thread>>

SlSticks(s, d) ==
    /\ OnOpenSles(s) /\ line[s][d].on /\ ~line[s][d].stuck /\ Mishap("stuck")
    /\ Update(s, d, [line[s][d] EXCEPT !.stuck = TRUE])
    /\ UNCHANGED <<build, tables, stream, resources, call, undefined, thread>>
=============================================================================
