---------------------------- MODULE StreamsProofs ----------------------------
(***************************************************************************)
(* What is proved of Streams, PortAudio on Android, for every set of       *)
(* streams, host APIs, devices and failures and every number of buffers,   *)
(* of a client that is Tame: nothing undefined in C is reached, the        *)
(* program works on no buffer that the device has, and both host APIs keep *)
(* the promise output_pa.c is written for.  That nothing is left behind is *)
(* proved for any client.                                                  *)
(*                                                                         *)
(* SlInv, AaInv and CallInv say what thread, device, flags and the call    *)
(* the client is in know of each other; LineInv counts the buffers of a    *)
(* side: each is in the queue, posted or in somebody's hand.               *)
(***************************************************************************)
EXTENDS Streams, WellFoundedInduction, TLAPS

USE OpenSlesAssumption, FrontAssumption DEF OpenSlesAssumption, Idle

------------------------------------------------------------------------------
(* The invariant *)

Waits == {"join", "drain", "notify", "close"}
Calls == {NoCall} \cup [op : {"stop", "abort", "close", "terminate"}, s : Streams, at : Waits]
                  \cup [op : {"terminate"}, s : {0}, at : {"next"}]
                  \cup [op : {"read", "write"}, s : Streams, at : {"sem", "copy"}]
ThreadType == [pc : {"none", "wait", "input", "ready", "calling", "check", "finishing", "exit", "joined"},
               result : {"continue", "complete", "abort"},
               made : BOOLEAN, doStop : BOOLEAN, doAbort : BOOLEAN]
LineType == [queue : Seq(Nat), sem : Nat, current : 0 .. numberOfBuffers - 1, on : BOOLEAN, stuck : BOOLEAN]
StreamType == [open : BOOLEAN, api : {"none", "OpenSLES", "AAudio"}, mode : {"none", "callback", "blocking"},
               sides : SUBSET {"in", "out"}, ends : BOOLEAN,
               started : BOOLEAN, isStopped : BOOLEAN, isActive : BOOLEAN]
AaudioType == [device : {"open", "started", "stopping", "stopped", "disconnected"},
               data : {"idle", "calling", "complete", "finishing"},
               error : {"idle", "called", "finishing"}]
StreamsType ==
    /\ stream \in [Streams -> StreamType]
    /\ thread \in [Streams -> ThreadType]
    /\ aa \in [Streams -> AaudioType]
    /\ call \in Calls

\* The client has asked for the end of stream s and waits for its thread.
Joins(s) == call.at = "join" /\ call.s = s

\* The flags of an OpenSL stream and its thread.
SlInv(s) == OnOpenSles(s) =>
    LET t == thread[s]
    IN  /\ stream[s].mode \in {"callback", "blocking"}
        /\ stream[s].mode = "blocking" => t.pc = "none" /\ ~stream[s].ends
        /\ ~stream[s].started => t.pc = "none" /\ stream[s].isStopped
        /\ stream[s].mode = "callback" /\ stream[s].started => t.pc # "none"
        /\ stream[s].isStopped /\ t.pc \notin {"none", "joined"} => Joins(s)
        /\ t.doStop \/ t.doAbort => t.pc = "joined" \/ Joins(s)
        /\ t.pc = "joined" /\ ~stream[s].isStopped => call.at = "close" /\ call.s = s
        /\ t.pc \in {"wait", "input", "ready", "calling"} \/ ~stream[s].ends => t.result = "continue"
        /\ t.pc \in {"finishing", "exit", "joined"} /\ ~stream[s].ends => stream[s].isStopped

\* The flags of an AAudio stream, its device and its callbacks.
AaInv(s) == OnAaudio(s) =>
    /\ stream[s].mode = "callback"
    /\ ~stream[s].started => stream[s].isStopped /\ aa[s] = NoAaudio
    /\ aa[s].error # "idle" => aa[s].data = "idle" /\ aa[s].device = "disconnected"
    /\ aa[s].data # "idle" => aa[s].device \in {"started", "stopping", "stopped"}
    /\ aa[s].data \in {"complete", "finishing"} => stream[s].isStopped
    /\ aa[s].error = "finishing" => stream[s].isStopped

ClosedInv(s) == stream[s].api = "none" \/ ~stream[s].open => stream[s] = Closed

\* What a call that waits may rely on.
CallOn(s) ==
    /\ stream[s].open
    /\ call.at = "join" => /\ OnOpenSles(s) /\ stream[s].mode = "callback"
                           /\ thread[s].pc \notin {"none", "joined"}
    /\ call.at = "join" /\ call.op \in {"stop", "abort"} => ~stream[s].ends
    /\ call.at \in {"drain", "notify"} =>
          /\ OnOpenSles(s) /\ stream[s].mode = "blocking" /\ stream[s].started
          /\ stream[s].isStopped <=> call.at = "notify"
    /\ call.at = "close" =>
          /\ call.op \in {"close", "terminate"}
          /\ stream[s].isStopped \/ (OnOpenSles(s) /\ thread[s].pc = "joined")
    /\ call.op \in {"read", "write"} =>
          /\ OnOpenSles(s) /\ stream[s].mode = "blocking" /\ stream[s].started
          /\ Side(call.op) \in stream[s].sides
CallInv == call.s # 0 => CallOn(call.s)

Inv == /\ StreamsType /\ CallInv
       /\ \A s \in Streams : SlInv(s) /\ AaInv(s) /\ ClosedInv(s)

\* The list has each stream that is open once, but the one that is being closed.
Closing(s) == call.s = s /\ call.op \in {"close", "terminate"}
ListInv ==
    /\ openStreams \in Seq(Streams)
    /\ \A i, j \in DOMAIN openStreams : openStreams[i] = openStreams[j] => i = j
    /\ \A s \in Streams : s \in ToSet(openStreams) <=> stream[s].open /\ ~Closing(s)
    /\ call.op = "terminate" => Terminates(hostApis)

\* The buffer k before c in the ring.
Before(c, k) == IF c >= k THEN c - k ELSE c - k + numberOfBuffers

\* One buffer of a side is in the hands of the thread or of a write.
Hand(s, d) ==
    IF \/ thread[s].pc \in {"ready", "calling"}
       \/ d = "out" /\ (thread[s].pc = "input" \/ call = [op |-> "write", s |-> s, at |-> "copy"])
    THEN 1 ELSE 0

\* A queue has the buffers before the current one, and there is room for the others. (A
\* read queues its buffer before it is through with it.)
Fits(l, hand) ==
    /\ l.sem + Len(l.queue) + hand <= numberOfBuffers
    /\ \A i \in 1 .. Len(l.queue) : l.queue[i] = Before(l.current, Len(l.queue) + 1 - i)
LineOk(s, d) == /\ ~stream[s].started => line[s][d] = NoLine
                /\ Fits(line[s][d], Hand(s, d))
Counted(s, d) == OnOpenSles(s) /\ d \in stream[s].sides /\ (stream[s].mode = "callback" \/ d = "out")
LineInv ==
    /\ line \in [Streams -> [{"out", "in"} -> LineType]]
    /\ \A s \in Streams : \A d \in {"out", "in"} : Counted(s, d) => LineOk(s, d)

\* What a stream has is what its CloseStream frees.
Kinds == {"stream", "processor", "inputStream", "recorder", "realised", "inputBuffers",
          "outputStream", "outputMix", "player", "outputBuffers", "device"}
Closable(x) == IF x.api = "AAudio" THEN AaFrees
               ELSE {"stream", "processor", "realised"}
                    \cup (IF "out" \in x.sides
                          THEN {"outputStream", "outputMix", "player", "outputBuffers"} ELSE {})
                    \cup (IF "in" \in x.sides THEN {"inputStream", "recorder", "inputBuffers"} ELSE {})
Legal(c) == c \in Calls /\ (c.at = "close" => c.op \in {"close", "terminate"})
LeakInv == /\ stream \in [Streams -> StreamType] /\ Legal(call) /\ openStreams \in Seq(Streams)
           /\ held \in [Streams -> SUBSET Kinds]
           /\ \A s \in Streams : held[s] \subseteq Closable(stream[s])
           /\ NothingLeaks
------------------------------------------------------------------------------
(* Flags, threads and calls *)

\* What a call says of itself.
LEMMA CallTypes ==
    ASSUME call \in Calls
    PROVE  /\ call.s \in Streams \cup {0}
           /\ call.s # 0 <=> call # NoCall /\ call.at # "next"
           /\ call.at \in {"none", "next", "sem", "copy"} \cup Waits
           /\ call.at \in Waits => call.op \in {"stop", "abort", "close", "terminate"}
           /\ call.at \in {"sem", "copy"} <=> call.op \in {"read", "write"}
           /\ call.at = "next" => call.op = "terminate"
           /\ call.at = "none" <=> call = NoCall
           /\ call.op = "none" <=> call = NoCall
BY DEF Calls, Waits, NoCall

\* Flags(s, b, c)
LEMMA FlagsOnly ==
    ASSUME StreamsType, NEW s \in Streams, NEW b \in BOOLEAN, NEW c \in BOOLEAN, Flags(s, b, c)
    PROVE  /\ stream' \in [Streams -> StreamType]
           /\ stream'[s] = [stream[s] EXCEPT !.isStopped = b, !.isActive = c]
           /\ stream'[s].isStopped = b
           /\ \A r \in Streams \ {s} : stream'[r] = stream[r]
<1> DEFINE new == [stream[s] EXCEPT !.isStopped = b, !.isActive = c]
<1>1. stream[s] \in StreamType
    BY DEF StreamsType
<1>2. new \in StreamType /\ new.isStopped = b
    BY <1>1 DEF StreamType
<1>3. stream' = [stream EXCEPT ![s] = new]
    BY DEF Flags, StreamsType
<1> HIDE DEF new
<1>4. stream' \in [Streams -> StreamType] /\ stream'[s] = new /\ \A r \in Streams \ {s} : stream'[r] = stream[r]
    BY <1>2, <1>3 DEF StreamsType
<1> QED
    BY <1>2, <1>4 DEF new

\* A step of one stream: what has to be shown of it.
LEMMA OneStream ==
    ASSUME Inv, NEW s \in Streams, StreamsType',
           SlInv(s)', AaInv(s)', ClosedInv(s)', call'.s = s => CallOn(s)',
           \A r \in Streams \ {s} : /\ stream'[r] = stream[r] /\ thread'[r] = thread[r]
                                    /\ aa'[r] = aa[r],
           call' = call \/ (call.s \in {0, s} /\ call'.s \in {0, s})
    PROVE  Inv'
<1>1. SUFFICES ASSUME NEW r \in Streams \ {s}
              PROVE  SlInv(r)' /\ AaInv(r)' /\ ClosedInv(r)' /\ (call'.s = r => CallOn(r)')
  <2>1. call'.s \in Streams \cup {0}
      BY CallTypes DEF StreamsType
  <2> QED
      BY <1>1, <2>1 DEF Inv, CallInv
<1>2. SlInv(r) /\ AaInv(r) /\ ClosedInv(r) /\ (call.s # r \/ call' = call)
    BY DEF Inv
<1>3. SlInv(r)'
    BY <1>2 DEF Inv, SlInv, OnOpenSles, Joins
<1>4. AaInv(r)' /\ ClosedInv(r)'
    BY <1>2 DEF Inv, AaInv, OnAaudio, ClosedInv
<1>5. ASSUME call'.s = r PROVE CallOn(r)'
  <2>1. call' = call /\ CallOn(r)
      BY <1>5 DEF Inv, CallInv
  <2> QED
      BY <2>1 DEF CallOn, OnOpenSles
<1> QED
    BY <1>3, <1>4, <1>5

\* A step of the thread of an OpenSL stream changes what the thread is at and, when it
\* ends, the flags.
LEMMA SlThreadKeeps ==
    ASSUME Inv, NEW s \in Streams, SlThread(s), UNCHANGED aa
    PROVE  Inv'
<1> DEFINE t == thread[s]
           u == thread'[s]
<1> USE DEF At, Goto, Update
<1>1. StreamsType /\ SlInv(s) /\ AaInv(s) /\ ClosedInv(s) /\ (call.s = s => CallOn(s))
    BY DEF Inv, CallInv
<1>2. OnOpenSles(s) /\ call' = call
    BY DEF SlThread, SlWaitsOutput, SlTimesOut, SlWaitsInput, SlCalls, SlReturns, SlChecks, SlFinished, frontVars
<1>3. \A r \in Streams \ {s} : stream'[r] = stream[r] /\ thread'[r] = thread[r]
    BY <1>1 DEF SlThread, SlWaitsOutput, SlTimesOut, SlWaitsInput, SlCalls, SlReturns, SlChecks, SlFinished, frontVars,
           StreamsType, Flags, End
<1>4. CASE SlWaitsOutput(s) \/ SlTimesOut(s) \/ SlWaitsInput(s)
  <2>1. /\ UNCHANGED stream /\ t.pc \in {"wait", "input"}
        /\ \E pc \in {"input", "ready"} : thread' = [thread EXCEPT ![s].pc = pc]
      BY <1>4 DEF SlWaitsOutput, SlTimesOut, SlWaitsInput, frontVars
  <2>2. PICK pc \in {"input", "ready"} : thread' = [thread EXCEPT ![s].pc = pc]
      BY <2>1
  <2>3. StreamsType' /\ thread'[s] = [t EXCEPT !.pc = pc]
      BY <1>1, <1>2, <2>1, <2>2 DEF StreamsType, ThreadType
  <2>4. SlInv(s)'
      BY <1>1, <1>2, <2>1, <2>3 DEF StreamsType, ThreadType, SlInv, OnOpenSles, Joins
  <2>5. AaInv(s)' /\ ClosedInv(s)'
      BY <1>1, <2>1 DEF AaInv, OnAaudio, ClosedInv
  <2>6. call'.s = s => CallOn(s)'
      BY <1>1, <1>2, <1>3, <2>1, <2>3 DEF StreamsType, ThreadType, CallOn, OnOpenSles
  <2> QED
      BY <1>2, <1>3, <2>3, <2>4, <2>5, <2>6, OneStream
<1>5. CASE SlCalls(s) \/ SlReturns(s) \/ SlFinished(s)
  <2>1. UNCHANGED stream
      BY <1>5 DEF SlCalls, SlReturns, SlFinished, frontVars
  <2>2. /\ u \in ThreadType /\ thread' \in [Streams -> ThreadType]
        /\ t.pc \notin {"none", "joined"} /\ u.pc \notin {"none", "joined"}
        /\ u.doStop = t.doStop /\ u.doAbort = t.doAbort
        /\ u.result = t.result \/ (u.pc = "check" /\ u.result \in Results(s))
        /\ u.pc \in {"finishing", "exit"} => t.pc = "finishing"
        /\ u.pc \in {"wait", "input", "ready", "calling"} => t.pc = "ready" /\ u.result = t.result
    <3>1. t \in ThreadType
        BY <1>1 DEF StreamsType
    <3>2. CASE SlCalls(s)
      <4>1. CASE t.doStop \/ t.doAbort
        <5>1. thread' = [thread EXCEPT ![s] = [t EXCEPT !.pc = "check", !.made = FALSE]] /\ t.pc = "ready"
            BY <1>1, <3>2, <4>1 DEF SlCalls, StreamsType
        <5>2. u = [t EXCEPT !.pc = "check", !.made = FALSE]
            BY <1>1, <5>1 DEF StreamsType, ThreadType
        <5> QED
            BY <1>1, <3>1, <5>1, <5>2 DEF StreamsType, ThreadType
      <4>2. CASE ~(t.doStop \/ t.doAbort)
        <5>1. thread' = [thread EXCEPT ![s] = [t EXCEPT !.pc = "calling"]] /\ t.pc = "ready"
            BY <1>1, <3>2, <4>2 DEF SlCalls, StreamsType
        <5>2. u = [t EXCEPT !.pc = "calling"]
            BY <1>1, <5>1 DEF StreamsType, ThreadType
        <5> QED
            BY <1>1, <3>1, <5>1, <5>2 DEF StreamsType, ThreadType
      <4> QED
          BY <4>1, <4>2
    <3>3. CASE SlReturns(s)
      <4>1. PICK r \in Results(s) :
               thread' = [thread EXCEPT ![s].pc = "check", ![s].result = r, ![s].made = r # "abort"]
          BY <3>3 DEF SlReturns
      <4>2. thread' = [thread EXCEPT ![s] = [t EXCEPT !.pc = "check", !.result = r, !.made = r # "abort"]]
          BY <1>1, <4>1 DEF StreamsType
      <4>3. t.pc = "calling" /\ r \in {"continue", "complete", "abort"}
          BY <3>3 DEF SlReturns, Results
      <4>4. u = [t EXCEPT !.pc = "check", !.result = r, !.made = r # "abort"]
          BY <1>1, <4>2 DEF StreamsType
      <4> QED
          BY <1>1, <3>1, <4>2, <4>3, <4>4 DEF StreamsType, ThreadType
    <3>4. CASE SlFinished(s)
      <4>1. thread' = [thread EXCEPT ![s] = [t EXCEPT !.pc = "exit"]] /\ t.pc = "finishing"
          BY <1>1, <3>4 DEF SlFinished, StreamsType
      <4>2. u = [t EXCEPT !.pc = "exit"]
          BY <1>1, <4>1 DEF StreamsType
      <4> QED
          BY <1>1, <3>1, <4>1, <4>2 DEF StreamsType, ThreadType
    <3> QED
        BY <1>5, <3>2, <3>3, <3>4
  <2>3. StreamsType' /\ thread'[s] \in ThreadType
      BY <1>1, <1>2, <2>1, <2>2 DEF StreamsType
  <2>4. SlInv(s)'
      BY <1>1, <1>2, <2>1, <2>2 DEF Results, StreamsType, SlInv, OnOpenSles, Joins
  <2>5. AaInv(s)' /\ ClosedInv(s)'
      BY <1>1, <2>1 DEF AaInv, OnAaudio, ClosedInv
  <2>6. call'.s = s => CallOn(s)'
      BY <1>1, <1>2, <1>3, <2>1, <2>2 DEF StreamsType, CallOn, OnOpenSles
  <2> QED
      BY <1>2, <1>3, <2>3, <2>4, <2>5, <2>6, OneStream
<1>6. CASE SlChecks(s) /\ ~Stopped(s) /\ t.result = "continue"
  <2>1. UNCHANGED stream /\ thread' = [thread EXCEPT ![s].pc = "wait"] /\ t.pc = "check"
      BY <1>6 DEF SlChecks
  <2>2. StreamsType' /\ thread'[s] = [t EXCEPT !.pc = "wait"]
      BY <1>1, <1>2, <2>1 DEF StreamsType, ThreadType
  <2>3. SlInv(s)'
      BY <1>1, <1>2, <1>6, <2>1, <2>2 DEF StreamsType, ThreadType, SlInv, OnOpenSles, Joins
  <2>4. AaInv(s)' /\ ClosedInv(s)'
      BY <1>1, <2>1 DEF AaInv, OnAaudio, ClosedInv
  <2>5. call'.s = s => CallOn(s)'
      BY <1>1, <1>2, <1>3, <2>1, <2>2 DEF StreamsType, ThreadType, CallOn, OnOpenSles
  <2> QED
      BY <1>2, <1>3, <2>2, <2>3, <2>4, <2>5, OneStream
<1>7. CASE SlChecks(s) /\ (Stopped(s) \/ t.result # "continue")
  <2>1. /\ thread' = [thread EXCEPT ![s].pc = "finishing"] /\ t.pc = "check"
        /\ Flags(s, stream[s].isStopped \/ Stopped(s), FALSE)
      BY <1>7 DEF SlChecks, End
  <2>2. PICK b \in BOOLEAN : b = (stream[s].isStopped \/ Stopped(s))
      OBVIOUS
  <2>3. /\ stream' \in [Streams -> StreamType]
        /\ stream'[s] = [stream[s] EXCEPT !.isStopped = b, !.isActive = FALSE]
        /\ stream'[s].isStopped = b
      BY <1>1, <2>1, <2>2, FlagsOnly
  <2>4. /\ StreamsType' /\ thread'[s] = [t EXCEPT !.pc = "finishing"]
        /\ stream[s].mode # "blocking"
        /\ b => stream[s].isStopped \/ t.doAbort \/ t.doStop
        /\ b \/ t.result # "continue"
        /\ stream[s].isStopped => b
    <3>1. StreamsType' /\ thread'[s] = [t EXCEPT !.pc = "finishing"]
      <4>1. thread' \in [Streams -> ThreadType] /\ thread'[s] = [t EXCEPT !.pc = "finishing"]
          BY <1>1, <2>1 DEF StreamsType, ThreadType
      <4> QED
          BY <1>1, <1>2, <2>3, <4>1 DEF StreamsType
    <3>2. stream[s].mode # "blocking"
        BY <1>1, <1>2, <2>1 DEF SlInv
    <3>3. /\ b => stream[s].isStopped \/ t.doAbort \/ t.doStop
          /\ b \/ t.result # "continue"
          /\ stream[s].isStopped => b
        BY <1>7, <2>2 DEF Stopped
    <3> QED
        BY <3>1, <3>2, <3>3
  <2>5. SlInv(s)'
      BY <1>1, <1>2, <2>1, <2>3, <2>4 DEF StreamsType, ThreadType, StreamType, SlInv, OnOpenSles, Joins
  <2>6. AaInv(s)' /\ ClosedInv(s)'
      BY <1>1, <1>2, <2>3 DEF StreamsType, StreamType, AaInv, OnAaudio, OnOpenSles, ClosedInv
  <2>7. call'.s = s => CallOn(s)'
      BY <1>1, <1>2, <2>1, <2>3, <2>4 DEF StreamsType, StreamType, ThreadType, CallOn, OnOpenSles
  <2> QED
      BY <1>2, <1>3, <2>4, <2>5, <2>6, <2>7, OneStream
<1> QED
    BY <1>4, <1>5, <1>6, <1>7 DEF SlThread, SlChecks
\* Of an AAudio stream, a field of the device's record.
LEMMA SetOnly ==
    ASSUME StreamsType, NEW s \in Streams, NEW y \in AaudioType, aa' = [aa EXCEPT ![s] = y]
    PROVE  /\ aa' \in [Streams -> AaudioType] /\ aa'[s] = y
           /\ \A r \in Streams \ {s} : aa'[r] = aa[r]
BY DEF StreamsType

\* What the callbacks of AAudio and its device do to a stream: they change the device's
\* record and, when they end the stream, mark it as stopped.
LEMMA AaChanges ==
    ASSUME StreamsType, NEW s \in Streams, AaCallbacks(s) \/ AaDisconnects(s) \/ AaRests(s)
    PROVE  /\ stream' \in [Streams -> StreamType]
           /\ \A r \in Streams \ {s} : stream'[r] = stream[r]
           /\ stream'[s] = stream[s] \/ stream'[s] = [stream[s] EXCEPT !.isStopped = TRUE, !.isActive = FALSE]
           /\ stream[s].isStopped => stream'[s].isStopped
           /\ aa' \in [Streams -> AaudioType]
           /\ \A r \in Streams \ {s} : aa'[r] = aa[r]
           /\ \/ aa'[s] = [aa[s] EXCEPT !.data = "calling"]
                 /\ aa[s].device \in {"started", "stopping"} /\ aa[s].data = "idle" /\ aa[s].error = "idle"
              \/ aa'[s] = [aa[s] EXCEPT !.data = "idle"] /\ aa[s].data \in {"calling", "finishing"}
              \/ aa'[s] = [aa[s] EXCEPT !.data = "complete"] /\ aa[s].data = "calling" /\ stream'[s].isStopped
              \/ aa'[s] = [aa[s] EXCEPT !.data = "finishing"] /\ aa[s].data = "complete"
              \/ aa'[s] = [aa[s] EXCEPT !.error = "finishing"] /\ aa[s].error = "called" /\ stream'[s].isStopped
              \/ aa'[s] = [aa[s] EXCEPT !.error = "idle"] /\ aa[s].error = "finishing"
              \/ aa'[s] = [aa[s] EXCEPT !.device = "disconnected", !.error = "called"]
                 /\ aa[s].device = "started" /\ aa[s].data = "idle" /\ aa[s].error = "idle"
              \/ aa'[s] = [aa[s] EXCEPT !.device = "stopped"]
                 /\ aa[s].device = "stopping" /\ aa[s].data = "idle" /\ aa[s].error = "idle"
<1> DEFINE x == aa[s]
           y == aa'[s]
<1> USE DEF Set, AaOnly, AaClosed, frontVars
<1>1. StreamsType /\ x \in AaudioType
    BY DEF StreamsType
<1>3. \/ UNCHANGED stream
      \/ Flags(s, TRUE, FALSE) /\ ((AaReturns(s) /\ x.data = "calling") \/ AaErrorCallback(s))
    BY DEF AaCallbacks, AaCalls, AaReturns, AaFinishes, AaFinished, AaErrorCallback, AaErrorReturns,
           AaDisconnects, AaRests
<1>4. /\ stream' \in [Streams -> StreamType]
      /\ \A r \in Streams \ {s} : stream'[r] = stream[r]
      /\ stream'[s] = stream[s] \/ stream'[s] = [stream[s] EXCEPT !.isStopped = TRUE, !.isActive = FALSE]
      /\ stream[s].isStopped => stream'[s].isStopped
    BY <1>1, <1>3, FlagsOnly DEF StreamsType
<1>5. /\ aa' \in [Streams -> AaudioType]
      /\ \A r \in Streams \ {s} : aa'[r] = aa[r]
      /\ \/ y = [x EXCEPT !.data = "calling"] /\ x.device \in {"started", "stopping"} /\ x.data = "idle" /\ x.error = "idle"
         \/ y = [x EXCEPT !.data = "idle"] /\ x.data \in {"calling", "finishing"}
         \/ y = [x EXCEPT !.data = "complete"] /\ x.data = "calling" /\ stream'[s].isStopped
         \/ y = [x EXCEPT !.data = "finishing"] /\ x.data = "complete"
         \/ y = [x EXCEPT !.error = "finishing"] /\ x.error = "called" /\ stream'[s].isStopped
         \/ y = [x EXCEPT !.error = "idle"] /\ x.error = "finishing"
         \/ y = [x EXCEPT !.device = "disconnected", !.error = "called"] /\ x.device = "started" /\ x.data = "idle" /\ x.error = "idle"
         \/ y = [x EXCEPT !.device = "stopped"] /\ x.device = "stopping" /\ x.data = "idle" /\ x.error = "idle"
  <2>1. \A z \in AaudioType : aa' = [aa EXCEPT ![s] = z] =>
           aa' \in [Streams -> AaudioType] /\ y = z /\ \A r \in Streams \ {s} : aa'[r] = aa[r]
      BY <1>1, SetOnly
  <2>2. CASE AaCalls(s)
    <3>1. aa' = [aa EXCEPT ![s] = [x EXCEPT !.data = "calling"]]
          /\ x.device \in {"started", "stopping"} /\ x.data = "idle" /\ x.error = "idle"
        BY <1>1, <2>2 DEF AaCalls, StreamsType
    <3>2. [x EXCEPT !.data = "calling"] \in AaudioType
        BY <1>1 DEF AaudioType
    <3> QED
        BY <2>1, <3>1, <3>2
  <2>3. CASE AaReturns(s)
    <3>1. /\ x.data = "calling"
          /\ \/ aa' = [aa EXCEPT ![s] = [x EXCEPT !.data = "idle"]]
             \/ aa' = [aa EXCEPT ![s] = [x EXCEPT !.data = "complete"]] /\ Flags(s, TRUE, FALSE)
        BY <1>1, <2>3 DEF AaReturns, StreamsType
    <3>2. [x EXCEPT !.data = "idle"] \in AaudioType /\ [x EXCEPT !.data = "complete"] \in AaudioType
        BY <1>1 DEF AaudioType
    <3>3. Flags(s, TRUE, FALSE) => stream'[s].isStopped
        BY <1>1, FlagsOnly
    <3> QED
        BY <2>1, <3>1, <3>2, <3>3
  <2>4. CASE AaFinishes(s) \/ AaFinished(s)
    <3>1. \/ aa' = [aa EXCEPT ![s] = [x EXCEPT !.data = "finishing"]] /\ x.data = "complete"
          \/ aa' = [aa EXCEPT ![s] = [x EXCEPT !.data = "idle"]] /\ x.data = "finishing"
        BY <1>1, <2>4 DEF AaFinishes, AaFinished, StreamsType
    <3>2. [x EXCEPT !.data = "idle"] \in AaudioType /\ [x EXCEPT !.data = "finishing"] \in AaudioType
        BY <1>1 DEF AaudioType
    <3> QED
        BY <2>1, <3>1, <3>2
  <2>5. CASE AaErrorCallback(s) \/ AaErrorReturns(s)
    <3>1. \/ /\ aa' = [aa EXCEPT ![s] = [x EXCEPT !.error = "finishing"]]
             /\ x.error = "called" /\ Flags(s, TRUE, FALSE)
          \/ aa' = [aa EXCEPT ![s] = [x EXCEPT !.error = "idle"]] /\ x.error = "finishing"
        BY <1>1, <2>5 DEF AaErrorCallback, AaErrorReturns, StreamsType
    <3>2. [x EXCEPT !.error = "finishing"] \in AaudioType /\ [x EXCEPT !.error = "idle"] \in AaudioType
        BY <1>1 DEF AaudioType
    <3>3. Flags(s, TRUE, FALSE) => stream'[s].isStopped
        BY <1>1, FlagsOnly
    <3> QED
        BY <2>1, <3>1, <3>2, <3>3
  <2>6. CASE AaDisconnects(s) \/ AaRests(s)
    <3>1. \/ /\ aa' = [aa EXCEPT ![s] = [x EXCEPT !.device = "disconnected", !.error = "called"]]
             /\ x.device = "started" /\ x.data = "idle" /\ x.error = "idle"
          \/ /\ aa' = [aa EXCEPT ![s] = [x EXCEPT !.device = "stopped"]]
             /\ x.device = "stopping" /\ x.data = "idle" /\ x.error = "idle"
        BY <1>1, <2>6 DEF AaDisconnects, AaRests, StreamsType
    <3>2. /\ [x EXCEPT !.device = "disconnected", !.error = "called"] \in AaudioType
          /\ [x EXCEPT !.device = "stopped"] \in AaudioType
        BY <1>1 DEF AaudioType
    <3> QED
        BY <2>1, <3>1, <3>2
  <2> QED
      BY <2>2, <2>3, <2>4, <2>5, <2>6 DEF AaCallbacks
<1> QED
    BY <1>4, <1>5

LEMMA AaCallbacksKeep ==
    ASSUME Inv, NEW s \in Streams, AaCallbacks(s) \/ AaDisconnects(s) \/ AaRests(s), UNCHANGED slVars
    PROVE  Inv'
<1> DEFINE x == aa[s]
           y == aa'[s]
<1> USE DEF Set, AaOnly, AaClosed, slVars, frontVars
<1>1. StreamsType /\ SlInv(s) /\ AaInv(s) /\ ClosedInv(s) /\ (call.s = s => CallOn(s)) /\ x \in AaudioType
    BY DEF Inv, CallInv, StreamsType
<1>2. OnAaudio(s) /\ call' = call
    BY DEF AaCallbacks, AaCalls, AaReturns, AaFinishes, AaFinished, AaErrorCallback, AaErrorReturns,
           AaDisconnects, AaRests
<1>3. AaCallbacks(s) \/ AaDisconnects(s) \/ AaRests(s)
    OBVIOUS
<1>4. /\ stream' \in [Streams -> StreamType]
      /\ \A r \in Streams \ {s} : stream'[r] = stream[r]
      /\ stream'[s] = stream[s] \/ stream'[s] = [stream[s] EXCEPT !.isStopped = TRUE, !.isActive = FALSE]
      /\ stream[s].isStopped => stream'[s].isStopped
    BY <1>1, <1>3, AaChanges
<1>5. /\ aa' \in [Streams -> AaudioType]
      /\ \A r \in Streams \ {s} : aa'[r] = aa[r]
      /\ \/ y = [x EXCEPT !.data = "calling"] /\ x.device \in {"started", "stopping"} /\ x.data = "idle" /\ x.error = "idle"
         \/ y = [x EXCEPT !.data = "idle"] /\ x.data \in {"calling", "finishing"}
         \/ y = [x EXCEPT !.data = "complete"] /\ x.data = "calling" /\ stream'[s].isStopped
         \/ y = [x EXCEPT !.data = "finishing"] /\ x.data = "complete"
         \/ y = [x EXCEPT !.error = "finishing"] /\ x.error = "called" /\ stream'[s].isStopped
         \/ y = [x EXCEPT !.error = "idle"] /\ x.error = "finishing"
         \/ y = [x EXCEPT !.device = "disconnected", !.error = "called"] /\ x.device = "started" /\ x.data = "idle" /\ x.error = "idle"
         \/ y = [x EXCEPT !.device = "stopped"] /\ x.device = "stopping" /\ x.data = "idle" /\ x.error = "idle"
    BY <1>1, <1>3, AaChanges
<1>6. StreamsType' /\ thread' = thread
    BY <1>1, <1>2, <1>4, <1>5 DEF StreamsType
<1>7. /\ stream'[s].open <=> stream[s].open
      /\ stream'[s].api = stream[s].api /\ stream'[s].mode = stream[s].mode
      /\ stream'[s].started <=> stream[s].started
  <2>1. stream[s] \in StreamType
      BY <1>1 DEF StreamsType
  <2>2. CASE stream'[s] = stream[s]
      BY <2>2
  <2>3. CASE stream'[s] = [stream[s] EXCEPT !.isStopped = TRUE, !.isActive = FALSE]
      BY <2>1, <2>3 DEF StreamType
  <2> QED
      BY <1>4, <2>2, <2>3
<1>8. SlInv(s)' /\ ClosedInv(s)' /\ (call'.s = s => CallOn(s)')
  <2>1. SlInv(s)' /\ ClosedInv(s)'
      BY <1>2, <1>7 DEF SlInv, ClosedInv, OnOpenSles, OnAaudio
  <2>2. ASSUME call'.s = s PROVE CallOn(s)'
      BY <1>1, <1>2, <1>4, <1>7, <2>2 DEF CallOn, OnOpenSles, OnAaudio
  <2> QED
      BY <2>1, <2>2
<1>9. AaInv(s)'
  <2>1. stream[s].started
      BY <1>1, <1>2, <1>5 DEF AaInv, NoAaudio, AaudioType
  <2>2. /\ y.error # "idle" => y.data = "idle" /\ y.device = "disconnected"
        /\ y.data # "idle" => y.device \in {"started", "stopping", "stopped"}
    <3>1. /\ x.error # "idle" => x.data = "idle" /\ x.device = "disconnected"
          /\ x.data # "idle" => x.device \in {"started", "stopping", "stopped"}
        BY <1>1, <1>2 DEF AaInv
    <3> HIDE DEF x, y
    <3> QED
        BY <1>1, <1>5, <3>1 DEF AaudioType
  <2>3. /\ y.data \in {"complete", "finishing"} => stream'[s].isStopped
        /\ y.error = "finishing" => stream'[s].isStopped
      BY ZenonT(60), <1>1, <1>2, <1>4, <1>5 DEF AaInv, AaudioType
  <2> QED
      BY <1>1, <1>2, <1>7, <2>1, <2>2, <2>3 DEF AaInv, OnAaudio
<1> QED
    BY <1>2, <1>4, <1>5, <1>6, <1>8, <1>9, OneStream
\* A step that changes only what call the client is in.
LEMMA CallOnly ==
    ASSUME Inv, UNCHANGED <<stream, thread, aa>>, call' \in Calls, call.at \notin {"join", "close"},
           \A s \in Streams : call'.s = s => CallOn(s)'
    PROVE  Inv'
<1> SUFFICES ASSUME NEW r \in Streams
            PROVE  SlInv(r)' /\ AaInv(r)' /\ ClosedInv(r)'
  <2>1. StreamsType' /\ call'.s \in Streams \cup {0}
      BY CallTypes DEF Inv, StreamsType, Calls, NoCall
  <2>2. CallInv'
      BY <2>1 DEF CallInv
  <2> QED
      BY <2>1, <2>2 DEF Inv
<1>1. SlInv(r) /\ AaInv(r) /\ ClosedInv(r)
    BY DEF Inv
<1>2. SlInv(r)'
    BY <1>1 DEF SlInv, OnOpenSles, Joins
<1> QED
    BY <1>1, <1>2 DEF AaInv, OnAaudio, ClosedInv

\* What the stream thread is told.
LEMMA ThreadTold ==
    ASSUME StreamsType, NEW s \in Streams, NEW abort \in BOOLEAN,
           thread' = [thread EXCEPT ![s].doStop = @ \/ ~abort, ![s].doAbort = @ \/ abort]
    PROVE  /\ thread' \in [Streams -> ThreadType]
           /\ thread'[s].pc = thread[s].pc /\ thread'[s].result = thread[s].result
           /\ \A r \in Streams \ {s} : thread'[r] = thread[r]
<1>1. PICK a \in BOOLEAN, b \in BOOLEAN : a = (thread[s].doStop \/ ~abort) /\ b = (thread[s].doAbort \/ abort)
    OBVIOUS
<1> DEFINE new == [thread[s] EXCEPT !.doStop = a, !.doAbort = b]
<1>2. thread[s] \in ThreadType
    BY DEF StreamsType
<1>3. new \in ThreadType /\ new.pc = thread[s].pc /\ new.result = thread[s].result
    BY <1>2 DEF ThreadType
<1>4. thread' = [thread EXCEPT ![s] = new]
    BY <1>1 DEF StreamsType
<1> HIDE DEF new
<1>5. /\ thread' \in [Streams -> ThreadType] /\ thread'[s] = new
      /\ \A r \in Streams \ {s} : thread'[r] = thread[r]
    BY ZenonT(60), <1>3, <1>4 DEF StreamsType
<1> QED
    BY <1>3, <1>5

\* What AAudio is told.
LEMMA AaTold ==
    ASSUME StreamsType, NEW s \in Streams, AaStops(s)
    PROVE  /\ stream' \in [Streams -> StreamType] /\ \A r \in Streams \ {s} : stream'[r] = stream[r]
           /\ stream'[s] = [stream[s] EXCEPT !.isStopped = TRUE, !.isActive = FALSE]
           /\ aa' \in [Streams -> AaudioType] /\ \A r \in Streams \ {s} : aa'[r] = aa[r]
           /\ aa'[s].data = aa[s].data /\ aa'[s].error = aa[s].error
           /\ aa'[s] = aa[s] \/ (aa[s].device = "started" /\ aa'[s].device = "stopping")
<1>1. /\ Flags(s, TRUE, FALSE) /\ aa[s] \in AaudioType
      /\ aa' = IF aa[s].device = "started" THEN [aa EXCEPT ![s].device = "stopping"] ELSE aa
    BY DEF StreamsType, AaStops, Set
<1>2. /\ stream' \in [Streams -> StreamType] /\ \A r \in Streams \ {s} : stream'[r] = stream[r]
      /\ stream'[s] = [stream[s] EXCEPT !.isStopped = TRUE, !.isActive = FALSE]
    BY <1>1, FlagsOnly
<1>3. /\ aa' \in [Streams -> AaudioType] /\ \A r \in Streams \ {s} : aa'[r] = aa[r]
      /\ aa'[s].data = aa[s].data /\ aa'[s].error = aa[s].error
      /\ aa'[s] = aa[s] \/ (aa[s].device = "started" /\ aa'[s].device = "stopping")
  <2>1. CASE aa[s].device = "started"
    <3>1. aa' = [aa EXCEPT ![s] = [aa[s] EXCEPT !.device = "stopping"]]
        BY <1>1, <2>1 DEF StreamsType
    <3>2. PICK y \in AaudioType : /\ y = [aa[s] EXCEPT !.device = "stopping"] /\ y.device = "stopping"
                                  /\ y.data = aa[s].data /\ y.error = aa[s].error
      <4>1. PICK x \in AaudioType : x = aa[s]
          BY <1>1
      <4>2. PICK y : y = [x EXCEPT !.device = "stopping"]
          OBVIOUS
      <4>3. y \in AaudioType /\ y.device = "stopping" /\ y.data = x.data /\ y.error = x.error
          BY <4>2 DEF AaudioType
      <4> QED
          BY <4>1, <4>2, <4>3
    <3>3. aa' = [aa EXCEPT ![s] = y]
        BY <3>1, <3>2
    <3>4. aa' \in [Streams -> AaudioType] /\ aa'[s] = y /\ \A r \in Streams \ {s} : aa'[r] = aa[r]
        BY <3>3, SetOnly
    <3> QED
        BY <2>1, <3>2, <3>4
  <2>2. CASE aa[s].device # "started"
      BY <1>1, <2>2 DEF StreamsType
  <2> QED
      BY <2>1, <2>2
<1> QED
    BY <1>2, <1>3

\* Stopping, aborting or closing a stream that is not stopped.
LEMMA StopsKeeps ==
    ASSUME Inv, NEW s \in Streams, NEW op, NEW abort \in BOOLEAN, NEW then,
           stream[s].open, ~stream[s].isStopped, call.at \in {"none", "next"},
           \/ op \in {"stop", "abort"} /\ then = "done" /\ ~stream[s].ends
           \/ op \in {"close", "terminate"} /\ then = "close",
           Stops(s, op, abort, then)
    PROVE  Inv'
<1> USE DEF Within, NoCall
<1>1. StreamsType /\ SlInv(s) /\ AaInv(s) /\ ClosedInv(s) /\ call \in Calls
    BY DEF Inv, StreamsType
<1>2. call.s = 0 /\ ~Joins(s) /\ call.at # "close"
    BY <1>1, CallTypes DEF Joins
<1>3. CASE stream[s].api = "OpenSLES" /\ stream[s].mode = "blocking"
  <2>1. UNCHANGED <<stream, thread, aa>> /\ call' = [op |-> op, s |-> s, at |-> "drain"]
      BY <1>3 DEF Stops, SlStops
  <2>2. call' \in Calls
      BY <2>1 DEF Calls, Waits
  <2>3. CallOn(s)'
      BY <1>1, <1>3, <2>1 DEF CallOn, SlInv, OnOpenSles
  <2> QED
      BY <1>1, <1>2, <2>1, <2>2, <2>3, CallTypes, CallOnly
<1>4. CASE stream[s].api = "OpenSLES" /\ stream[s].mode # "blocking"
  <2>1. /\ UNCHANGED <<stream, aa>> /\ call' = [op |-> op, s |-> s, at |-> "join"]
        /\ thread' = [thread EXCEPT ![s].doStop = @ \/ ~abort, ![s].doAbort = @ \/ abort]
      BY <1>4 DEF Stops, SlStops
  <2>2. call' \in Calls
      BY <2>1 DEF Calls, Waits
  <2>3. /\ thread' \in [Streams -> ThreadType]
        /\ thread'[s].pc = thread[s].pc /\ thread'[s].result = thread[s].result
        /\ \A r \in Streams \ {s} : thread'[r] = thread[r]
      BY <1>1, <2>1, ThreadTold
  <2>4. StreamsType'
      BY <1>1, <2>1, <2>2, <2>3 DEF StreamsType
  <2>5. SlInv(s)'
      BY <1>1, <1>2, <1>4, <2>1, <2>3 DEF SlInv, OnOpenSles, Joins
  <2>6. CallOn(s)'
      BY <1>1, <1>2, <1>4, <2>1, <2>3 DEF CallOn, SlInv, OnOpenSles
  <2>7. AaInv(s)' /\ ClosedInv(s)'
      BY <1>1, <2>1 DEF AaInv, OnAaudio, ClosedInv
  <2> QED
      BY <1>2, <2>1, <2>3, <2>4, <2>5, <2>6, <2>7, OneStream
<1>5. CASE stream[s].api # "OpenSLES"
  <2>1. /\ AaStops(s) /\ UNCHANGED thread
        /\ \/ call' = NoCall
           \/ call' = [op |-> op, s |-> s, at |-> "close"] /\ op \in {"close", "terminate"}
      BY <1>5 DEF Stops, slVars
  <2>2. call' \in Calls
      BY <2>1 DEF Calls, Waits
  <2>3. OnAaudio(s) /\ aa[s] \in AaudioType /\ stream[s] \in StreamType
      BY <1>1, <1>5 DEF ClosedInv, OnAaudio, StreamsType, StreamType, Closed
  <2>4. /\ stream' \in [Streams -> StreamType]
        /\ stream'[s] = [stream[s] EXCEPT !.isStopped = TRUE, !.isActive = FALSE]
        /\ \A r \in Streams \ {s} : stream'[r] = stream[r]
      BY <1>1, <2>1, AaTold
  <2>5. stream'[s].isStopped /\ stream'[s].open /\ stream'[s].api = "AAudio" /\ stream'[s].mode = stream[s].mode
        /\ (stream'[s].started <=> stream[s].started)
      BY <2>3, <2>4 DEF StreamType, OnAaudio
  <2>6. /\ aa' \in [Streams -> AaudioType] /\ \A r \in Streams \ {s} : aa'[r] = aa[r]
        /\ aa'[s].data = aa[s].data /\ aa'[s].error = aa[s].error
        /\ aa'[s] = aa[s] \/ (aa[s].device = "started" /\ aa'[s].device = "stopping")
      BY <1>1, <2>1, AaTold
  <2>7. StreamsType'
      BY <1>1, <2>1, <2>2, <2>4, <2>6 DEF StreamsType
  <2>8. SlInv(s)' /\ ClosedInv(s)'
      BY <2>5 DEF SlInv, OnOpenSles, ClosedInv
  <2>9. AaInv(s)'
      BY <1>1, <2>3, <2>5, <2>6 DEF AaInv, OnAaudio, NoAaudio
  <2>10. call'.s = s => CallOn(s)'
      BY <2>1, <2>5 DEF CallOn
  <2> QED
      BY <1>2, <2>1, <2>4, <2>6, <2>7, <2>8, <2>9, <2>10, OneStream
<1> QED
    BY <1>3, <1>4, <1>5
LEMMA ClosesKeeps ==
    ASSUME Inv, NEW s \in Streams, NEW op \in {"close", "terminate"},
           stream[s].open, call.at \in {"none", "next"}, Closes(s, op)
    PROVE  Inv'
<1>1. CASE stream[s].isStopped
  <2>1. UNCHANGED <<stream, thread, aa>> /\ call' = [op |-> op, s |-> s, at |-> "close"]
      BY <1>1 DEF Closes, SameStreams, slVars, Within
  <2>2. call' \in Calls
      BY <2>1 DEF Calls, Waits
  <2>3. \A r \in Streams : call'.s = r => CallOn(r)'
      BY <1>1, <2>1 DEF CallOn
  <2> QED
      BY <2>1, <2>2, <2>3, CallOnly
<1>2. CASE ~stream[s].isStopped
  <2>1. Stops(s, op, TRUE, "close")
      BY <1>2 DEF Closes
  <2> QED
      BY <1>2, <2>1, StopsKeeps
<1> QED
    BY <1>1, <1>2

LEMMA StartsKeeps ==
    ASSUME Inv, Tame, NEW s \in Streams, Pa_StartStream(s)
    PROVE  Inv'
<1> USE DEF Idle
<1>1. StreamsType /\ SlInv(s) /\ AaInv(s) /\ ClosedInv(s) /\ stream[s] \in StreamType
    BY DEF Inv, StreamsType
<1>2. call = NoCall /\ call' = call /\ stream[s].open /\ ~stream[s].started
    BY DEF Pa_StartStream, PaUtil_ValidateStreamPointer
<1> DEFINE new == [stream[s] EXCEPT !.started = TRUE, !.isStopped = FALSE, !.isActive = TRUE]
<1>3. /\ new \in StreamType /\ new.started /\ ~new.isStopped /\ new.open
      /\ new.api = stream[s].api /\ new.mode = stream[s].mode /\ (new.ends <=> stream[s].ends)
    BY <1>1, <1>2 DEF StreamType
<1>4. stream' = [stream EXCEPT ![s] = new]
    BY <1>1 DEF Pa_StartStream, SlStarts, AaStarts, StreamsType
<1> HIDE DEF new
<1>5. /\ stream' \in [Streams -> StreamType] /\ stream'[s] = new
      /\ \A r \in Streams \ {s} : stream'[r] = stream[r]
    BY <1>1, <1>3, <1>4 DEF StreamsType
<1>6. CASE stream[s].api = "OpenSLES"
  <2> DEFINE u == [NoThread EXCEPT !.pc = IF stream[s].mode = "blocking" THEN "none" ELSE "wait"]
  <2>1. thread' = [thread EXCEPT ![s] = u] /\ UNCHANGED aa
      BY <1>6 DEF Pa_StartStream, SlStarts, SlStartsThread
  <2>2. /\ u \in ThreadType /\ ~u.doStop /\ ~u.doAbort /\ u.result = "continue"
        /\ u.pc = IF stream[s].mode = "blocking" THEN "none" ELSE "wait"
      BY DEF NoThread, ThreadType
  <2> HIDE DEF u
  <2>3. /\ thread' \in [Streams -> ThreadType] /\ thread'[s] = u
        /\ \A r \in Streams \ {s} : thread'[r] = thread[r]
      BY <1>1, <2>1, <2>2 DEF StreamsType
  <2>4. StreamsType'
      BY <1>1, <1>2, <1>5, <2>1, <2>3 DEF StreamsType
  <2>5. SlInv(s)'
      BY <1>1, <1>2, <1>3, <1>5, <1>6, <2>2, <2>3 DEF SlInv, OnOpenSles
  <2>6. AaInv(s)' /\ ClosedInv(s)'
      BY <1>3, <1>5, <1>6 DEF AaInv, OnAaudio, ClosedInv
  <2> QED
      BY <1>2, <1>5, <2>1, <2>3, <2>4, <2>5, <2>6, OneStream DEF NoCall
<1>7. CASE stream[s].api # "OpenSLES"
  <2>1. UNCHANGED thread /\ OnAaudio(s) /\ aa[s] = NoAaudio
      BY <1>1, <1>2, <1>7 DEF Pa_StartStream, slVars, AaInv, ClosedInv, OnAaudio, StreamType, Closed
  <2>2. \/ UNCHANGED aa
        \/ aa' = [aa EXCEPT ![s] = [aa[s] EXCEPT !.device = "started"]]
      BY <1>1, <1>7 DEF Pa_StartStream, AaStarts, Set, StreamsType
  <2>3. [aa[s] EXCEPT !.device = "started"] = [device |-> "started", data |-> "idle", error |-> "idle"]
      BY <2>1 DEF NoAaudio
  <2>4. /\ aa' \in [Streams -> AaudioType] /\ \A r \in Streams \ {s} : aa'[r] = aa[r]
        /\ aa'[s].data = "idle" /\ aa'[s].error = "idle"
      BY <1>1, <2>1, <2>2, <2>3 DEF StreamsType, AaudioType, NoAaudio
  <2>5. StreamsType'
      BY <1>1, <1>2, <1>5, <2>1, <2>4 DEF StreamsType
  <2>6. SlInv(s)' /\ ClosedInv(s)'
      BY <1>3, <1>5, <1>7, <2>1 DEF SlInv, OnOpenSles, OnAaudio, ClosedInv
  <2>7. AaInv(s)'
      BY <1>1, <1>3, <1>5, <2>1, <2>4 DEF AaInv, OnAaudio
  <2> QED
      BY <1>2, <1>5, <2>1, <2>4, <2>5, <2>6, <2>7, OneStream DEF NoCall
<1> QED
    BY <1>6, <1>7

\* The entry of stream s is replaced in all tables.
Replaced(s, new) == /\ stream' = [stream EXCEPT ![s] = new]
                    /\ thread' = [thread EXCEPT ![s] = NoThread]
                    /\ aa' = [aa EXCEPT ![s] = NoAaudio]

\* A stream is opened, or it is closed.
LEMMA ReplacedKeeps ==
    ASSUME Inv, NEW s \in Streams, NEW new \in StreamType, Replaced(s, new), call' \in Calls, call'.s = 0,
           call.s \in {0, s},
           \/ new = Closed
           \/ /\ new.open /\ new.api \in {"OpenSLES", "AAudio"} /\ new.mode \in {"callback", "blocking"}
              /\ new.mode = "blocking" => ~new.ends /\ new.api = "OpenSLES"
              /\ ~new.started /\ new.isStopped
    PROVE  Inv'
<1>1. NoThread \in ThreadType /\ NoAaudio \in AaudioType
    BY DEF NoThread, NoAaudio, ThreadType, AaudioType
<1>2. /\ StreamsType'
      /\ stream'[s] = new /\ thread'[s] = NoThread /\ aa'[s] = NoAaudio
      /\ \A r \in Streams \ {s} : stream'[r] = stream[r] /\ thread'[r] = thread[r] /\ aa'[r] = aa[r]
    BY <1>1 DEF Replaced, Inv, StreamsType
<1>3. SlInv(s)' /\ AaInv(s)' /\ ClosedInv(s)'
  <2>1. CASE new = Closed
      BY <1>2, <2>1 DEF SlInv, AaInv, ClosedInv, OnOpenSles, OnAaudio, Closed
  <2>2. CASE new # Closed
    <3>1. SlInv(s)'
        BY <1>2, <2>2 DEF SlInv, OnOpenSles, NoThread
    <3>2. AaInv(s)' /\ ClosedInv(s)'
        BY <1>2, <2>2 DEF AaInv, OnAaudio, ClosedInv, NoAaudio
    <3> QED
        BY <3>1, <3>2
  <2> QED
      BY <2>1, <2>2
<1> QED
  <2>1. 0 \notin Streams
      OBVIOUS
  <2> QED
      BY <1>2, <1>3, <2>1, OneStream
LEMMA OpenKeeps ==
    ASSUME Inv, Tame, NEW s \in Streams, Pa_OpenStream(s)
    PROVE  Inv'
<1>1. Inv /\ call = NoCall /\ call' = call
    BY DEF Pa_OpenStream, Idle
<1>2. \/ UNCHANGED <<stream, thread, aa>>
      \/ \E api \in {"OpenSLES", "AAudio"}, mode \in {"callback", "blocking"}, ends \in BOOLEAN,
            sides \in SUBSET {"in", "out"} :
            /\ mode = "blocking" => ~ends /\ api = "OpenSLES"
            /\ Opens(s, api, mode, sides, ends)
    BY DEF Pa_OpenStream, Refused, SidesOf, slVars
<1>3. CASE UNCHANGED <<stream, thread, aa>>
    BY <1>1, <1>3, CallOnly DEF NoCall, Inv, StreamsType
<1>4. ASSUME NEW api \in {"OpenSLES", "AAudio"}, NEW mode \in {"callback", "blocking"}, NEW ends \in BOOLEAN,
             NEW sides \in SUBSET {"in", "out"},
             mode = "blocking" => ~ends /\ api = "OpenSLES",
             Opens(s, api, mode, sides, ends)
      PROVE  Inv'
  <2> DEFINE new == [Closed EXCEPT !.open = TRUE, !.api = api, !.mode = mode, !.sides = sides, !.ends = ends]
  <2>1. Replaced(s, new)
      BY <1>4 DEF Opens, PaUtil_InitializeStreamRepresentation, SlOpens, Replaced
  <2>2. /\ new \in StreamType /\ new.open /\ new.api = api /\ new.mode = mode /\ (new.ends <=> ends)
        /\ ~new.started /\ new.isStopped
      BY DEF Closed, StreamType
  <2> HIDE DEF new
  <2> QED
      BY <1>1, <1>4, <2>1, <2>2, ReplacedKeeps DEF NoCall, Inv, StreamsType
<1> QED
    BY <1>2, <1>3, <1>4

\* The thread is joined: it has ended, and there is one.
LEMMA JoinKeeps ==
    ASSUME Inv, PaUnixThread_Terminate
    PROVE  Inv' /\ UNCHANGED undefined
<1>0. PICK s \in Streams : s = call.s /\ s # 0
    BY CallTypes DEF Inv, StreamsType, PaUnixThread_Terminate, NoCall
<1>1. /\ StreamsType /\ call.at = "join" /\ call.s = s /\ CallOn(s)
      /\ call.op \in {"stop", "abort", "close", "terminate"}
    BY <1>0, CallTypes DEF Inv, StreamsType, CallInv, PaUnixThread_Terminate, Waits
<1>2. SlInv(s) /\ AaInv(s) /\ ClosedInv(s) /\ thread[s] \in ThreadType
    BY <1>1 DEF Inv, StreamsType
<1>3. OnOpenSles(s) /\ thread[s].pc \notin {"none", "joined"}
    BY <1>1 DEF CallOn
<1>4. /\ thread[s].pc = "exit" /\ UNCHANGED <<undefined, stream, aa>>
      /\ thread' = [thread EXCEPT ![s].pc = "joined"] /\ Resumes
    BY <1>1, <1>3 DEF PaUnixThread_Terminate, Goto
<1>5. \/ call' = NoCall /\ call.op \in {"stop", "abort"}
      \/ call' = [op |-> call.op, s |-> s, at |-> "close"] /\ call.op \in {"close", "terminate"}
    BY <1>1, <1>4 DEF Resumes, Within
<1>6. call' \in Calls /\ call'.s \in {0, s}
    BY <1>1, <1>5 DEF Calls, Waits, NoCall
<1>7. /\ thread' \in [Streams -> ThreadType] /\ \A r \in Streams \ {s} : thread'[r] = thread[r]
      /\ thread'[s] = [thread[s] EXCEPT !.pc = "joined"]
    BY <1>1, <1>2, <1>4 DEF StreamsType, ThreadType
<1>8. StreamsType'
    BY <1>1, <1>4, <1>6, <1>7 DEF StreamsType
<1>9. stream[s].isStopped \/ call.op \in {"close", "terminate"}
    BY <1>1, <1>2, <1>3, <1>4 DEF CallOn, SlInv
<1>10. SlInv(s)'
    BY <1>1, <1>2, <1>3, <1>4, <1>5, <1>7, <1>9 DEF SlInv, OnOpenSles, ThreadType, Joins
<1>11. AaInv(s)' /\ ClosedInv(s)'
    BY <1>2, <1>4 DEF AaInv, OnAaudio, ClosedInv
<1>12. call'.s = s => CallOn(s)'
    BY <1>1, <1>2, <1>3, <1>4, <1>5, <1>7 DEF CallOn, OnOpenSles, ThreadType, NoCall
<1> QED
  <2>1. Inv'
      BY <1>1, <1>4, <1>6, <1>7, <1>8, <1>10, <1>11, <1>12, OneStream
  <2> QED
      BY <1>4, <2>1

\* The end of a blocking stream.
LEMMA DrainsKeeps ==
    ASSUME Inv, Drains \/ Drained
    PROVE  Inv'
<1>0. PICK s \in Streams : s = call.s /\ s # 0
    BY CallTypes DEF Inv, StreamsType, Drains, Drained, NoCall
<1>1. /\ StreamsType /\ call.at \in {"drain", "notify"} /\ call.s = s /\ CallOn(s)
      /\ call.op \in {"stop", "abort", "close", "terminate"}
    BY <1>0, CallTypes DEF Inv, StreamsType, CallInv, Drains, Drained, Waits
<1>2. SlInv(s) /\ AaInv(s) /\ ClosedInv(s) /\ stream[s] \in StreamType
    BY <1>1 DEF Inv, StreamsType
<1>3. OnOpenSles(s) /\ stream[s].mode = "blocking" /\ stream[s].started
    BY <1>1 DEF CallOn
<1>4. CASE Drained
  <2>1. /\ call.at = "notify" /\ UNCHANGED <<stream, thread, aa>> /\ stream[s].isStopped
        /\ \/ call' = NoCall
           \/ call' = [op |-> call.op, s |-> s, at |-> "close"] /\ call.op \in {"close", "terminate"}
      BY <1>1, <1>4 DEF Drained, Resumes, SameStreams, slVars, CallOn, Within
  <2>2. call' \in Calls /\ call'.s \in {0, s}
      BY <1>1, <2>1 DEF Calls, Waits, NoCall
  <2>3. call'.s = s => CallOn(s)'
      BY <1>1, <1>3, <2>1 DEF CallOn, NoCall, OnOpenSles
  <2>4. \A r \in Streams : call'.s = r => CallOn(r)'
      BY <2>2, <2>3
  <2> QED
      BY <2>1, <2>2, <2>4, CallOnly
<1>5. CASE Drains
  <2>1. /\ call' = [op |-> call.op, s |-> s, at |-> "notify"] /\ UNCHANGED <<thread, aa>>
        /\ Flags(s, stream[s].isStopped \/ TRUE, FALSE)
      BY <1>1, <1>5 DEF Drains, End, Within
  <2>2. call' \in Calls
      BY <1>1, <2>1 DEF Calls, Waits
  <2>3. (stream[s].isStopped \/ TRUE) = TRUE
      OBVIOUS
  <2>4. /\ stream' \in [Streams -> StreamType]
        /\ stream'[s] = [stream[s] EXCEPT !.isStopped = TRUE, !.isActive = FALSE]
        /\ \A r \in Streams \ {s} : stream'[r] = stream[r]
      BY <1>1, <2>1, <2>3, FlagsOnly
  <2>5. /\ stream'[s].isStopped /\ stream'[s].open /\ stream'[s].api = "OpenSLES"
        /\ stream'[s].mode = "blocking" /\ stream'[s].started /\ (stream'[s].ends <=> stream[s].ends)
      BY <1>2, <1>3, <2>4 DEF StreamType, OnOpenSles
  <2>6. StreamsType'
      BY <1>1, <2>1, <2>2, <2>4 DEF StreamsType
  <2>7. SlInv(s)' /\ AaInv(s)' /\ ClosedInv(s)'
      BY <1>1, <1>2, <1>3, <2>1, <2>5 DEF SlInv, AaInv, ClosedInv, OnOpenSles, OnAaudio, Joins
  <2>8. CallOn(s)'
      BY <1>1, <2>1, <2>5 DEF CallOn, OnOpenSles
  <2> QED
      BY <1>1, <2>1, <2>4, <2>6, <2>7, <2>8, OneStream
<1> QED
    BY <1>4, <1>5

LEMMA CloseKeeps ==
    ASSUME Inv, CloseStream
    PROVE  Inv'
<1>0. PICK s \in Streams : s = call.s /\ s # 0
    BY CallTypes DEF Inv, StreamsType, CloseStream, NoCall
<1>1. StreamsType /\ call.at = "close" /\ call.s = s /\ CallOn(s)
    BY <1>0 DEF Inv, CallInv, CloseStream
<1>2. Replaced(s, Closed)
    BY <1>1 DEF CloseStream, SlOpens, Replaced
<1>3. call' = NoCall \/ call' = [op |-> "terminate", s |-> 0, at |-> "next"]
    BY <1>1 DEF CloseStream, CallOn, Within, NoCall
<1>4. call' \in Calls /\ call'.s = 0
    BY <1>3 DEF Calls, NoCall
<1>5. Closed \in StreamType
    BY DEF Closed, StreamType
<1> QED
    BY <1>1, <1>2, <1>4, <1>5, ReplacedKeeps

\* Reading and writing, of a stream that is blocking.
LEMMA BlockingKeeps ==
    ASSUME Inv, ReadStream \/ WriteStream \/ \E s \in Streams : Pa_ReadStream(s) \/ Pa_WriteStream(s)
    PROVE  Inv'
<1> USE DEF Within
<1>1. CASE ReadStream \/ WriteStream
  <2>1. /\ UNCHANGED <<stream, thread, aa>> /\ call.op \in {"read", "write"} /\ call.at \in {"sem", "copy"}
        /\ \/ call' = NoCall \/ call' = [op |-> call.op, s |-> call.s, at |-> "copy"]
           \/ call' = [call EXCEPT !.at = "sem"]
      BY <1>1 DEF ReadStream, WriteStream
  <2>2. call \in Calls /\ call.s \in Streams /\ CallOn(call.s)
      BY <2>1, CallTypes DEF Inv, StreamsType, CallInv, NoCall
  <2>3. [call EXCEPT !.at = "sem"] = [op |-> call.op, s |-> call.s, at |-> "sem"]
      BY <2>1, <2>2 DEF Calls, NoCall
  <2>4. call' = NoCall \/ \E at \in {"sem", "copy"} : call' = [op |-> call.op, s |-> call.s, at |-> at]
      BY <2>1, <2>3
  <2>5. call' \in Calls
      BY <2>1, <2>2, <2>4 DEF Calls
  <2>6. \A r \in Streams : call'.s = r => CallOn(r)'
      BY <2>1, <2>2, <2>4 DEF CallOn, NoCall, OnOpenSles
  <2> QED
      BY <2>1, <2>5, <2>6, CallOnly
<1>2. ASSUME NEW s \in Streams, NEW op \in {"read", "write"}, Pa_ReadOrWriteStream(s, op)
      PROVE  Inv'
  <2>1. /\ UNCHANGED <<stream, thread, aa>> /\ call = NoCall /\ call' = [op |-> op, s |-> s, at |-> "sem"]
        /\ stream[s].open /\ ~stream[s].isStopped /\ stream[s].mode = "blocking" /\ Side(op) \in stream[s].sides
      BY <1>2 DEF Pa_ReadOrWriteStream, SameStreams, slVars, Idle, PaUtil_ValidateStreamPointer
  <2>2. call' \in Calls
      BY <2>1 DEF Calls
  <2>3. OnOpenSles(s) /\ stream[s].started
    <3>1. SlInv(s) /\ AaInv(s) /\ ClosedInv(s) /\ stream[s].api \in {"none", "OpenSLES", "AAudio"}
        BY DEF Inv, StreamsType, StreamType
    <3>2. stream[s].api # "AAudio" /\ stream[s].api # "none"
        BY <2>1, <3>1 DEF AaInv, OnAaudio, ClosedInv, Closed
    <3> QED
        BY <2>1, <3>1, <3>2 DEF OnOpenSles, SlInv
  <2>4. \A r \in Streams : call'.s = r => CallOn(r)'
      BY <2>1, <2>3 DEF CallOn, OnOpenSles
  <2> QED
      BY <2>1, <2>2, <2>4, CallOnly DEF NoCall
<1> QED
    BY <1>1, <1>2 DEF Pa_ReadStream, Pa_WriteStream
------------------------------------------------------------------------------
(* The list of open streams *)

LEMMA Concatenated ==
    ASSUME NEW S, NEW a \in Seq(S), NEW b \in Seq(S)
    PROVE  /\ a \o b \in Seq(S) /\ Len(a \o b) = Len(a) + Len(b)
           /\ \A i \in 1 .. Len(a) : (a \o b)[i] = a[i]
           /\ \A i \in 1 .. Len(b) : (a \o b)[Len(a) + i] = b[i]
OBVIOUS

\* A stream that is in the list once is not in it when it was removed.
LEMMA RemoveOpenStreamTakes ==
    ASSUME openStreams \in Seq(Streams), NEW s \in Streams, RemoveOpenStream(s),
           \A i, j \in DOMAIN openStreams : openStreams[i] = openStreams[j] => i = j
    PROVE  /\ openStreams' \in Seq(Streams)
           /\ ToSet(openStreams)' = ToSet(openStreams) \ {s}
           /\ \A i, j \in DOMAIN openStreams' : openStreams'[i] = openStreams'[j] => i = j
<1> DEFINE l == openStreams
<1>1. CASE ~\E i \in 1 .. Len(l) : l[i] = s
    BY <1>1 DEF RemoveOpenStream, RemoveFirst, ToSet
<1>2. CASE \E i \in 1 .. Len(l) : l[i] = s
  <2>1. PICK k \in 1 .. Len(l) : l[k] = s
      BY <1>2
  <2>2. SelectInSeq(l, LAMBDA v : v = s) = k
    <3>1. {i \in 1 .. Len(l) : l[i] = s} = {k}
        BY <2>1
    <3>2. Min({k}) = k
        BY DEF Min
    <3> QED
        BY <3>1, <3>2 DEF SelectInSeq
  <2>3. openStreams' = SubSeq(l, 1, k - 1) \o SubSeq(l, k + 1, Len(l))
      BY <1>2, <2>2 DEF RemoveOpenStream, RemoveFirst, RemoveAt
  <2> DEFINE a == SubSeq(l, 1, k - 1)
             b == SubSeq(l, k + 1, Len(l))
  <2>4. a \in Seq(Streams) /\ Len(a) = k - 1 /\ \A i \in 1 .. k - 1 : a[i] = l[i]
      BY <2>1
  <2>5. b \in Seq(Streams) /\ Len(b) = Len(l) - k /\ \A i \in 1 .. Len(l) - k : b[i] = l[k + i]
      BY <2>1
  <2>6. /\ openStreams' \in Seq(Streams) /\ Len(openStreams') = Len(l) - 1
        /\ \A i \in 1 .. Len(l) - 1 : openStreams'[i] = IF i < k THEN l[i] ELSE l[i + 1]
    <3> HIDE DEF a, b
    <3>1. openStreams' = a \o b
        BY <2>3 DEF a, b
    <3>2. /\ openStreams' \in Seq(Streams) /\ Len(openStreams') = Len(l) - 1
          /\ \A i \in 1 .. k - 1 : openStreams'[i] = a[i]
          /\ \A i \in 1 .. Len(l) - k : openStreams'[k - 1 + i] = b[i]
      <4>1. a \in Seq(Streams) /\ b \in Seq(Streams)
          BY <2>4, <2>5
      <4>2. /\ openStreams' \in Seq(Streams) /\ Len(openStreams') = Len(a) + Len(b)
            /\ \A i \in 1 .. Len(a) : openStreams'[i] = a[i]
            /\ \A i \in 1 .. Len(b) : openStreams'[Len(a) + i] = b[i]
          BY <3>1, <4>1, Concatenated
      <4>3. Len(a) = k - 1 /\ Len(b) = Len(l) - k /\ k \in Int /\ Len(l) \in Int
          BY <2>1, <2>4, <2>5
      <4> HIDE DEF l
      <4> QED
          BY <4>2, <4>3
    <3>3. ASSUME NEW i \in 1 .. Len(l) - 1 PROVE openStreams'[i] = IF i < k THEN l[i] ELSE l[i + 1]
      <4>1. CASE i < k
          BY <2>1, <2>4, <3>2, <4>1
      <4>2. CASE i >= k
        <5>1. i - (k - 1) \in 1 .. Len(l) - k /\ k + (i - (k - 1)) = i + 1 /\ k - 1 + (i - (k - 1)) = i
            BY <2>1, <4>2
        <5>2. b[i - (k - 1)] = l[i + 1]
            BY <2>5, <5>1
        <5>3. openStreams'[i] = b[i - (k - 1)]
            BY <3>2, <5>1
        <5> QED
            BY <2>1, <4>2, <5>2, <5>3
      <4>3. i \in Int /\ k \in Int
          BY <2>1
      <4> QED
          BY <4>1, <4>2, <4>3
    <3> QED
        BY <3>2, <3>3
  <2>7. \A i, j \in DOMAIN openStreams' : openStreams'[i] = openStreams'[j] => i = j
    <3> SUFFICES ASSUME NEW i \in DOMAIN openStreams', NEW j \in DOMAIN openStreams', openStreams'[i] = openStreams'[j]
                 PROVE  i = j
        OBVIOUS
    <3>1. DOMAIN openStreams' = 1 .. Len(l) - 1
        BY <2>6
    <3>4. Len(l) \in Nat /\ k \in Nat
        BY <2>1
    <3>5. ASSUME NEW g \in 1 .. Len(l) - 1
          PROVE  \E x \in 1 .. Len(l) : x = (IF g < k THEN g ELSE g + 1) /\ openStreams'[g] = l[x]
      <4>1. (IF g < k THEN g ELSE g + 1) \in 1 .. Len(l)
          BY <2>1, <3>4
      <4> QED
          BY <2>6, <4>1
    <3>6. PICK x \in 1 .. Len(l) : x = (IF i < k THEN i ELSE i + 1) /\ openStreams'[i] = l[x]
        BY <3>1, <3>5
    <3>2. PICK y \in 1 .. Len(l) : y = (IF j < k THEN j ELSE j + 1) /\ openStreams'[j] = l[y]
        BY <3>1, <3>5
    <3>3. x = y
      <4>1. openStreams[x] = openStreams[y]
          BY <3>2, <3>6
      <4>2. x \in DOMAIN openStreams /\ y \in DOMAIN openStreams
          OBVIOUS
      <4> QED
          BY <4>1, <4>2
    <3>7. i \in Int /\ j \in Int
        BY <3>1
    <3> QED
        BY <3>2, <3>3, <3>4, <3>6, <3>7
  <2>8. ToSet(openStreams)' = ToSet(openStreams) \ {s}
    <3>1. ASSUME NEW i \in 1 .. Len(l) - 1 PROVE openStreams'[i] \in ToSet(openStreams) \ {s}
      <4>1. PICK j \in 1 .. Len(l) : j # k /\ openStreams'[i] = l[j]
          BY <2>1, <2>6
      <4>2. l[j] # s
          BY <2>1, <4>1
      <4>3. j \in DOMAIN l
          BY <4>1
      <4> QED
          BY <4>1, <4>2, <4>3 DEF ToSet
    <3>2. ASSUME NEW i \in 1 .. Len(l), l[i] # s PROVE l[i] \in ToSet(openStreams)'
      <4>1. CASE i < k
        <5>1. i \in 1 .. Len(l) - 1 /\ openStreams'[i] = l[i]
            BY <2>1, <2>6, <4>1
        <5> QED
            BY <2>6, <5>1 DEF ToSet
      <4>2. CASE i > k
        <5>1. i - 1 \in 1 .. Len(l) - 1 /\ openStreams'[i - 1] = l[i]
            BY <2>1, <2>6, <4>2
        <5> QED
            BY <2>6, <5>1 DEF ToSet
      <4> QED
          BY <2>1, <3>2, <4>1, <4>2
    <3> QED
        BY <2>6, <3>1, <3>2 DEF ToSet
  <2> QED
      BY <2>6, <2>7, <2>8
<1> QED
    BY <1>1, <1>2

\* Which streams are open.
LEMMA OpenTheSame ==
    ASSUME Inv, NEW s \in Streams,
           \/ (SlThread(s) /\ UNCHANGED aa) \/ (AaCallbacks(s) /\ UNCHANGED slVars)
           \/ \E d \in {"out", "in"} : (SlPlays(s, d) \/ SlSticks(s, d)) /\ UNCHANGED aa
           \/ (AaDisconnects(s) \/ AaRests(s)) /\ UNCHANGED slVars
    PROVE  /\ UNCHANGED <<tables, resources, call, undefined>>
           /\ \A r \in Streams : stream'[r].open <=> stream[r].open
<1>1. /\ UNCHANGED <<tables, resources, call, undefined>>
      /\ UNCHANGED stream \/ \E b, c \in BOOLEAN : Flags(s, b, c)
  <2>1. CASE SlThread(s)
    <3>1. (stream[s].isStopped \/ Stopped(s)) \in BOOLEAN
        OBVIOUS
    <3> QED
        BY <2>1, <3>1 DEF SlThread, SlWaitsOutput, SlTimesOut, SlWaitsInput, SlCalls, SlReturns, SlChecks, SlFinished,
           End, frontVars
  <2>2. CASE AaCallbacks(s) \/ AaDisconnects(s) \/ AaRests(s)
      BY <2>2 DEF AaCallbacks, AaCalls, AaReturns, AaFinishes, AaFinished, AaErrorCallback, AaErrorReturns,
         AaDisconnects, AaRests, AaOnly, frontVars
  <2>3. CASE \E d \in {"out", "in"} : SlPlays(s, d) \/ SlSticks(s, d)
      BY <2>3 DEF SlPlays, SlSticks, frontVars
  <2> QED
      BY <2>1, <2>2, <2>3
<1>2. ASSUME NEW b \in BOOLEAN, NEW c \in BOOLEAN, Flags(s, b, c)
      PROVE  \A r \in Streams : stream'[r].open <=> stream[r].open
  <2>1. stream[s] \in StreamType /\ StreamsType
      BY DEF Inv, StreamsType
  <2>2. /\ stream'[s] = [stream[s] EXCEPT !.isStopped = b, !.isActive = c]
        /\ \A r \in Streams \ {s} : stream'[r] = stream[r]
      BY <1>2, <2>1, FlagsOnly
  <2>3. stream'[s].open <=> stream[s].open
      BY <2>1, <2>2 DEF StreamType
  <2> QED
      BY <2>2, <2>3
<1> QED
    BY <1>1, <1>2

LEMMA InvNext ==
    ASSUME Inv, ListInv, Tame, Next
    PROVE  Inv'
<1>1. /\ Inv /\ StreamsType /\ call \in Calls /\ 0 \notin Streams
      /\ call.s = 0 => call = NoCall \/ call.at = "next"
    BY CallTypes DEF Inv, StreamsType
<1>2. CASE Threads
    BY <1>2, SlThreadKeeps, AaCallbacksKeep DEF Threads
<1>3. CASE Devices
  <2>1. ASSUME NEW s \in Streams, NEW d \in {"out", "in"}, SlPlays(s, d) \/ SlSticks(s, d), UNCHANGED aa
        PROVE  Inv'
    <3>1. UNCHANGED <<stream, thread, aa, call>>
        BY <2>1 DEF SlPlays, SlSticks, frontVars
    <3> QED
        BY <3>1 DEF Inv, StreamsType, CallInv, CallOn, SlInv, AaInv, ClosedInv, OnOpenSles, OnAaudio, Joins
  <2> QED
      BY <1>3, <2>1, AaCallbacksKeep DEF Devices
<1>4. CASE Pa_Initialize \/ Pa_Terminate \/ Terminated
  <2>1. /\ UNCHANGED <<stream, thread, aa>> /\ call.at \notin {"join", "close"}
        /\ \/ call' = call /\ call = NoCall
           \/ call' = NoCall
           \/ call' = [op |-> "terminate", s |-> 0, at |-> "next"]
      BY <1>4 DEF Pa_Initialize, Pa_Terminate, Terminated, SameStreams, slVars, Idle, NoCall, Within
  <2>2. call' \in Calls /\ call'.s = 0
      BY <2>1 DEF Calls, NoCall
  <2> QED
      BY <1>1, <2>1, <2>2, CallOnly
<1>5. CASE CloseOpenStreams
  <2>1. Head(openStreams) \in Streams /\ stream[Head(openStreams)].open
    <3>1. openStreams \in Seq(Streams) /\ openStreams # << >>
        BY <1>5 DEF ListInv, CloseOpenStreams
    <3>2. Head(openStreams) \in ToSet(openStreams) /\ Head(openStreams) \in Streams
        BY <3>1 DEF ToSet
    <3> QED
        BY <3>1, <3>2 DEF ListInv
  <2> QED
      BY <1>5, <2>1, ClosesKeeps DEF CloseOpenStreams
<1>6. CASE PaUnixThread_Terminate \/ Drains \/ Drained \/ CloseStream \/ ReadStream \/ WriteStream
    BY <1>6, JoinKeeps, DrainsKeeps, CloseKeeps, BlockingKeeps
<1>7. ASSUME NEW s \in Streams,
             \/ Pa_OpenStream(s) \/ Pa_StartStream(s) \/ Pa_StopStream(s) \/ Pa_AbortStream(s) \/ Pa_CloseStream(s)
             \/ Pa_ReadStream(s) \/ Pa_WriteStream(s)
      PROVE  Inv'
  <2>1. call = NoCall
      BY <1>7 DEF Pa_OpenStream, Pa_StartStream, Pa_StopStream, Pa_AbortStream, Pa_CloseStream,
                  Pa_ReadStream, Pa_WriteStream, Pa_ReadOrWriteStream, Idle
  <2>2. CASE Pa_StopStream(s) \/ Pa_AbortStream(s)
      BY <2>1, <2>2, StopsKeeps DEF Pa_StopStream, Pa_AbortStream, PaUtil_ValidateStreamPointer, NoCall
  <2>3. CASE Pa_CloseStream(s)
      BY <2>1, <2>3, ClosesKeeps DEF Pa_CloseStream, PaUtil_ValidateStreamPointer, NoCall
  <2> QED
      BY <1>7, <2>2, <2>3, OpenKeeps, StartsKeeps, BlockingKeeps
<1> QED
    BY <1>2, <1>3, <1>4, <1>5, <1>6, <1>7 DEF Next, Client, Waiting

\* A step that opens and closes nothing.
LEMMA ListTheSame ==
    ASSUME ListInv, UNCHANGED openStreams,
           \A r \in Streams : stream'[r].open <=> stream[r].open,
           \A r \in Streams : Closing(r)' <=> Closing(r),
           call'.op = "terminate" => Terminates(hostApis)'
    PROVE  ListInv'
BY DEF ListInv

\* What Stop, Abort and Close do with the flags and the call.
LEMMA StopsCalls ==
    ASSUME Inv, NEW s \in Streams, NEW op, NEW abort, NEW then, Stops(s, op, abort, then)
    PROVE  /\ \A r \in Streams : stream'[r].open <=> stream[r].open
           /\ \/ call' = NoCall /\ then = "done"
              \/ \E at \in {"join", "drain", then} : call' = [op |-> op, s |-> s, at |-> at]
<1>1. \/ UNCHANGED stream
      \/ Flags(s, TRUE, FALSE)
    BY DEF Stops, SlStops, AaStops
<1>2. CASE Flags(s, TRUE, FALSE)
  <2>1. stream[s] \in StreamType /\ StreamsType
      BY DEF Inv, StreamsType
  <2>2. /\ stream'[s] = [stream[s] EXCEPT !.isStopped = TRUE, !.isActive = FALSE]
        /\ \A r \in Streams \ {s} : stream'[r] = stream[r]
      BY <1>2, <2>1, FlagsOnly
  <2>3. stream'[s].open <=> stream[s].open
      BY <2>1, <2>2 DEF StreamType
  <2>4. \A r \in Streams : stream'[r].open <=> stream[r].open
      BY <2>2, <2>3
  <2> QED
      BY <2>4 DEF Stops, SlStops, Within
<1> QED
    BY <1>1, <1>2 DEF Stops, SlStops, Within

LEMMA ClosesList ==
    ASSUME Inv, ListInv, NEW s \in Streams, NEW op \in {"close", "terminate"},
           stream[s].open, Closes(s, op),
           op = "terminate" => call.op = "terminate", call.s = 0
    PROVE  ListInv'
<1>1. /\ openStreams' \in Seq(Streams)
      /\ ToSet(openStreams)' = ToSet(openStreams) \ {s}
      /\ \A i, j \in DOMAIN openStreams' : openStreams'[i] = openStreams'[j] => i = j
    BY RemoveOpenStreamTakes DEF ListInv, Closes
<1>2. /\ \A r \in Streams : stream'[r].open <=> stream[r].open
      /\ \E at \in {"join", "drain", "close"} : call' = [op |-> op, s |-> s, at |-> at]
  <2>1. CASE stream[s].isStopped
      BY <2>1 DEF Closes, SameStreams, Within
  <2>2. CASE ~stream[s].isStopped
    <3>1. Stops(s, op, TRUE, "close")
        BY <2>2 DEF Closes
    <3> QED
        BY ZenonT(60), <3>1, StopsCalls, "done" # "close"
  <2> QED
      BY <2>1, <2>2
<1>3. \A r \in Streams : ~Closing(r) /\ (Closing(r)' <=> r = s)
    BY <1>2 DEF Closing
<1>4. call'.op = "terminate" => Terminates(hostApis)'
    BY <1>2 DEF ListInv, Closes
<1> QED
    BY <1>1, <1>2, <1>3, <1>4 DEF ListInv

LEMMA ListNext ==
    ASSUME Inv, ListInv, Tame, Next
    PROVE  ListInv'
<1>1. /\ StreamsType /\ call \in Calls /\ 0 \notin Streams
      /\ call.s = 0 <=> call = NoCall \/ call.at = "next"
    BY CallTypes DEF Inv, StreamsType
<1>2. CASE Threads \/ Devices
  <2>1. /\ UNCHANGED <<tables, call>>
        /\ \A r \in Streams : stream'[r].open <=> stream[r].open
      BY <1>2, OpenTheSame DEF Threads, Devices
  <2> QED
      BY <2>1, ListTheSame DEF tables, Closing, ListInv
<1>3. CASE Pa_Initialize \/ Pa_Terminate \/ Terminated
  <2>1. UNCHANGED <<stream, openStreams>> /\ call.s = 0 /\ call'.s = 0
      BY <1>1, <1>3 DEF Pa_Initialize, Pa_Terminate, Terminated, SameStreams, Idle, NoCall, Within
  <2>2. \A r \in Streams : ~Closing(r) /\ ~Closing(r)'
      BY <1>1, <2>1 DEF Closing
  <2>3. call'.op = "terminate" => Terminates(hostApis)'
    <3>1. call'.op = "terminate" => Pa_Terminate /\ call = NoCall
        BY <1>3 DEF Pa_Initialize, Pa_Terminate, Terminated, Idle, NoCall
    <3> QED
        BY <3>1 DEF Pa_Terminate, Terminates, Within, NoCall
  <2> QED
      BY <2>1, <2>2, <2>3, ListTheSame
<1>4. ASSUME NEW s \in Streams, Pa_StopStream(s) \/ Pa_AbortStream(s)
      PROVE  ListInv'
  <2>1. UNCHANGED openStreams /\ call.s = 0
      BY <1>1, <1>4 DEF Pa_StopStream, Pa_AbortStream, tables, Idle
  <2>2. \E op \in {"stop", "abort"}, abort \in BOOLEAN : Stops(s, op, abort, "done")
      BY <1>4 DEF Pa_StopStream, Pa_AbortStream
  <2>3. /\ \A r \in Streams : stream'[r].open <=> stream[r].open
        /\ call'.op \in {"none", "stop", "abort"}
      BY <2>2, StopsCalls DEF NoCall
  <2> QED
      BY <1>1, <2>1, <2>3, ListTheSame DEF Closing
<1>5. CASE CloseOpenStreams
  <2>1. openStreams \in Seq(Streams) /\ openStreams # << >> /\ call.op = "terminate" /\ call.s = 0
      BY <1>1, <1>5, CallTypes DEF ListInv, CloseOpenStreams
  <2>2. Head(openStreams) \in Streams /\ stream[Head(openStreams)].open
    <3>1. Head(openStreams) \in ToSet(openStreams) /\ Head(openStreams) \in Streams
        BY <2>1 DEF ToSet
    <3> QED
        BY <3>1 DEF ListInv
  <2> QED
      BY <1>5, <2>1, <2>2, ClosesList DEF CloseOpenStreams
<1>6. ASSUME NEW s \in Streams, Pa_CloseStream(s)
      PROVE  ListInv'
    BY <1>1, <1>6, ClosesList DEF Pa_CloseStream, PaUtil_ValidateStreamPointer, Idle
<1>7. CASE PaUnixThread_Terminate \/ Drains \/ Drained
  <2>1. UNCHANGED tables /\ call.at \in {"join", "drain", "notify"} /\ call.op \in {"stop", "abort", "close", "terminate"}
      BY <1>1, <1>7, CallTypes DEF PaUnixThread_Terminate, Drains, Drained, Waits
  <2>2. \A r \in Streams : stream'[r].open <=> stream[r].open
    <3>1. CASE Drains
      <4>1. Flags(call.s, stream[call.s].isStopped \/ TRUE, FALSE) /\ call.s \in Streams
          BY <1>1, <2>1, <3>1, CallTypes DEF Drains, End, NoCall
      <4>2. (stream[call.s].isStopped \/ TRUE) \in BOOLEAN /\ stream[call.s] \in StreamType
          BY <1>1, <4>1 DEF StreamsType
      <4>3. /\ stream'[call.s] = [stream[call.s] EXCEPT !.isStopped = stream[call.s].isStopped \/ TRUE, !.isActive = FALSE]
            /\ \A r \in Streams \ {call.s} : stream'[r] = stream[r]
          BY <1>1, <4>1, <4>2, FlagsOnly
      <4>4. stream'[call.s].open <=> stream[call.s].open
          BY <4>2, <4>3 DEF StreamType
      <4> QED
          BY <4>3, <4>4
    <3> QED
        BY <1>7, <3>1 DEF PaUnixThread_Terminate, Drained, SameStreams
  <2>3. \/ call' = call
        \/ call' = NoCall /\ call.op \in {"stop", "abort"}
        \/ call'.s = call.s /\ call'.op = call.op
    <3>1. \/ UNCHANGED call
          \/ Resumes
          \/ call' = [op |-> call.op, s |-> call.s, at |-> "notify"]
        BY <1>7 DEF PaUnixThread_Terminate, Drains, Drained, Within
    <3>2. CASE Resumes
        BY <3>2 DEF Resumes, Within
    <3> QED
        BY <3>1, <3>2
  <2> QED
    <3>1. UNCHANGED <<openStreams, hostApis>>
        BY <2>1 DEF tables
    <3>2. \A r \in Streams : Closing(r)' <=> Closing(r)
        BY <1>1, <2>1, <2>3, CallTypes DEF Closing, NoCall
    <3>3. call'.op = "terminate" => Terminates(hostApis)'
      <4>1. call'.op = "terminate" => call.op = "terminate"
          BY <2>3 DEF NoCall
      <4> QED
          BY <3>1, <4>1 DEF ListInv, Terminates
    <3> QED
        BY <2>2, <3>1, <3>2, <3>3, ListTheSame
<1>8. CASE ReadStream \/ WriteStream
  <2>1. UNCHANGED <<tables, stream>> /\ call.op \in {"read", "write"} /\ call'.op \in {"none", "read", "write"}
      BY <1>1, <1>8, CallTypes DEF ReadStream, WriteStream, Within, NoCall, Calls
  <2> QED
      BY <2>1, ListTheSame DEF Closing, tables
<1>9. CASE CloseStream
  <2>1. PICK s \in Streams : s = call.s
      BY <1>1, <1>9, CallTypes DEF CloseStream, NoCall
  <2>2. /\ UNCHANGED tables /\ call.op \in {"close", "terminate"} /\ Closing(s)
        /\ call' = NoCall \/ (call' = [op |-> "terminate", s |-> 0, at |-> "next"] /\ call.op = "terminate")
        /\ stream' = [stream EXCEPT ![s] = Closed]
      BY <1>9, <2>1 DEF CloseStream, Inv, CallInv, CallOn, Closing, Within
  <2>3. \A r \in Streams : stream'[r].open <=> stream[r].open /\ r # s
      BY <1>1, <2>2 DEF StreamsType, Closed
  <2>4. \A r \in Streams : ~Closing(r)' /\ (Closing(r) <=> r = s)
      BY <1>1, <2>1, <2>2 DEF Closing, NoCall
  <2>5. call'.op = "terminate" => call.op = "terminate"
      BY <2>2 DEF NoCall
  <2> QED
      BY <2>2, <2>3, <2>4, <2>5 DEF ListInv, tables, Terminates
<1>10. ASSUME NEW s \in Streams, Pa_ReadStream(s) \/ Pa_WriteStream(s)
       PROVE  ListInv'
  <2>1. UNCHANGED <<tables, stream>> /\ call = NoCall /\ call'.op \in {"read", "write"}
      BY <1>10 DEF Pa_ReadStream, Pa_WriteStream, Pa_ReadOrWriteStream, SameStreams, Within, Idle
  <2> QED
      BY <2>1, ListTheSame DEF Closing, tables, NoCall
<1>11. ASSUME NEW s \in Streams, Pa_StartStream(s)
       PROVE  ListInv'
  <2>1. /\ UNCHANGED <<tables, call>>
        /\ stream' = [stream EXCEPT ![s].started = TRUE, ![s].isStopped = FALSE, ![s].isActive = TRUE]
      BY <1>11 DEF Pa_StartStream, SlStarts, AaStarts
  <2>2. stream[s] \in StreamType
      BY <1>1 DEF StreamsType
  <2>3. /\ stream'[s] = [stream[s] EXCEPT !.started = TRUE, !.isStopped = FALSE, !.isActive = TRUE]
        /\ \A r \in Streams \ {s} : stream'[r] = stream[r]
      BY <1>1, <2>1 DEF StreamsType
  <2>4. stream'[s].open <=> stream[s].open
      BY <2>2, <2>3 DEF StreamType
  <2> QED
      BY <2>1, <2>3, <2>4, ListTheSame DEF Closing, tables, ListInv
<1>12. ASSUME NEW s \in Streams, Pa_OpenStream(s)
       PROVE  ListInv'
  <2>1. /\ call = NoCall /\ UNCHANGED <<hostApis, call>> /\ ~stream[s].open
        /\ \/ UNCHANGED <<openStreams, stream>>
           \/ /\ AddOpenStream(s)
              /\ \E api, mode, sides, ends : PaUtil_InitializeStreamRepresentation(s, api, mode, sides, ends)
      BY <1>12 DEF Pa_OpenStream, Opens, Refused, Idle
  <2>2. CASE UNCHANGED <<openStreams, stream>>
      BY <2>1, <2>2, ListTheSame DEF Closing, NoCall
  <2>3. ASSUME NEW api, NEW mode, NEW sides, NEW ends, AddOpenStream(s),
               PaUtil_InitializeStreamRepresentation(s, api, mode, sides, ends)
        PROVE  ListInv'
    <3>1. stream'[s].open /\ \A r \in Streams \ {s} : stream'[r] = stream[r]
        BY <1>1, <2>3 DEF PaUtil_InitializeStreamRepresentation, StreamsType, Closed
    <3>2. openStreams \in Seq(Streams) /\ s \notin ToSet(openStreams)
        BY <2>1 DEF ListInv
    <3>3. /\ openStreams' \in Seq(Streams) /\ Len(openStreams') = Len(openStreams) + 1
          /\ openStreams'[1] = s
          /\ \A i \in 1 .. Len(openStreams) : openStreams'[i + 1] = openStreams[i]
      <4>1. <<s>> \in Seq(Streams) /\ Len(<<s>>) = 1 /\ <<s>>[1] = s
          OBVIOUS
      <4>2. /\ openStreams' \in Seq(Streams) /\ Len(openStreams') = Len(<<s>>) + Len(openStreams)
            /\ \A i \in 1 .. Len(<<s>>) : openStreams'[i] = <<s>>[i]
            /\ \A i \in 1 .. Len(openStreams) : openStreams'[Len(<<s>>) + i] = openStreams[i]
          BY <2>3, <3>2, <4>1, Concatenated DEF AddOpenStream
      <4> QED
          BY <3>2, <4>1, <4>2
    <3>4. \A k \in 1 .. Len(openStreams') :
             \/ k = 1 /\ openStreams'[k] = s
             \/ k - 1 \in 1 .. Len(openStreams) /\ openStreams'[k] = openStreams[k - 1]
      <4>1. ASSUME NEW k \in 1 .. Len(openStreams'), k # 1
            PROVE  k - 1 \in 1 .. Len(openStreams) /\ openStreams'[k] = openStreams[k - 1]
        <5>1. k - 1 \in 1 .. Len(openStreams) /\ (k - 1) + 1 = k
            BY <3>2, <3>3, <4>1
        <5> QED
            BY <3>3, <5>1
      <4> QED
          BY <3>3, <4>1
    <3>5. ToSet(openStreams)' = ToSet(openStreams) \cup {s}
      <4>1. ASSUME NEW k \in 1 .. Len(openStreams') PROVE openStreams'[k] \in ToSet(openStreams) \cup {s}
          BY <3>2, <3>4 DEF ToSet
      <4>2. s \in ToSet(openStreams)' /\ \A i \in 1 .. Len(openStreams) : openStreams[i] \in ToSet(openStreams)'
        <5>1. \A k \in 1 .. Len(openStreams') : openStreams'[k] \in ToSet(openStreams)'
            BY <3>3 DEF ToSet
        <5>2. 1 \in 1 .. Len(openStreams') /\ \A i \in 1 .. Len(openStreams) : i + 1 \in 1 .. Len(openStreams')
            BY <3>2, <3>3
        <5> QED
            BY <3>3, <5>1, <5>2
      <4>3. \A x \in ToSet(openStreams)' : x \in ToSet(openStreams) \cup {s}
          BY <3>3, <4>1 DEF ToSet
      <4>4. \A x \in ToSet(openStreams) : x \in ToSet(openStreams)'
          BY <3>2, <4>2 DEF ToSet
      <4> QED
          BY <4>2, <4>3, <4>4
    <3>6. \A i, j \in DOMAIN openStreams' : openStreams'[i] = openStreams'[j] => i = j
      <4>1. \A k \in 1 .. Len(openStreams) : openStreams[k] # s
          BY <3>2 DEF ToSet
      <4>2. \A i, j \in 1 .. Len(openStreams) : openStreams[i] = openStreams[j] => i = j
          BY <3>2 DEF ListInv
      <4>3. ASSUME NEW i \in 1 .. Len(openStreams'), NEW j \in 1 .. Len(openStreams'), openStreams'[i] = openStreams'[j]
            PROVE  i = j
          BY <3>2, <3>4, <4>1, <4>2, <4>3
      <4> QED
          BY <3>3, <4>3
    <3> QED
        BY <2>1, <3>1, <3>3, <3>5, <3>6 DEF ListInv, Closing, NoCall
  <2> QED
      BY <2>1, <2>2, <2>3
<1> QED
    BY <1>2, <1>3, <1>4, <1>5, <1>6, <1>7, <1>8, <1>9, <1>10, <1>11, <1>12 DEF Next, Client, Waiting

LEMMA DefinedNext ==
    ASSUME Inv, ListInv, Tame, Defined, Next
    PROVE  Defined'
<1>1. /\ StreamsType /\ call \in Calls /\ 0 \notin Streams
      /\ call.s = 0 <=> call = NoCall \/ call.at = "next"
    BY CallTypes DEF Inv, StreamsType
<1>2. CASE Terminated
  <2>1. call.at = "next" /\ openStreams = << >> /\ TerminateHostApis
      BY <1>2 DEF Terminated
  <2>2. call.op = "terminate" /\ call.s = 0
      BY <1>1, <2>1, CallTypes DEF NoCall
  <2>3. Terminates(hostApis) /\ \A s \in Streams : ~stream[s].open
      BY <1>1, <2>1, <2>2 DEF ListInv, ToSet, Closing
  <2> QED
      BY <2>1, <2>3 DEF TerminateHostApis, Defined
<1>3. CASE Threads \/ Devices
    BY <1>3, OpenTheSame DEF Threads, Devices, Defined
<1>4. CASE Pa_Initialize
    BY <1>4 DEF Pa_Initialize, InitializeHostApis, Defined
<1>5. CASE Client /\ ~Terminated /\ ~Pa_Initialize
  <2>1. CASE PaUnixThread_Terminate
      BY <2>1, JoinKeeps DEF Defined
  <2>2. CASE Waiting /\ ~PaUnixThread_Terminate /\ ~Terminated
      BY <2>2 DEF Waiting, Drains, Drained, CloseStream, CloseOpenStreams, Closes, ReadStream, WriteStream, HostOnly, Defined
  <2>3. CASE \E s \in Streams : Pa_OpenStream(s)
      BY <2>3 DEF Pa_OpenStream, Opens, Defined
  <2>4. CASE Pa_Terminate \/ \E s \in Streams :
                 \/ Pa_StartStream(s) \/ Pa_StopStream(s) \/ Pa_AbortStream(s) \/ Pa_CloseStream(s)
                 \/ Pa_ReadStream(s) \/ Pa_WriteStream(s)
      BY <2>4 DEF Pa_Terminate, Pa_StartStream, Pa_StopStream, Pa_AbortStream, Pa_CloseStream, Closes,
                  Pa_ReadStream, Pa_WriteStream, Pa_ReadOrWriteStream, HostOnly, Defined
  <2> QED
      BY <1>5, <2>1, <2>2, <2>3, <2>4 DEF Client
<1> QED
    BY <1>2, <1>3, <1>4, <1>5 DEF Next

SafeInv == Inv /\ ListInv /\ Defined

LEMMA SafeInitially == Init => SafeInv
<1> SUFFICES ASSUME Init PROVE SafeInv
    OBVIOUS
<1>1. /\ stream = [s \in Streams |-> Closed] /\ thread = [s \in Streams |-> NoThread]
      /\ aa = [s \in Streams |-> NoAaudio] /\ call = NoCall /\ openStreams = << >> /\ Defined
    BY DEF Init, FrontInit, SlInit, AaInit, Defined
<1>2. Closed \in StreamType /\ NoThread \in ThreadType /\ NoAaudio \in AaudioType
    BY DEF Closed, NoThread, NoAaudio, StreamType, ThreadType, AaudioType
<1>3. StreamsType /\ CallInv
    BY <1>1, <1>2 DEF StreamsType, Calls, CallInv, NoCall
<1>4. \A s \in Streams : SlInv(s) /\ AaInv(s) /\ ClosedInv(s) /\ ~stream[s].open
    BY <1>1 DEF SlInv, AaInv, ClosedInv, OnOpenSles, OnAaudio, Closed
<1>5. ListInv
    BY <1>1, <1>4 DEF ListInv, ToSet, NoCall
<1> QED
    BY <1>1, <1>3, <1>4, <1>5 DEF SafeInv, Inv

LEMMA SafeAlways == ASSUME Tame PROVE Spec => []SafeInv
<1>1. SafeInv /\ [Next]_vars => SafeInv'
  <2> SUFFICES ASSUME SafeInv, [Next]_vars PROVE SafeInv'
      OBVIOUS
  <2>1. CASE Next
      BY <2>1, InvNext, ListNext, DefinedNext DEF SafeInv
  <2>2. CASE UNCHANGED vars
      BY <2>2 DEF vars, frontVars, slVars, tables, SafeInv, Inv, ListInv, Defined, StreamsType, CallInv, CallOn,
                  SlInv, AaInv, ClosedInv, OnOpenSles, OnAaudio, Joins, Closing, Terminates
  <2> QED
      BY <2>1, <2>2
<1> QED
    BY <1>1, SafeInitially, PTL DEF Spec

\* No legal sequence of calls of a tame client reaches what is undefined in C: a thread
\* that is joined twice or was never made, a host API without its functions, a stream
\* that outlives its host API.
THEOREM NothingUndefined == ASSUME Tame PROVE Spec => []Defined
BY SafeAlways, PTL DEF SafeInv

------------------------------------------------------------------------------
(* The buffers of a side *)

LEMMA Fewer ==
    ASSUME NEW l \in LineType, NEW h \in 0 .. 1, Fits(l, h), NEW k \in 0 .. 1, k <= h
    PROVE  Fits(l, k)
<1>1. l.sem \in Nat /\ Len(l.queue) \in Nat
    BY DEF LineType
<1>2. l.sem + Len(l.queue) + k <= numberOfBuffers
  <2>1. l.sem + Len(l.queue) + h <= numberOfBuffers
      BY DEF Fits
  <2>2. numberOfBuffers \in Nat
      BY OpenSlesAssumption
  <2> QED
      BY <1>1, <2>1, <2>2
<1> QED
    BY <1>2 DEF Fits

LEMMA Shifted ==
    ASSUME NEW a \in Nat, NEW b \in Nat, a = b + 1, NEW i \in 1 .. b
    PROVE  i + 1 \in 1 .. a /\ a + 1 - (i + 1) = b + 1 - i /\ a + 1 - i = b + 1 - i + 1 /\ b + 1 - i \in 1 .. b
OBVIOUS

LEMMA LineParts ==
    ASSUME NEW l \in LineType
    PROVE  /\ l.queue \in Seq(Nat) /\ Len(l.queue) \in Nat /\ l.sem \in Nat
           /\ l.current \in 0 .. numberOfBuffers - 1 /\ l.current \in Nat
           /\ l.on \in BOOLEAN /\ l.stuck \in BOOLEAN
           /\ \A q \in Seq(Nat), n \in Nat :
                 LET m == [l EXCEPT !.queue = q, !.sem = n]
                 IN  /\ m \in LineType /\ m.queue = q /\ m.sem = n /\ m.current = l.current
                     /\ m.on = l.on /\ m.stuck = l.stuck
<1>1. /\ l.queue \in Seq(Nat) /\ Len(l.queue) \in Nat /\ l.sem \in Nat
      /\ l.current \in 0 .. numberOfBuffers - 1 /\ l.current \in Nat
      /\ l.on \in BOOLEAN /\ l.stuck \in BOOLEAN
    BY DEF LineType
<1>2. ASSUME NEW q \in Seq(Nat), NEW n \in Nat
      PROVE  LET m == [l EXCEPT !.queue = q, !.sem = n]
             IN  /\ m \in LineType /\ m.queue = q /\ m.sem = n /\ m.current = l.current
                 /\ m.on = l.on /\ m.stuck = l.stuck
    BY DEF LineType
<1> QED
    BY <1>1, <1>2

\* The device is through with the first buffer.
LEMMA Played ==
    ASSUME NEW l \in LineType, l.queue # << >>
    PROVE  LET m == [l EXCEPT !.queue = Tail(@), !.sem = @ + 1]
           IN  m \in LineType /\ \A h \in 0 .. 1 : Fits(l, h) => Fits(m, h)
<1> DEFINE m == [l EXCEPT !.queue = Tail(@), !.sem = @ + 1]
           q == Tail(l.queue)
<1>1. l.queue \in Seq(Nat) /\ l.sem \in Nat /\ l.current \in 0 .. numberOfBuffers - 1 /\ Len(l.queue) \in Nat
    BY LineParts
<1>3. /\ q \in Seq(Nat) /\ Len(q) = Len(l.queue) - 1 /\ Len(q) \in Nat
      /\ \A i \in 1 .. Len(q) : q[i] = l.queue[i + 1]
    BY <1>1
<1>2. m \in LineType /\ m.queue = q /\ m.sem = l.sem + 1 /\ m.current = l.current
  <2>1. PICK n \in Nat : n = l.sem + 1
      BY <1>1
  <2>2. m = [l EXCEPT !.queue = q, !.sem = n] /\ q \in Seq(Nat)
      BY <1>3, <2>1
  <2> HIDE DEF m, q
  <2>3. m \in LineType /\ m.queue = q /\ m.sem = n /\ m.current = l.current
      BY <2>2 DEF LineType
  <2> QED
      BY <2>1, <2>3
<1>5. ASSUME NEW h \in 0 .. 1, Fits(l, h) PROVE Fits(m, h)
  <2>1. ASSUME NEW i \in 1 .. Len(q) PROVE q[i] = Before(l.current, Len(q) + 1 - i)
    <3>0. i \in Nat /\ i >= 1 /\ i <= Len(q)
        BY <1>3
    <3> HIDE DEF q
    <3>1. i + 1 \in 1 .. Len(l.queue) /\ Len(l.queue) + 1 - (i + 1) = Len(q) + 1 - i
      <4>1. Len(l.queue) \in Nat /\ Len(q) \in Nat /\ Len(l.queue) = Len(q) + 1
          BY <1>1, <1>3
      <4> QED
          BY <4>1, Shifted
    <3>2. l.queue[i + 1] = Before(l.current, Len(l.queue) + 1 - (i + 1))
        BY <1>5, <3>1 DEF Fits
    <3> QED
        BY <1>3, <3>1, <3>2
  <2>2. l.sem + 1 + Len(q) + h <= numberOfBuffers
      BY <1>1, <1>3, <1>5 DEF Fits
  <2> HIDE DEF m, q
  <2> QED
      BY <1>2, <2>1, <2>2 DEF Fits
<1> QED
    BY <1>2, <1>5

LEMMA RingNext ==
    ASSUME NEW c \in 0 .. numberOfBuffers - 1
    PROVE  /\ (c + 1) % numberOfBuffers = IF c + 1 = numberOfBuffers THEN 0 ELSE c + 1
           /\ (c + 1) % numberOfBuffers \in 0 .. numberOfBuffers - 1
<1>1. CASE c + 1 = numberOfBuffers
  <2>1. numberOfBuffers % numberOfBuffers = 0
      BY SMTT(20)
  <2> QED
      BY <1>1, <2>1
<1>2. CASE c + 1 # numberOfBuffers
  <2>1. c + 1 \in 0 .. numberOfBuffers - 1
      BY <1>2
  <2>2. \A x \in 0 .. numberOfBuffers - 1 : x % numberOfBuffers = x
      BY SMTT(20)
  <2> QED
      BY <1>2, <2>1, <2>2
<1> QED
    BY <1>1, <1>2

LEMMA BeforeNext ==
    ASSUME NEW x \in 0 .. numberOfBuffers - 1, NEW c, c = IF x + 1 = numberOfBuffers THEN 0 ELSE x + 1,
           NEW k \in 1 .. numberOfBuffers - 1
    PROVE  Before(c, k + 1) = Before(x, k)
<1>1. PICK n \in Nat : n = numberOfBuffers
    OBVIOUS
<1>2. CASE x + 1 = n
  <2>1. c = 0 /\ x >= k /\ ~(0 >= k + 1)
      BY <1>1, <1>2
  <2>2. Before(c, k + 1) = 0 - (k + 1) + n /\ Before(x, k) = x - k
      BY <1>1, <2>1 DEF Before
  <2> QED
      BY <1>1, <1>2, <2>2
<1>3. CASE x + 1 # n
  <2>1. c = x + 1 /\ (c >= k + 1 <=> x >= k) /\ c - (k + 1) = x - k
      BY <1>1, <1>3
  <2> QED
      BY <2>1 DEF Before
<1> QED
    BY <1>2, <1>3

\* The current buffer goes to the end of the queue.
LEMMA Enqueued ==
    ASSUME NEW l \in LineType
    PROVE  /\ Queued(l) \in LineType /\ Rotated(l) \in LineType /\ Enqueue(l) \in LineType
           /\ Fits(l, 1) => Fits(Enqueue(l), 0)
<1> DEFINE c == (l.current + 1) % numberOfBuffers
           q == Append(l.queue, l.current)
<1>1. /\ l.queue \in Seq(Nat) /\ l.sem \in Nat /\ l.current \in 0 .. numberOfBuffers - 1
      /\ l.current \in Nat /\ Len(l.queue) \in Nat
    BY LineParts
<1>2. /\ c = IF l.current + 1 = numberOfBuffers THEN 0 ELSE l.current + 1
      /\ c \in 0 .. numberOfBuffers - 1
    BY <1>1, RingNext
<1>3. q \in Seq(Nat) /\ Len(q) = Len(l.queue) + 1 /\ q[Len(q)] = l.current
      /\ \A i \in 1 .. Len(l.queue) : q[i] = l.queue[i]
    BY <1>1
<1> HIDE DEF c, q
<1>4. /\ Queued(l) = l \/ Queued(l) = [l EXCEPT !.queue = q]
      /\ Len(l.queue) < numberOfBuffers => Queued(l) = [l EXCEPT !.queue = q]
    BY <1>1 DEF Queued, q, LineType
<1>5. \A k \in LineType : k.current = l.current => Rotated(k) = [k EXCEPT !.current = c] /\ Rotated(k) \in LineType
    BY <1>2 DEF Rotated, c, LineType
<1>6. Queued(l) \in LineType /\ Queued(l).current = l.current
    BY <1>3, <1>4 DEF LineType
<1>7. ASSUME Fits(l, 1) PROVE Fits(Enqueue(l), 0)
  <2>1. l.sem + Len(l.queue) + 1 <= numberOfBuffers
      BY <1>7 DEF Fits
  <2>2. Queued(l) = [l EXCEPT !.queue = q]
      BY <1>1, <1>4, <2>1
  <2>3. Enqueue(l) = [l EXCEPT !.queue = q, !.current = c]
      BY <1>5, <1>6, <2>2 DEF Enqueue
  <2>4. Enqueue(l).queue = q /\ Enqueue(l).sem = l.sem /\ Enqueue(l).current = c
      BY <2>3 DEF LineType
  <2>5. ASSUME NEW i \in 1 .. Len(q) PROVE q[i] = Before(c, Len(q) + 1 - i)
    <3>0. i \in Nat /\ i >= 1 /\ i <= Len(q) /\ Len(q) \in Nat
        BY <1>1, <1>3
    <3>1. CASE i = Len(q)
      <4>1. Len(q) + 1 - i = 1 /\ q[i] = l.current
          BY <1>3, <3>0, <3>1
      <4>2. Before(c, 1) = l.current
        <5>1. CASE l.current + 1 = numberOfBuffers
          <6>1. c = 0 /\ l.current = 0 - 1 + numberOfBuffers
            <7>1. l.current \in Nat /\ c = 0
                BY <1>1, <1>2, <5>1
            <7>2. PICK x \in Nat : x = l.current
                BY <7>1
            <7>3. x + 1 = numberOfBuffers
                BY <5>1, <7>2
            <7>4. x = 0 - 1 + numberOfBuffers
                BY <7>3
            <7> QED
                BY <7>1, <7>2, <7>4
          <6>2. Before(0, 1) = 0 - 1 + numberOfBuffers
              BY DEF Before
          <6> QED
              BY <6>1, <6>2
        <5>2. CASE l.current + 1 # numberOfBuffers
          <6>1. c = l.current + 1 /\ l.current \in Nat
              BY <1>1, <1>2, <5>2
          <6> QED
              BY <6>1 DEF Before
        <5> QED
            BY <5>1, <5>2
      <4> QED
          BY <4>1, <4>2
    <3>2. CASE i # Len(q)
      <4>1. i \in 1 .. Len(l.queue)
          BY <1>1, <1>3, <3>0, <3>2
      <4>2. q[i] = Before(l.current, Len(l.queue) + 1 - i)
          BY <1>3, <1>7, <4>1 DEF Fits
      <4>3. Len(l.queue) + 1 - i \in 1 .. numberOfBuffers /\ Len(q) + 1 - i = Len(l.queue) + 1 - i + 1
        <5>1. Len(l.queue) \in Nat /\ Len(q) \in Nat /\ Len(q) = Len(l.queue) + 1
            BY <1>1, <1>3
        <5>2. Len(q) + 1 - i = Len(l.queue) + 1 - i + 1 /\ Len(l.queue) + 1 - i \in 1 .. Len(l.queue)
            BY <4>1, <5>1, Shifted
        <5>3. Len(l.queue) <= numberOfBuffers
            BY <1>1, <2>1
        <5> QED
            BY <5>1, <5>2, <5>3
      <4>4. ASSUME NEW k \in 1 .. numberOfBuffers - 1 PROVE Before(c, k + 1) = Before(l.current, k)
        <5>1. PICK x \in 0 .. numberOfBuffers - 1 : x = l.current
            BY <1>1
        <5>2. c = IF x + 1 = numberOfBuffers THEN 0 ELSE x + 1
            BY <1>2, <5>1
        <5> QED
            BY <5>1, <5>2, BeforeNext
      <4>5. Len(l.queue) + 1 - i \in 1 .. numberOfBuffers - 1
        <5>1. PICK m \in Nat, e \in Nat, n \in Nat : m = Len(l.queue) /\ e = l.sem /\ n = numberOfBuffers
            BY <1>1
        <5>2. e + m + 1 <= n /\ i \in 1 .. m
            BY <2>1, <4>1, <5>1
        <5>3. m + 1 - i \in 1 .. n - 1
            BY <5>2
        <5> QED
            BY <5>1, <5>3
      <4> QED
          BY <4>2, <4>3, <4>4, <4>5
    <3> QED
        BY <3>1, <3>2
  <2>6. l.sem + Len(q) + 0 <= numberOfBuffers
      BY <1>1, <1>3, <2>1
  <2>7. \A m : m.queue = q /\ m.sem = l.sem /\ m.current = c => Fits(m, 0)
      BY <2>5, <2>6 DEF Fits
  <2> QED
      BY <2>4, <2>7
<1> QED
    BY <1>5, <1>6, <1>7 DEF Enqueue

LEMMA Emptied ==
    ASSUME NEW l \in LineType, NEW on \in BOOLEAN
    PROVE  LET m == [l EXCEPT !.queue = << >>, !.on = on, !.stuck = FALSE]
           IN  m \in LineType /\ \A h \in 0 .. 1 : Fits(l, h) \/ l.sem = 0 => Fits(m, h)
<1> DEFINE m == [l EXCEPT !.queue = << >>, !.on = on, !.stuck = FALSE]
<1>1. l.queue \in Seq(Nat) /\ l.sem \in Nat /\ Len(l.queue) \in Nat 
    BY LineParts
<1>2. m \in LineType /\ m.queue = << >> /\ m.sem = l.sem
  <2>1. << >> \in Seq(Nat)
      OBVIOUS
  <2>2. PICK e \in Seq(Nat) : e = << >>
      BY <2>1
  <2>3. m = [l EXCEPT !.queue = e, !.on = on, !.stuck = FALSE]
      BY <2>2
  <2> HIDE DEF m
  <2> QED
      BY <2>2, <2>3 DEF LineType
<1> QED
    BY <1>1, <1>2 DEF Fits

LEMMA Waited ==
    ASSUME NEW l \in LineType, l.sem > 0
    PROVE  LET m == [l EXCEPT !.sem = @ - 1]
           IN  m \in LineType /\ (Fits(l, 0) => Fits(m, 1)) /\ m.queue = l.queue
<1> DEFINE m == [l EXCEPT !.sem = @ - 1]
<1>1. l.queue \in Seq(Nat) /\ l.sem \in Nat /\ Len(l.queue) \in Nat
    BY DEF LineType
<1>2. m \in LineType /\ m.queue = l.queue /\ m.sem = l.sem - 1 /\ m.current = l.current
    BY SMTT(30), <1>1 DEF LineType
<1> QED
    BY <1>1, <1>2 DEF Fits

LEMMA Filled ==
    ASSUME NEW l \in LineType, NEW on \in BOOLEAN
    PROVE  Primed(l, on) \in LineType /\ (l = NoLine => Fits(Primed(l, on), 0))
<1> DEFINE q == [i \in 1 .. numberOfBuffers |-> i - 1]
<1>1. q \in Seq(Nat) /\ Len(q) = numberOfBuffers
    OBVIOUS
<1>2. /\ Primed(l, on) \in LineType
      /\ Primed(l, on).queue = q /\ Primed(l, on).sem = l.sem /\ Primed(l, on).current = 0
  <2>1. Primed(l, on) = [l EXCEPT !.queue = q, !.current = 0, !.on = on]
      BY DEF Primed
  <2>2. 0 \in 0 .. numberOfBuffers - 1
      OBVIOUS
  <2> HIDE DEF q
  <2> QED
      BY <1>1, <2>1, <2>2 DEF LineType
<1>3. ASSUME l = NoLine PROVE Fits(Primed(l, on), 0)
  <2>1. l.sem = 0
      BY <1>3 DEF NoLine
  <2>2. \A i \in 1 .. numberOfBuffers : q[i] = Before(0, numberOfBuffers + 1 - i)
      BY DEF Before
  <2> HIDE DEF q
  <2> QED
      BY <1>1, <1>2, <2>1, <2>2 DEF Fits
<1> QED
    BY <1>2, <1>3

\* A step that leaves a stream what it was opened as.
SameKind(r) ==
    /\ stream'[r].open <=> stream[r].open
    /\ stream'[r].started <=> stream[r].started
    /\ stream'[r].api = stream[r].api /\ stream'[r].mode = stream[r].mode /\ stream'[r].sides = stream[r].sides

LEMMA FlagsSameKind ==
    ASSUME StreamsType, NEW s \in Streams, NEW b \in BOOLEAN, NEW c \in BOOLEAN, Flags(s, b, c)
    PROVE  \A r \in Streams : SameKind(r)
<1>1. /\ stream'[s] = [stream[s] EXCEPT !.isStopped = b, !.isActive = c] /\ stream[s] \in StreamType
      /\ \A r \in Streams \ {s} : stream'[r] = stream[r]
    BY FlagsOnly DEF StreamsType
<1>2. SameKind(s)
    BY <1>1 DEF SameKind, StreamType
<1> QED
    BY <1>1, <1>2 DEF SameKind

LEMMA HandIs == \A s, d : Hand(s, d) \in 0 .. 1
BY DEF Hand

LEMMA LinesStay ==
    ASSUME LineInv, UNCHANGED line, \A r \in Streams : SameKind(r),
           \A r \in Streams : \A d \in {"out", "in"} : Hand(r, d)' <= Hand(r, d)
    PROVE  LineInv'
<1> SUFFICES ASSUME NEW r \in Streams, NEW d \in {"out", "in"}, Counted(r, d)' PROVE LineOk(r, d)'
    BY DEF LineInv
<1>1. Counted(r, d) /\ LineOk(r, d) /\ line[r][d] \in LineType /\ line'[r][d] = line[r][d]
    BY DEF Counted, OnOpenSles, SameKind, LineInv
<1>2. Hand(r, d)' \in 0 .. 1 /\ Hand(r, d) \in 0 .. 1
    BY DEF Hand
<1>3. Fits(line[r][d], Hand(r, d)')
    BY <1>1, <1>2, Fewer DEF LineOk
<1>4. Fits(line[r][d], Hand(r, d))'
    BY <1>1, <1>3 DEF Fits, Before
<1> QED
    BY <1>1, <1>4 DEF LineOk, SameKind

LEMMA OneLine ==
    ASSUME LineInv, NEW s \in Streams,
           \A r \in Streams \ {s} : line'[r] = line[r] /\ SameKind(r) /\ thread'[r] = thread[r],
           call' = call \/ (call.s \in {0, s} /\ call'.s \in {0, s}),
           0 \notin Streams,
           line' \in [Streams -> [{"out", "in"} -> LineType]],
           \A d \in {"out", "in"} : Counted(s, d)' => LineOk(s, d)'
    PROVE  LineInv'
<1> SUFFICES ASSUME NEW r \in Streams \ {s}, NEW d \in {"out", "in"}, Counted(r, d)' PROVE LineOk(r, d)'
    BY DEF LineInv
<1>1. Counted(r, d) /\ LineOk(r, d) /\ line[r][d] \in LineType /\ line'[r][d] = line[r][d]
    BY DEF Counted, OnOpenSles, SameKind, LineInv
<1>2. Hand(r, d)' = Hand(r, d)
  <2>1. call' = [op |-> "write", s |-> r, at |-> "copy"] <=> call = [op |-> "write", s |-> r, at |-> "copy"]
      OBVIOUS
  <2> QED
      BY <2>1 DEF Hand
<1>3. Fits(line[r][d], Hand(r, d))'
    BY <1>1, <1>2 DEF LineOk, Fits, Before
<1> QED
    BY <1>1, <1>3 DEF LineOk, SameKind

\* Both lines of a stream change and the other streams' do not.
LEMMA LineTypes ==
    ASSUME LineInv, NEW s \in Streams, NEW x \in [{"out", "in"} -> LineType], line' = [line EXCEPT ![s] = x]
    PROVE  /\ line' \in [Streams -> [{"out", "in"} -> LineType]] /\ line'[s] = x
           /\ \A r \in Streams \ {s} : line'[r] = line[r]
BY DEF LineInv

LEMMA Updated ==
    ASSUME LineInv, NEW s \in Streams, NEW d \in {"out", "in"}, NEW x \in LineType, Update(s, d, x)
    PROVE  /\ line' \in [Streams -> [{"out", "in"} -> LineType]] /\ line'[s][d] = x
           /\ \A e \in {"out", "in"} \ {d} : line'[s][e] = line[s][e]
           /\ \A r \in Streams \ {s} : line'[r] = line[r]
BY DEF LineInv, Update

\* What a line is when each side of a stream has changed.
LEMMA SidesUpdated ==
    ASSUME LineInv, NEW s \in Streams, NEW new \in [LineType -> LineType],
           line' = [line EXCEPT ![s] = [d \in {"out", "in"} |->
                       IF d \in stream[s].sides THEN new[line[s][d]] ELSE line[s][d]]]
    PROVE  /\ line' \in [Streams -> [{"out", "in"} -> LineType]]
           /\ \A d \in {"out", "in"} : d \in stream[s].sides => line'[s][d] = new[line[s][d]]
           /\ \A r \in Streams \ {s} : line'[r] = line[r]
<1>1. [d \in {"out", "in"} |-> IF d \in stream[s].sides THEN new[line[s][d]] ELSE line[s][d]]
          \in [{"out", "in"} -> LineType]
  <2>1. \A d \in {"out", "in"} : line[s][d] \in LineType /\ new[line[s][d]] \in LineType
      BY DEF LineInv
  <2> QED
      BY <2>1
<1> QED
    BY <1>1, LineTypes

LEMMA Settled ==
    ASSUME NEW s \in Streams, NEW d \in {"out", "in"}, stream'[s].started, Fits(line[s][d], Hand(s, d))'
    PROVE  LineOk(s, d)'
BY DEF LineOk

\* The step of a stream's thread, and of its devices.
LEMMA ThreadLines ==
    ASSUME Inv, LineInv, NEW s \in Streams, SlThread(s)
    PROVE  LineInv'
<1> USE DEF At
<1>1. /\ StreamsType /\ SlInv(s) /\ OnOpenSles(s) /\ UNCHANGED call /\ 0 \notin Streams
      /\ thread \in [Streams -> ThreadType] /\ thread[s] \in ThreadType /\ stream[s].sides \subseteq {"in", "out"}
    BY DEF Inv, StreamsType, StreamType, SlThread, SlWaitsOutput, SlTimesOut, SlWaitsInput, SlCalls, SlReturns, SlChecks,
           SlFinished, frontVars
<1>2. stream[s].mode = "callback" /\ stream[s].started /\ thread[s].pc # "none"
    BY <1>1 DEF SlInv, SlThread, SlWaitsOutput, SlTimesOut, SlWaitsInput, SlCalls, SlReturns, SlChecks, SlFinished
<1>3. \A r \in Streams : SameKind(r)
  <2>1. CASE SlChecks(s) /\ ~UNCHANGED stream
    <3>1. PICK b \in BOOLEAN : Flags(s, b, FALSE)
        BY <2>1 DEF SlChecks, End
    <3> QED
        BY <1>1, <3>1, FlagsSameKind
  <2>2. CASE UNCHANGED stream
      BY <2>2 DEF SameKind
  <2> QED
      BY <2>1, <2>2 DEF SlThread, SlWaitsOutput, SlTimesOut, SlWaitsInput, SlCalls, SlReturns, SlFinished, frontVars
<1>4. \A d \in {"out", "in"} : line[s][d] \in LineType /\ (d \in stream[s].sides => LineOk(s, d))
    BY <1>1, <1>2 DEF LineInv, Counted
<1>5. \A d : call # [op |-> "write", s |-> s, at |-> d]
    BY <1>1, <1>2 DEF Inv, CallInv, CallOn
<1>6. ASSUME NEW pc, thread' = [thread EXCEPT ![s].pc = pc]
      PROVE  thread'[s].pc = pc /\ \A r \in Streams \ {s} : thread'[r] = thread[r]
    BY <1>1, <1>6 DEF ThreadType
<1>7. \A d \in {"out", "in"} : (Counted(s, d))' => d \in stream[s].sides
    BY <1>3 DEF Counted, SameKind
<1>8. stream'[s].started /\ stream'[s].sides = stream[s].sides
    BY <1>2, <1>3 DEF SameKind
<1>9. ASSUME NEW d \in {"out", "in"}, NEW m \in LineType, NEW pc, Update(s, d, m), thread' = [thread EXCEPT ![s].pc = pc],
             Fits(m, 1),
             pc \in {"input", "ready"},
             d = "out" => thread[s].pc = "wait" /\ (pc = "ready" => "in" \notin stream[s].sides),
             d = "in" => pc = "ready" /\ (thread[s].pc = "input" \/ stream[s].sides = {"in"})
      PROVE  LineInv'
  <2>1. /\ line' \in [Streams -> [{"out", "in"} -> LineType]] /\ line'[s][d] = m
        /\ \A e \in {"out", "in"} \ {d} : line'[s][e] = line[s][e]
        /\ \A r \in Streams \ {s} : line'[r] = line[r]
      BY <1>9, Updated
  <2>2. ASSUME NEW e \in {"out", "in"}, e \in stream[s].sides PROVE LineOk(s, e)'
    <3>1. CASE e = d
      <4>1. Hand(s, e)' = 1
          BY <1>6, <1>9, <3>1 DEF Hand
      <4> QED
        <5>1. Fits(line[s][e], Hand(s, e))'
            BY <1>9, <2>1, <3>1, <4>1 DEF Fits, Before
        <5> QED
            BY <1>8, <5>1, Settled
    <3>2. CASE e # d
      <4>1. Fits(line[s][e], Hand(s, e)) /\ line'[s][e] = line[s][e]
          BY <1>4, <2>1, <2>2, <3>2 DEF LineOk
      <4>2. Hand(s, e)' = Hand(s, e)
          BY <1>1, <1>5, <1>6, <1>9, <2>2, <3>2 DEF Hand
      <4>3. Fits(line[s][e], Hand(s, e))'
          BY <4>1, <4>2 DEF Fits, Before
      <4> QED
          BY <1>8, <4>3, Settled
    <3> QED
        BY <3>1, <3>2
  <2>3. \A r \in Streams \ {s} : thread'[r] = thread[r]
      BY <1>6, <1>9
  <2>4. \A e \in {"out", "in"} : Counted(s, e)' => LineOk(s, e)'
      BY <1>7, <2>2
  <2> QED
      BY <1>1, <1>3, <2>1, <2>3, <2>4, OneLine
<1>10. CASE SlWaitsOutput(s)
  <2> DEFINE m == [line[s]["out"] EXCEPT !.sem = @ - 1]
             pc == IF "in" \in stream[s].sides THEN "input" ELSE "ready"
  <2>1. Update(s, "out", m) /\ thread' = [thread EXCEPT ![s].pc = pc] /\ thread[s].pc = "wait"
        /\ line[s]["out"].sem > 0 /\ "out" \in stream[s].sides
      BY <1>10 DEF SlWaitsOutput, Goto
  <2>2. Hand(s, "out") = 0
      BY <1>5, <2>1 DEF Hand
  <2>3. m \in LineType /\ Fits(m, 1)
      BY <1>4, <2>1, <2>2, Waited DEF LineOk
  <2> HIDE DEF m
  <2> QED
      BY <1>9, <2>1, <2>3
<1>11. CASE SlTimesOut(s)
  <2> DEFINE m == [line[s]["out"] EXCEPT !.queue = << >>, !.on = TRUE, !.stuck = FALSE]
             pc == IF "in" \in stream[s].sides THEN "input" ELSE "ready"
  <2>1. Update(s, "out", m) /\ thread' = [thread EXCEPT ![s].pc = pc] /\ thread[s].pc = "wait"
        /\ line[s]["out"].sem = 0
      BY <1>11 DEF SlTimesOut, DeviceRests, Goto
  <2>2. line[s]["out"] \in LineType /\ 1 \in 0 .. 1
      BY <1>4
  <2>3. m \in LineType /\ Fits(m, 1)
      BY <2>1, <2>2, Emptied
  <2> HIDE DEF m
  <2> QED
      BY <1>9, <2>1, <2>3
<1>12. CASE SlWaitsInput(s)
  <2> DEFINE m == [line[s]["in"] EXCEPT !.sem = @ - 1]
  <2>1. Update(s, "in", m) /\ thread' = [thread EXCEPT ![s].pc = "ready"] /\ line[s]["in"].sem > 0
        /\ (thread[s].pc = "input" \/ (thread[s].pc = "wait" /\ stream[s].sides = {"in"}))
      BY <1>12 DEF SlWaitsInput, Goto
  <2>0. line[s]["in"] \in LineType
      BY <1>4
  <2>2. m \in LineType /\ (Fits(line[s]["in"], 0) => Fits(m, 1))
      BY <2>0, <2>1, Waited
  <2>3. CASE "in" \in stream[s].sides
    <3>1. Hand(s, "in") = 0
        BY <1>5, <2>1 DEF Hand
    <3>2. Fits(m, 1)
        BY <1>4, <2>2, <2>3, <3>1 DEF LineOk
    <3> HIDE DEF m
    <3> QED
        BY <1>9, <2>1, <2>2, <3>2
  <2>4. CASE "in" \notin stream[s].sides
    <3>1. /\ line' \in [Streams -> [{"out", "in"} -> LineType]] /\ line'[s]["out"] = line[s]["out"]
          /\ \A r \in Streams \ {s} : line'[r] = line[r]
        BY <2>1, <2>2, Updated
    <3>2. thread[s].pc = "input" /\ thread'[s].pc = "ready" /\ \A r \in Streams \ {s} : thread'[r] = thread[r]
        BY <1>6, <2>1, <2>4
    <3>3. Hand(s, "out")' = Hand(s, "out")
        BY <1>1, <3>2 DEF Hand
    <3>4. ASSUME "out" \in stream[s].sides PROVE LineOk(s, "out")'
      <4>1. Fits(line[s]["out"], Hand(s, "out"))'
          BY <1>4, <3>1, <3>3, <3>4 DEF LineOk, Fits, Before
      <4> QED
          BY <1>8, <4>1, Settled
    <3> QED
      <4>1. \A r \in Streams \ {s} : line'[r] = line[r] /\ SameKind(r) /\ thread'[r] = thread[r]
          BY <1>3, <3>1, <3>2
      <4>2. \A d \in {"out", "in"} : Counted(s, d)' => LineOk(s, d)'
          BY <1>7, <2>4, <3>4
      <4> QED
          BY <1>1, <3>1, <4>1, <4>2, OneLine
  <2> QED
      BY <2>3, <2>4
<1>13. ASSUME UNCHANGED line, thread'[s].pc \in {"calling", "wait", "check", "exit"},
              thread'[s].pc = "calling" => thread[s].pc = "ready",
              \A r \in Streams \ {s} : thread'[r] = thread[r]
       PROVE  LineInv'
  <2>1. \A r \in Streams : \A d \in {"out", "in"} : Hand(r, d)' <= Hand(r, d)
      BY <1>1, <1>13 DEF Hand
  <2> QED
      BY <1>3, <1>13, <2>1, LinesStay
<1>14. CASE SlCalls(s) \/ SlFinished(s) \/ (SlChecks(s) /\ UNCHANGED line)
  <2>1. UNCHANGED line /\ \A r \in Streams \ {s} : thread'[r] = thread[r]
      BY <1>1, <1>14 DEF SlCalls, SlFinished, SlChecks, Goto
  <2>2. thread'[s].pc \in {"calling", "wait", "check", "exit", "finishing"}
        /\ (thread'[s].pc = "calling" => thread[s].pc = "ready")
      BY <1>1, <1>14 DEF SlCalls, SlFinished, SlChecks, Goto, ThreadType
  <2>3. \A r \in Streams : \A d \in {"out", "in"} : Hand(r, d)' <= Hand(r, d)
      BY <1>1, <2>1, <2>2 DEF Hand
  <2> QED
      BY <1>3, <2>1, <2>3, LinesStay
<1>15. ASSUME NEW new \in [LineType -> LineType],
              line' = [line EXCEPT ![s] = [d \in {"out", "in"} |->
                          IF d \in stream[s].sides THEN new[line[s][d]] ELSE line[s][d]]],
              \A l \in LineType : Fits(l, Hand(s, "in")) \/ Fits(l, Hand(s, "out")) => Fits(new[l], 0),
              thread'[s].pc \in {"check", "finishing"},
              \A r \in Streams \ {s} : thread'[r] = thread[r]
       PROVE  LineInv'
  <2>1. /\ line' \in [Streams -> [{"out", "in"} -> LineType]]
        /\ \A d \in {"out", "in"} : d \in stream[s].sides => line'[s][d] = new[line[s][d]]
        /\ \A r \in Streams \ {s} : line'[r] = line[r]
      BY <1>15, SidesUpdated
  <2>2. ASSUME NEW d \in {"out", "in"}, d \in stream[s].sides PROVE LineOk(s, d)'
    <3>1. Hand(s, d)' = 0
        BY <1>1, <1>5, <1>15 DEF Hand
    <3>2. Fits(new[line[s][d]], 0)
        BY <1>4, <1>15, <2>2 DEF LineOk
    <3>3. Fits(line[s][d], Hand(s, d))'
        BY <2>1, <2>2, <3>1, <3>2 DEF Fits, Before
    <3> QED
        BY <1>8, <3>3, Settled
  <2> QED
      BY <1>1, <1>3, <1>7, <1>15, <2>1, <2>2, OneLine
<1>16. CASE SlReturns(s)
  <2>1. PICK r \in Results(s) :
            /\ thread' = [thread EXCEPT ![s].pc = "check", ![s].result = r, ![s].made = r # "abort"]
            /\ IF r # "abort" THEN Sides(s, Enqueue) ELSE UNCHANGED line
      BY <1>16 DEF SlReturns
  <2>2. thread'[s].pc = "check" /\ (\A t \in Streams \ {s} : thread'[t] = thread[t]) /\ thread[s].pc = "calling"
    <3>1. thread' = [thread EXCEPT ![s] = [thread[s] EXCEPT !.pc = "check", !.result = r, !.made = r # "abort"]]
        BY <1>1, <2>1
    <3> QED
        BY <1>1, <1>16, <3>1 DEF ThreadType, SlReturns
  <2>3. CASE r = "abort"
      BY <1>13, <2>1, <2>2, <2>3
  <2>4. CASE r # "abort"
    <3> DEFINE new == [l \in LineType |-> Enqueue(l)]
    <3>1. new \in [LineType -> LineType] /\ \A l \in LineType : new[l] = Enqueue(l) /\ (Fits(l, 1) => Fits(new[l], 0))
        BY Enqueued
    <3>2. Hand(s, "in") = 1 /\ Hand(s, "out") = 1
        BY <2>2 DEF Hand
    <3>3. line' = [line EXCEPT ![s] = [d \in {"out", "in"} |->
                      IF d \in stream[s].sides THEN Enqueue(line[s][d]) ELSE line[s][d]]]
        BY <2>1, <2>4 DEF Sides
    <3> HIDE DEF new
    <3>4. line' = [line EXCEPT ![s] = [d \in {"out", "in"} |->
                      IF d \in stream[s].sides THEN new[line[s][d]] ELSE line[s][d]]]
        BY <1>4, <3>1, <3>3
    <3> QED
        BY <1>15, <2>2, <3>1, <3>2, <3>4
  <2> QED
      BY <2>3, <2>4
<1>17. CASE SlChecks(s) /\ ~UNCHANGED line
  <2>1. thread' = [thread EXCEPT ![s].pc = "finishing"] /\ thread[s].pc = "check"
        /\ line' = [line EXCEPT ![s] = [d \in {"out", "in"} |->
              IF d \in stream[s].sides THEN [line[s][d] EXCEPT !.queue = << >>, !.on = FALSE, !.stuck = FALSE]
                                       ELSE line[s][d]]]
      BY <1>17 DEF SlChecks, Goto, End, Sides
  <2> DEFINE new == [l \in LineType |-> [l EXCEPT !.queue = << >>, !.on = FALSE, !.stuck = FALSE]]
  <2>2. new \in [LineType -> LineType]
        /\ \A l \in LineType : /\ new[l] = [l EXCEPT !.queue = << >>, !.on = FALSE, !.stuck = FALSE]
                               /\ Fits(l, 0) => Fits(new[l], 0)
    <3>1. ASSUME NEW l \in LineType
          PROVE  LET k == [l EXCEPT !.queue = << >>, !.on = FALSE, !.stuck = FALSE]
                 IN  k \in LineType /\ (Fits(l, 0) => Fits(k, 0))
      <4>1. FALSE \in BOOLEAN /\ 0 \in 0 .. 1
          OBVIOUS
      <4> QED
          BY <4>1, Emptied, Zenon
    <3> QED
        BY <3>1
  <2>3. Hand(s, "in") = 0 /\ Hand(s, "out") = 0
      BY <1>5, <2>1 DEF Hand
  <2> HIDE DEF new
  <2>4. line' = [line EXCEPT ![s] = [d \in {"out", "in"} |->
                    IF d \in stream[s].sides THEN new[line[s][d]] ELSE line[s][d]]]
      BY ZenonT(60), <1>4, <2>1, <2>2
  <2>5. thread'[s].pc \in {"check", "finishing"} /\ \A r \in Streams \ {s} : thread'[r] = thread[r]
      BY <1>6, <2>1
  <2>6. \A l \in LineType : Fits(l, Hand(s, "in")) \/ Fits(l, Hand(s, "out")) => Fits(new[l], 0)
      BY <2>2, <2>3
  <2> QED
      BY <1>15, <2>2, <2>4, <2>5, <2>6
<1> QED
    BY <1>10, <1>11, <1>12, <1>14, <1>16, <1>17 DEF SlThread

LEMMA DeviceLines ==
    ASSUME Inv, LineInv, NEW s \in Streams, NEW d \in {"out", "in"}, SlPlays(s, d) \/ SlSticks(s, d)
    PROVE  LineInv'
<1>1. /\ UNCHANGED <<stream, thread, call>> /\ line[s][d] \in LineType /\ line[s][d].on /\ 0 \notin Streams
    BY DEF SlPlays, SlSticks, frontVars, LineInv
<1>2. PICK m \in LineType : /\ Update(s, d, m)
                            /\ \A h \in 0 .. 1 : Fits(line[s][d], h) => Fits(m, h)
  <2>1. CASE SlPlays(s, d)
      BY <1>1, <2>1, Played DEF SlPlays
  <2>2. CASE SlSticks(s, d)
    <3> DEFINE m == [line[s][d] EXCEPT !.stuck = TRUE]
    <3>1. m \in LineType /\ m.queue = line[s][d].queue /\ m.sem = line[s][d].sem /\ m.current = line[s][d].current
        BY <1>1 DEF LineType
    <3>2. Update(s, d, m)
        BY <2>2 DEF SlSticks
    <3> HIDE DEF m
    <3> QED
        BY <3>1, <3>2 DEF Fits
  <2> QED
      BY <2>1, <2>2
<1>3. /\ line' \in [Streams -> [{"out", "in"} -> LineType]] /\ line'[s][d] = m
      /\ \A e \in {"out", "in"} \ {d} : line'[s][e] = line[s][e]
      /\ \A r \in Streams \ {s} : line'[r] = line[r]
    BY <1>2, Updated
<1>4. (\A r \in Streams : SameKind(r)) /\ \A e : Hand(s, e)' = Hand(s, e) /\ Hand(s, e) \in 0 .. 1
    BY <1>1 DEF SameKind, Hand
<1>5. ASSUME NEW e \in {"out", "in"}, Counted(s, e)' PROVE LineOk(s, e)'
  <2>1. LineOk(s, e)
      BY <1>1, <1>5 DEF LineInv, Counted, OnOpenSles
  <2>2. CASE e = d
    <3>1. line[s][d] # NoLine
        BY <1>1 DEF NoLine
    <3>2. stream[s].started /\ Fits(m, Hand(s, e))
        BY <1>2, <1>4, <2>1, <2>2, <3>1 DEF LineOk
    <3>3. Fits(line[s][e], Hand(s, e))'
        BY <1>3, <1>4, <2>2, <3>2 DEF Fits, Before
    <3> QED
        BY <1>1, <3>2, <3>3, Settled
  <2>3. CASE e # d
      BY <1>1, <1>3, <1>4, <2>1, <2>3 DEF LineOk, Fits, Before
  <2> QED
      BY <2>2, <2>3
<1> QED
    BY <1>1, <1>3, <1>4, <1>5, OneLine

\* A line that is not used yet.
LEMMA NoLineFits ==
    /\ NoLine \in LineType
    /\ \A s \in Streams, d \in {"out", "in"} :
          line'[s][d] = NoLine /\ Hand(s, d)' = 0 => LineOk(s, d)'
<1>1. << >> \in Seq(Nat) /\ Len(<< >>) = 0 /\ 0 \in 0 .. numberOfBuffers - 1
    OBVIOUS
<1>2. NoLine \in LineType
    BY <1>1 DEF NoLine, LineType
<1>3. NoLine.sem = 0 /\ NoLine.queue = << >>
    BY DEF NoLine
<1>4. ASSUME NEW s \in Streams, NEW d \in {"out", "in"}, line'[s][d] = NoLine, Hand(s, d)' = 0
      PROVE  LineOk(s, d)'
    BY <1>1, <1>3, <1>4 DEF LineOk, Fits
<1> QED
    BY <1>2, <1>4

\* A stream that is opened or closed has lines of its own.
LEMMA FreshLines ==
    ASSUME StreamsType, LineInv, NEW s \in Streams, SlOpens(s),
           \A r \in Streams \ {s} : stream'[r] = stream[r],
           call' = call \/ (call.s \in {0, s} /\ call'.s \in {0, s}), call'.op # "write"
    PROVE  LineInv'
<1> DEFINE x == [d \in {"out", "in"} |-> NoLine]
<1>1. x \in [{"out", "in"} -> LineType] /\ 0 \notin Streams /\ thread \in [Streams -> ThreadType]
    BY NoLineFits DEF StreamsType
<1>2. line' = [line EXCEPT ![s] = x] /\ thread' = [thread EXCEPT ![s] = NoThread]
    BY DEF SlOpens
<1>3. /\ line' \in [Streams -> [{"out", "in"} -> LineType]] /\ line'[s] = x
      /\ \A r \in Streams \ {s} : line'[r] = line[r]
    BY <1>1, <1>2, LineTypes
<1>4. thread'[s].pc = "none" /\ \A r \in Streams \ {s} : thread'[r] = thread[r]
    BY <1>1, <1>2 DEF NoThread
<1>5. \A d \in {"out", "in"} : line'[s][d] = NoLine /\ Hand(s, d)' = 0
    BY <1>3, <1>4 DEF Hand
<1>6. \A d \in {"out", "in"} : LineOk(s, d)'
    BY <1>5, NoLineFits
<1>7. \A r \in Streams \ {s} : SameKind(r)
    BY DEF SameKind
<1> QED
    BY <1>1, <1>3, <1>4, <1>6, <1>7, OneLine

\* Both devices' queues are filled at the start, which is the first.
LEMMA StartLines ==
    ASSUME Inv, LineInv, Tame, NEW s \in Streams, Pa_StartStream(s)
    PROVE  LineInv'
<1>1. /\ StreamsType /\ SlInv(s) /\ stream[s] \in StreamType /\ thread \in [Streams -> ThreadType] /\ 0 \notin Streams
      /\ call = NoCall /\ UNCHANGED call /\ stream[s].open /\ ~stream[s].started
      /\ stream' = [stream EXCEPT ![s].started = TRUE, ![s].isStopped = FALSE, ![s].isActive = TRUE]
    BY DEF Inv, StreamsType, Pa_StartStream, PaUtil_ValidateStreamPointer, SlStarts, AaStarts
<1>2. /\ stream'[s] = [stream[s] EXCEPT !.started = TRUE, !.isStopped = FALSE, !.isActive = TRUE]
      /\ \A r \in Streams \ {s} : stream'[r] = stream[r]
    BY <1>1 DEF StreamsType
<1>3. /\ stream'[s].started /\ stream'[s].open /\ stream'[s].api = stream[s].api
      /\ stream'[s].mode = stream[s].mode /\ stream'[s].sides = stream[s].sides
  <2>1. PICK x \in StreamType : x = stream[s]
      BY <1>1
  <2>2. stream'[s] = [x EXCEPT !.started = TRUE, !.isStopped = FALSE, !.isActive = TRUE] /\ x.open
      BY <1>1, <1>2, <2>1
  <2>3. stream'[s].api = x.api /\ stream'[s].mode = x.mode /\ stream'[s].sides = x.sides
      BY <2>2 DEF StreamType
  <2>4. stream'[s].started /\ (stream'[s].open <=> x.open)
      BY <2>2 DEF StreamType
  <2> QED
      BY <2>1, <2>2, <2>3, <2>4
<1>4. \A r \in Streams \ {s} : SameKind(r)
    BY <1>2 DEF SameKind
<1>5. CASE stream[s].api = "OpenSLES"
  <2>1. SlStarts(s)
      BY <1>5 DEF Pa_StartStream
  <2>2. PICK fault \in {"none", "state", "record"} :
             /\ line' = [line EXCEPT ![s] = [d \in {"out", "in"} |->
                   IF d \in stream[s].sides THEN Primed(line[s][d], Runs(d, fault)) ELSE line[s][d]]]
             /\ SlStartsThread(s)
      BY <2>1 DEF SlStarts
  <2> DEFINE x == [d \in {"out", "in"} |->
                     IF d \in stream[s].sides THEN Primed(line[s][d], Runs(d, fault)) ELSE line[s][d]]
  <2>3. \A d \in {"out", "in"} : line[s][d] \in LineType /\ (Counted(s, d) => line[s][d] = NoLine)
      BY <1>1 DEF LineInv, LineOk
  <2>4. ASSUME NEW d \in {"out", "in"}, NEW on, on = Runs(d, fault)
        PROVE  Primed(line[s][d], on) \in LineType /\ (Counted(s, d) => Fits(Primed(line[s][d], on), 0))
    <3>1. on \in BOOLEAN
        BY <2>4 DEF Runs
    <3> QED
        BY <2>3, <3>1, Filled
  <2>5. x \in [{"out", "in"} -> LineType]
      BY <2>3, <2>4
  <2>6. /\ line' \in [Streams -> [{"out", "in"} -> LineType]] /\ line'[s] = x
        /\ \A r \in Streams \ {s} : line'[r] = line[r]
      BY <2>2, <2>5, LineTypes
  <2>7. thread'[s].pc \in {"none", "wait"} /\ \A r \in Streams \ {s} : thread'[r] = thread[r]
    <3>1. PICK pc \in {"none", "wait"} : thread' = [thread EXCEPT ![s] = [NoThread EXCEPT !.pc = pc]]
        BY <2>2 DEF SlStartsThread
    <3> QED
        BY <1>1, <3>1 DEF NoThread
  <2>8. ASSUME NEW d \in {"out", "in"}, Counted(s, d)' PROVE LineOk(s, d)'
    <3>1. Counted(s, d) /\ d \in stream[s].sides
        BY <1>1, <1>3, <1>5, <2>8 DEF Counted, OnOpenSles
    <3>2. Hand(s, d)' = 0
        BY <1>1, <2>7 DEF Hand, NoCall
    <3>3. Fits(line'[s][d], 0)
        BY <2>4, <2>6, <3>1
    <3>4. Fits(line[s][d], Hand(s, d))'
        BY <3>2, <3>3 DEF Fits, Before
    <3> QED
        BY <1>3, <3>4, Settled
  <2> HIDE DEF x
  <2> QED
      BY <1>1, <1>4, <2>6, <2>7, <2>8, OneLine
<1>6. CASE stream[s].api # "OpenSLES"
  <2>1. UNCHANGED <<thread, line>>
      BY <1>6 DEF Pa_StartStream, slVars
  <2>2. \A d \in {"out", "in"} : ~Counted(s, d)'
      BY <1>3, <1>6 DEF Counted, OnOpenSles
  <2> QED
      BY <1>1, <1>4, <2>1, <2>2, OneLine DEF LineInv
<1> QED
    BY <1>5, <1>6

\* The end of a blocking stream, and its reads and writes.
LEMMA BlockingLines ==
    ASSUME Inv, LineInv, Drains \/ ReadStream \/ WriteStream
    PROVE  LineInv'
<1>1. PICK s \in Streams \cup {0} : s = call.s
    BY CallTypes DEF Inv, StreamsType
<1>2. call \in Calls /\ 0 \notin Streams /\ call.at \in {"drain", "sem", "copy"} /\ StreamsType
    BY CallTypes DEF Inv, StreamsType, Drains, ReadStream, WriteStream
<1>3. s \in Streams
    BY <1>1, <1>2, CallTypes
<1>4. /\ OnOpenSles(s) /\ stream[s].mode = "blocking" /\ stream[s].started /\ thread[s].pc = "none" /\ SlInv(s)
      /\ UNCHANGED thread
    BY <1>1, <1>2, <1>3, CallTypes DEF Inv, CallInv, CallOn, SlInv, Drains, ReadStream, WriteStream
<1>5. line[s]["in"] \in LineType /\ line[s]["out"] \in LineType
    BY <1>3 DEF LineInv
<1>6. Hand(s, "out") = IF call.op = "write" /\ call.at = "copy" THEN 1 ELSE 0
  <2>1. ASSUME call.op = "write", call.at = "copy" PROVE call = [op |-> "write", s |-> s, at |-> "copy"]
    <3>1. call \in [op : {"read", "write"}, s : Streams, at : {"sem", "copy"}]
        BY <1>2, <2>1 DEF Calls, NoCall, Waits
    <3> QED
        BY <1>1, <2>1, <3>1
  <2>2. call = [op |-> "write", s |-> s, at |-> "copy"] => call.op = "write" /\ call.at = "copy"
      OBVIOUS
  <2> QED
      BY <1>4, <2>1, <2>2 DEF Hand
<1>7. CASE Drains
  <2>1. /\ line' = [line EXCEPT ![s] = [d \in {"out", "in"} |->
              IF d \in stream[s].sides THEN [line[s][d] EXCEPT !.queue = << >>, !.on = FALSE, !.stuck = FALSE]
                                       ELSE line[s][d]]]
        /\ call'.s = s /\ call'.op # "write" /\ Flags(s, stream[s].isStopped \/ TRUE, FALSE)
      BY <1>1, <1>2, <1>7, CallTypes DEF Drains, Sides, End, Within, Waits
  <2> DEFINE new == [l \in LineType |-> [l EXCEPT !.queue = << >>, !.on = FALSE, !.stuck = FALSE]]
  <2>2. new \in [LineType -> LineType]
        /\ \A l \in LineType : /\ new[l] = [l EXCEPT !.queue = << >>, !.on = FALSE, !.stuck = FALSE]
                               /\ Fits(l, 0) => Fits(new[l], 0)
    <3>1. ASSUME NEW l \in LineType
          PROVE  LET k == [l EXCEPT !.queue = << >>, !.on = FALSE, !.stuck = FALSE]
                 IN  k \in LineType /\ (Fits(l, 0) => Fits(k, 0))
      <4>1. FALSE \in BOOLEAN /\ 0 \in 0 .. 1
          OBVIOUS
      <4> QED
          BY <4>1, Emptied, Zenon
    <3> QED
        BY <3>1
  <2> HIDE DEF new
  <2>3. line' = [line EXCEPT ![s] = [d \in {"out", "in"} |->
                    IF d \in stream[s].sides THEN new[line[s][d]] ELSE line[s][d]]]
      BY ZenonT(60), <1>5, <2>1, <2>2
  <2>4. /\ line' \in [Streams -> [{"out", "in"} -> LineType]]
        /\ \A d \in {"out", "in"} : d \in stream[s].sides => line'[s][d] = new[line[s][d]]
        /\ \A r \in Streams \ {s} : line'[r] = line[r]
      BY <1>3, <2>2, <2>3, SidesUpdated
  <2>5. PICK b \in BOOLEAN : Flags(s, b, FALSE)
      BY <2>1
  <2>6. \A r \in Streams : SameKind(r)
      BY <1>2, <1>3, <2>5, FlagsSameKind
  <2>7. ASSUME NEW d \in {"out", "in"}, Counted(s, d)' PROVE LineOk(s, d)'
    <3>1. d = "out" /\ Counted(s, d) /\ d \in stream[s].sides
        BY <1>3, <1>4, <2>6, <2>7 DEF Counted, OnOpenSles, SameKind
    <3>2. Fits(line[s][d], 0)
        BY <1>3, <1>6, <1>7, <3>1, <1>2, CallTypes DEF LineInv, LineOk, Drains
    <3>3. Hand(s, d)' = 0
        BY <1>4, <2>1, <3>1 DEF Hand
    <3>4. Fits(line[s][d], Hand(s, d))'
      <4>1. Fits(new[line[s][d]], 0) /\ line'[s][d] = new[line[s][d]]
          BY <1>5, <2>2, <2>4, <3>1, <3>2
      <4> QED
          BY <3>3, <4>1 DEF Fits, Before
    <3> QED
        BY <1>3, <1>4, <2>6, <3>4, Settled DEF SameKind
  <2> QED
      BY <1>1, <1>2, <1>3, <1>4, <2>1, <2>4, <2>6, <2>7, OneLine
<1>8. ASSUME NEW d \in {"in", "out"}, NEW m \in LineType, Update(s, d, m), UNCHANGED stream, call'.s \in {0, s},
             IF d = "in" THEN call.op = "read" /\ call'.op # "write"
             ELSE Counted(s, "out") => Fits(m, Hand(s, "out")')
      PROVE  LineInv'
  <2>1. /\ line' \in [Streams -> [{"out", "in"} -> LineType]] /\ line'[s][d] = m
        /\ \A e \in {"out", "in"} \ {d} : line'[s][e] = line[s][e]
        /\ \A r \in Streams \ {s} : line'[r] = line[r]
    <3>1. d \in {"out", "in"} /\ LineInv /\ s \in Streams /\ Update(s, d, m)
        BY <1>3, <1>8
    <3> QED
        BY <3>1, Updated
  <2>2. \A r \in Streams : SameKind(r)
      BY <1>8 DEF SameKind
  <2>3. ASSUME NEW e \in {"out", "in"}, Counted(s, e)' PROVE LineOk(s, e)'
    <3>1. e = "out" /\ Counted(s, "out")
        BY <1>4, <1>8, <2>3 DEF Counted, OnOpenSles
    <3>2. CASE d = "out"
      <4>1. Fits(line[s][e], Hand(s, e))'
          BY <1>8, <2>1, <3>1, <3>2 DEF Fits, Before
      <4> QED
          BY <1>3, <1>4, <1>8, <4>1, Settled
    <3>3. CASE d = "in"
      <4>1. Hand(s, "out") = 0 /\ Hand(s, "out")' = 0 /\ line'[s]["out"] = line[s]["out"]
          BY <1>4, <1>6, <1>8, <2>1, <3>3 DEF Hand
      <4>2. Fits(line[s]["out"], 0)
          BY <1>3, <3>1, <4>1 DEF LineInv, LineOk
      <4>3. Fits(line[s][e], Hand(s, e))'
          BY <3>1, <4>1, <4>2 DEF Fits, Before
      <4> QED
          BY <1>3, <1>4, <1>8, <4>3, Settled
    <3> QED
        BY <3>2, <3>3
  <2> QED
      BY ZenonT(60), <1>1, <1>2, <1>3, <1>4, <1>8, <2>1, <2>2, <2>3, OneLine
<1>9. CASE ReadStream
  <2> DEFINE l == line[s]["in"]
             k == [l EXCEPT !.sem = @ - 1]
  <2>1. UNCHANGED stream /\ call.op = "read" /\ call'.s \in {0, s} /\ call'.op # "write"
      BY <1>1, <1>2, <1>9 DEF ReadStream, Within, NoCall, Calls
  <2>2. \/ l.sem > 0 /\ Update(s, "in", Queued(k))
        \/ Update(s, "in", Rotated(l))
      BY <1>1, <1>9 DEF ReadStream
  <2>3. l.sem > 0 => k \in LineType
      BY <1>5, Waited
  <2> HIDE DEF k
  <2>4. PICK m \in LineType : Update(s, "in", m)
      BY <1>5, <2>2, <2>3, Enqueued
  <2> QED
      BY <1>8, <2>1, <2>4
<1>10. CASE WriteStream
  <2> DEFINE l == line[s]["out"]
             k == [l EXCEPT !.sem = @ - 1]
  <2>1. UNCHANGED stream /\ call.op = "write" /\ call'.s \in {0, s}
      BY <1>1, <1>2, <1>10 DEF WriteStream, Within, NoCall, Calls
  <2>2. Counted(s, "out") => Fits(l, Hand(s, "out"))
      BY <1>3 DEF LineInv, LineOk
  <2>3. CASE call.at = "sem"
    <3>1. l.sem > 0 /\ Update(s, "out", k) /\ Hand(s, "out") = 0
        BY <1>1, <1>6, <1>10, <2>3 DEF WriteStream
    <3>2. k \in LineType /\ (Fits(l, 0) => Fits(k, 1))
        BY <1>5, <3>1, Waited
    <3>3. Hand(s, "out")' = 1
        BY <1>1, <1>10, <2>3 DEF WriteStream, Within, Hand
    <3> HIDE DEF k
    <3> QED
        BY <1>8, <2>1, <2>2, <3>1, <3>2, <3>3
  <2>4. CASE call.at = "copy"
    <3>1. Update(s, "out", Enqueue(l)) /\ Hand(s, "out") = 1
        BY <1>1, <1>6, <1>10, <2>4, <2>1 DEF WriteStream
    <3>2. Enqueue(l) \in LineType /\ (Fits(l, 1) => Fits(Enqueue(l), 0))
        BY <1>5, Enqueued
    <3>3. Hand(s, "out")' = 0
      <4>1. call'.at \in {"none", "sem"}
          BY <1>10, <1>2, <2>4 DEF WriteStream, NoCall, Calls
      <4> QED
          BY <1>4, <4>1 DEF Hand
    <3> QED
        BY <1>8, <2>1, <2>2, <3>1, <3>2, <3>3
  <2> QED
      BY <1>10, <2>3, <2>4 DEF WriteStream
<1> QED
    BY <1>7, <1>9, <1>10

LEMMA LineNext ==
    ASSUME Inv, ListInv, LineInv, Tame, Next
    PROVE  LineInv'
<1>1. StreamsType /\ call \in Calls /\ 0 \notin Streams /\ thread \in [Streams -> ThreadType]
    BY DEF Inv, StreamsType
<1>2. ASSUME UNCHANGED line, \A r \in Streams : SameKind(r),
             \A r \in Streams : thread'[r].pc = thread[r].pc \/ thread'[r].pc = "joined",
             call' = call \/ call'.op # "write" \/ call'.at # "copy"
      PROVE  LineInv'
  <2>1. ASSUME NEW r \in Streams, NEW d \in {"out", "in"} PROVE Hand(r, d)' <= Hand(r, d)
    <3>1. thread'[r].pc = thread[r].pc \/ thread'[r].pc = "joined"
        BY <1>2
    <3>2. call' = [op |-> "write", s |-> r, at |-> "copy"] => call = [op |-> "write", s |-> r, at |-> "copy"]
        BY <1>2
    <3> QED
        BY <3>1, <3>2 DEF Hand
  <2> QED
      BY <1>2, <2>1, LinesStay
<1>3. ASSUME UNCHANGED <<line, thread>>, \A r \in Streams : SameKind(r),
             call' = call \/ call'.op # "write" \/ call'.at # "copy"
      PROVE  LineInv'
    BY <1>2, <1>3
<1>4. UNCHANGED stream => \A r \in Streams : SameKind(r)
    BY DEF SameKind
<1>5. ASSUME NEW s \in Streams, AaCallbacks(s) \/ AaDisconnects(s) \/ AaRests(s), UNCHANGED slVars
      PROVE  LineInv'
  <2>1. UNCHANGED <<line, thread, call>> /\ (UNCHANGED stream \/ Flags(s, TRUE, FALSE))
      BY <1>5 DEF AaCallbacks, AaCalls, AaReturns, AaFinishes, AaFinished, AaErrorCallback, AaErrorReturns,
         AaDisconnects, AaRests, AaOnly, frontVars, slVars
  <2> QED
      BY <1>1, <1>3, <1>4, <2>1, FlagsSameKind
<1>6. ASSUME NEW s \in Streams, NEW op \in {"stop", "abort", "close", "terminate"}, NEW abort \in BOOLEAN,
             NEW then \in {"done", "close"}, Stops(s, op, abort, then)
      PROVE  LineInv'
  <2>1. CASE stream[s].api = "OpenSLES"
    <3>1. UNCHANGED <<line, stream>> /\ call'.op # "write"
        BY <1>6, <2>1 DEF Stops, SlStops, Within
    <3>2. \A r \in Streams : thread'[r].pc = thread[r].pc
      <4>1. CASE thread' = [thread EXCEPT ![s].doStop = @ \/ ~abort, ![s].doAbort = @ \/ abort]
          BY <1>1, <4>1, ThreadTold
      <4> QED
          BY <1>6, <2>1, <4>1 DEF Stops, SlStops
    <3> QED
        BY <1>2, <1>4, <3>1, <3>2
  <2>2. CASE stream[s].api # "OpenSLES"
    <3>1. UNCHANGED <<line, thread>> /\ call'.op # "write" /\ Flags(s, TRUE, FALSE)
      <4>1. UNCHANGED <<line, thread>> /\ Flags(s, TRUE, FALSE)
          BY <1>6, <2>2 DEF Stops, AaStops, slVars
      <4>2. call' = NoCall \/ call' = [op |-> op, s |-> s, at |-> then]
          BY <1>6, <2>2 DEF Stops, Within
      <4>3. call'.op \in {"none", op}
          BY <4>2 DEF NoCall
      <4>4. call'.op # "write"
          BY <1>6, <4>3
      <4> QED
          BY <4>1, <4>4
    <3> QED
        BY <1>1, <1>3, <3>1, FlagsSameKind
  <2> QED
      BY <2>1, <2>2
<1>7. ASSUME NEW s \in Streams, NEW op \in {"close", "terminate"}, Closes(s, op)
      PROVE  LineInv'
  <2>1. CASE stream[s].isStopped
    <3>1. UNCHANGED <<line, thread, stream>> /\ call'.op # "write"
        BY <1>7, <2>1 DEF Closes, Within, SameStreams, slVars
    <3> QED
        BY <1>3, <1>4, <3>1
  <2>2. CASE ~stream[s].isStopped
      BY <1>6, <1>7, <2>2 DEF Closes
  <2> QED
      BY <2>1, <2>2
<1>8. CASE Threads
    BY <1>5, <1>8, ThreadLines DEF Threads
<1>9. CASE Devices
    BY <1>5, <1>9, DeviceLines DEF Devices
<1>10. CASE Pa_Initialize \/ Pa_Terminate \/ Terminated \/ Drained
  <2>1. UNCHANGED <<line, thread, stream>> /\ (call' = call \/ call'.op # "write")
      BY <1>1, <1>10, CallTypes
         DEF Pa_Initialize, Pa_Terminate, Terminated, Drained, SameStreams, slVars, Resumes, Within, NoCall, Waits
  <2> QED
      BY <1>3, <1>4, <2>1
<1>11. CASE PaUnixThread_Terminate
  <2>1. UNCHANGED <<line, stream>> /\ (call' = call \/ call'.op # "write")
      BY <1>1, <1>11, CallTypes DEF PaUnixThread_Terminate, Resumes, Within, NoCall, Waits
  <2>2. UNCHANGED thread \/ thread' = [thread EXCEPT ![call.s].pc = "joined"]
      BY <1>11 DEF PaUnixThread_Terminate, Goto
  <2>3. \A r \in Streams : thread'[r].pc = thread[r].pc \/ thread'[r].pc = "joined"
      BY <1>1, <2>2 DEF ThreadType
  <2> QED
      BY <1>2, <1>4, <2>1, <2>3
<1>12. CASE CloseStream
  <2>1. PICK s \in Streams : s = call.s
      BY <1>1, <1>12, CallTypes DEF CloseStream, Waits, NoCall
  <2>2. SlOpens(s) /\ call'.s \in {0, s} /\ call'.op # "write" /\ stream' = [stream EXCEPT ![s] = Closed]
      BY <1>1, <1>12, <2>1, CallTypes DEF CloseStream, Within, NoCall, Waits
  <2>3. \A r \in Streams \ {s} : stream'[r] = stream[r]
      BY <1>1, <2>2 DEF StreamsType
  <2> QED
      BY <1>1, <2>1, <2>2, <2>3, FreshLines
<1>13. CASE CloseOpenStreams
  <2>1. Head(openStreams) \in Streams
      BY <1>13 DEF CloseOpenStreams, ListInv
  <2> QED
      BY <1>7, <1>13, <2>1 DEF CloseOpenStreams
<1>14. ASSUME NEW s \in Streams, Pa_OpenStream(s) PROVE LineInv'
  <2>1. UNCHANGED call /\ call = NoCall
      BY <1>14 DEF Pa_OpenStream, Idle
  <2>2. CASE UNCHANGED <<stream, slVars>>
      BY <1>3, <1>4, <2>1, <2>2 DEF slVars
  <2>3. CASE SlOpens(s) /\ \A r \in Streams \ {s} : stream'[r] = stream[r]
      BY <1>1, <2>1, <2>3, FreshLines DEF NoCall
  <2>4. ASSUME NEW api, NEW mode, NEW sides, NEW ends, Opens(s, api, mode, sides, ends)
        PROVE  SlOpens(s) /\ \A r \in Streams \ {s} : stream'[r] = stream[r]
      BY <1>1, <2>4 DEF Opens, PaUtil_InitializeStreamRepresentation, StreamsType
  <2> QED
      BY <1>14, <2>2, <2>3, <2>4 DEF Pa_OpenStream, Refused
<1>15. ASSUME NEW s \in Streams, Pa_ReadStream(s) \/ Pa_WriteStream(s) PROVE LineInv'
  <2>1. UNCHANGED <<line, thread, stream>> /\ call'.at # "copy"
      BY <1>15 DEF Pa_ReadStream, Pa_WriteStream, Pa_ReadOrWriteStream, SameStreams, slVars, Within
  <2> QED
      BY <1>3, <1>4, <2>1
<1>16. ASSUME NEW s \in Streams, Pa_StopStream(s) \/ Pa_AbortStream(s) \/ Pa_CloseStream(s) PROVE LineInv'
    BY <1>6, <1>7, <1>16 DEF Pa_StopStream, Pa_AbortStream, Pa_CloseStream
<1> QED
    BY <1>8, <1>9, <1>10, <1>11, <1>12, <1>13, <1>14, <1>15, <1>16, StartLines, BlockingLines DEF Next, Client, Waiting

LEMMA LineInitially == Init => LineInv
<1> SUFFICES ASSUME Init PROVE LineInv
    OBVIOUS
<1>1. /\ stream = [s \in Streams |-> Closed] /\ line = [s \in Streams |-> [d \in {"out", "in"} |-> NoLine]]
    BY DEF Init, FrontInit, SlInit
<1>2. \A s \in Streams : ~stream[s].open
    BY <1>1 DEF Closed
<1> QED
    BY <1>1, <1>2, NoLineFits DEF LineInv, Counted, OnOpenSles

LEMMA LineAlways == ASSUME Tame PROVE Spec => []LineInv
<1>1. SafeInv /\ LineInv /\ [Next]_vars => LineInv'
  <2> SUFFICES ASSUME SafeInv, LineInv, [Next]_vars PROVE LineInv'
      OBVIOUS
  <2>1. CASE Next
      BY <2>1, LineNext DEF SafeInv
  <2>2. CASE UNCHANGED vars
      BY <2>2 DEF vars, frontVars, slVars, LineInv, Counted, OnOpenSles, LineOk, Fits, Before, Hand
  <2> QED
      BY <2>1, <2>2
<1> QED
    BY <1>1, LineInitially, SafeAlways, PTL DEF Spec

\* What the thread or a write fills is not in the queue of the device
\* (StreamProcessingCallback and WriteStream, pa_opensles.c).
THEOREM OursAlone == ASSUME Tame PROVE Spec => []BufferIsOurs
<1>1. ASSUME SafeInv, LineInv PROVE BufferIsOurs
  <2> SUFFICES ASSUME NEW s \in Streams, NEW d \in stream[s].sides, OnOpenSles(s),
                      thread[s].pc = "calling" \/ (d = "out" /\ call = [op |-> "write", s |-> s, at |-> "copy"]),
                      line[s][d].current \in ToSet(line[s][d].queue)
               PROVE  FALSE
      BY DEF BufferIsOurs
  <2> DEFINE l == line[s][d]
  <2>1. stream[s] \in StreamType /\ d \in {"out", "in"} /\ SlInv(s)
      BY <1>1 DEF SafeInv, Inv, StreamsType, StreamType
  <2>2. Counted(s, d) /\ Hand(s, d) = 1
      BY <2>1 DEF Counted, Hand, SlInv
  <2>3. l \in LineType /\ Fits(l, 1)
      BY ZenonT(60), <1>1, <2>1, <2>2 DEF LineInv, LineOk
  <2>4. /\ Len(l.queue) \in Nat /\ l.sem \in Nat /\ l.current \in 0 .. numberOfBuffers - 1 /\ l.queue \in Seq(Nat)
      BY <2>3, LineParts
  <2>5. PICK i \in 1 .. Len(l.queue) : l.queue[i] = l.current
    <3>1. \A q : ToSet(q) = {q[i] : i \in DOMAIN q}
        BY DEF ToSet
    <3>2. l.current \in ToSet(l.queue)
        OBVIOUS
    <3> HIDE DEF l
    <3>3. PICK i \in DOMAIN l.queue : l.queue[i] = l.current
        BY <3>1, <3>2
    <3>4. \A q \in Seq(Nat) : DOMAIN q = 1 .. Len(q)
        OBVIOUS
    <3>5. DOMAIN l.queue = 1 .. Len(l.queue)
        BY <2>4, <3>4
    <3> QED
        BY <3>3, <3>5
  <2> HIDE DEF l
  <2>6. l.current = Before(l.current, Len(l.queue) + 1 - i)
      BY <2>3, <2>5 DEF Fits
  <2>7. PICK k \in 1 .. numberOfBuffers - 1 : k = Len(l.queue) + 1 - i
    <3>1. l.sem + Len(l.queue) + 1 <= numberOfBuffers
        BY <2>3 DEF Fits
    <3>2. Len(l.queue) <= numberOfBuffers - 1
        BY <2>4, <3>1
    <3> QED
        BY <2>4, <2>5, <3>2
  <2>8. Before(l.current, k) # l.current
      BY <2>4 DEF Before
  <2> QED
      BY <2>6, <2>7, <2>8
<1> QED
    BY <1>1, SafeAlways, LineAlways, PTL

------------------------------------------------------------------------------
(* Nothing is left behind *)

LEMMA Least ==
    ASSUME NEW I \in SUBSET Nat, I # {}
    PROVE  Min(I) \in I
<1>1. PICK x \in I : \A y \in I : ~(<<y, x>> \in OpToRel(<, Nat))
    BY NatLessThanWellFounded, WFMin
<1>2. ASSUME NEW y \in I PROVE x <= y
  <2>1. x \in Nat /\ y \in Nat
      OBVIOUS
  <2>2. y < x => <<y, x>> \in OpToRel(<, Nat)
      BY <2>1 DEF OpToRel
  <2>3. ~(<<y, x>> \in OpToRel(<, Nat))
      BY <1>1
  <2>4. ~(y < x)
      BY <2>2, <2>3
  <2> QED
      BY <2>1, <2>4
<1> QED
    BY <1>2 DEF Min

\* Nothing is added to the list, in whatever it has more than once.
LEMMA RemovedTyped ==
    ASSUME openStreams \in Seq(Streams), NEW s, RemoveOpenStream(s)
    PROVE  openStreams' \in Seq(Streams)
<1> DEFINE l == openStreams
           I == {i \in 1 .. Len(l) : l[i] = s}
<1>1. CASE I # {}
  <2>1. SelectInSeq(l, LAMBDA v : v = s) = Min(I)
    <3>1. I = {i \in 1 .. Len(l) : l[i] = s}
        OBVIOUS
    <3> QED
        BY <1>1, <3>1 DEF SelectInSeq
  <2>2. Min(I) \in I
    <3>1. I \subseteq Nat
        OBVIOUS
    <3> QED
        BY ONLY <1>1, <3>1, Least
  <2>3. Min(I) \in 1 .. Len(l)
      BY <2>2
  <2>6. PICK k \in 1 .. Len(l) : k = Min(I)
      BY <2>3
  <2>7. SelectInSeq(l, LAMBDA v : v = s) = k
      BY <2>1, <2>6
  <2>4. openStreams' = SubSeq(l, 1, k - 1) \o SubSeq(l, k + 1, Len(l))
      BY <1>1, <2>7 DEF RemoveOpenStream, RemoveFirst, RemoveAt
  <2>5. SubSeq(l, 1, k - 1) \in Seq(Streams) /\ SubSeq(l, k + 1, Len(l)) \in Seq(Streams)
      OBVIOUS
  <2> QED
      BY <2>4, <2>5, Concatenated
<1>2. CASE I = {}
    BY <1>2 DEF RemoveOpenStream, RemoveFirst
<1> QED
    BY <1>1, <1>2

LEMMA Joined ==
    ASSUME NEW S, NEW a \in Seq(S), NEW b \in Seq(S), NEW c, c = a \o b
    PROVE  /\ c \in Seq(S) /\ Len(c) = Len(a) + Len(b) /\ Len(a) \in Nat /\ Len(b) \in Nat
           /\ \A i \in 1 .. Len(a) : c[i] = a[i]
           /\ \A i \in 1 .. Len(b) : c[Len(a) + i] = b[i]
<1>1. c \in Seq(S) /\ Len(c) = Len(a) + Len(b) /\ Len(a) \in Nat /\ Len(b) \in Nat
    BY Concatenated
<1>2. ASSUME NEW i \in 1 .. Len(a) PROVE c[i] = a[i]
    BY <1>2, Concatenated
<1>3. ASSUME NEW i \in 1 .. Len(b) PROVE c[Len(a) + i] = b[i]
    BY <1>3, Concatenated
<1> QED
    BY <1>1, <1>2, <1>3

\* What may follow what: a player is made after its mix, and the buffers of an output
\* are the last thing.
OutputOrder(q) == \A i \in 1 .. Len(q) : /\ q[i] = "player" => i - 1 \in 1 .. Len(q) /\ q[i - 1] = "outputMix"
                                         /\ q[i] = "outputBuffers" => i = Len(q)
NoOutput(q) == \A i \in 1 .. Len(q) : q[i] \notin {"player", "outputBuffers"}

LEMMA OrderJoins ==
    ASSUME NEW S, NEW q \in Seq(S), NEW r \in Seq(S), NEW u, u = q \o r, NoOutput(q), OutputOrder(r)
    PROVE  u \in Seq(S) /\ OutputOrder(u) /\ (NoOutput(r) => NoOutput(u))
<1>1. /\ u \in Seq(S) /\ Len(u) = Len(q) + Len(r) /\ Len(q) \in Nat /\ Len(r) \in Nat
      /\ \A i \in 1 .. Len(q) : u[i] = q[i]
      /\ \A i \in 1 .. Len(r) : u[Len(q) + i] = r[i]
    BY Joined
<1>2. PICK m \in Nat, n \in Nat : m = Len(q) /\ n = Len(r) /\ Len(u) = m + n
    BY <1>1
<1>3. ASSUME NEW i \in 1 .. m + n
      PROVE  /\ u[i] = "player" => i - 1 \in 1 .. m + n /\ u[i - 1] = "outputMix"
             /\ u[i] = "outputBuffers" => i = m + n
             /\ NoOutput(r) => u[i] \notin {"player", "outputBuffers"}
  <2>1. CASE i <= m
      BY <1>1, <1>2, <2>1 DEF NoOutput
  <2>2. CASE i > m
    <3>1. PICK j \in 1 .. n : i = m + j
      <4>1. i - m \in 1 .. n /\ i = m + (i - m)
          BY <2>2
      <4> QED
          BY <4>1
    <3>2. u[i] = r[j]
        BY <1>1, <1>2, <3>1
    <3>3. ASSUME r[j] = "player" PROVE i - 1 \in 1 .. m + n /\ u[i - 1] = "outputMix"
      <4>1. j - 1 \in 1 .. n /\ r[j - 1] = "outputMix"
          BY <1>2, <3>1, <3>3 DEF OutputOrder
      <4>2. PICK k \in 1 .. n : k = j - 1
          BY <4>1
      <4>3. u[m + k] = "outputMix"
          BY <1>1, <1>2, <4>1, <4>2
      <4>4. m + k = i - 1 /\ m + k \in 1 .. m + n
          BY <3>1, <4>2
      <4> QED
          BY <4>3, <4>4
    <3>4. r[j] = "outputBuffers" => j = n
        BY <1>2, <3>1 DEF OutputOrder
    <3>5. NoOutput(r) => r[j] \notin {"player", "outputBuffers"}
        BY <1>2, <3>1 DEF NoOutput
    <3> QED
        BY <3>1, <3>2, <3>3, <3>4, <3>5
  <2>3. i \in Nat /\ m \in Nat
      OBVIOUS
  <2>4. i <= m \/ i > m
      BY <2>3
  <2> QED
      BY <2>1, <2>2, <2>4
<1> QED
    BY <1>1, <1>2, <1>3 DEF OutputOrder, NoOutput

\* What SlSteps acquires, in its order.
LEMMA StepsAre ==
    ASSUME NEW sides \in SUBSET {"in", "out"}, NEW S,
           S = Closable([api |-> "OpenSLES", sides |-> sides])
    PROVE  SlSteps(sides) \in Seq(S) /\ OutputOrder(SlSteps(sides))
<1> DEFINE pre == <<"stream", "processor">>
           in == IF "in" \in sides THEN <<"inputStream">> \o InitializeInputStream ELSE << >>
           out == IF "out" \in sides THEN <<"outputStream">> \o InitializeOutputStream ELSE << >>
<1>1. /\ {"stream", "processor", "realised"} \subseteq S
      /\ "in" \in sides => {"inputStream", "recorder", "inputBuffers"} \subseteq S
      /\ "out" \in sides => {"outputStream", "outputMix", "player", "outputBuffers"} \subseteq S
    BY DEF Closable
<1>2. pre \in Seq(S) /\ NoOutput(pre)
  <2>1. Len(pre) = 2 /\ pre[1] = "stream" /\ pre[2] = "processor" /\ pre \in Seq(S)
      BY <1>1
  <2> HIDE DEF pre
  <2> QED
      BY <2>1 DEF NoOutput
<1>3. in \in Seq(S) /\ NoOutput(in)
  <2>1. CASE "in" \in sides
    <3>1. PICK a \in Seq(S) : a = <<"inputStream">>
      <4>1. <<"inputStream">> \in Seq(S)
          BY <1>1, <2>1
      <4> QED
          BY <4>1
    <3>2. PICK b \in Seq(S) : b = <<"recorder", "realised", "inputBuffers">>
      <4>1. <<"recorder", "realised", "inputBuffers">> \in Seq(S)
          BY <1>1, <2>1
      <4> QED
          BY <4>1
    <3>3. in = a \o b
        BY <2>1, <3>1, <3>2 DEF InitializeInputStream
    <3>4. Len(a) = 1 /\ a[1] = "inputStream"
        BY <3>1
    <3>5. Len(b) = 3 /\ b[1] = "recorder" /\ b[2] = "realised" /\ b[3] = "inputBuffers"
        BY <3>2
    <3>6. NoOutput(a) /\ NoOutput(b)
      <4>1. NoOutput(a)
          BY <3>4 DEF NoOutput
      <4>2. NoOutput(b)
          BY <3>5 DEF NoOutput
      <4> QED
          BY <4>1, <4>2
    <3>7. OutputOrder(b)
        BY <3>6 DEF OutputOrder, NoOutput
    <3> HIDE DEF in
    <3> QED
        BY <3>3, <3>6, <3>7, OrderJoins
  <2>2. CASE "in" \notin sides
    <3>1. in = << >> /\ in \in Seq(S) /\ Len(in) = 0
        BY <2>2
    <3> HIDE DEF in
    <3> QED
        BY <3>1 DEF NoOutput
  <2> QED
      BY <2>1, <2>2
<1>4. out \in Seq(S) /\ OutputOrder(out)
  <2>1. CASE "out" \in sides
    <3>1. PICK a \in Seq(S) : a = <<"outputStream">>
      <4>1. <<"outputStream">> \in Seq(S)
          BY <1>1, <2>1
      <4> QED
          BY <4>1
    <3>2. PICK b \in Seq(S) : b = <<"outputMix", "player", "realised", "outputBuffers">>
      <4>1. <<"outputMix", "player", "realised", "outputBuffers">> \in Seq(S)
          BY <1>1, <2>1
      <4> QED
          BY <4>1
    <3>3. out = a \o b
        BY <2>1, <3>1, <3>2 DEF InitializeOutputStream
    <3>4. Len(a) = 1 /\ a[1] = "outputStream"
        BY <3>1
    <3>5. /\ Len(b) = 4 /\ b[1] = "outputMix" /\ b[2] = "player" /\ b[3] = "realised" /\ b[4] = "outputBuffers"
        BY <3>2
    <3>6. NoOutput(a)
        BY <3>4 DEF NoOutput
    <3>7. OutputOrder(b)
      <4>1. \A i \in 1 .. 4 : /\ b[i] = "player" => i - 1 \in 1 .. 4 /\ b[i - 1] = "outputMix"
                              /\ b[i] = "outputBuffers" => i = 4
        <5>1. \A i \in 1 .. 4 : i = 1 \/ i = 2 \/ i = 3 \/ i = 4
            OBVIOUS
        <5> QED
            BY <3>5, <5>1
      <4> QED
          BY <3>5, <4>1 DEF OutputOrder
    <3> HIDE DEF out
    <3> QED
        BY <3>3, <3>6, <3>7, OrderJoins
  <2>2. CASE "out" \notin sides
    <3>1. out = << >> /\ out \in Seq(S) /\ Len(out) = 0
        BY <2>2
    <3> HIDE DEF out
    <3> QED
        BY <3>1 DEF OutputOrder
  <2> QED
      BY <2>1, <2>2
<1> HIDE DEF pre, in, out
<1>5. PICK u : u = pre \o in
    OBVIOUS
<1>6. OutputOrder(in)
    BY <1>3 DEF OutputOrder, NoOutput
<1>7. u \in Seq(S) /\ NoOutput(u)
    BY <1>2, <1>3, <1>5, <1>6, OrderJoins
<1>8. SlSteps(sides) = u \o out
    BY <1>5 DEF SlSteps, pre, in, out
<1> QED
    BY <1>4, <1>7, <1>8, OrderJoins

\* A recorder is what is made fourth.
LEMMA StepsLong ==
    ASSUME NEW sides \in SUBSET {"in", "out"}, "in" \in sides
    PROVE  4 \in DOMAIN SlSteps(sides)
<1> DEFINE out == IF "out" \in sides THEN <<"outputStream">> \o InitializeOutputStream ELSE << >>
           in == <<"inputStream">> \o InitializeInputStream
           pre == <<"stream", "processor">>
<1>1. PICK S : S = Closable([api |-> "OpenSLES", sides |-> sides]) \cup Kinds
    OBVIOUS
<1>2. /\ {"inputStream", "recorder", "realised", "inputBuffers", "stream", "processor"} \subseteq S
      /\ {"outputStream", "outputMix", "player", "outputBuffers"} \subseteq S
    BY <1>1 DEF Kinds
<1>3. PICK a \in Seq(S) : a = pre /\ Len(a) = 2
  <2>1. pre \in Seq(S) /\ Len(pre) = 2
      BY <1>2
  <2> QED
      BY <2>1
<1>4. PICK b \in Seq(S) : b = in /\ Len(b) = 4
  <2>1. <<"inputStream">> \in Seq(S) /\ Len(<<"inputStream">>) = 1
      BY <1>2
  <2>2. InitializeInputStream \in Seq(S) /\ Len(InitializeInputStream) = 3
      BY <1>2 DEF InitializeInputStream
  <2>3. PICK x \in Seq(S), y \in Seq(S) : x = <<"inputStream">> /\ y = InitializeInputStream /\ Len(x) = 1 /\ Len(y) = 3
      BY <2>1, <2>2
  <2>4. PICK z : z = x \o y
      OBVIOUS
  <2>5. z \in Seq(S) /\ Len(z) = Len(x) + Len(y)
      BY <2>4, Joined
  <2>6. in = z
      BY <2>3, <2>4
  <2> HIDE DEF in
  <2> QED
      BY <2>3, <2>5, <2>6
<1>5. PICK c \in Seq(S) : c = out
  <2>1. <<"outputStream">> \in Seq(S) /\ InitializeOutputStream \in Seq(S) /\ << >> \in Seq(S)
      BY <1>2 DEF InitializeOutputStream
  <2>2. <<"outputStream">> \o InitializeOutputStream \in Seq(S)
      BY <2>1, Joined
  <2> QED
      BY <2>1, <2>2
<1>6. SlSteps(sides) = (a \o b) \o c
    BY <1>3, <1>4, <1>5 DEF SlSteps
<1>7. PICK u, q : u = a \o b /\ q = u \o c
    OBVIOUS
<1>8. u \in Seq(S) /\ Len(u) = Len(a) + Len(b)
    BY <1>7, Joined
<1>9. q \in Seq(S) /\ Len(q) = Len(u) + Len(c) /\ Len(c) \in Nat
    BY <1>7, <1>8, Joined
<1>10. 4 \in 1 .. Len(q)
    BY <1>3, <1>4, <1>8, <1>9
<1>11. DOMAIN q = 1 .. Len(q) /\ q = SlSteps(sides)
    BY <1>6, <1>7, <1>9
<1> QED
    BY <1>10, <1>11

\* Opening fails in the middle.
LEMMA FailsKeeps ==
    ASSUME NothingLeaks, NEW sides \in SUBSET {"in", "out"}, NEW i \in 1 .. Len(SlSteps(sides)),
           FailsAt(SlSteps(sides), i, SlFreesAt(SlSteps(sides), i))
    PROVE  NothingLeaks' /\ UNCHANGED held
<1>1. PICK q : q = SlSteps(sides)
    OBVIOUS
<1> DEFINE S == Closable([api |-> "OpenSLES", sides |-> sides])
           p == SubSeq(q, 1, i - 1)
<1>2. q \in Seq(S) /\ OutputOrder(q) /\ i \in 1 .. Len(q) /\ Len(q) \in Nat
    BY <1>1, StepsAre
<1>3. p \in Seq(S) /\ Len(p) = i - 1 /\ \A j \in 1 .. i - 1 : p[j] = q[j]
  <2>1. i - 1 \in 0 .. Len(q) /\ 1 \in 1 .. Len(q) + 1
      BY <1>2
  <2> HIDE DEF S
  <2> QED
      BY <1>2, <2>1
<1>4. UNCHANGED held /\ leaked' = leaked \cup (ToSet(p) \ SlFreesAt(q, i))
    BY <1>1 DEF FailsAt
<1> HIDE DEF p
<1>5. \A x : x \in ToSet(p) <=> \E j \in 1 .. i - 1 : x = q[j]
    BY <1>3 DEF ToSet
<1>6. ASSUME NEW x \in ToSet(p), x \notin SlFreesAt(q, i)
      PROVE  x \in {"engine", "processor", "recorder", "inputBuffers"}
  <2>1. PICK j \in 1 .. i - 1 : x = q[j]
      BY <1>5
  <2>2. j \in 1 .. Len(q) /\ j # Len(q)
      BY <1>2, <2>1
  <2>3. x \in S /\ x # "outputBuffers"
    <3> HIDE DEF S
    <3> QED
        BY <1>2, <2>1, <2>2 DEF OutputOrder
  <2>4. x \notin {"stream", "inputStream", "outputStream", "realised"}
      BY <1>6 DEF SlFreesAt
  <2>5. x = "player" => "outputMix" \in ToSet(p)
    <3> SUFFICES ASSUME x = "player" PROVE "outputMix" \in ToSet(p)
        OBVIOUS
    <3>1. j - 1 \in 1 .. Len(q) /\ q[j - 1] = "outputMix"
        BY <1>2, <2>1, <2>2 DEF OutputOrder
    <3>2. PICK k \in 1 .. i - 1 : k = j - 1
        BY <1>2, <2>1, <3>1
    <3> QED
        BY <1>5, <3>1, <3>2
  <2>6. "outputMix" \in ToSet(p) => x \notin {"outputMix", "player"}
      BY <1>6 DEF SlFreesAt, p
  <2>7. x \notin {"outputMix", "player"}
      BY <2>5, <2>6
  <2> QED
      BY <2>3, <2>4, <2>7 DEF Closable
<1> QED
    BY <1>4, <1>6 DEF NothingLeaks

LEMMA FlagsTyped ==
    ASSUME stream \in [Streams -> StreamType], NEW s \in Streams,
           \/ \E b, c \in BOOLEAN : Flags(s, b, c)
           \/ stream' = [stream EXCEPT ![s].started = TRUE, ![s].isStopped = FALSE, ![s].isActive = TRUE]
    PROVE  /\ stream' \in [Streams -> StreamType]
           /\ \A r \in Streams : Closable(stream'[r]) = Closable(stream[r])
<1>1. PICK x \in StreamType : x = stream[s]
    OBVIOUS
<1>2. PICK a \in BOOLEAN, b \in BOOLEAN, c \in BOOLEAN :
          stream' = [stream EXCEPT ![s] = [x EXCEPT !.started = a, !.isStopped = b, !.isActive = c]]
  <2>1. ASSUME NEW b \in BOOLEAN, NEW c \in BOOLEAN, Flags(s, b, c)
        PROVE  stream' = [stream EXCEPT ![s] = [x EXCEPT !.started = x.started, !.isStopped = b, !.isActive = c]]
    <3>1. stream' = [stream EXCEPT ![s] = [x EXCEPT !.isStopped = b, !.isActive = c]]
        BY <1>1, <2>1 DEF Flags
    <3>2. [x EXCEPT !.isStopped = b, !.isActive = c] = [x EXCEPT !.started = x.started, !.isStopped = b, !.isActive = c]
        BY DEF StreamType
    <3> QED
        BY <3>1, <3>2
  <2>2. x.started \in BOOLEAN
      BY DEF StreamType
  <2>3. CASE stream' = [stream EXCEPT ![s].started = TRUE, ![s].isStopped = FALSE, ![s].isActive = TRUE]
      BY <1>1, <2>3
  <2> QED
      BY <2>1, <2>2, <2>3
<1> DEFINE y == [x EXCEPT !.started = a, !.isStopped = b, !.isActive = c]
<1>3. y \in StreamType /\ y.api = x.api /\ y.sides = x.sides
    BY DEF StreamType
<1> HIDE DEF y
<1>4. stream' = [stream EXCEPT ![s] = y]
    BY <1>2 DEF y
<1>5. stream' \in [Streams -> StreamType] /\ stream'[s] = y /\ \A r \in Streams \ {s} : stream'[r] = stream[r]
    BY <1>3, <1>4
<1>6. Closable(stream'[s]) = Closable(stream[s])
    BY <1>1, <1>3, <1>5 DEF Closable
<1> QED
    BY <1>5, <1>6

LEMMA LeaksStay ==
    ASSUME LeakInv, UNCHANGED resources, Legal(call'), openStreams' \in Seq(Streams),
           \/ UNCHANGED stream
           \/ \E s \in Streams : \E b, c \in BOOLEAN : Flags(s, b, c)
           \/ \E s \in Streams :
                 stream' = [stream EXCEPT ![s].started = TRUE, ![s].isStopped = FALSE, ![s].isActive = TRUE]
    PROVE  LeakInv'
<1>1. stream' \in [Streams -> StreamType] /\ \A r \in Streams : Closable(stream'[r]) = Closable(stream[r])
    BY FlagsTyped DEF LeakInv, Legal
<1> QED
    BY <1>1 DEF LeakInv, NothingLeaks, resources, Legal

LEMMA StopsLeakNothing ==
    ASSUME LeakInv, NEW s \in Streams, NEW op, NEW abort, NEW then,
           \/ op \in {"stop", "abort"} /\ then = "done"
           \/ op \in {"close", "terminate"} /\ then = "close",
           Stops(s, op, abort, then), UNCHANGED resources, openStreams' \in Seq(Streams)
    PROVE  LeakInv'
<1>1. Legal(call')
  <2>1. \/ call' = NoCall
        \/ \E at \in Waits : /\ call' = [op |-> op, s |-> s, at |-> at]
                             /\ at = "close" => op \in {"close", "terminate"}
      BY DEF Stops, SlStops, Within, Waits
  <2> QED
      BY <2>1 DEF Calls, Legal, NoCall
<1>2. UNCHANGED stream \/ \E b, c \in BOOLEAN : Flags(s, b, c)
    BY DEF Stops, SlStops, AaStops
<1> QED
    BY <1>1, <1>2, LeaksStay

LEMMA ClosesLeakNothing ==
    ASSUME LeakInv, NEW s \in Streams, NEW op \in {"close", "terminate"}, Closes(s, op)
    PROVE  LeakInv'
<1>1. UNCHANGED resources /\ openStreams' \in Seq(Streams)
    BY RemovedTyped DEF Closes, LeakInv, Legal
<1>2. CASE stream[s].isStopped
  <2>1. UNCHANGED stream /\ call' = [op |-> op, s |-> s, at |-> "close"]
      BY <1>2 DEF Closes, SameStreams, Within
  <2>2. Legal(call')
      BY <2>1 DEF Calls, Waits, Legal, NoCall
  <2> QED
      BY <1>1, <2>1, <2>2, LeaksStay
<1>3. CASE ~stream[s].isStopped
    BY <1>1, <1>3, StopsLeakNothing DEF Closes
<1> QED
    BY <1>2, <1>3

\* A stream that is opened has what its host API acquires, one that is closed nothing.
LEMMA OpensLeakNothing ==
    ASSUME LeakInv, NEW s \in Streams, Pa_OpenStream(s)
    PROVE  LeakInv'
<1>1. UNCHANGED call /\ Legal(call) /\ call \in Calls /\ openStreams \in Seq(Streams)
    BY DEF Pa_OpenStream, LeakInv, Legal
<1>2. ASSUME NEW sides \in SUBSET {"in", "out"}, NEW rate, OpenStreamFails(sides, rate), Refused
      PROVE  LeakInv'
  <2>1. ASSUME NEW i \in DOMAIN SlSteps(sides), FailsAt(SlSteps(sides), i, SlFreesAt(SlSteps(sides), i))
        PROVE  NothingLeaks' /\ UNCHANGED held
    <3>1. i \in 1 .. Len(SlSteps(sides))
        BY StepsAre
    <3> QED
        BY <2>1, <3>1, FailsKeeps DEF LeakInv, Legal
  <2>2. "in" \in sides => 4 \in DOMAIN SlSteps(sides)
      BY StepsLong
  <2>3. NothingLeaks' /\ UNCHANGED held
      BY <1>2, <2>1, <2>2 DEF OpenStreamFails
  <2> QED
      BY <1>1, <1>2, <2>3 DEF Refused, LeakInv, Legal
<1>3. ASSUME AaOpenFails, Refused PROVE LeakInv'
  <2>1. PICK i \in DOMAIN AaSteps : FailsAt(AaSteps, i, AaFrees)
      BY <1>3 DEF AaOpenFails
  <2>2. ToSet(SubSeq(AaSteps, 1, i - 1)) \subseteq AaFrees
    <3>1. AaSteps \in Seq(AaFrees) /\ i \in 1 .. Len(AaSteps) /\ Len(AaSteps) \in Nat
        BY DEF AaSteps, AaFrees
    <3>2. SubSeq(AaSteps, 1, i - 1) \in Seq(AaFrees)
      <4>1. i - 1 \in 0 .. Len(AaSteps)
          BY <3>1
      <4> QED
          BY <3>1, <4>1
    <3> QED
        BY <3>2 DEF ToSet
  <2>3. UNCHANGED resources
      BY <2>1, <2>2 DEF FailsAt, resources
  <2> QED
      BY <1>1, <1>3, <2>3, LeaksStay DEF Refused
<1>4. ASSUME NEW api \in {"OpenSLES", "AAudio"}, NEW mode \in {"callback", "blocking"}, NEW sides \in SUBSET {"in", "out"},
             NEW ends \in BOOLEAN, Opens(s, api, mode, sides, ends)
      PROVE  LeakInv'
  <2> DEFINE new == [Closed EXCEPT !.open = TRUE, !.api = api, !.mode = mode, !.sides = sides, !.ends = ends]
  <2>1. new \in StreamType /\ new.api = api /\ new.sides = sides
      BY DEF Closed, StreamType
  <2>2. stream' = [stream EXCEPT ![s] = new]
      BY <1>4 DEF Opens, PaUtil_InitializeStreamRepresentation
  <2> HIDE DEF new
  <2>3. stream' \in [Streams -> StreamType] /\ stream'[s] = new /\ \A r \in Streams \ {s} : stream'[r] = stream[r]
      BY <2>1, <2>2 DEF LeakInv, Legal
  <2>4. PICK steps : /\ held' = [held EXCEPT ![s] = ToSet(steps)] /\ UNCHANGED leaked
                     /\ steps = IF api = "AAudio" THEN AaSteps ELSE SlSteps(sides)
      BY <1>4 DEF Opens, Acquires
  <2>5. ToSet(steps) \subseteq Closable(new)
    <3>1. CASE api = "AAudio"
      <4>1. steps \in Seq(AaFrees)
          BY <2>4, <3>1 DEF AaSteps, AaFrees
      <4> QED
          BY <2>1, <3>1, <4>1 DEF ToSet, Closable
    <3>2. CASE api = "OpenSLES"
      <4>1. PICK S : S = Closable([api |-> "OpenSLES", sides |-> sides])
          OBVIOUS
      <4>2. steps \in Seq(S)
          BY <2>4, <3>2, <4>1, StepsAre
      <4>3. S = Closable(new)
          BY <2>1, <3>2, <4>1 DEF Closable
      <4>4. ToSet(steps) \subseteq S
          BY <4>2 DEF ToSet
      <4> QED
          BY <4>3, <4>4
    <3> QED
        BY <3>1, <3>2
  <2>6. Closable(new) \subseteq Kinds
      BY DEF Closable, AaFrees, Kinds
  <2>7. held' \in [Streams -> SUBSET Kinds] /\ held'[s] \subseteq Closable(new)
        /\ \A r \in Streams \ {s} : held'[r] = held[r]
      BY <2>4, <2>5, <2>6 DEF LeakInv, Legal
  <2>8. openStreams' \in Seq(Streams)
    <3>1. openStreams' = <<s>> \o openStreams
        BY <1>4 DEF Opens, AddOpenStream
    <3> QED
        BY <1>1, <3>1, Concatenated
  <2> QED
      BY <1>1, <2>3, <2>4, <2>7, <2>8 DEF LeakInv, NothingLeaks, Legal
<1>5. PICK r \in Requests, mode \in {"callback", "blocking"}, ends \in BOOLEAN, sides \in SUBSET {"in", "out"} :
          \/ \E rate : OpenStreamFails(sides, rate) /\ Refused
          \/ \E api \in {"OpenSLES", "AAudio"} : Opens(s, api, mode, sides, ends)
          \/ AaOpenFails /\ Refused
          \/ Refused /\ UNCHANGED resources
  <2>1. \A in, out : SidesOf(in, out) \in SUBSET {"in", "out"}
      BY DEF SidesOf
  <2>2. PICK r \in Requests, mode \in {"callback", "blocking"}, ends \in BOOLEAN :
          LET sides == SidesOf(r.in, r.out)
          IN  \/ OpenStreamFails(sides, r.rate) /\ Refused
              \/ Opens(s, "OpenSLES", mode, sides, ends)
              \/ Opens(s, "AAudio", mode, sides, ends)
              \/ AaOpenFails /\ Refused
              \/ Refused /\ UNCHANGED resources
      BY ZenonT(60) DEF Pa_OpenStream
  <2> QED
      BY <2>1, <2>2
<1> QED
    BY <1>1, <1>2, <1>3, <1>4, <1>5, LeaksStay DEF Refused

LEMMA CloseLeaksNothing ==
    ASSUME LeakInv, CloseStream
    PROVE  LeakInv'
<1>1. PICK s \in Streams : s = call.s
    BY CallTypes DEF CloseStream, LeakInv, Waits, NoCall, Legal
<1>2. stream' = [stream EXCEPT ![s] = Closed] /\ UNCHANGED openStreams
    BY <1>1 DEF CloseStream, tables
<1>3. Closed \in StreamType
    BY DEF Closed, StreamType
<1>4. stream' \in [Streams -> StreamType] /\ stream'[s] = Closed /\ \A r \in Streams \ {s} : stream'[r] = stream[r]
    BY <1>2, <1>3 DEF LeakInv, Legal
<1>5. Legal(call')
  <2>1. call' = NoCall \/ (call.op # "close" /\ call' = [op |-> call.op, s |-> 0, at |-> "next"])
      BY DEF CloseStream, Within
  <2> QED
      BY <2>1, CallTypes DEF CloseStream, LeakInv, Calls, Waits, Legal, NoCall
<1>6. PICK frees : /\ leaked' = leaked \cup (held[s] \ frees) /\ held' = [held EXCEPT ![s] = {}]
                   /\ frees = Closable(stream[s])
    BY <1>1 DEF CloseStream, SlCloses, Frees, Closable
<1>7. UNCHANGED leaked /\ held' \in [Streams -> SUBSET Kinds] /\ held'[s] = {}
      /\ \A r \in Streams \ {s} : held'[r] = held[r]
    BY <1>6 DEF LeakInv, Legal
<1> QED
    BY <1>2, <1>4, <1>5, <1>7 DEF LeakInv, NothingLeaks, Legal

LEMMA LeakNext ==
    ASSUME LeakInv, Next
    PROVE  LeakInv'
<1>1. /\ LeakInv /\ stream \in [Streams -> StreamType] /\ Legal(call) /\ call \in Calls /\ openStreams \in Seq(Streams)
    BY DEF LeakInv, Legal
<1>2. CASE Threads \/ Devices
  <2>1. PICK s \in Streams :
            \/ SlThread(s) \/ AaCallbacks(s) \/ AaDisconnects(s) \/ AaRests(s)
            \/ \E d \in {"out", "in"} : SlPlays(s, d) \/ SlSticks(s, d)
      BY <1>2 DEF Threads, Devices
  <2>2. UNCHANGED <<tables, resources, call>> /\ (UNCHANGED stream \/ \E b, c \in BOOLEAN : Flags(s, b, c))
    <3>1. (stream[s].isStopped \/ Stopped(s)) \in BOOLEAN
        OBVIOUS
    <3>2. CASE SlThread(s)
        BY <3>1, <3>2 DEF SlThread, SlWaitsOutput, SlTimesOut, SlWaitsInput, SlCalls, SlReturns, SlChecks, SlFinished,
           End, frontVars
    <3>3. CASE AaCallbacks(s) \/ AaDisconnects(s) \/ AaRests(s)
        BY <3>3 DEF AaCallbacks, AaCalls, AaReturns, AaFinishes, AaFinished, AaErrorCallback, AaErrorReturns,
           AaDisconnects, AaRests, AaOnly, frontVars
    <3>4. CASE \E d \in {"out", "in"} : SlPlays(s, d) \/ SlSticks(s, d)
        BY <3>4 DEF SlPlays, SlSticks, frontVars
    <3> QED
        BY <2>1, <3>2, <3>3, <3>4
  <2> QED
      BY <1>1, <2>2, LeaksStay DEF tables
<1>3. CASE Pa_Initialize
  <2>1. UNCHANGED <<stream, call, openStreams, held>> /\ leaked' \subseteq leaked \cup {"engine"}
      BY <1>3 DEF Pa_Initialize, InitializeHostApis, resources
  <2> QED
      BY <1>1, <2>1 DEF LeakInv, NothingLeaks, Legal
<1>4. ASSUME UNCHANGED <<stream, resources, openStreams>>, Legal(call') PROVE LeakInv'
    BY <1>1, <1>4, LeaksStay
<1>5. CASE Pa_Terminate
  <2>1. call' = call \/ call' = [op |-> "terminate", s |-> 0, at |-> "next"]
      BY <1>5 DEF Pa_Terminate, Within
  <2>2. Legal(call')
      BY <1>1, <2>1 DEF Calls, Legal, NoCall
  <2> QED
      BY <1>4, <1>5, <2>2 DEF Pa_Terminate, SameStreams
<1>6. CASE Terminated
    BY <1>4, <1>6 DEF Terminated, SameStreams, Calls, Legal, NoCall
<1>7. CASE PaUnixThread_Terminate \/ Drained
  <2>1. /\ UNCHANGED <<stream, resources, openStreams>> /\ call.at \in Waits
        /\ \/ call' = call \/ call' = NoCall
           \/ call.op \notin {"stop", "abort"} /\ call' = [op |-> call.op, s |-> call.s, at |-> "close"]
      BY <1>7 DEF PaUnixThread_Terminate, Drained, SameStreams, Resumes, Within, tables, Waits
  <2>2. call.op \in {"stop", "abort", "close", "terminate"} /\ call.s \in Streams
      BY <1>1, <2>1, CallTypes DEF Waits, NoCall
  <2>3. Legal(call')
      BY <1>1, <2>1, <2>2 DEF Calls, Waits, Legal, NoCall
  <2> QED
      BY <1>4, <2>1, <2>3
<1>8. CASE Drains
  <2>1. PICK s \in Streams : s = call.s /\ call.op \in {"stop", "abort", "close", "terminate"}
      BY <1>1, <1>8, CallTypes DEF Drains, Waits, NoCall
  <2>2. call' = [op |-> call.op, s |-> s, at |-> "notify"] /\ UNCHANGED <<resources, openStreams>>
      BY <1>8, <2>1 DEF Drains, Within, tables
  <2>3. Legal(call')
      BY <2>1, <2>2 DEF Calls, Waits, Legal, NoCall
  <2>4. \E b, c \in BOOLEAN : Flags(s, b, c)
    <3>1. (stream[s].isStopped \/ TRUE) \in BOOLEAN
        OBVIOUS
    <3> QED
        BY <1>8, <2>1, <3>1 DEF Drains, End
  <2> QED
      BY <1>1, <2>2, <2>3, <2>4, LeaksStay
<1>9. CASE CloseOpenStreams
  <2>1. Head(openStreams) \in Streams
      BY <1>1, <1>9 DEF CloseOpenStreams
  <2> QED
      BY <1>1, <1>9, <2>1, ClosesLeakNothing DEF CloseOpenStreams
<1>10. CASE ReadStream \/ WriteStream
  <2>1. /\ UNCHANGED <<stream, resources, openStreams>> /\ call.op \in {"read", "write"}
        /\ \/ call' = NoCall \/ call' = [op |-> call.op, s |-> call.s, at |-> "copy"] \/ call' = [call EXCEPT !.at = "sem"]
      BY <1>10 DEF ReadStream, WriteStream, Within, tables
  <2>2. call \in [op : {"read", "write"}, s : Streams, at : {"sem", "copy"}]
      BY <1>1, <2>1 DEF Calls, NoCall, Waits, Legal
  <2>3. Legal(call')
      BY <2>1, <2>2 DEF Calls, Legal, NoCall
  <2> QED
      BY <1>4, <2>1, <2>3
<1>11. ASSUME NEW s \in Streams,
              \/ Pa_StartStream(s) \/ Pa_StopStream(s) \/ Pa_AbortStream(s) \/ Pa_CloseStream(s)
              \/ Pa_ReadStream(s) \/ Pa_WriteStream(s)
       PROVE  LeakInv'
  <2>1. CASE Pa_StartStream(s)
    <3>1. /\ UNCHANGED <<resources, openStreams, call>>
          /\ stream' = [stream EXCEPT ![s].started = TRUE, ![s].isStopped = FALSE, ![s].isActive = TRUE]
        BY <2>1 DEF Pa_StartStream, SlStarts, AaStarts, tables
    <3> QED
        BY <1>1, <3>1, LeaksStay
  <2>2. CASE Pa_StopStream(s) \/ Pa_AbortStream(s)
      BY <1>1, <2>2, StopsLeakNothing DEF Pa_StopStream, Pa_AbortStream, tables
  <2>3. CASE Pa_CloseStream(s)
      BY <1>1, <2>3, ClosesLeakNothing DEF Pa_CloseStream
  <2>4. CASE Pa_ReadStream(s) \/ Pa_WriteStream(s)
    <3>1. /\ UNCHANGED <<stream, resources, openStreams>>
          /\ \E op \in {"read", "write"} : call' = [op |-> op, s |-> s, at |-> "sem"]
        BY <2>4 DEF Pa_ReadStream, Pa_WriteStream, Pa_ReadOrWriteStream, SameStreams, tables, Within
    <3>2. Legal(call')
        BY <3>1 DEF Calls, Legal, NoCall
    <3> QED
        BY <1>4, <3>1, <3>2
  <2> QED
      BY <1>11, <2>1, <2>2, <2>3, <2>4
<1> QED
    BY <1>1, <1>2, <1>3, <1>5, <1>6, <1>7, <1>8, <1>9, <1>10, <1>11, OpensLeakNothing, CloseLeaksNothing
       DEF Next, Client, Waiting

\* An output that is not opened, or a stream that is closed, leaves nothing behind: what is
\* lost is of an input, a buffer processor or an engine (OpenStream and its cleanup, CloseStream
\* and InitializeOutputStream, pa_opensles.c; OpenStream and CloseStream, pa_aaudio.c). Of any
\* client, tame or not.
THEOREM LittleLeaks == Spec => []NothingLeaks
<1>1. Init => LeakInv
  <2> SUFFICES ASSUME Init PROVE LeakInv
      OBVIOUS
  <2>1. /\ stream = [s \in Streams |-> Closed] /\ call = NoCall /\ openStreams = << >>
        /\ held = [s \in Streams |-> {}] /\ leaked = {}
      BY DEF Init, FrontInit
  <2>2. Closed \in StreamType
      BY DEF Closed, StreamType
  <2>3. stream \in [Streams -> StreamType] /\ held \in [Streams -> SUBSET Kinds] /\ \A s \in Streams : held[s] = {}
      BY <2>1, <2>2
  <2> QED
      BY <2>1, <2>3 DEF LeakInv, NothingLeaks, Calls, Legal, NoCall
<1>2. LeakInv /\ [Next]_vars => LeakInv'
  <2> SUFFICES ASSUME LeakInv, [Next]_vars PROVE LeakInv'
      OBVIOUS
  <2>1. CASE UNCHANGED vars
      BY <2>1 DEF vars, frontVars, tables, resources, LeakInv, NothingLeaks, Legal
  <2> QED
      BY <2>1, LeakNext
<1>3. LeakInv => NothingLeaks
    BY DEF LeakInv, Legal
<1> QED
    BY <1>1, <1>2, <1>3, PTL DEF Spec

------------------------------------------------------------------------------
(* Both host APIs keep the promise *)

StatusOf == [s \in Streams |-> Status(s)]
Repeating == {s \in Streams : OnAaudio(s)}

\* What a stream's step does to what it stands for: a step of the promise, or none.
Turning(s, from, to) ==
    LET again == IF OnAaudio(s) THEN {"finished"} ELSE {}
    IN  \/ from = to
        \/ from = "opened" /\ to = "active"
        \/ from \in {"active"} \cup again /\ to = "calling"
        \/ from = "calling" /\ to \in {"active", "complete"} \cup again
        \/ from \in {"active", "complete"} \cup again /\ to = "finishing"
        \/ from = "finishing" /\ to = "finished"
        \/ OnAaudio(s) /\ from = "active" /\ to = "finished"

PromiseStep == Promise!Next \/ UNCHANGED <<StatusOf, Repeating>>

LEMMA Turned ==
    ASSUME NEW s \in Streams, \A r \in Streams \ {s} : Status(r)' = Status(r)
    PROVE  \A from : Status(s) \in from => Promise!Turns(s, from, Status(s)')
<1>1. StatusOf' = [StatusOf EXCEPT ![s] = Status(s)']
    BY DEF StatusOf
<1> QED
    BY <1>1 DEF Promise!Turns, StatusOf

LEMMA PromiseSteps ==
    ASSUME NEW s \in Streams, \A r \in Streams \ {s} : Status(r)' = Status(r),
           \A r \in Streams : OnAaudio(r)' <=> OnAaudio(r),
           Turning(s, Status(s), Status(s)')
    PROVE  PromiseStep
<1> DEFINE a == Status(s)
           b == Status(s)'
<1>1. UNCHANGED Repeating
    BY DEF Repeating
<1>2. CASE a = b
    BY <1>1, <1>2 DEF PromiseStep, StatusOf
<1>3. CASE a # b
  <2>1. Promise!Steps(s)
    <3>1. \A from : a \in from => Promise!Turns(s, from, b)
        BY Turned
    <3>2. Promise!Ended(s) = IF OnAaudio(s) THEN {"finished"} ELSE {}
        BY DEF Promise!Ended
    <3>3. s \in {r \in Streams : OnAaudio(r)} <=> OnAaudio(s)
        OBVIOUS
    <3> HIDE DEF a, b
    <3> QED
        BY <1>3, <3>1, <3>2, <3>3 DEF Turning, Promise!Steps, a, b
  <2>2. UNCHANGED {r \in Streams : OnAaudio(r)}
      BY <1>1 DEF Repeating
  <2> QED
      BY <2>1, <2>2 DEF PromiseStep, Promise!Next
<1> QED
    BY <1>2, <1>3

\* What a stream stands for changes with its own flags, thread and device, or when its
\* finished callback is called on a blocking stream.
Notified(s) == call.s = s /\ call.at = "notify"

LEMMA StatusStays ==
    ASSUME NEW s \in Streams, stream'[s] = stream[s], thread'[s] = thread[s], aa'[s] = aa[s],
           Notified(s)' <=> Notified(s)
    PROVE  Status(s)' = Status(s) /\ (OnAaudio(s)' <=> OnAaudio(s))
BY DEF Status, SlStatus, AaStatus, OnAaudio, Notified

LEMMA OneTurns ==
    ASSUME NEW s \in Streams,
           \A r \in Streams \ {s} : stream'[r] = stream[r] /\ thread'[r] = thread[r] /\ aa'[r] = aa[r],
           call' = call \/ (call.s \in {0, s} /\ call'.s \in {0, s}),
           OnAaudio(s)' <=> OnAaudio(s), Turning(s, Status(s), Status(s)')
    PROVE  PromiseStep
<1>1. \A r \in Streams \ {s} : Notified(r)' <=> Notified(r)
    BY DEF Notified
<1>2. \A r \in Streams \ {s} : Status(r)' = Status(r) /\ (OnAaudio(r)' <=> OnAaudio(r))
    BY <1>1, StatusStays
<1> QED
    BY <1>2, PromiseSteps

LEMMA NoneTurns ==
    ASSUME \A r \in Streams : stream'[r] = stream[r] /\ thread'[r] = thread[r] /\ aa'[r] = aa[r],
           \A r \in Streams : Notified(r)' <=> Notified(r)
    PROVE  PromiseStep
<1>1. \A r \in Streams : Status(r)' = Status(r) /\ (OnAaudio(r)' <=> OnAaudio(r))
    BY StatusStays
<1> QED
    BY <1>1 DEF PromiseStep, StatusOf, Repeating

\* The thread of an OpenSL stream.
LEMMA ThreadTurns ==
    ASSUME Inv, NEW s \in Streams, SlThread(s), UNCHANGED aa
    PROVE  PromiseStep
<1> DEFINE t == thread[s]
           u == thread'[s]
<1> USE DEF At, Goto
<1>1. StreamsType /\ SlInv(s) /\ t \in ThreadType
    BY DEF Inv, StreamsType
<1>2. OnOpenSles(s) /\ call' = call /\ t.pc # "none"
    BY DEF SlThread, SlWaitsOutput, SlTimesOut, SlWaitsInput, SlCalls, SlReturns, SlChecks, SlFinished, frontVars
<1>3. \A r \in Streams \ {s} : stream'[r] = stream[r] /\ thread'[r] = thread[r]
    BY <1>1 DEF SlThread, SlWaitsOutput, SlTimesOut, SlWaitsInput, SlCalls, SlReturns, SlChecks, SlFinished, frontVars,
           StreamsType, Flags, End
<1>4. stream[s].mode = "callback"
    BY <1>1, <1>2 DEF SlInv
<1>5. /\ stream'[s].open /\ stream'[s].api = "OpenSLES" /\ stream'[s].mode = "callback"
  <2>1. CASE UNCHANGED stream
      BY <1>2, <1>4, <2>1 DEF OnOpenSles
  <2>2. CASE SlChecks(s) /\ ~UNCHANGED stream
    <3>1. Flags(s, stream[s].isStopped \/ Stopped(s), FALSE)
        BY <2>2 DEF SlChecks, End
    <3>2. PICK b \in BOOLEAN : b = (stream[s].isStopped \/ Stopped(s))
        OBVIOUS
    <3>3. stream'[s] = [stream[s] EXCEPT !.isStopped = b, !.isActive = FALSE]
        BY <1>1, <3>1, <3>2, FlagsOnly
    <3> QED
        BY <1>1, <1>2, <1>4, <3>3 DEF StreamsType, StreamType, OnOpenSles
  <2> QED
      BY <2>1, <2>2 DEF SlThread, SlWaitsOutput, SlTimesOut, SlWaitsInput, SlCalls, SlReturns, SlFinished, frontVars
<1>6. /\ u.result = t.result \/ t.pc = "calling"
      /\ \/ t.pc \in {"wait", "input"} /\ u.pc \in {"input", "ready"}
         \/ t.pc = "ready" /\ u.pc \in {"check", "calling"}
         \/ t.pc = "calling" /\ u.pc = "check"
         \/ t.pc = "check" /\ u.pc = "finishing"
         \/ t.pc = "check" /\ u.pc = "wait" /\ t.result = "continue"
         \/ t.pc = "finishing" /\ u.pc = "exit"
  <2>1. CASE SlWaitsOutput(s) \/ SlTimesOut(s) \/ SlWaitsInput(s)
    <3>1. t.pc \in {"wait", "input"} /\ \E pc \in {"input", "ready"} : thread' = [thread EXCEPT ![s].pc = pc]
        BY <2>1 DEF SlWaitsOutput, SlTimesOut, SlWaitsInput
    <3> QED
        BY <1>1, <3>1 DEF StreamsType, ThreadType
  <2>2. CASE SlCalls(s)
    <3>1. CASE t.doStop \/ t.doAbort
      <4>1. thread' = [thread EXCEPT ![s] = [t EXCEPT !.pc = "check", !.made = FALSE]] /\ t.pc = "ready"
          BY <1>1, <2>2, <3>1 DEF SlCalls, StreamsType
      <4>2. u = [t EXCEPT !.pc = "check", !.made = FALSE]
          BY <1>1, <4>1 DEF StreamsType
      <4>3. u.pc = "check" /\ u.result = t.result
        <5>1. t \in ThreadType
            BY <1>1
        <5> HIDE DEF t, u
        <5> QED
            BY <4>2, <5>1 DEF ThreadType
      <4> QED
          BY <4>1, <4>3
    <3>2. CASE ~(t.doStop \/ t.doAbort)
        BY <1>1, <2>2, <3>2 DEF SlCalls, StreamsType, ThreadType
    <3> QED
        BY <3>1, <3>2
  <2>3. CASE SlReturns(s)
    <3>1. PICK r \in Results(s) :
             thread' = [thread EXCEPT ![s].pc = "check", ![s].result = r, ![s].made = r # "abort"]
        BY <2>3 DEF SlReturns
    <3>2. thread' = [thread EXCEPT ![s] = [t EXCEPT !.pc = "check", !.result = r, !.made = r # "abort"]]
        BY <1>1, <3>1 DEF StreamsType
    <3>3. u = [t EXCEPT !.pc = "check", !.result = r, !.made = r # "abort"]
        BY <1>1, <3>2 DEF StreamsType
    <3> QED
        BY <1>1, <2>3, <3>3 DEF SlReturns, ThreadType
  <2>4. CASE SlChecks(s)
      BY <1>1, <2>4 DEF SlChecks, StreamsType, ThreadType
  <2>5. CASE SlFinished(s)
      BY <1>1, <2>5 DEF SlFinished, StreamsType, ThreadType
  <2> QED
      BY <2>1, <2>2, <2>3, <2>4, <2>5 DEF SlThread
<1>7. t.pc \in {"wait", "input", "ready", "calling"} => t.result = "continue"
    BY <1>1, <1>2 DEF SlInv
<1>8. ~OnAaudio(s) /\ ~OnAaudio(s)'
    BY <1>2, <1>5 DEF OnAaudio, OnOpenSles
<1>9. Turning(s, Status(s), Status(s)')
  <2>1. Status(s) = CASE t.pc = "none" -> "opened"
               [] t.pc \in {"calling", "finishing"} -> t.pc
               [] t.pc = "check" /\ t.result # "continue" -> "complete"
               [] t.pc \in {"exit", "joined"} -> "finished"
               [] OTHER -> "active"
      BY <1>2, <1>4 DEF Status, SlStatus, AaStatus, OnOpenSles
  <2>2. Status(s)' = CASE u.pc = "none" -> "opened"
               [] u.pc \in {"calling", "finishing"} -> u.pc
               [] u.pc = "check" /\ u.result # "continue" -> "complete"
               [] u.pc \in {"exit", "joined"} -> "finished"
               [] OTHER -> "active"
      BY <1>5 DEF Status, SlStatus, AaStatus
  <2> HIDE DEF t, u
  <2> QED
      BY <1>6, <1>7, <2>1, <2>2 DEF Turning
<1> QED
    BY <1>2, <1>3, <1>8, <1>9, OneTurns

\* The callbacks of AAudio and its device.
LEMMA AaudioTurns ==
    ASSUME Inv, NEW s \in Streams, AaCallbacks(s) \/ AaDisconnects(s) \/ AaRests(s), UNCHANGED slVars
    PROVE  PromiseStep
<1> DEFINE x == aa[s]
           y == aa'[s]
<1>1. StreamsType /\ AaInv(s) /\ x \in AaudioType /\ stream[s] \in StreamType
    BY DEF Inv, StreamsType
<1>2. OnAaudio(s) /\ call' = call /\ thread' = thread
    BY DEF AaCallbacks, AaCalls, AaReturns, AaFinishes, AaFinished, AaErrorCallback, AaErrorReturns,
           AaDisconnects, AaRests, AaOnly, slVars, frontVars
<1>3. AaCallbacks(s) \/ AaDisconnects(s) \/ AaRests(s)
    OBVIOUS
<1>4. /\ \A r \in Streams \ {s} : stream'[r] = stream[r]
      /\ \A r \in Streams \ {s} : aa'[r] = aa[r]
      /\ stream'[s] = stream[s] \/ stream'[s] = [stream[s] EXCEPT !.isStopped = TRUE, !.isActive = FALSE]
      /\ stream[s].isStopped => stream'[s].isStopped
    BY <1>1, <1>3, AaChanges
<1>5. stream'[s].open /\ stream'[s].api = "AAudio" /\ OnAaudio(s)'
  <2>1. stream[s].open /\ stream[s].api = "AAudio"
      BY <1>2 DEF OnAaudio
  <2>2. CASE stream'[s] = stream[s]
      BY <2>1, <2>2 DEF OnAaudio
  <2>3. CASE stream'[s] = [stream[s] EXCEPT !.isStopped = TRUE, !.isActive = FALSE]
      BY <1>1, <2>1, <2>3 DEF StreamType, OnAaudio
  <2> QED
      BY <1>4, <2>2, <2>3
<1>6. \/ y = [x EXCEPT !.data = "calling"] /\ x.device \in {"started", "stopping"} /\ x.data = "idle" /\ x.error = "idle"
      \/ y = [x EXCEPT !.data = "idle"] /\ x.data \in {"calling", "finishing"}
      \/ y = [x EXCEPT !.data = "complete"] /\ x.data = "calling" /\ stream'[s].isStopped
      \/ y = [x EXCEPT !.data = "finishing"] /\ x.data = "complete"
      \/ y = [x EXCEPT !.error = "finishing"] /\ x.error = "called" /\ stream'[s].isStopped
      \/ y = [x EXCEPT !.error = "idle"] /\ x.error = "finishing"
      \/ /\ y = [x EXCEPT !.device = "disconnected", !.error = "called"]
         /\ x.device = "started" /\ x.data = "idle" /\ x.error = "idle"
      \/ y = [x EXCEPT !.device = "stopped"] /\ x.device = "stopping" /\ x.data = "idle" /\ x.error = "idle"
    BY <1>1, <1>3, AaChanges
<1>7. /\ x.error # "idle" => x.data = "idle" /\ x.device = "disconnected"
      /\ x.data # "idle" => x.device \in {"started", "stopping", "stopped"}
      /\ x.data \in {"complete", "finishing"} => stream[s].isStopped
      /\ x.error = "finishing" => stream[s].isStopped
    BY <1>1, <1>2 DEF AaInv
<1>8. /\ Status(s) = IF x.data # "idle" THEN x.data
                     ELSE IF x.error = "finishing" THEN "finishing"
                     ELSE IF x.device = "open" THEN "opened"
                     ELSE IF stream[s].isStopped THEN "finished" ELSE "active"
      /\ Status(s)' = IF y.data # "idle" THEN y.data
                      ELSE IF y.error = "finishing" THEN "finishing"
                      ELSE IF y.device = "open" THEN "opened"
                      ELSE IF stream'[s].isStopped THEN "finished" ELSE "active"
    BY <1>2, <1>5 DEF Status, SlStatus, AaStatus, OnAaudio
<1>9. Turning(s, Status(s), Status(s)')
  <2> DEFINE a == Status(s)
             b == Status(s)'
  <2> SUFFICES \/ a = b
               \/ a \in {"active", "finished"} /\ b = "calling"
               \/ a = "calling" /\ b \in {"active", "complete", "finished"}
               \/ a \in {"active", "complete", "finished"} /\ b = "finishing"
               \/ a = "finishing" /\ b = "finished"
               \/ a = "active" /\ b = "finished"
      BY <1>2 DEF Turning
  <2> HIDE DEF x, y, a, b
  <2>1. CASE y = [x EXCEPT !.data = "calling"] /\ x.device \in {"started", "stopping"} /\ x.data = "idle" /\ x.error = "idle"
    <3>1. a \in {"active", "finished"} /\ b = "calling"
        BY <1>1, <1>8, <2>1 DEF AaudioType, a, b
    <3> QED
        BY <3>1
  <2>2. CASE y = [x EXCEPT !.data = "idle"] /\ x.data \in {"calling", "finishing"}
    <3>1. y.data = "idle" /\ y.error = "idle" /\ y.device # "open"
        BY <1>1, <1>7, <2>2 DEF AaudioType
    <3>2. a = x.data /\ b = IF stream'[s].isStopped THEN "finished" ELSE "active"
        BY <1>8, <2>2, <3>1 DEF a, b
    <3> QED
        BY <1>4, <1>7, <2>2, <3>2
  <2>3. CASE y = [x EXCEPT !.data = "complete"] /\ x.data = "calling" /\ stream'[s].isStopped
    <3>1. a = "calling" /\ b = "complete"
        BY <1>1, <1>8, <2>3 DEF AaudioType, a, b
    <3> QED
        BY <3>1
  <2>4. CASE y = [x EXCEPT !.data = "finishing"] /\ x.data = "complete"
    <3>1. a = "complete" /\ b = "finishing"
        BY <1>1, <1>8, <2>4 DEF AaudioType, a, b
    <3> QED
        BY <3>1
  <2>5. CASE y = [x EXCEPT !.error = "finishing"] /\ x.error = "called" /\ stream'[s].isStopped
    <3>1. a \in {"active", "finished"} /\ b = "finishing"
        BY <1>1, <1>7, <1>8, <2>5 DEF AaudioType, a, b
    <3> QED
        BY <3>1
  <2>6. CASE y = [x EXCEPT !.error = "idle"] /\ x.error = "finishing"
    <3>1. a = "finishing" /\ b = "finished"
        BY <1>1, <1>4, <1>7, <1>8, <2>6 DEF AaudioType, a, b
    <3> QED
        BY <3>1
  <2>7. CASE \/ /\ y = [x EXCEPT !.device = "disconnected", !.error = "called"]
                /\ x.device = "started" /\ x.data = "idle" /\ x.error = "idle"
             \/ y = [x EXCEPT !.device = "stopped"] /\ x.device = "stopping" /\ x.data = "idle" /\ x.error = "idle"
    <3>1. y.data = "idle" /\ y.error # "finishing" /\ y.device # "open"
        BY <1>1, <2>7 DEF AaudioType
    <3>2. /\ a = IF stream[s].isStopped THEN "finished" ELSE "active"
          /\ b = IF stream'[s].isStopped THEN "finished" ELSE "active"
        BY <1>8, <2>7, <3>1 DEF a, b
    <3> QED
        BY <1>4, <3>2
  <2> QED
      BY <1>6, <2>1, <2>2, <2>3, <2>4, <2>5, <2>6, <2>7
<1> QED
    BY <1>2, <1>4, <1>5, <1>9, OneTurns

\* Starting, stopping and aborting, of a tame client.
LEMMA StartTurns ==
    ASSUME Inv, Tame, NEW s \in Streams, Pa_StartStream(s)
    PROVE  PromiseStep
<1>1. StreamsType /\ SlInv(s) /\ AaInv(s) /\ ClosedInv(s) /\ stream[s] \in StreamType
    BY DEF Inv, StreamsType
<1>2. call = NoCall /\ call' = call /\ stream[s].open /\ ~stream[s].started
    BY DEF Pa_StartStream, PaUtil_ValidateStreamPointer
<1> DEFINE new == [stream[s] EXCEPT !.started = TRUE, !.isStopped = FALSE, !.isActive = TRUE]
<1>3. new.started /\ ~new.isStopped /\ new.open /\ new.api = stream[s].api /\ new.mode = stream[s].mode
    BY <1>1, <1>2 DEF StreamType
<1>4. stream' = [stream EXCEPT ![s] = new]
    BY <1>1 DEF Pa_StartStream, SlStarts, AaStarts, StreamsType
<1> HIDE DEF new
<1>5. stream'[s] = new /\ \A r \in Streams \ {s} : stream'[r] = stream[r]
    BY <1>1, <1>4 DEF StreamsType
<1>6. CASE stream[s].api = "OpenSLES"
  <2> DEFINE u == [NoThread EXCEPT !.pc = IF stream[s].mode = "blocking" THEN "none" ELSE "wait"]
  <2>1. thread' = [thread EXCEPT ![s] = u] /\ UNCHANGED aa
      BY <1>6 DEF Pa_StartStream, SlStarts, SlStartsThread
  <2>2. u.pc = IF stream[s].mode = "blocking" THEN "none" ELSE "wait"
      BY DEF NoThread
  <2> HIDE DEF u
  <2>3. thread'[s] = u /\ \A r \in Streams \ {s} : thread'[r] = thread[r]
      BY <1>1, <2>1 DEF StreamsType
  <2>4. thread[s].pc = "none" /\ ~OnAaudio(s) /\ ~OnAaudio(s)'
      BY <1>1, <1>2, <1>3, <1>5, <1>6 DEF SlInv, OnOpenSles, OnAaudio
  <2>5. Status(s) = "opened"
      BY <1>2, <1>6, <2>4 DEF Status, SlStatus, AaStatus
  <2>6. Status(s)' = "active"
    <3>1. ~(call'.s = s /\ call'.at = "notify")
        BY <1>2 DEF NoCall
    <3> QED
        BY <1>3, <1>5, <1>6, <2>2, <2>3, <3>1 DEF Status, SlStatus, AaStatus
  <2> QED
      BY <1>2, <1>5, <2>1, <2>3, <2>4, <2>5, <2>6, OneTurns DEF Turning
<1>7. CASE stream[s].api # "OpenSLES"
  <2>1. UNCHANGED thread /\ OnAaudio(s) /\ aa[s] = NoAaudio
      BY <1>1, <1>2, <1>7 DEF Pa_StartStream, slVars, AaInv, ClosedInv, OnAaudio, StreamType, Closed
  <2>2. \/ UNCHANGED aa
        \/ aa' = [aa EXCEPT ![s] = [aa[s] EXCEPT !.device = "started"]]
      BY <1>1, <1>7 DEF Pa_StartStream, AaStarts, Set, StreamsType
  <2>3. [aa[s] EXCEPT !.device = "started"] = [device |-> "started", data |-> "idle", error |-> "idle"]
      BY <2>1 DEF NoAaudio
  <2>4. /\ \A r \in Streams \ {s} : aa'[r] = aa[r]
        /\ aa'[s].data = "idle" /\ aa'[s].error = "idle" /\ aa'[s].device \in {"open", "started"}
      BY <1>1, <2>1, <2>2, <2>3 DEF StreamsType, NoAaudio
  <2>5. OnAaudio(s)' /\ stream'[s].open /\ stream'[s].api = "AAudio" /\ ~stream'[s].isStopped
      BY <1>3, <1>5, <2>1 DEF OnAaudio
  <2>6. Status(s) = "opened"
      BY <2>1 DEF Status, SlStatus, AaStatus, OnAaudio, NoAaudio
  <2>7. Status(s)' \in {"opened", "active"}
      BY <2>4, <2>5 DEF Status, SlStatus, AaStatus
  <2> QED
      BY <1>2, <1>5, <2>1, <2>4, <2>5, <2>6, <2>7, OneTurns DEF Turning
<1> QED
    BY <1>6, <1>7

LEMMA StopsTurns ==
    ASSUME Inv, NEW s \in Streams, NEW op, NEW abort \in BOOLEAN, NEW then \in {"done", "close"},
           stream[s].open, ~stream[s].isStopped, call.at \in {"none", "next"}, Stops(s, op, abort, then)
    PROVE  PromiseStep
<1> USE DEF Within, NoCall
<1>1. StreamsType /\ SlInv(s) /\ AaInv(s) /\ ClosedInv(s) /\ call \in Calls /\ stream[s] \in StreamType
    BY DEF Inv, StreamsType
<1>2. call.s = 0 /\ call.at # "notify"
    BY <1>1, CallTypes
<1>3. CASE stream[s].api = "OpenSLES"
  <2>1. /\ UNCHANGED <<stream, aa>> /\ call'.s = s /\ call'.at \in {"drain", "join"}
        /\ \/ UNCHANGED thread
           \/ thread' = [thread EXCEPT ![s].doStop = @ \/ ~abort, ![s].doAbort = @ \/ abort]
      BY <1>3 DEF Stops, SlStops
  <2>2. /\ thread'[s].pc = thread[s].pc /\ thread'[s].result = thread[s].result
        /\ \A r \in Streams \ {s} : thread'[r] = thread[r]
      BY <1>1, <2>1, ThreadTold
  <2>3. Status(s)' = Status(s) /\ (OnAaudio(s)' <=> OnAaudio(s))
      BY <1>2, <1>3, <2>1, <2>2 DEF Status, SlStatus, AaStatus, OnAaudio
  <2> QED
      BY <1>2, <2>1, <2>2, <2>3, OneTurns DEF Turning
<1>4. CASE stream[s].api # "OpenSLES"
  <2>1. AaStops(s) /\ UNCHANGED thread /\ call'.s \in {0, s}
      BY <1>4 DEF Stops, slVars
  <2>2. OnAaudio(s) /\ aa[s] \in AaudioType
      BY <1>1, <1>4 DEF ClosedInv, OnAaudio, StreamsType, StreamType, Closed
  <2>3. /\ \A r \in Streams \ {s} : stream'[r] = stream[r]
        /\ stream'[s] = [stream[s] EXCEPT !.isStopped = TRUE, !.isActive = FALSE]
        /\ \A r \in Streams \ {s} : aa'[r] = aa[r]
        /\ aa'[s].data = aa[s].data /\ aa'[s].error = aa[s].error
        /\ aa'[s] = aa[s] \/ (aa[s].device = "started" /\ aa'[s].device = "stopping")
      BY <1>1, <2>1, AaTold
  <2>4. stream'[s].isStopped /\ stream'[s].open /\ stream'[s].api = "AAudio" /\ OnAaudio(s)'
      BY <1>1, <2>2, <2>3 DEF StreamType, OnAaudio
  <2>5. \/ Status(s)' = Status(s)
        \/ Status(s) = "active" /\ Status(s)' = "finished"
      BY <2>2, <2>3, <2>4 DEF Status, SlStatus, AaStatus, OnAaudio
  <2> QED
      BY <1>2, <2>1, <2>2, <2>3, <2>4, <2>5, OneTurns DEF Turning
<1> QED
    BY <1>3, <1>4

LEMMA ClosesTurns ==
    ASSUME Inv, NEW s \in Streams, NEW op, stream[s].open, call.at \in {"none", "next"}, Closes(s, op)
    PROVE  PromiseStep
<1>1. CASE stream[s].isStopped
  <2>1. UNCHANGED <<stream, thread, aa>> /\ call'.at = "close"
      BY <1>1 DEF Closes, SameStreams, slVars, Within
  <2> QED
      BY <2>1, NoneTurns DEF Notified
<1>2. CASE ~stream[s].isStopped
  <2>1. Stops(s, op, TRUE, "close")
      BY <1>2 DEF Closes
  <2> QED
      BY <1>2, <2>1, StopsTurns
<1> QED
    BY <1>1, <1>2

\* The calls that wait.
LEMMA JoinTurns ==
    ASSUME Inv, PaUnixThread_Terminate
    PROVE  PromiseStep
<1>0. PICK s \in Streams : s = call.s /\ s # 0
    BY CallTypes DEF Inv, StreamsType, PaUnixThread_Terminate, NoCall
<1>1. StreamsType /\ call.at = "join" /\ call.s = s /\ CallOn(s) /\ SlInv(s) /\ thread[s] \in ThreadType
    BY <1>0 DEF Inv, StreamsType, CallInv, PaUnixThread_Terminate
<1>2. OnOpenSles(s) /\ stream[s].mode = "callback" /\ thread[s].pc \notin {"none", "joined"}
    BY <1>1 DEF CallOn
<1>3. /\ thread[s].pc = "exit" /\ UNCHANGED <<stream, aa>>
      /\ thread' = [thread EXCEPT ![s].pc = "joined"] /\ call'.s \in {0, s}
    BY <1>1, <1>2 DEF PaUnixThread_Terminate, Goto, Resumes, Within, NoCall
<1>4. thread'[s].pc = "joined" /\ \A r \in Streams \ {s} : thread'[r] = thread[r]
    BY <1>1, <1>3 DEF StreamsType, ThreadType
<1>5. Status(s) = "finished" /\ Status(s)' = "finished" /\ (OnAaudio(s)' <=> OnAaudio(s))
    BY <1>2, <1>3, <1>4 DEF Status, SlStatus, AaStatus, OnOpenSles, OnAaudio
<1> QED
    BY <1>1, <1>3, <1>4, <1>5, OneTurns DEF Turning

LEMMA DrainsTurn ==
    ASSUME Inv, Drains \/ Drained
    PROVE  PromiseStep
<1>0. PICK s \in Streams : s = call.s /\ s # 0
    BY CallTypes DEF Inv, StreamsType, Drains, Drained, NoCall
<1>1. /\ StreamsType /\ call.at \in {"drain", "notify"} /\ call.s = s /\ CallOn(s) /\ stream[s] \in StreamType
    BY <1>0 DEF Inv, StreamsType, CallInv, Drains, Drained
<1>2. /\ OnOpenSles(s) /\ stream[s].mode = "blocking" /\ stream[s].started
      /\ stream[s].isStopped <=> call.at = "notify"
    BY <1>1 DEF CallOn
<1>3. CASE Drains
  <2>1. /\ UNCHANGED <<thread, aa>> /\ call.at = "drain" /\ call'.s = s /\ call'.at = "notify"
        /\ Flags(s, stream[s].isStopped \/ TRUE, FALSE)
      BY <1>1, <1>3 DEF Drains, End, Within
  <2>2. Flags(s, TRUE, FALSE)
      BY <2>1
  <2>3. /\ stream'[s] = [stream[s] EXCEPT !.isStopped = TRUE, !.isActive = FALSE]
        /\ \A r \in Streams \ {s} : stream'[r] = stream[r]
      BY <1>1, <2>2, FlagsOnly
  <2>4. /\ stream'[s].open /\ stream'[s].api = "OpenSLES" /\ stream'[s].mode = "blocking"
        /\ stream'[s].started
      BY <1>1, <1>2, <2>3 DEF StreamType, OnOpenSles
  <2>5. Status(s) = "active" /\ ~OnAaudio(s) /\ ~OnAaudio(s)'
      BY <1>2, <2>1, <2>4 DEF Status, SlStatus, AaStatus, OnOpenSles, OnAaudio
  <2>6. Status(s)' = "finishing"
      BY <2>1, <2>4 DEF Status, SlStatus, AaStatus
  <2> QED
      BY <1>1, <2>1, <2>3, <2>5, <2>6, OneTurns DEF Turning
<1>4. CASE Drained
  <2>1. UNCHANGED <<stream, thread, aa>> /\ call.at = "notify" /\ call'.s \in {0, s} /\ call'.at # "notify"
      BY <1>1, <1>4 DEF Drained, Resumes, Within, NoCall, SameStreams, slVars
  <2>2. Status(s) = "finishing" /\ ~OnAaudio(s) /\ ~OnAaudio(s)'
      BY <1>1, <1>2, <2>1 DEF Status, SlStatus, AaStatus, OnOpenSles, OnAaudio
  <2>3. Status(s)' = "finished"
      BY <1>1, <1>2, <2>1 DEF Status, SlStatus, AaStatus, OnOpenSles
  <2> QED
      BY <1>1, <2>1, <2>2, <2>3, OneTurns DEF Turning
<1> QED
    BY <1>3, <1>4

\* A stream is opened, or it is closed, and stands for what it did not before.
LEMMA ReplacedTurns ==
    ASSUME Inv, NEW s \in Streams, NEW new, Replaced(s, new), call'.s = 0, call.s \in {0, s},
           \/ new.open /\ new.api \in {"OpenSLES", "AAudio"} /\ ~new.started /\ Status(s) = "closed"
           \/ ~new.open /\ Status(s) \in {"opened", "finished"}
    PROVE  PromiseStep
<1>1. StreamsType /\ NoThread.pc = "none"
      /\ NoAaudio.data = "idle" /\ NoAaudio.error = "idle" /\ NoAaudio.device = "open"
    BY DEF Inv, NoThread, NoAaudio
<1>2. /\ stream'[s] = new /\ thread'[s] = NoThread /\ aa'[s] = NoAaudio
      /\ \A r \in Streams \ {s} : stream'[r] = stream[r] /\ thread'[r] = thread[r] /\ aa'[r] = aa[r]
    BY <1>1 DEF Replaced, StreamsType
<1>3. \A r \in Streams \ {s} : Notified(r)' <=> Notified(r)
    BY DEF Notified
<1>4. \A r \in Streams \ {s} : Status(r)' = Status(r) /\ (OnAaudio(r)' <=> OnAaudio(r))
    BY <1>2, <1>3, StatusStays
<1>5. \A from : Status(s) \in from => Promise!Turns(s, from, Status(s)')
    BY <1>4, Turned
<1>6. CASE new.open /\ new.api \in {"OpenSLES", "AAudio"} /\ ~new.started /\ Status(s) = "closed"
  <2>1. Status(s)' = "opened"
      BY <1>1, <1>2, <1>6 DEF Status, SlStatus, AaStatus
  <2>2. ~OnAaudio(s)
    <3>1. aa[s].data # "closed"
        BY <1>1 DEF StreamsType, AaudioType
    <3> QED
        BY <1>6, <3>1 DEF Status, SlStatus, AaStatus, OnAaudio
  <2>3. Repeating' \in {Repeating, Repeating \cup {s}}
      BY <1>4, <2>2 DEF Repeating
  <2>4. Promise!Opens(s)
      BY <1>5, <1>6, <2>1, <2>3 DEF Promise!Opens, Repeating
  <2> QED
      BY <2>4 DEF PromiseStep, Promise!Next
<1>7. CASE ~new.open /\ Status(s) \in {"opened", "finished"}
  <2>1. Status(s)' = "closed"
      BY <1>2, <1>7 DEF Status, SlStatus, AaStatus
  <2>2. ~OnAaudio(s)'
      BY <1>2, <1>7 DEF OnAaudio
  <2>3. Repeating' = Repeating \ {s}
      BY <1>4, <2>2 DEF Repeating
  <2>4. Promise!Closes(s)
      BY <1>5, <1>7, <2>1, <2>3 DEF Promise!Closes, Repeating
  <2> QED
      BY <2>4 DEF PromiseStep, Promise!Next
<1> QED
    BY <1>6, <1>7

LEMMA OpenTurns ==
    ASSUME Inv, Tame, NEW s \in Streams, Pa_OpenStream(s)
    PROVE  PromiseStep
<1>1. call = NoCall /\ call' = call /\ ~stream[s].open
    BY DEF Pa_OpenStream, Idle
<1>2. \/ UNCHANGED <<stream, thread, aa>>
      \/ \E api \in {"OpenSLES", "AAudio"}, mode \in {"callback", "blocking"}, ends \in BOOLEAN,
            sides \in SUBSET {"in", "out"} : Opens(s, api, mode, sides, ends)
    BY DEF Pa_OpenStream, Refused, SidesOf, slVars
<1>3. CASE UNCHANGED <<stream, thread, aa>>
    BY <1>1, <1>3, NoneTurns DEF Notified
<1>4. ASSUME NEW api \in {"OpenSLES", "AAudio"}, NEW mode \in {"callback", "blocking"}, NEW ends \in BOOLEAN,
             NEW sides \in SUBSET {"in", "out"}, Opens(s, api, mode, sides, ends)
      PROVE  PromiseStep
  <2> DEFINE new == [Closed EXCEPT !.open = TRUE, !.api = api, !.mode = mode, !.sides = sides, !.ends = ends]
  <2>1. Replaced(s, new)
      BY <1>4 DEF Opens, PaUtil_InitializeStreamRepresentation, SlOpens, Replaced
  <2>2. new.open /\ new.api = api /\ ~new.started
      BY DEF Closed
  <2> HIDE DEF new
  <2>3. Status(s) = "closed"
      BY <1>1 DEF Status, SlStatus, AaStatus
  <2> QED
      BY <1>1, <2>1, <2>2, <2>3, ReplacedTurns DEF NoCall
<1> QED
    BY <1>2, <1>3, <1>4

LEMMA CloseTurns ==
    ASSUME Inv, CloseStream
    PROVE  PromiseStep
<1>0. PICK s \in Streams : s = call.s /\ s # 0
    BY CallTypes DEF Inv, StreamsType, CloseStream, NoCall
<1>1. /\ StreamsType /\ call.at = "close" /\ call.s = s /\ CallOn(s) /\ SlInv(s) /\ AaInv(s) /\ ClosedInv(s)
      /\ stream[s] \in StreamType /\ aa[s] \in AaudioType
    BY <1>0 DEF Inv, StreamsType, CallInv, CloseStream
<1>2. Replaced(s, Closed) /\ call'.s = 0 /\ ~Closed.open
    BY <1>1 DEF CloseStream, SlOpens, Replaced, Within, NoCall, Closed
<1>3. /\ stream[s].open /\ stream[s].api \in {"OpenSLES", "AAudio"}
      /\ stream[s].isStopped \/ (OnOpenSles(s) /\ thread[s].pc = "joined")
    BY <1>1 DEF CallOn, ClosedInv, StreamType, Closed
<1>4. CASE stream[s].api = "OpenSLES"
  <2>1. /\ ~stream[s].started => thread[s].pc = "none"
        /\ stream[s].mode # "blocking" => thread[s].pc \in {"none", "joined"}
        /\ stream[s].mode = "blocking" => thread[s].pc = "none"
      BY <1>1, <1>3, <1>4 DEF SlInv, OnOpenSles, Joins
  <2>2. Status(s) \in {"opened", "finished"}
      BY <1>1, <1>3, <1>4, <2>1 DEF Status, SlStatus, AaStatus, OnOpenSles
  <2> QED
      BY <1>1, <1>2, <2>2, ReplacedTurns
<1>5. CASE stream[s].api = "AAudio"
  <2>1. AaClosed(s) /\ stream[s].isStopped
      BY <1>1, <1>3, <1>5 DEF CloseStream, OnOpenSles
  <2>2. Status(s) \in {"opened", "finished"}
      BY <1>3, <1>5, <2>1 DEF Status, SlStatus, AaStatus, AaClosed
  <2> QED
      BY <1>1, <1>2, <2>2, ReplacedTurns
<1> QED
    BY <1>3, <1>4, <1>5

\* Reading and writing, and what is of no stream.
LEMMA OthersTurnNothing ==
    ASSUME Inv,
           \/ Pa_Initialize \/ Pa_Terminate \/ Terminated \/ ReadStream \/ WriteStream
           \/ \E s \in Streams : Pa_ReadStream(s) \/ Pa_WriteStream(s)
           \/ \E s \in Streams, d \in {"out", "in"} : (SlPlays(s, d) \/ SlSticks(s, d)) /\ UNCHANGED aa
    PROVE  PromiseStep
<1> USE DEF Within, NoCall, slVars, frontVars, SameStreams
<1>1. CASE ReadStream \/ WriteStream
  <2>1. /\ UNCHANGED <<stream, thread, aa>> /\ call.op \in {"read", "write"} /\ call \in Calls
        /\ \/ call' = NoCall \/ call' = [op |-> call.op, s |-> call.s, at |-> "copy"]
           \/ call' = [call EXCEPT !.at = "sem"]
      BY <1>1 DEF ReadStream, WriteStream, Inv, StreamsType
  <2>2. call.at # "notify" /\ call'.at # "notify"
      BY <2>1, CallTypes DEF Calls
  <2> QED
      BY <2>1, <2>2, NoneTurns DEF Notified
<1>2. CASE Pa_Initialize \/ \E s \in Streams, d \in {"out", "in"} : (SlPlays(s, d) \/ SlSticks(s, d)) /\ UNCHANGED aa
  <2>1. UNCHANGED <<stream, thread, aa, call>>
      BY <1>2 DEF Pa_Initialize, SlPlays, SlSticks
  <2> QED
      BY <2>1, NoneTurns DEF Notified
<1>3. CASE Pa_Terminate \/ Terminated \/ \E s \in Streams : Pa_ReadStream(s) \/ Pa_WriteStream(s)
  <2>1. UNCHANGED <<stream, thread, aa>> /\ call.at \in {"none", "next"} /\ call'.at # "notify"
      BY <1>3 DEF Pa_Terminate, Terminated, Pa_ReadStream, Pa_WriteStream, Pa_ReadOrWriteStream, Idle
  <2> QED
      BY <2>1, NoneTurns DEF Notified
<1> QED
    BY <1>1, <1>2, <1>3

LEMMA PromiseNext ==
    ASSUME Inv, ListInv, Tame, Next
    PROVE  PromiseStep
<1>1. CASE Threads
    BY <1>1, ThreadTurns, AaudioTurns DEF Threads
<1>2. CASE Devices
    BY <1>2, AaudioTurns, OthersTurnNothing DEF Devices
<1>3. CASE CloseOpenStreams
  <2>1. Head(openStreams) \in Streams /\ stream[Head(openStreams)].open
    <3>1. openStreams \in Seq(Streams) /\ openStreams # << >>
        BY <1>3 DEF ListInv, CloseOpenStreams
    <3>2. Head(openStreams) \in ToSet(openStreams) /\ Head(openStreams) \in Streams
        BY <3>1 DEF ToSet
    <3> QED
        BY <3>1, <3>2 DEF ListInv
  <2> QED
      BY <1>3, <2>1, ClosesTurns DEF CloseOpenStreams
<1>4. ASSUME NEW s \in Streams, Pa_StopStream(s) \/ Pa_AbortStream(s)
      PROVE  PromiseStep
  <2>1. stream[s].open /\ ~stream[s].isStopped /\ call = NoCall
      BY <1>4 DEF Pa_StopStream, Pa_AbortStream, PaUtil_ValidateStreamPointer
  <2>2. call.at = "none"
      BY <2>1 DEF NoCall
  <2>3. Stops(s, "stop", FALSE, "done") \/ Stops(s, "abort", TRUE, "done")
      BY <1>4 DEF Pa_StopStream, Pa_AbortStream
  <2> QED
      BY <2>1, <2>2, <2>3, StopsTurns
<1>5. ASSUME NEW s \in Streams, Pa_CloseStream(s)
      PROVE  PromiseStep
  <2>1. stream[s].open /\ Idle /\ Closes(s, "close")
      BY <1>5 DEF Pa_CloseStream, PaUtil_ValidateStreamPointer
  <2> QED
      BY <2>1, ClosesTurns DEF Idle, NoCall
<1>6. CASE Pa_Initialize \/ Pa_Terminate \/ Terminated \/ ReadStream \/ WriteStream
           \/ \E s \in Streams : Pa_ReadStream(s) \/ Pa_WriteStream(s)
    BY <1>6, OthersTurnNothing
<1> QED
    BY <1>1, <1>2, <1>3, <1>4, <1>5, <1>6, OpenTurns, StartTurns, JoinTurns, DrainsTurn, CloseTurns
       DEF Next, Client, Waiting

\* Both host APIs keep the promise output_pa.c is written for: a stream is called between
\* its start and its end, one call at a time, and its finished callback follows its end.
THEOREM PromiseKept == ASSUME Tame PROVE Spec => KeepsPromise
<1>1. Init => Promise!Init
  <2> SUFFICES ASSUME Init PROVE Promise!Init
      OBVIOUS
  <2>1. stream = [s \in Streams |-> Closed] /\ ~Closed.open
      BY DEF Init, FrontInit, Closed
  <2>2. \A s \in Streams : Status(s) = "closed" /\ ~OnAaudio(s)
      BY <2>1 DEF Status, SlStatus, AaStatus, OnAaudio
  <2> QED
      BY <2>2 DEF Promise!Init
<1>2. SafeInv /\ [Next]_vars => [Promise!Next]_<<StatusOf, Repeating>>
  <2> SUFFICES ASSUME SafeInv, [Next]_vars PROVE PromiseStep
      BY DEF PromiseStep
  <2>1. CASE Next
      BY <2>1, PromiseNext DEF SafeInv
  <2>2. CASE UNCHANGED vars
    <3>1. UNCHANGED <<stream, thread, aa, call>>
        BY <2>2 DEF vars, frontVars, slVars
    <3> QED
        BY <3>1, NoneTurns DEF Notified
  <2> QED
      BY <2>1, <2>2
<1>3. SafeInv /\ [Next]_vars
         => [Promise!Next]_<<[s \in Streams |-> Status(s)], {s \in Streams : OnAaudio(s)}>>
    BY <1>2 DEF StatusOf, Repeating
<1> QED
    BY <1>1, <1>3, SafeAlways, PTL DEF Spec, KeepsPromise, Promise!Spec
=============================================================================
