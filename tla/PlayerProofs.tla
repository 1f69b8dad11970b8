---------------------------- MODULE PlayerProofs ----------------------------
(***************************************************************************)
(* What is proved of Player, for every value of its constants.             *)
(*                                                                         *)
(* First, 'q' leaves the player stopped and empty, and silent, whatever    *)
(* its threads were doing when it came.  The inductive invariant follows   *)
(* 'q' through its five regions.  Each region establishes one conjunct,    *)
(* which holds from then on because the regions before it stopped the      *)
(* threads that could break it: the decoder is stopped first and so writes *)
(* nothing into outputbuf once that is flushed, and the stream is closed   *)
(* before streambuf is flushed.                                            *)
(*                                                                         *)
(* Then the types, which the other theorems about Player rest on.  They    *)
(* say more than TypeOK where a step depends on it: units and histories    *)
(* are about streams that were started, what poll found room for has room  *)
(* when it is received, and the streams that are still on their way as     *)
(* commands fit under the bound.                                           *)
(*                                                                         *)
(* Then how the server and the controller take turns: a stream is opened   *)
(* only when the one before it is over, so what a tick saw of a stream is  *)
(* still about that stream when the tick reports it, although S was        *)
(* released in between.  HandInv says in which order the commands can come *)
(* and what they find.  The server starts a stream only after 'q' or 'f',  *)
(* or after an event that is about its last one and that the player sends  *)
(* only when that is over: so whenever the next of these commands is an    *)
(* 's', there is no stream.  This needs that every stream is started with  *)
(* its format: one whose format comes later leaves the decoder running,    *)
(* and the end of the stream before is taken for its own.                  *)
(***************************************************************************)
EXTENDS Player, FiniteSetTheorems, TLAPS

Code == DisconnectCode \cup {"none"}
Event == {"STMf", "STMp", "STMr", "STMc", "STMl", "STMd", "STMn", "STMs", "STMu",
          "STMo", "DSCO", "RESP"}
Ticks == [stream : StreamState, decode : DecodeState, send : SUBSET Event,
          code : Code, disconnect : BOOLEAN, start : BOOLEAN]

\* What the server sends of its repertoire.
OpCommands == [op : Ops, n : Intervals]
StartCommands == {[op |-> "s", autostart |-> k.autostart, file |-> k.file,
                   format |-> k.format] : k \in Starts}
ContCommands == [op : {"cont", "codc"}]
Commands == OpCommands \cup StartCommands \cup ContCommands

\* The types the argument needs.
Typed == /\ sstate \in StreamState /\ disconnect \in DisconnectCode
         /\ dstate \in DecodeState /\ due \in Intervals
         /\ tick \in Ticks /\ quiet \in BOOLEAN
         /\ cmdq \in Seq(Commands) /\ wanted \in Seq(ContCommands)

\* D protects the decoder's state: while the codec works it is RUNNING.
DecoderRuns == HoldsD => dstate = "DECODE_RUNNING"

Ticking == cpc \in {"tickD", "tickO", "send"}
TickLocals == ~Ticking => tick = NoTick

DecoderStopped ==
    cpc \in {"q_buffer", "q_output", "q_disconnect", "q_streambuf"} \/ quiet =>
        dstate = "DECODE_STOPPED"

OutputEmpty ==
    cpc \in {"q_output", "q_disconnect", "q_streambuf"} \/ quiet => readp = 0 /\ writep = 0

OutputStopped ==
    cpc \in {"q_disconnect", "q_streambuf"} \/ quiet =>
        ostate \in {"OUTPUT_STOPPED", "OUTPUT_OFF"}

StreamClosed == cpc = "q_streambuf" \/ quiet => sstate = "STOPPED" /\ fd = 0

StreamEmpty == quiet => sbuf = << >>

\* A tick that runs meanwhile found nothing to report but a track start.
TickQuiet == quiet => /\ cpc = "idle" \/ Ticking
                      /\ ~tick.start /\ tick.send \subseteq {"STMs"}

IInv == /\ Typed /\ DecoderRuns /\ TickLocals
        /\ DecoderStopped /\ OutputEmpty /\ OutputStopped
        /\ StreamClosed /\ StreamEmpty /\ TickQuiet

USE PipelineAssumption DEF HoldsD

------------------------------------------------------------------------------
LEMMA InitInv == Init => IInv
  BY DEF Intervals, Init, PipelineInit, OutputInit, ControllerInit, IInv, Typed, DecoderRuns, TickLocals,
         DecoderStopped, OutputEmpty, OutputStopped, StreamClosed, StreamEmpty, TickQuiet,
         Ticking, Ticks, NoTick, StreamState, DisconnectCode, DecodeState, Code

\* What the controller does not own is not touched by the threads.
ControllerKept ==
    UNCHANGED <<cpc, cmd, autostart, sentSTMl, sentSTMu, sentSTMo, tick, snum, flushed,
                trimmed, serverVars>>

LEMMA StreamInv == IInv /\ StreamStep /\ ControllerKept => IInv'
<1> SUFFICES ASSUME IInv, StreamStep, ControllerKept PROVE IInv'
  OBVIOUS
<1> USE DEF ControllerKept, serverVars
<1>1. /\ sstate' \in StreamState /\ disconnect' \in DisconnectCode
      /\ sstate = "STOPPED" /\ fd = 0 => sstate' = sstate /\ fd' = fd /\ sbuf' = sbuf
  <2>1. CASE ReadFile BY <2>1 DEF ReadFile, IInv, Typed, Receive, Disconnect, SetDisconnect,
                                  StreamState, DisconnectCode
  <2>2. CASE PollSocket BY <2>2 DEF PollSocket, IInv, Typed
  <2>3. CASE PollStale BY <2>3 DEF PollStale, IInv, Typed
  <2>4. CASE SendHeader BY <2>4 DEF SendHeader, IInv, Typed, SetDisconnect, StreamState,
                                    DisconnectCode
  <2>5. CASE RecvHeaders BY <2>5 DEF RecvHeaders, IInv, Typed, Disconnect, SetDisconnect,
                                     HeaderDone, StreamState, DisconnectCode
  <2>6. CASE RecvBody BY <2>6 DEF RecvBody, IInv, Typed, Receive, Disconnect, SetDisconnect,
                                  StreamState, DisconnectCode
  <2> QED BY <2>1, <2>2, <2>3, <2>4, <2>5, <2>6 DEF StreamStep
<1>2. UNCHANGED <<dstate, dpc, ostate, readp, writep, due>>
  BY DEF StreamStep, decodeVars, outputVars
<1> QED BY <1>1, <1>2 DEF IInv, Typed, DecoderRuns, TickLocals, DecoderStopped, OutputEmpty,
                          OutputStopped, StreamClosed, StreamEmpty, TickQuiet, Ticking

LEMMA DecodeInv == IInv /\ DecodeStep /\ ControllerKept => IInv'
<1> SUFFICES ASSUME IInv, DecodeStep, ControllerKept PROVE IInv'
  OBVIOUS
<1> USE DEF ControllerKept, serverVars
<1>1. /\ dstate' \in DecodeState
      /\ dstate = "DECODE_STOPPED" => UNCHANGED <<dstate, readp, writep, sbuf>>
      /\ dpc' \in {"start", "write"} => dstate' = "DECODE_RUNNING"
  <2> USE DEF IInv, Typed, DecoderRuns, streamVars, outputVars
  <2>1. CASE LookStream BY <2>1 DEF LookStream
  <2>2. CASE LookOutput BY <2>2 DEF LookOutput
  <2>3. CASE NotRan BY <2>3 DEF NotRan
  <2>4. CASE CodecInput BY <2>4 DEF CodecInput, MayDecode
  <2>5. CASE CodecTrackStart BY <2>5 DEF CodecTrackStart
  <2>6. CASE CodecWrite BY <2>6 DEF CodecWrite, DecodeState
  <2> QED BY <2>1, <2>2, <2>3, <2>4, <2>5, <2>6 DEF DecodeStep
<1>2. UNCHANGED <<sstate, disconnect, fd, ostate, due>>
  BY DEF DecodeStep, LookStream, LookOutput, NotRan, CodecInput, CodecTrackStart, CodecWrite,
         streamVars, outputVars
<1> QED BY <1>1, <1>2 DEF IInv, Typed, DecoderRuns, TickLocals, DecoderStopped, OutputEmpty,
                          OutputStopped, StreamClosed, StreamEmpty, TickQuiet, Ticking

\* Nothing is skipped in an empty buffer, and a stopped output stays stopped.
LEMMA OutputInv == IInv /\ _output_frames /\ ControllerKept => IInv'
<1> SUFFICES ASSUME IInv, _output_frames, ControllerKept PROVE IInv'
  OBVIOUS
<1> USE DEF ControllerKept, serverVars
<1>1. due' \in Intervals
  BY DEF Intervals, IInv, Typed, _output_frames, PeriodState
<1>2. ostate \in {"OUTPUT_STOPPED", "OUTPUT_OFF"} => ostate' = ostate
  BY DEF _output_frames, PeriodState
<1>3. readp = 0 /\ writep = 0 => readp' = 0 /\ writep' = 0
  <2> SUFFICES ASSUME readp = 0, writep = 0 PROVE readp' = 0 /\ writep' = 0
    OBVIOUS
  <2>1. Used = 0 /\ Skipped = 0 /\ Ahead(readp, Skipped) = 0
    BY DEF Used, Skipped, Ahead, IInv, Typed, PipelineAssumption, Intervals
  <2> QED BY <2>1 DEF _output_frames
<1>4. UNCHANGED <<sstate, disconnect, fd, sbuf, dstate, dpc>>
  BY DEF _output_frames, streamVars, decodeVars
<1> QED BY <1>1, <1>2, <1>3, <1>4 DEF IInv, Typed, DecoderRuns, TickLocals, DecoderStopped,
      OutputEmpty, OutputStopped, StreamClosed, StreamEmpty, TickQuiet, Ticking

LEMMA ServerInv == IInv /\ Server => IInv'
<1> SUFFICES ASSUME IInv, Server PROVE IInv'
  OBVIOUS
<1>1. UNCHANGED <<sstate, disconnect, fd, sbuf, dstate, dpc, ostate, readp, writep, due, cpc,
                  tick, quiet>>
  BY DEF Server, SendsOp, SendsStart, SendsCont, streamVars, decodeVars, outputVars
<1>2. cmdq' \in Seq(Commands) /\ wanted' \in Seq(ContCommands)
  <2> USE DEF IInv, Typed
  <2>1. CASE SendsOp
    <3>1. PICK op \in Ops, n \in Intervals : cmdq' = Append(cmdq, [op |-> op, n |-> n])
      BY <2>1 DEF SendsOp
    <3>2. [op |-> op, n |-> n] \in Commands
      BY DEF Commands, OpCommands
    <3> QED BY <2>1, <3>1, <3>2 DEF SendsOp
  <2>2. CASE SendsStart
    <3>1. PICK k \in Starts :
            /\ cmdq' = Append(cmdq, [op |-> "s", autostart |-> k.autostart,
                                     file |-> k.file, format |-> k.format])
            /\ wanted' = IF k.file \/ k.autostart < 2 THEN << >>
                         ELSE IF k.format = "?" THEN <<[op |-> "codc"], [op |-> "cont"]>>
                         ELSE <<[op |-> "cont"]>>
      BY <2>2 DEF SendsStart
    <3>3. [op |-> "s", autostart |-> k.autostart, file |-> k.file, format |-> k.format]
             \in Commands
      BY DEF Commands, StartCommands
    <3>4. [op |-> "codc"] \in ContCommands /\ [op |-> "cont"] \in ContCommands
      BY DEF ContCommands
    <3> QED BY <3>1, <3>3, <3>4
  <2>3. CASE SendsCont
    <3>1. wanted \in Seq(Commands)
      BY DEF Commands
    <3> QED BY <2>3, <3>1 DEF SendsCont
  <2> QED BY <2>1, <2>2, <2>3 DEF Server
<1> QED BY <1>1, <1>2 DEF IInv, Typed, DecoderRuns, TickLocals, DecoderStopped, OutputEmpty,
      OutputStopped, StreamClosed, StreamEmpty, TickQuiet, Ticking

------------------------------------------------------------------------------
(* The controller *)

\* Only 'q' in its last step makes the player quiet; of the commands, cont alone
\* leaves it so.
LEMMA ExecuteInv == IInv /\ Execute => IInv'
<1> SUFFICES ASSUME IInv, Execute PROVE IInv'
  OBVIOUS
<1> DEFINE c == Head(cmdq)
<1>1. c \in Commands /\ cmdq' \in Seq(Commands) /\ wanted' \in Seq(ContCommands)
  BY DEF IInv, Typed, Execute, Hears
<1>2. c.op \in {"p", "a", "u"} => c.n \in Intervals
  BY <1>1 DEF Commands, OpCommands, StartCommands, ContCommands
<1>3. cpc = "idle" /\ quiet' = (quiet /\ c.op = "cont")
  BY DEF Execute, StrmStop, StrmFlush, StrmPause, StrmSkip, StrmUnpause, StrmStart, Cont, Codc
<1> HIDE DEF c
<1> USE DEF IInv, Typed, DecoderRuns, TickLocals, DecoderStopped, OutputEmpty, OutputStopped,
            StreamClosed, StreamEmpty, TickQuiet, Ticking, LocalsKept, Goto, streamVars,
            decodeVars, outputVars
<1>4. CASE c.op = "q" /\ StrmStop
  BY <1>1, <1>3, <1>4 DEF StrmStop, decode_flush, DecodeState
<1>5. CASE c.op = "f" /\ StrmFlush
  BY <1>1, <1>3, <1>5 DEF StrmFlush, decode_flush, DecodeState
<1>6. CASE c.op = "p" /\ StrmPause(c.n)
  BY <1>1, <1>2, <1>3, <1>6 DEF StrmPause, SetOutput
<1>7. CASE c.op = "a" /\ StrmSkip(c.n)
  BY <1>1, <1>2, <1>3, <1>7 DEF StrmSkip, SetOutput
<1>8. CASE c.op = "u" /\ StrmUnpause(c.n)
  BY <1>1, <1>2, <1>3, <1>8 DEF StrmUnpause, SetOutput
<1>9. CASE c.op = "s" /\ StrmStart(c)
  BY <1>1, <1>3, <1>9 DEF StrmStart, codec_open, DecodeState
<1>10. CASE c.op = "cont" /\ Cont
  BY <1>1, <1>3, <1>10 DEF Cont, StreamState
<1>11. CASE c.op = "codc" /\ Codc(TRUE)
  BY <1>1, <1>3, <1>11 DEF Codc, codec_open, DecodeState
<1> QED BY <1>4, <1>5, <1>6, <1>7, <1>8, <1>9, <1>10, <1>11 DEF Execute, c

LEMMA TickInv == IInv /\ Tick => IInv'
<1> SUFFICES ASSUME IInv, Tick PROVE IInv'
  OBVIOUS
<1>1. tick' \in Ticks
  BY DEF IInv, Typed, Tick, TickStream, Ticks, NoTick, Code, Event, DisconnectCode, DecodeState,
         StreamState
<1>2. quiet => ~tick'.start /\ tick'.send = {}
  BY DEF Tick, TickStream, IInv, StreamClosed, NoTick
<1> QED BY <1>1, <1>2 DEF Tick, TickStream, Hears, Goto, IInv, Typed, DecoderRuns, TickLocals,
      DecoderStopped, OutputEmpty, OutputStopped, StreamClosed, StreamEmpty, TickQuiet, Ticking,
      StreamState, decodeVars, outputVars

LEMMA ContinueInv == IInv /\ Continue => IInv'
<1> SUFFICES ASSUME IInv, Continue PROVE IInv'
  OBVIOUS
<1>1. /\ quiet' = (quiet \/ cpc = "q_streambuf")
      /\ UNCHANGED <<cmdq, wanted>> /\ ControllerStep
  BY DEF Continue, Hears
<1> USE DEF IInv, Typed, DecoderRuns, TickLocals, DecoderStopped, OutputEmpty, OutputStopped,
            StreamClosed, StreamEmpty, TickQuiet, Ticking, LocalsKept, Goto, streamVars,
            decodeVars, outputVars
<1>2. CASE StopFlush BY <1>1, <1>2 DEF StopFlush, FlushOutputbuf
<1>3. CASE StopOutputToo BY <1>1, <1>3 DEF StopOutputToo, StopOutput
<1>4. CASE StopStream BY <1>1, <1>4 DEF StopStream, StreamDisconnect, StreamState
<1>5. CASE FlushStreaming BY <1>1, <1>5 DEF FlushStreaming, output_flush_streaming
<1>6. CASE FlushStream BY <1>1, <1>6 DEF FlushStream, StreamDisconnect, StreamState
<1>7. CASE EmptyStreambuf BY <1>1, <1>7 DEF EmptyStreambuf, FlushStreambuf, NoTick
<1>8. CASE ConnectFails
  BY <1>1, <1>8 DEF ConnectFails, SockUnreachable, SetDisconnect, Started, StreamState,
                    DisconnectCode
<1>9. CASE Connect BY <1>1, <1>9 DEF Connect, FlushStreambuf
<1>10. CASE OpenSocket BY <1>1, <1>10 DEF OpenSocket, SockConnected, Started, StreamState
<1>11. CASE OpenFile BY <1>1, <1>11 DEF OpenFile, FileOpened, Started, StreamState
<1>12. CASE TickDecode
  <2>1. dstate' \in DecodeState /\ tick' \in Ticks
    <3>1. dstate' \in DecodeState
      BY <1>12 DEF TickDecode, DecodeState
    <3>2. /\ (StartsDecode /\ autostart = 1) \in BOOLEAN
          /\ (DecodeDone /\ tick.stream \in {"STREAMING_HTTP", "STREAMING_FILE"}) \in BOOLEAN
      OBVIOUS
    <3>3. tick \in Ticks
      OBVIOUS
    <3> HIDE DEF IInv, Typed, DecoderRuns, TickLocals, DecoderStopped, OutputEmpty,
                 OutputStopped, StreamClosed, StreamEmpty, TickQuiet, StartsDecode, DecodeDone
    <3> DEFINE send == tick.send \cup (IF StartsDecode /\ autostart = 0 THEN {"STMl"} ELSE {})
                                 \cup (IF dstate = "DECODE_COMPLETE" THEN {"STMd"} ELSE {})
                                 \cup (IF dstate = "DECODE_ERROR" THEN {"STMn"} ELSE {})
    <3>4. send \in SUBSET Event
      BY <3>3 DEF Ticks, Event
    <3>5. tick' = [tick EXCEPT !.decode = dstate', !.send = send,
                     !.start = StartsDecode /\ autostart = 1,
                     !.disconnect = DecodeDone /\ tick.stream \in {"STREAMING_HTTP", "STREAMING_FILE"}]
      BY <1>12 DEF TickDecode
    <3> HIDE DEF send
    <3> QED BY <3>1, <3>2, <3>3, <3>4, <3>5 DEF Ticks
  <2>2. quiet => ~tick'.start /\ tick'.send \subseteq {"STMs"} /\ dstate' = dstate
    BY <1>12 DEF TickDecode, StartsDecode, DecodeDone, Ticks
  <2> QED BY <1>1, <1>12, <2>1, <2>2 DEF TickDecode
<1>13. CASE TickOutput
  <2>1. tick' \in Ticks
    BY <1>13 DEF TickOutput, Ticks, Event
  <2>2. quiet => ~Underrun /\ ~Starving /\ ~StartsOutput
    BY DEF Underrun, Starving, StartsOutput
  <2>3. quiet => ~tick'.start /\ tick'.send \subseteq {"STMs"}
    BY <1>13, <2>2 DEF TickOutput, Ticks
  <2> QED BY <1>1, <1>13, <2>1, <2>2, <2>3 DEF TickOutput
<1>14. CASE TickSend
  BY <1>1, <1>14 DEF TickSend, StreamDisconnect, StreamState, NoTick, Ticks, Code,
                     DisconnectCode, DecodeState
<1> QED BY <1>1, <1>2, <1>3, <1>4, <1>5, <1>6, <1>7, <1>8, <1>9, <1>10, <1>11, <1>12, <1>13,
           <1>14 DEF ControllerStep

LEMMA ThreadsInv == IInv /\ Threads => IInv'
<1> SUFFICES ASSUME IInv, Threads PROVE IInv'
  OBVIOUS
<1>1. ControllerKept
  BY DEF Threads, ControllerKept
<1> QED BY <1>1, StreamInv, DecodeInv, OutputInv DEF Threads

LEMMA StutterInv == IInv /\ UNCHANGED vars => IInv'
  BY DEF vars, streamVars, decodeVars, outputVars, controlVars, serverVars, IInv, Typed,
         DecoderRuns, TickLocals, DecoderStopped, OutputEmpty, OutputStopped, StreamClosed,
         StreamEmpty, TickQuiet, Ticking

LEMMA Invariance == Spec => []IInv
<1>1. IInv /\ [Next]_vars => IInv'
  BY ServerInv, ThreadsInv, ExecuteInv, TickInv, ContinueInv, StutterInv DEF Next
<1> QED BY <1>1, InitInv, PTL DEF Spec

------------------------------------------------------------------------------
\* After 'q' and until the next command the player is stopped and empty
\* (process_strm 'q', slimproto.c:295-305).
THEOREM StopQuiesces == Spec => []Quiesced
<1>1. IInv => Quiesced
  BY DEF IInv, Quiesced, DecoderRuns, DecoderStopped, OutputEmpty, OutputStopped, StreamClosed,
         StreamEmpty, Used
<1> QED BY <1>1, Invariance, PTL

\* After 'q' and until the next command the server is told of no end, failure or
\* start of what was stopped: the events a tick found earlier were sent before.
THEOREM StopIsSilent == Spec => QuietIsSilent
<1> DEFINE Silent == quiet => sent' \cap {"STMd", "STMn", "STMl", "STMu", "STMo", "DSCO",
                                          "RESP"} = {}
<1>1. ASSUME IInv, Next, quiet PROVE sent' \subseteq {"STMs", "STMf", "STMp", "STMr", "STMc"}
  <2>1. CASE Server BY <2>1 DEF Server
  <2>2. CASE Threads BY <2>2 DEF Threads
  <2>3. CASE Execute
    BY <2>3 DEF Execute, StrmStop, StrmFlush, StrmPause, StrmSkip, StrmUnpause, StrmStart,
                Cont, Codc, Goto
  <2>4. CASE Tick BY <2>4 DEF Tick, TickStream, Goto
  <2>5. CASE Continue
    <3>1. tick.send \subseteq {"STMs"}
      BY <1>1 DEF IInv, TickQuiet
    <3> QED BY <2>5, <3>1 DEF Continue, ControllerStep, StopFlush, StopOutputToo, StopStream,
                 FlushStreaming, FlushStream, EmptyStreambuf, ConnectFails, Connect,
                 OpenSocket, OpenFile, Started, TickDecode, TickOutput, TickSend, Goto
  <2> QED BY <1>1, <2>1, <2>2, <2>3, <2>4, <2>5 DEF Next
<1>2. IInv /\ [Next]_vars => [Silent]_vars
  BY <1>1
<1>3. [][Silent]_vars => QuietIsSilent
  BY PTL DEF QuietIsSilent
<1> QED BY <1>2, <1>3, Invariance, PTL DEF Spec

USE ServerAssumption DEF PipelineAssumption, ServerAssumption

------------------------------------------------------------------------------
(* Types.  A unit is of a stream that was started, and the streams that are *)
(* still to be started are counted with those the server asked for.        *)

Known == {u \in Unit : u[1] <= snum}

StreamTypes ==
    /\ sstate \in StreamState /\ disconnect \in DisconnectCode
    /\ fd \in 0 .. snum /\ bytes \in 0 .. MaxLen
    /\ sbuf \in Seq(Known) /\ Len(sbuf) <= StreamCap
    /\ spc \in {"top", "in", "out"} /\ why \in DisconnectCode \cup {"none"}
    /\ got \in [Stream -> 0 .. MaxLen]

\* What poll found room for still has room when it is received.
RoomPolled == spc = "in" => Len(sbuf) < StreamCap

DecodeTypes ==
    /\ dstate \in DecodeState
    /\ dpc \in {"stream", "output", "lock", "start", "write"}
    /\ held \in Known \cup {NoUnit}

OutputTypes ==
    /\ ostate \in OutputState
    /\ mem \in [0 .. OutSlots - 1 -> Known \cup {NoUnit}]
    /\ readp \in 0 .. OutSlots - 1 /\ writep \in 0 .. OutSlots - 1
    /\ trackStart \in {NULL} \cup (0 .. OutSlots - 1)
    /\ played \in Known \cup {NoUnit} /\ started \in 0 .. MaxStreams

Opening == cpc \in {"connect", "open"}

ControlTypes ==
    /\ autostart \in -2 .. 3
    /\ Opening => autostart \in 0 .. 3 /\ snum > 0
    /\ snum \in 0 .. MaxStreams /\ flushed \in 0 .. snum /\ trimmed \subseteq 0 .. snum

ServerTypes ==
    /\ srv \in {"idle", "sent", "busy"} /\ ncmd \in 0 .. MaxCmds
    /\ snum + Cardinality(Pending) <= MaxStreams /\ IsFiniteSet(Pending)

Flags ==
    /\ isFile \in BOOLEAN /\ sentHeaders \in BOOLEAN /\ contWait \in BOOLEAN
    /\ newStream \in BOOLEAN /\ codec \in BOOLEAN /\ eos \in BOOLEAN
    /\ look \in [data : BOOLEAN, toend : BOOLEAN, room : BOOLEAN]
    /\ trackStarted \in BOOLEAN
    /\ sentSTMl \in BOOLEAN /\ sentSTMu \in BOOLEAN /\ sentSTMo \in BOOLEAN

Types == StreamTypes /\ RoomPolled /\ DecodeTypes /\ OutputTypes /\ ControlTypes /\ ServerTypes

LEMMA KnownUnits == Types => Known \subseteq Unit /\ snum \in Nat
BY DEF Types, ControlTypes, Known

LEMMA TypesInit == Init => Types /\ Flags
<1> SUFFICES ASSUME Init PROVE Types /\ Flags
    OBVIOUS
<1> USE DEF Init, PipelineInit, OutputInit, ControllerInit
<1>1. StreamTypes /\ RoomPolled
    BY DEF StreamTypes, RoomPolled, StreamState, DisconnectCode
<1>2. DecodeTypes
    BY DEF DecodeTypes, DecodeState
<1>3. OutputTypes
  <2>1. mem \in [0 .. OutSlots - 1 -> Known \cup {NoUnit}] /\ ostate \in OutputState
      BY DEF OutputState
  <2> QED
      BY <2>1 DEF OutputTypes
<1>4. ControlTypes
    BY DEF ControlTypes, Opening
<1>5. ServerTypes
  <2>1. Pending = {}
      BY DEF Pending
  <2> QED
      BY <2>1, FS_EmptySet DEF ServerTypes
<1>6. Flags
    BY DEF Flags, NoLook
<1> QED
    BY <1>1, <1>2, <1>3, <1>4, <1>5, <1>6 DEF Types

(* What a step leaves alone keeps its type. *)

LEMMA KnownKept == snum' = snum => Known' = Known
BY DEF Known

LEMMA StreamKept ==
    StreamTypes /\ RoomPolled /\ UNCHANGED <<streamVars, snum>> => StreamTypes' /\ RoomPolled'
BY KnownKept DEF StreamTypes, RoomPolled, streamVars

LEMMA DecodeKept == DecodeTypes /\ UNCHANGED <<decodeVars, snum>> => DecodeTypes'
BY KnownKept DEF DecodeTypes, decodeVars

LEMMA OutputKept == OutputTypes /\ UNCHANGED <<outputVars, snum>> => OutputTypes'
BY KnownKept DEF OutputTypes, outputVars

LEMMA ControlKept ==
    ControlTypes /\ UNCHANGED <<cpc, autostart, snum, flushed, trimmed>> => ControlTypes'
BY DEF ControlTypes, Opening

LEMMA ServerKept == ServerTypes /\ UNCHANGED <<cmdq, srv, ncmd, snum>> => ServerTypes'
BY DEF ServerTypes, Pending

(* The threads *)

LEMMA ReceiveTyped ==
    ASSUME Types, fd # 0, snum' = snum, Receive, Len(sbuf) < StreamCap
    PROVE  /\ sbuf' \in Seq(Known) /\ Len(sbuf') <= StreamCap
           /\ bytes' \in 0 .. MaxLen /\ got' \in [Stream -> 0 .. MaxLen]
<1>1. /\ fd \in 1 .. MaxStreams /\ fd <= snum /\ bytes \in 0 .. MaxLen /\ bytes < MaxLen
      /\ sbuf \in Seq(Known) /\ Len(sbuf) \in Nat /\ got \in [Stream -> 0 .. MaxLen]
    BY DEF Types, StreamTypes, ControlTypes, Receive
<1>2. <<fd, bytes + 1>> \in Known
    BY <1>1 DEF Known, Unit, Stream
<1>3. sbuf' = Append(sbuf, <<fd, bytes + 1>>)
    BY DEF Receive
<1>4. sbuf' \in Seq(Known) /\ Len(sbuf') = Len(sbuf) + 1
    BY <1>1, <1>2, <1>3
<1>5. bytes' = bytes + 1 /\ got' = [got EXCEPT ![fd] = bytes + 1]
    BY DEF Receive
<1>6. bytes + 1 \in 0 .. MaxLen
    BY <1>1
<1>7. got' \in [Stream -> 0 .. MaxLen]
    BY <1>1, <1>5, <1>6
<1> QED
    BY <1>1, <1>4, <1>5, <1>6, <1>7

\* What a step of stream_thread does to the stream, whichever it is.
LEMMA StreamMoves ==
    ASSUME Types, StreamStep
    PROVE  /\ UNCHANGED <<decodeVars, outputVars, isFile, sentHeaders, contWait>>
           /\ sstate' \in StreamState /\ disconnect' \in DisconnectCode
           /\ why' \in DisconnectCode \cup {"none"} /\ spc' \in {"top", "in", "out"}
           /\ fd' \in {fd, 0}
           /\ spc' = "in" => Len(sbuf) < StreamCap /\ sbuf' = sbuf
           /\ \/ UNCHANGED <<bytes, sbuf, got>>
              \/ Receive /\ fd # 0 /\ fd' = fd /\ Len(sbuf) < StreamCap
<1>1. /\ sstate \in StreamState /\ disconnect \in DisconnectCode
      /\ why \in DisconnectCode \cup {"none"} /\ spc \in {"top", "in", "out"}
      /\ spc = "in" => Len(sbuf) < StreamCap
    BY DEF Types, StreamTypes, RoomPolled
<1> USE DEF StreamState, DisconnectCode, SetDisconnect, Disconnect
<1>2. UNCHANGED <<decodeVars, outputVars>>
    BY DEF StreamStep
<1>3. CASE ReadFile
    BY <1>1, <1>2, <1>3 DEF ReadFile, Receive
<1>4. CASE PollSocket
    BY <1>1, <1>2, <1>4 DEF PollSocket
<1>5. CASE PollStale
    BY <1>1, <1>2, <1>5 DEF PollStale
<1>6. CASE SendHeader
    BY <1>1, <1>2, <1>6 DEF SendHeader
<1>7. CASE RecvHeaders
    BY <1>1, <1>2, <1>7 DEF RecvHeaders, HeaderDone
<1>8. CASE RecvBody
    BY <1>1, <1>2, <1>8 DEF RecvBody, Receive
<1> QED
    BY <1>3, <1>4, <1>5, <1>6, <1>7, <1>8 DEF StreamStep

LEMMA StreamTyped == Types /\ StreamStep /\ ControllerKept => Types'
<1> SUFFICES ASSUME Types, StreamStep, ControllerKept PROVE Types'
    OBVIOUS
<1>1. UNCHANGED <<decodeVars, outputVars, cpc, autostart, snum, flushed, trimmed,
                  cmdq, srv, ncmd>>
    BY DEF StreamStep, ControllerKept, serverVars
<1>2. DecodeTypes' /\ OutputTypes' /\ ControlTypes' /\ ServerTypes'
    BY <1>1, DecodeKept, OutputKept, ControlKept, ServerKept DEF Types
<1>3. Known' = Known /\ snum' = snum
    BY <1>1, KnownKept
<1>4. /\ sbuf' \in Seq(Known) /\ Len(sbuf') <= StreamCap
      /\ bytes' \in 0 .. MaxLen /\ got' \in [Stream -> 0 .. MaxLen]
  <2>1. CASE UNCHANGED <<bytes, sbuf, got>>
      BY <2>1 DEF Types, StreamTypes
  <2> QED
      BY <1>3, <2>1, StreamMoves, ReceiveTyped
<1>5. fd' \in 0 .. snum
    BY StreamMoves DEF Types, StreamTypes, ControlTypes
<1>6. StreamTypes'
    BY <1>3, <1>4, <1>5, StreamMoves DEF StreamTypes
<1>7. RoomPolled'
    BY StreamMoves DEF RoomPolled
<1> QED
    BY <1>2, <1>6, <1>7 DEF Types

LEMMA DecodeTyped == Types /\ DecodeStep /\ ControllerKept => Types'
<1> SUFFICES ASSUME Types, DecodeStep, ControllerKept PROVE Types'
    OBVIOUS
<1>1. UNCHANGED <<cpc, autostart, snum, flushed, trimmed, cmdq, srv, ncmd>>
    BY DEF ControllerKept, serverVars
<1>2. ControlTypes' /\ ServerTypes'
    BY <1>1, ControlKept, ServerKept DEF Types
<1>3. Known' = Known /\ snum' = snum
    BY <1>1, KnownKept
<1> USE DEF Types
<1>4. CASE LookStream \/ LookOutput \/ NotRan
  <2>1. DecodeTypes'
      BY <1>3, <1>4 DEF LookStream, LookOutput, NotRan, DecodeTypes
  <2>2. UNCHANGED <<streamVars, outputVars, snum>>
      BY <1>3, <1>4 DEF LookStream, LookOutput, NotRan
  <2> QED
      BY <1>2, <2>1, <2>2, StreamKept, OutputKept
<1>5. CASE CodecInput
  <2>1. sbuf \in Seq(Known) /\ Len(sbuf) \in Nat
      BY DEF StreamTypes
  <2>2. /\ sbuf' \in Seq(Known) /\ Len(sbuf') <= Len(sbuf) /\ Len(sbuf') \in Nat
        /\ held' \in Known \cup {NoUnit}
      BY <1>5, <2>1 DEF CodecInput
  <2>3. DecodeTypes'
      BY <1>3, <1>5, <2>2 DEF CodecInput, DecodeTypes
  <2>4. StreamTypes' /\ RoomPolled'
      BY <1>3, <1>5, <2>1, <2>2 DEF CodecInput, StreamTypes, RoomPolled
  <2>5. OutputTypes'
      BY <1>3, <1>5, OutputKept DEF CodecInput
  <2> QED
      BY <1>2, <2>3, <2>4, <2>5
<1>6. CASE CodecTrackStart
  <2>1. DecodeTypes'
      BY <1>3, <1>6 DEF CodecTrackStart, DecodeTypes
  <2>2. OutputTypes'
      BY <1>3, <1>6 DEF CodecTrackStart, OutputTypes
  <2>3. StreamTypes' /\ RoomPolled'
      BY <1>3, <1>6, StreamKept DEF CodecTrackStart
  <2> QED
      BY <1>2, <2>1, <2>2, <2>3
<1>7. CASE CodecWrite
  <2>1. DecodeTypes'
      BY <1>3, <1>7 DEF CodecWrite, DecodeTypes, DecodeState
  <2>2. mem' \in [0 .. OutSlots - 1 -> Known \cup {NoUnit}]
      BY <1>3, <1>7 DEF CodecWrite, OutputTypes, DecodeTypes
  <2>3. writep' \in 0 .. OutSlots - 1
      BY <1>7 DEF CodecWrite, OutputTypes, Ahead
  <2>4. OutputTypes'
      BY <1>3, <1>7, <2>2, <2>3 DEF CodecWrite, OutputTypes
  <2>5. StreamTypes' /\ RoomPolled'
      BY <1>3, <1>7, StreamKept DEF CodecWrite
  <2> QED
      BY <1>2, <2>1, <2>4, <2>5
<1> QED
    BY <1>4, <1>5, <1>6, <1>7 DEF DecodeStep

(* outputbuf *)

LEMMA Measured ==
    ASSUME OutputTypes
    PROVE  /\ Used \in 0 .. OutSlots - 1 /\ Space = OutSlots - Used - 1
           /\ readp \in 0 .. OutSlots - 1 /\ writep \in 0 .. OutSlots - 1
           /\ \A p, n \in 0 .. OutSlots - 1 : Ahead(p, n) \in 0 .. OutSlots - 1
           /\ writep = Ahead(readp, Used)
BY DEF OutputTypes, Used, Space, Ahead

LEMMA SkipsLess == OutputTypes /\ due \in Intervals => Skipped \in 0 .. Used
<1> SUFFICES ASSUME OutputTypes, due \in Intervals PROVE Skipped \in 0 .. Used
    OBVIOUS
<1>1. Used \in Nat /\ due \in {0, 1}
    BY Measured DEF Intervals
<1> QED
    BY <1>1 DEF Skipped

LEMMA OutputTyped == Types /\ IInv /\ _output_frames /\ ControllerKept => Types'
<1> SUFFICES ASSUME Types, IInv, _output_frames, ControllerKept PROVE Types'
    OBVIOUS
<1>1. UNCHANGED <<streamVars, decodeVars, cpc, autostart, snum, flushed, trimmed,
                  cmdq, srv, ncmd>>
    BY DEF _output_frames, ControllerKept, serverVars
<1>2. StreamTypes' /\ RoomPolled' /\ DecodeTypes' /\ ControlTypes' /\ ServerTypes'
    BY <1>1, StreamKept, DecodeKept, ControlKept, ServerKept DEF Types
<1>3. OutputTypes /\ Known' = Known /\ snum \in 0 .. MaxStreams
    BY <1>1, KnownKept DEF Types, ControlTypes
<1> DEFINE at == Ahead(readp, Skipped)
<1>4. at \in 0 .. OutSlots - 1 /\ Ahead(at, 1) \in 0 .. OutSlots - 1
  <2>1. Skipped \in 0 .. OutSlots - 1 /\ 1 \in 0 .. OutSlots - 1
      BY <1>3, Measured, SkipsLess DEF IInv, Typed
  <2> QED
      BY <1>3, <2>1, Measured
<1>5. mem[at] \in Known \cup {NoUnit} /\ mem[at][1] \in 0 .. MaxStreams
    BY <1>3, <1>4 DEF OutputTypes, Known, Unit, Stream, NoUnit
<1>6. ostate' \in OutputState
    BY <1>3 DEF _output_frames, PeriodState, OutputTypes, OutputState
<1>7. /\ mem' = mem /\ writep' = writep
      /\ readp' \in {at, Ahead(at, 1)}
      /\ trackStart' \in {trackStart, NULL}
      /\ played' \in {played, mem[at]} /\ started' \in {started, mem[at][1]}
    BY DEF _output_frames
<1> HIDE DEF at
<1>8. OutputTypes'
    BY <1>3, <1>4, <1>5, <1>6, <1>7 DEF OutputTypes
<1> QED
    BY <1>2, <1>8 DEF Types

(* The server *)

LEMMA PendingAppends ==
    ASSUME cmdq \in Seq(Commands), IsFiniteSet(Pending),
           NEW c \in Commands, cmdq' = Append(cmdq, c)
    PROVE  /\ IsFiniteSet(Pending')
           /\ Cardinality(Pending') <= Cardinality(Pending) + 1
           /\ c.op # "s" => Pending' = Pending
<1> DEFINE n == Len(cmdq) + 1
<1>1. Len(cmdq) \in Nat /\ DOMAIN cmdq = 1 .. Len(cmdq) /\ DOMAIN cmdq' = 1 .. n
      /\ cmdq'[n] = c /\ \A i \in 1 .. Len(cmdq) : cmdq'[i] = cmdq[i]
    OBVIOUS
<1>2. Pending' = IF c.op = "s" THEN Pending \cup {n} ELSE Pending
    BY <1>1 DEF Pending
<1>3. /\ IsFiniteSet(Pending \cup {n})
      /\ Cardinality(Pending \cup {n}) = IF n \in Pending THEN Cardinality(Pending)
                                         ELSE Cardinality(Pending) + 1
    BY FS_AddElement
<1>4. Cardinality(Pending) \in Nat
    BY FS_CardinalityType
<1> QED
    BY <1>2, <1>3, <1>4

LEMMA PendingConts ==
    ASSUME cmdq \in Seq(Commands), wanted \in Seq(ContCommands), cmdq' = cmdq \o wanted
    PROVE  Pending' = Pending
<1>1. /\ Len(cmdq) \in Nat /\ Len(wanted) \in Nat
      /\ DOMAIN cmdq = 1 .. Len(cmdq) /\ DOMAIN cmdq' = 1 .. Len(cmdq) + Len(wanted)
      /\ \A i \in 1 .. Len(cmdq) : cmdq'[i] = cmdq[i]
      /\ \A i \in Len(cmdq) + 1 .. Len(cmdq) + Len(wanted) : cmdq'[i] = wanted[i - Len(cmdq)]
    OBVIOUS
<1>2. \A i \in 1 .. Len(wanted) : wanted[i] \in ContCommands
    OBVIOUS
<1>3. ASSUME NEW i \in Len(cmdq) + 1 .. Len(cmdq) + Len(wanted)
      PROVE  cmdq'[i].op # "s"
  <2>1. i - Len(cmdq) \in 1 .. Len(wanted)
      BY <1>1
  <2>2. wanted[i - Len(cmdq)] \in ContCommands /\ cmdq'[i] = wanted[i - Len(cmdq)]
      BY <1>1, <1>2, <2>1
  <2> QED
      BY <2>2 DEF ContCommands
<1> QED
    BY <1>1, <1>3 DEF Pending

\* Executing a command takes it out of those on their way.
LEMMA PendingTail ==
    ASSUME cmdq \in Seq(Commands), cmdq # << >>, IsFiniteSet(Pending), cmdq' = Tail(cmdq)
    PROVE  /\ IsFiniteSet(Pending')
           /\ Cardinality(Pending') <= Cardinality(Pending)
           /\ Head(cmdq).op = "s" => Cardinality(Pending') + 1 <= Cardinality(Pending)
<1>1. /\ Len(cmdq) \in Nat /\ Len(cmdq) > 0 /\ DOMAIN cmdq = 1 .. Len(cmdq)
      /\ DOMAIN cmdq' = 1 .. Len(cmdq) - 1
      /\ \A i \in 1 .. Len(cmdq) - 1 : cmdq'[i] = cmdq[i + 1]
      /\ Head(cmdq) = cmdq[1]
    OBVIOUS
<1> DEFINE Later == Pending \ {1}
           back == [i \in Pending' |-> i + 1]
<1>2. IsFiniteSet(Later) /\ Cardinality(Pending) \in Nat
      /\ Cardinality(Later) = IF 1 \in Pending THEN Cardinality(Pending) - 1
                              ELSE Cardinality(Pending)
    BY FS_RemoveElement, FS_CardinalityType
<1>3. back \in Injection(Pending', Later)
  <2>1. ASSUME NEW i \in Pending' PROVE i \in Nat /\ i + 1 \in Later
      BY <1>1 DEF Pending
  <2> QED
      BY <2>1 DEF Injection, IsInjective
<1>4. IsFiniteSet(Pending') /\ Cardinality(Pending') <= Cardinality(Later)
    BY <1>2, <1>3, FS_Injection
<1>5. Head(cmdq).op = "s" => 1 \in Pending
    BY <1>1 DEF Pending
<1>6. Cardinality(Pending') \in Nat /\ Cardinality(Later) \in Nat
    BY <1>2, <1>4, FS_CardinalityType
<1> QED
    BY <1>2, <1>4, <1>5, <1>6

LEMMA ServerTyped == Types /\ IInv /\ Server => Types'
<1> SUFFICES ASSUME Types, IInv, Server PROVE Types'
    OBVIOUS
<1>1. UNCHANGED <<streamVars, decodeVars, outputVars, cpc, autostart, snum, flushed, trimmed>>
    BY DEF Server
<1>2. StreamTypes' /\ RoomPolled' /\ DecodeTypes' /\ OutputTypes' /\ ControlTypes'
    BY <1>1, StreamKept, DecodeKept, OutputKept, ControlKept DEF Types
<1>3. /\ cmdq \in Seq(Commands) /\ wanted \in Seq(ContCommands)
      /\ IsFiniteSet(Pending) /\ snum + Cardinality(Pending) <= MaxStreams
      /\ snum \in Nat /\ snum' = snum
    BY <1>1 DEF IInv, Typed, Types, ServerTypes, ControlTypes
<1>4. Cardinality(Pending) \in Nat
    BY <1>3, FS_CardinalityType
<1>5. CASE SendsOp
  <2>1. PICK op \in Ops, n \in Intervals :
           /\ cmdq' = Append(cmdq, [op |-> op, n |-> n])
           /\ srv' = IF op \in {"q", "f"} THEN "idle" ELSE srv
      BY <1>5 DEF SendsOp
  <2>2. [op |-> op, n |-> n] \in Commands /\ op # "s"
      BY DEF Commands, OpCommands
  <2>3. Pending' = Pending
      BY <1>3, <2>1, <2>2, PendingAppends
  <2>4. ncmd' \in 0 .. MaxCmds
      BY <1>5 DEF SendsOp, Types, ServerTypes
  <2> QED
      BY <1>2, <1>3, <2>1, <2>3, <2>4 DEF Types, ServerTypes
<1>6. CASE SendsStart
  <2>1. PICK k \in Starts :
           cmdq' = Append(cmdq, [op |-> "s", autostart |-> k.autostart,
                                 file |-> k.file, format |-> k.format])
      BY <1>6 DEF SendsStart
  <2>2. [op |-> "s", autostart |-> k.autostart, file |-> k.file, format |-> k.format]
           \in Commands
      BY DEF Commands, StartCommands
  <2>3. IsFiniteSet(Pending') /\ Cardinality(Pending') <= Cardinality(Pending) + 1
      BY <1>3, <2>1, <2>2, PendingAppends
  <2>4. snum + Cardinality(Pending) < MaxStreams /\ srv' = "sent" /\ ncmd' = ncmd
      BY <1>6 DEF SendsStart
  <2>5. Cardinality(Pending') \in Nat
      BY <2>3, FS_CardinalityType
  <2>6. snum' + Cardinality(Pending') <= MaxStreams
      BY <1>3, <1>4, <2>3, <2>4, <2>5
  <2> QED
      BY <1>2, <2>3, <2>4, <2>6 DEF Types, ServerTypes
<1>7. CASE SendsCont
  <2>1. Pending' = Pending
      BY <1>3, <1>7, PendingConts DEF SendsCont
  <2> QED
      BY <1>2, <1>3, <1>7, <2>1 DEF SendsCont, Types, ServerTypes
<1> QED
    BY <1>5, <1>6, <1>7 DEF Server

(* The controller *)

\* A stream that is started counts no longer as one the server asked for.
LEMMA ExecuteCounts ==
    ASSUME Types, IInv, Execute, snum' \in {snum, snum + 1},
           snum' = snum + 1 => Head(cmdq).op = "s"
    PROVE  ServerTypes' /\ snum' \in 0 .. MaxStreams
<1>1. cmdq \in Seq(Commands) /\ cmdq # << >> /\ cmdq' = Tail(cmdq)
    BY DEF IInv, Typed, Execute
<1>2. IsFiniteSet(Pending) /\ snum + Cardinality(Pending) <= MaxStreams /\ snum \in Nat
    BY DEF Types, ServerTypes, ControlTypes
<1>3. /\ IsFiniteSet(Pending')
      /\ Cardinality(Pending') <= Cardinality(Pending)
      /\ Head(cmdq).op = "s" => Cardinality(Pending') + 1 <= Cardinality(Pending)
    BY <1>1, <1>2, PendingTail
<1>4. Cardinality(Pending) \in Nat /\ Cardinality(Pending') \in Nat
    BY <1>2, <1>3, FS_CardinalityType
<1>5. snum' + Cardinality(Pending') <= MaxStreams /\ snum' \in 0 .. MaxStreams
    BY <1>2, <1>3, <1>4
<1>6. srv' \in {"idle", "sent", "busy"} /\ ncmd' = ncmd
    BY DEF Execute, Hears, Types, ServerTypes
<1> QED
    BY <1>3, <1>5, <1>6 DEF Types, ServerTypes

\* Starting a stream makes more units known.
LEMMA KnownGrows == snum \in Nat /\ snum' \in {snum, snum + 1} => Known \subseteq Known'
BY DEF Known, Unit, Stream

LEMMA SeqGrows == ASSUME NEW S, NEW T, S \subseteq T, NEW q \in Seq(S) PROVE q \in Seq(T)
<1>1. q \in [1 .. Len(q) -> T] /\ Len(q) \in Nat
    OBVIOUS
<1> QED
    BY <1>1

LEMMA ExecuteTyped == Types /\ IInv /\ Execute => Types'
<1> SUFFICES ASSUME Types, IInv, Execute PROVE Types'
    OBVIOUS
<1> DEFINE c == Head(cmdq)
<1>1. c \in Commands
    BY DEF IInv, Typed, Execute
<1>2. cpc = "idle"
    BY DEF Execute, StrmStop, StrmFlush, StrmPause, StrmSkip, StrmUnpause, StrmStart, Cont, Codc
<1> HIDE DEF c
<1>3. CASE c.op = "s" /\ StrmStart(c)
  <2>1. c \in StartCommands /\ c.autostart \in 0 .. 3
      BY <1>1, <1>3 DEF Commands, OpCommands, StartCommands, ContCommands
  <2>2. snum \in Nat /\ snum' \in {snum, snum + 1}
      BY <1>3 DEF StrmStart, Types, ControlTypes
  <2>3. ServerTypes' /\ snum' \in 0 .. MaxStreams
      BY <1>3, <2>2, ExecuteCounts DEF c
  <2>4. Known \subseteq Known'
      BY <2>2, KnownGrows
  <2>5. UNCHANGED <<streamVars, outputVars, dpc, held, flushed, trimmed>>
      BY <1>3 DEF StrmStart, codec_open, decodeVars
  <2>6. StreamTypes' /\ RoomPolled'
    <3>1. sbuf \in Seq(Known')
        BY <2>4, SeqGrows DEF Types, StreamTypes
    <3> QED
        BY <2>2, <2>5, <3>1 DEF Types, StreamTypes, RoomPolled, streamVars
  <2>7. OutputTypes'
      BY <2>4, <2>5 DEF Types, OutputTypes, outputVars
  <2>8. DecodeTypes'
      BY <1>3, <2>4, <2>5 DEF Types, DecodeTypes, StrmStart, codec_open, DecodeState, decodeVars
  <2>9. ControlTypes'
      BY <1>3, <2>1, <2>2, <2>3, <2>5 DEF Types, ControlTypes, Opening, StrmStart, Goto
  <2> QED
      BY <2>3, <2>6, <2>7, <2>8, <2>9 DEF Types
<1>4. CASE ~(c.op = "s" /\ StrmStart(c))
  <2>1. /\ snum' = snum /\ flushed' = flushed /\ cpc' \notin {"connect", "open"}
        /\ autostart' \in {autostart, autostart - 2} /\ (autostart <= 1 => autostart' = autostart)
        /\ trimmed' \in {trimmed, trimmed \cup {snum}}
    <3> USE DEF LocalsKept, Goto
    <3>1. CASE StrmStop \/ StrmFlush \/ Codc(TRUE)
        BY <3>1 DEF StrmStop, StrmFlush, Codc
    <3>2. CASE StrmPause(c.n) \/ StrmSkip(c.n) \/ StrmUnpause(c.n)
        BY <3>2 DEF StrmPause, StrmSkip, StrmUnpause
    <3>3. CASE Cont
      <4>1. autostart \in -2 .. 3
          BY DEF Types, ControlTypes
      <4> QED
          BY <3>3, <4>1 DEF Cont
    <3> QED
        BY <1>4, <3>1, <3>2, <3>3 DEF Execute, c
  <2>2. ServerTypes' /\ Known' = Known
      BY <2>1, ExecuteCounts, KnownKept DEF Types, ControlTypes
  <2>3. trimmed' \subseteq 0 .. snum
    <3>1. snum \in 0 .. snum /\ trimmed \subseteq 0 .. snum
        BY DEF Types, ControlTypes
    <3> QED
        BY <2>1, <3>1
  <2>4. ControlTypes'
      BY <2>1, <2>3 DEF Types, ControlTypes, Opening
  <2>5. StreamTypes' /\ RoomPolled'
    <3>1. /\ UNCHANGED <<disconnect, fd, bytes, sbuf, spc, why, got>>
          /\ sstate' \in {sstate, "STREAMING_BUFFERING"}
        BY <1>4 DEF Execute, c, StrmStop, StrmFlush, StrmPause, StrmSkip, StrmUnpause, Cont,
                    Codc, streamVars
    <3> QED
        BY <2>1, <2>2, <3>1 DEF Types, StreamTypes, RoomPolled, StreamState
  <2>6. DecodeTypes'
    <3>1. /\ UNCHANGED <<dpc, held>>
          /\ dstate' \in {dstate, "DECODE_STOPPED", "DECODE_READY"}
        BY <1>4 DEF Execute, c, StrmStop, StrmFlush, StrmPause, StrmSkip, StrmUnpause, Cont,
                    Codc, decode_flush, codec_open, decodeVars
    <3> QED
        BY <2>2, <3>1 DEF Types, DecodeTypes, DecodeState
  <2>7. OutputTypes'
    <3>1. /\ UNCHANGED <<mem, readp, writep, trackStart, played, started>>
          /\ ostate' \in {ostate, "OUTPUT_PAUSE_FRAMES", "OUTPUT_OFF", "OUTPUT_STOPPED",
                          "OUTPUT_SKIP_FRAMES", "OUTPUT_START_AT", "OUTPUT_RUNNING"}
        BY <1>4 DEF Execute, c, StrmStop, StrmFlush, StrmPause, StrmSkip, StrmUnpause, Cont,
                    Codc, SetOutput, outputVars
    <3> QED
        BY <2>2, <3>1 DEF Types, OutputTypes, OutputState
  <2> QED
      BY <2>2, <2>4, <2>5, <2>6, <2>7 DEF Types
<1> QED
    BY <1>3, <1>4

LEMMA HearsTyped == Types /\ Hears /\ UNCHANGED <<cmdq, snum>> => ServerTypes'
BY DEF Types, ServerTypes, Pending, Hears

LEMMA TickTyped == Types /\ Tick => Types'
<1> SUFFICES ASSUME Types, Tick PROVE Types'
    OBVIOUS
<1>1. /\ UNCHANGED <<disconnect, fd, isFile, bytes, sbuf, spc, why, got, decodeVars,
                     outputVars, autostart, snum, flushed, trimmed, cmdq>>
      /\ sstate' \in {sstate, "STOPPED"} /\ cpc' = "tickD" /\ Hears
    BY DEF Tick, TickStream, Goto
<1>2. DecodeTypes' /\ OutputTypes' /\ ServerTypes' /\ Known' = Known
    BY <1>1, DecodeKept, OutputKept, HearsTyped, KnownKept DEF Types
<1>3. StreamTypes' /\ RoomPolled'
    BY <1>1, <1>2 DEF Types, StreamTypes, RoomPolled, StreamState
<1>4. ControlTypes'
    BY <1>1 DEF Types, ControlTypes, Opening
<1> QED
    BY <1>2, <1>3, <1>4 DEF Types

LEMMA ContinueTyped == Types /\ Continue => Types'
<1> SUFFICES ASSUME Types, Continue PROVE Types'
    OBVIOUS
<1>1. ControllerStep /\ cmdq' = cmdq /\ Hears
    BY DEF Continue
<1>2. snum' = snum
    BY <1>1 DEF ControllerStep, StopFlush, StopOutputToo, StopStream, FlushStreaming,
         FlushStream, EmptyStreambuf, ConnectFails, Connect, OpenSocket, OpenFile, Started,
         TickDecode, TickOutput, TickSend
<1>3. ServerTypes' /\ Known' = Known
    BY <1>1, <1>2, HearsTyped, KnownKept
<1>4. ASSUME UNCHANGED <<autostart, flushed, trimmed>>, ~Opening'
      PROVE  ControlTypes'
    BY <1>2, <1>4 DEF Types, ControlTypes, Opening
<1> USE <1>2, <1>3 DEF LocalsKept, Goto, Started
<1>5. CASE StopFlush
  <2>1. OutputTypes'
      BY <1>5 DEF StopFlush, FlushOutputbuf, Types, OutputTypes
  <2>2. ControlTypes'
      BY <1>4, <1>5 DEF StopFlush, Opening
  <2> QED
      BY <1>5, <2>1, <2>2, StreamKept, DecodeKept DEF StopFlush, Types
<1>6. CASE StopOutputToo
  <2>1. OutputTypes'
      BY <1>6 DEF StopOutputToo, StopOutput, Types, OutputTypes, OutputState
  <2>2. ControlTypes'
      BY <1>6 DEF StopOutputToo, Opening, Types, ControlTypes
  <2> QED
      BY <1>6, <2>1, <2>2, StreamKept, DecodeKept DEF StopOutputToo, Types
<1>7. CASE StopStream \/ FlushStream \/ TickSend
  <2>1. /\ UNCHANGED <<disconnect, bytes, sbuf, spc, why, got, decodeVars, outputVars>>
        /\ fd' \in {0, fd} /\ sstate' \in {sstate, "STOPPED"}
        /\ UNCHANGED <<autostart, flushed, trimmed>> /\ ~Opening'
      BY <1>7 DEF StopStream, FlushStream, TickSend, StreamDisconnect, Opening, streamVars
  <2>2. StreamTypes' /\ RoomPolled'
      BY <2>1 DEF Types, ControlTypes, StreamTypes, RoomPolled, StreamState
  <2> QED
      BY <1>4, <2>1, <2>2, DecodeKept, OutputKept DEF Types
<1>8. CASE FlushStreaming
  <2>1. OutputTypes'
      BY <1>8 DEF FlushStreaming, output_flush_streaming, Types, OutputTypes
  <2>2. trackStart # NULL => mem[trackStart][1] \in 0 .. snum
      BY DEF Types, ControlTypes, OutputTypes, Known, Unit, Stream, NoUnit
  <2>3. ControlTypes'
    <3>1. trimmed' \subseteq 0 .. snum
        BY <1>8, <2>2 DEF FlushStreaming, Types, ControlTypes
    <3> QED
        BY <1>8, <3>1 DEF FlushStreaming, Opening, Types, ControlTypes
  <2> QED
      BY <1>8, <2>1, <2>3, StreamKept, DecodeKept DEF FlushStreaming, Types
<1>9. CASE EmptyStreambuf \/ Connect
  <2>1. /\ UNCHANGED <<sstate, disconnect, fd, bytes, spc, why, got, decodeVars, outputVars>>
        /\ sbuf' = << >> /\ UNCHANGED <<autostart, flushed, trimmed>>
        /\ Opening' => Opening
      BY <1>9 DEF EmptyStreambuf, Connect, FlushStreambuf, Opening
  <2>2. StreamTypes' /\ RoomPolled'
    <3>1. sbuf' \in Seq(Known) /\ Len(sbuf') = 0
        BY <2>1
    <3> QED
        BY <2>1, <3>1 DEF Types, StreamTypes, RoomPolled
  <2>3. ControlTypes'
      BY <2>1 DEF Types, ControlTypes
  <2> QED
      BY <2>1, <2>2, <2>3, DecodeKept, OutputKept DEF Types
<1>10. CASE ConnectFails \/ OpenSocket \/ OpenFile
  <2>1. /\ UNCHANGED <<sbuf, spc, got, decodeVars, outputVars, flushed, trimmed>>
        /\ bytes' \in {bytes, 0} /\ fd' \in {fd, 0, snum} /\ ~Opening'
        /\ sstate' \in {"DISCONNECT", "SEND_HEADERS", "STREAMING_FILE"}
        /\ disconnect' \in {disconnect, "UNREACHABLE"} /\ why' \in {"none", "UNREACHABLE"}
        /\ autostart' \in {autostart, autostart - 2} /\ Opening
    <3>1. CASE ConnectFails
        BY <3>1 DEF ConnectFails, SockUnreachable, SetDisconnect, Opening
    <3>2. CASE OpenSocket
        BY <3>2 DEF OpenSocket, SockConnected, Opening
    <3>3. CASE OpenFile
        BY <3>3 DEF OpenFile, FileOpened, Opening
    <3> QED
        BY <1>10, <3>1, <3>2, <3>3
  <2>2. StreamTypes' /\ RoomPolled'
      BY <2>1 DEF Types, ControlTypes, StreamTypes, RoomPolled, StreamState, DisconnectCode
  <2>3. ControlTypes'
    <3>1. autostart' \in -2 .. 3
        BY <2>1 DEF Types, ControlTypes
    <3> QED
        BY <2>1, <3>1 DEF Types, ControlTypes
  <2> QED
      BY <2>1, <2>2, <2>3, DecodeKept, OutputKept DEF Types
<1>11. CASE TickDecode
  <2>1. DecodeTypes'
      BY <1>11 DEF TickDecode, DecodeState, Types, DecodeTypes
  <2>2. ControlTypes'
      BY <1>4, <1>11 DEF TickDecode, Opening
  <2> QED
      BY <1>11, <2>1, <2>2, StreamKept, OutputKept DEF TickDecode, Types
<1>12. CASE TickOutput
  <2>1. OutputTypes'
      BY <1>12 DEF TickOutput, OutputState, Types, OutputTypes
  <2>2. ControlTypes'
      BY <1>4, <1>12 DEF TickOutput, Opening
  <2> QED
      BY <1>12, <2>1, <2>2, StreamKept, DecodeKept DEF TickOutput, Types
<1> QED
    BY <1>1, <1>5, <1>6, <1>7, <1>8, <1>9, <1>10, <1>11, <1>12 DEF ControllerStep

LEMMA StutterTyped == Types /\ UNCHANGED vars => Types'
BY StreamKept, DecodeKept, OutputKept, ControlKept, ServerKept
   DEF Types, vars, controlVars, serverVars

LEMMA TypesKept == Types /\ IInv /\ [Next]_vars => Types'
<1>1. ASSUME Threads PROVE ControllerKept
    BY <1>1 DEF Threads, ControllerKept
<1> QED
    BY <1>1, StreamTyped, DecodeTyped, OutputTyped, ServerTyped, ExecuteTyped, TickTyped,
       ContinueTyped, StutterTyped DEF Next, Threads

LEMMA TypesAlways == Spec => []Types
BY TypesInit, TypesKept, Invariance, PTL DEF Spec

(* The flags *)

StreamFlags == isFile \in BOOLEAN /\ sentHeaders \in BOOLEAN /\ contWait \in BOOLEAN
DecodeFlags == /\ newStream \in BOOLEAN /\ codec \in BOOLEAN /\ eos \in BOOLEAN
               /\ look \in [data : BOOLEAN, toend : BOOLEAN, room : BOOLEAN]
ControlFlags == sentSTMl \in BOOLEAN /\ sentSTMu \in BOOLEAN /\ sentSTMo \in BOOLEAN

LEMMA DecodeFlagged == Flags /\ DecodeStep => DecodeFlags'
<1> SUFFICES ASSUME Flags, DecodeStep PROVE DecodeFlags'
    OBVIOUS
<1> USE DEF Flags, DecodeFlags
<1>1. CASE LookStream
  <2>1. (sbuf # << >>) \in BOOLEAN /\ Ended(sstate) \in BOOLEAN
      BY DEF Ended
  <2>2. look' \in [data : BOOLEAN, toend : BOOLEAN, room : BOOLEAN]
      BY <1>1, <2>1 DEF LookStream
  <2> QED
      BY <1>1, <2>2 DEF LookStream
<1>2. CASE LookOutput
  <2>1. (Space > 0) \in BOOLEAN
      OBVIOUS
  <2>2. look' \in [data : BOOLEAN, toend : BOOLEAN, room : BOOLEAN]
      BY <1>2, <2>1 DEF LookOutput
  <2> QED
      BY <1>2, <2>2 DEF LookOutput
<1>3. NoLook \in [data : BOOLEAN, toend : BOOLEAN, room : BOOLEAN]
    BY DEF NoLook
<1>4. CASE NotRan
    BY <1>3, <1>4 DEF NotRan
<1>5. CASE CodecInput
  <2>1. eos' \in BOOLEAN
      BY <1>5 DEF CodecInput, EndOfStream, Ended
  <2> QED
      BY <1>3, <1>5, <2>1 DEF CodecInput
<1>6. CASE CodecTrackStart \/ CodecWrite
    BY <1>6 DEF CodecTrackStart, CodecWrite
<1> QED
    BY <1>1, <1>2, <1>4, <1>5, <1>6 DEF DecodeStep

LEMMA FlagsKept == Flags /\ [Next]_vars => Flags'
<1> SUFFICES ASSUME Flags, [Next]_vars PROVE Flags'
    OBVIOUS
<1> USE DEF LocalsKept, streamVars, decodeVars, outputVars, controlVars
<1>1. Flags' <=> /\ StreamFlags' /\ DecodeFlags' /\ ControlFlags'
                 /\ trackStarted' \in BOOLEAN
    BY DEF Flags, StreamFlags, DecodeFlags, ControlFlags
<1>2. ASSUME UNCHANGED streamVars PROVE StreamFlags'
    BY <1>2 DEF Flags, StreamFlags
<1>3. ASSUME UNCHANGED decodeVars PROVE DecodeFlags'
    BY <1>3 DEF Flags, DecodeFlags
<1>4. ASSUME UNCHANGED outputVars PROVE trackStarted' \in BOOLEAN
    BY <1>4 DEF Flags
<1>5. ASSUME UNCHANGED <<sentSTMl, sentSTMu, sentSTMo>> PROVE ControlFlags'
    BY <1>5 DEF Flags, ControlFlags
<1>6. CASE Server
    BY <1>1, <1>2, <1>3, <1>4, <1>5, <1>6 DEF Server
<1>7. CASE Threads
  <2>1. CASE StreamStep
    <3>1. UNCHANGED <<isFile, sentHeaders, contWait>>
        BY <2>1 DEF StreamStep, ReadFile, PollSocket, PollStale, SendHeader, RecvHeaders, RecvBody
    <3>2. StreamFlags'
        BY <3>1 DEF Flags, StreamFlags
    <3> QED
        BY <1>1, <1>3, <1>4, <1>5, <1>7, <2>1, <3>2 DEF Threads, StreamStep
  <2>2. CASE DecodeStep
    <3>1. UNCHANGED <<isFile, sentHeaders, contWait, trackStarted>>
        BY <2>2 DEF DecodeStep, LookStream, LookOutput, NotRan, CodecInput, CodecTrackStart,
                    CodecWrite
    <3>2. StreamFlags' /\ trackStarted' \in BOOLEAN
        BY <3>1 DEF Flags, StreamFlags
    <3> QED
        BY <1>1, <1>5, <1>7, <2>2, <3>2, DecodeFlagged DEF Threads
  <2>3. CASE _output_frames
    <3>1. trackStarted' \in BOOLEAN
        BY <2>3 DEF Flags, _output_frames
    <3> QED
        BY <1>1, <1>2, <1>3, <1>5, <1>7, <2>3, <3>1 DEF Threads, _output_frames
  <2> QED
      BY <1>7, <2>1, <2>2, <2>3 DEF Threads
<1>8. CASE Execute
  <2> DEFINE c == Head(cmdq)
  <2>1. CASE StrmStop \/ StrmFlush \/ Codc(TRUE)
    <3>1. DecodeFlags'
        BY <2>1 DEF StrmStop, StrmFlush, Codc, decode_flush, codec_open, Flags, DecodeFlags
    <3> QED
        BY <1>1, <1>2, <1>4, <1>5, <2>1, <3>1 DEF StrmStop, StrmFlush, Codc
  <2>2. CASE StrmPause(c.n) \/ StrmSkip(c.n) \/ StrmUnpause(c.n)
    <3>1. trackStarted' \in BOOLEAN
        BY <2>2 DEF StrmPause, StrmSkip, StrmUnpause, SetOutput, Flags
    <3> QED
        BY <1>1, <1>2, <1>3, <1>5, <2>2, <3>1 DEF StrmPause, StrmSkip, StrmUnpause
  <2>3. CASE StrmStart(c)
    <3>1. DecodeFlags'
        BY <2>3 DEF StrmStart, codec_open, Flags, DecodeFlags
    <3> QED
        BY <1>1, <1>2, <1>4, <1>5, <2>3, <3>1 DEF StrmStart
  <2>4. CASE Cont
    <3>1. StreamFlags'
        BY <2>4 DEF Cont, Flags, StreamFlags
    <3> QED
        BY <1>1, <1>3, <1>4, <1>5, <2>4, <3>1 DEF Cont
  <2> QED
      BY <1>8, <2>1, <2>2, <2>3, <2>4 DEF Execute
<1>9. CASE Tick
  <2>1. StreamFlags'
      BY <1>9 DEF Tick, TickStream, Flags, StreamFlags
  <2> QED
      BY <1>1, <1>3, <1>4, <1>5, <1>9, <2>1 DEF Tick, TickStream
<1>10. CASE Continue
  <2>1. CASE StopFlush \/ StopOutputToo \/ FlushStreaming
    <3>1. trackStarted' \in BOOLEAN
        BY <2>1 DEF StopFlush, StopOutputToo, FlushStreaming, FlushOutputbuf, StopOutput,
                    output_flush_streaming, Flags
    <3> QED
        BY <1>1, <1>2, <1>3, <1>5, <2>1, <3>1 DEF StopFlush, StopOutputToo, FlushStreaming
  <2>2. CASE StopStream \/ FlushStream \/ EmptyStreambuf \/ Connect \/ TickSend
    <3>1. StreamFlags'
        BY <2>2 DEF StopStream, FlushStream, EmptyStreambuf, Connect, TickSend, StreamDisconnect,
                    FlushStreambuf, Flags, StreamFlags
    <3> QED
        BY <1>1, <1>3, <1>4, <1>5, <2>2, <3>1
           DEF StopStream, FlushStream, EmptyStreambuf, Connect, TickSend
  <2>3. CASE ConnectFails \/ OpenSocket \/ OpenFile
    <3> USE DEF Started, Flags, StreamFlags, ControlFlags
    <3>1. ControlFlags'
        BY <2>3 DEF ConnectFails, OpenSocket, OpenFile
    <3>2. ConnectFails => StreamFlags'
        BY DEF ConnectFails, SockUnreachable
    <3>3. OpenSocket => StreamFlags'
      <4>1. (autostart >= 2) \in BOOLEAN
          OBVIOUS
      <4>2. OpenSocket => isFile' = FALSE /\ sentHeaders' = FALSE /\ contWait' = (autostart >= 2)
          BY DEF OpenSocket, SockConnected
      <4> QED
          BY <4>1, <4>2
    <3>4. OpenFile => isFile' = TRUE /\ sentHeaders' = FALSE /\ contWait' = FALSE
        BY DEF OpenFile, FileOpened
    <3>5. StreamFlags'
        BY <2>3, <3>2, <3>3, <3>4
    <3> QED
        BY <1>1, <1>3, <1>4, <2>3, <3>1, <3>5 DEF ConnectFails, OpenSocket, OpenFile
  <2>4. CASE TickDecode
    <3>1. DecodeFlags' /\ ControlFlags'
        BY <2>4 DEF TickDecode, Flags, DecodeFlags, ControlFlags
    <3> QED
        BY <1>1, <1>2, <1>4, <2>4, <3>1 DEF TickDecode
  <2>5. CASE TickOutput
    <3>1. ControlFlags' /\ trackStarted' \in BOOLEAN
        BY <2>5 DEF TickOutput, Flags, ControlFlags
    <3> QED
        BY <1>1, <1>2, <1>3, <2>5, <3>1 DEF TickOutput
  <2> QED
      BY <1>10, <2>1, <2>2, <2>3, <2>4, <2>5 DEF Continue, ControllerStep
<1>11. CASE UNCHANGED vars
    BY <1>1, <1>2, <1>3, <1>4, <1>5, <1>11 DEF vars
<1> QED
    BY <1>6, <1>7, <1>8, <1>9, <1>10, <1>11 DEF Next

\* The types of all variables and the bounds of both buffers, for every size of them
\* and any number of streams: streambuf is never overfilled although stream_thread
\* releases its mutex to poll, and the numbers of the streams that the histories and
\* the units carry are those of streams that were started.
THEOREM PlayerTyped == Spec => []TypeOK
<1>1. Spec => []Flags
    BY TypesInit, FlagsKept, PTL DEF Spec
<1>2. Types /\ Flags /\ IInv => TypeOK
  <2> SUFFICES ASSUME Types, Flags, IInv PROVE TypeOK
      OBVIOUS
  <2>1. Known \subseteq Unit /\ snum \in 0 .. MaxStreams
      BY KnownUnits DEF Types, ControlTypes
  <2>2. /\ fd \in 0 .. MaxStreams /\ held \in Unit \cup {NoUnit}
        /\ mem \in [0 .. OutSlots - 1 -> Unit \cup {NoUnit}] /\ played \in Unit \cup {NoUnit}
      BY <2>1 DEF Types, StreamTypes, DecodeTypes, OutputTypes
  <2>3. sbuf \in Seq(Unit)
      BY <2>1, SeqGrows DEF Types, StreamTypes
  <2> QED
      BY <2>1, <2>2, <2>3 DEF TypeOK, Types, Flags, IInv, Typed, StreamTypes, DecodeTypes,
         OutputTypes, ControlTypes, ServerTypes
<1> QED
    BY <1>1, <1>2, TypesAlways, Invariance, PTL

------------------------------------------------------------------------------
(* The server and the controller take turns *)

Named == \A s \in Starts : s.format = "known"

------------------------------------------------------------------------------
(* The commands on their way *)

\* What ends a stream, and where streams are started: by the commands on their
\* way, and by the one the server may send next.
Cuts == {j \in DOMAIN cmdq : cmdq[j].op \in {"q", "f"}}
Starting == Pending \cup (IF srv = "idle" THEN {Len(cmdq) + 1} ELSE {})

Alternate == \A i, k \in Starting : i < k => \E j \in Cuts : i < j /\ j < k

\* The next of these commands, or the next the server may send, is an 's'.
StartsNext == \E i \in Starting : \A j \in Cuts : i < j

\* When every format is named the server never sends codc.
Asked == OpCommands \cup StartCommands \cup {[op |-> "cont"]}
NoCodc == cmdq \in Seq(Asked) /\ wanted \in Seq({[op |-> "cont"]})

LEMMA Positions ==
    ASSUME cmdq \in Seq(Commands)
    PROVE  /\ Len(cmdq) \in Nat /\ Pending \subseteq 1 .. Len(cmdq)
           /\ Cuts \subseteq 1 .. Len(cmdq) /\ Cuts \cap Pending = {}
BY DEF Pending, Cuts

LEMMA Appends ==
    ASSUME cmdq \in Seq(Commands), NEW c \in Commands, cmdq' = Append(cmdq, c)
    PROVE  /\ Len(cmdq') = Len(cmdq) + 1
           /\ Pending' = IF c.op = "s" THEN Pending \cup {Len(cmdq) + 1} ELSE Pending
           /\ Cuts' = IF c.op \in {"q", "f"} THEN Cuts \cup {Len(cmdq) + 1} ELSE Cuts
<1>1. Len(cmdq) \in Nat /\ DOMAIN cmdq = 1 .. Len(cmdq) /\ DOMAIN cmdq' = 1 .. Len(cmdq) + 1
      /\ cmdq'[Len(cmdq) + 1] = c /\ \A i \in 1 .. Len(cmdq) : cmdq'[i] = cmdq[i]
      /\ Len(cmdq') = Len(cmdq) + 1
    OBVIOUS
<1> QED
    BY <1>1 DEF Pending, Cuts

LEMMA AppendsConts ==
    ASSUME cmdq \in Seq(Commands), wanted \in Seq(ContCommands), cmdq' = cmdq \o wanted
    PROVE  Len(cmdq') \in Nat /\ Len(cmdq) <= Len(cmdq') /\ Pending' = Pending /\ Cuts' = Cuts
<1>1. /\ Len(cmdq) \in Nat /\ Len(wanted) \in Nat /\ Len(cmdq') = Len(cmdq) + Len(wanted)
      /\ DOMAIN cmdq = 1 .. Len(cmdq) /\ DOMAIN cmdq' = 1 .. Len(cmdq) + Len(wanted)
      /\ \A i \in 1 .. Len(cmdq) : cmdq'[i] = cmdq[i]
      /\ \A i \in Len(cmdq) + 1 .. Len(cmdq) + Len(wanted) : cmdq'[i] = wanted[i - Len(cmdq)]
    OBVIOUS
<1>2. \A i \in 1 .. Len(wanted) : wanted[i] \in ContCommands
    OBVIOUS
<1>3. ASSUME NEW i \in Len(cmdq) + 1 .. Len(cmdq) + Len(wanted)
      PROVE  cmdq'[i].op \notin {"s", "q", "f"}
  <2>1. i - Len(cmdq) \in 1 .. Len(wanted)
      BY <1>1
  <2>2. wanted[i - Len(cmdq)] \in ContCommands /\ cmdq'[i] = wanted[i - Len(cmdq)]
      BY <1>1, <1>2, <2>1
  <2> QED
      BY <2>2 DEF ContCommands
<1> QED
    BY <1>1, <1>3 DEF Pending, Cuts

LEMMA Takes ==
    ASSUME cmdq \in Seq(Commands), cmdq # << >>, cmdq' = Tail(cmdq)
    PROVE  /\ Len(cmdq) >= 1 /\ Len(cmdq') = Len(cmdq) - 1
           /\ \A i \in Pending' : i \in Nat /\ i >= 1 /\ i + 1 \in Pending
           /\ \A i \in Pending : i # 1 => i - 1 \in Pending'
           /\ \A j \in Cuts' : j \in Nat /\ j >= 1 /\ j + 1 \in Cuts
           /\ \A j \in Cuts : j # 1 => j - 1 \in Cuts'
           /\ 1 \in Pending <=> Head(cmdq).op = "s"
           /\ 1 \in Cuts <=> Head(cmdq).op \in {"q", "f"}
<1>1. /\ Len(cmdq) \in Nat /\ Len(cmdq) > 0 /\ DOMAIN cmdq = 1 .. Len(cmdq)
      /\ DOMAIN cmdq' = 1 .. Len(cmdq) - 1 /\ Len(cmdq') = Len(cmdq) - 1
      /\ \A i \in 1 .. Len(cmdq) - 1 : cmdq'[i] = cmdq[i + 1]
      /\ Head(cmdq) = cmdq[1]
    OBVIOUS
<1>2. \A i \in 2 .. Len(cmdq) : i - 1 \in 1 .. Len(cmdq) - 1 /\ cmdq'[i - 1] = cmdq[i]
    BY <1>1
<1> QED
    BY <1>1, <1>2 DEF Pending, Cuts

\* The server keeps to the order, and a start it sends is no earlier than the place
\* it was to take.
LEMMA ServerAlternates ==
    IInv /\ Alternate /\ Server => Alternate' /\ (StartsNext' => StartsNext)
<1> SUFFICES ASSUME IInv, Alternate, Server PROVE Alternate' /\ (StartsNext' => StartsNext)
    OBVIOUS
<1>1. cmdq \in Seq(Commands) /\ wanted \in Seq(ContCommands)
    BY DEF IInv, Typed
<1>2. Len(cmdq) \in Nat /\ Pending \subseteq 1 .. Len(cmdq) /\ Cuts \subseteq 1 .. Len(cmdq)
    BY <1>1, Positions
<1>3. CASE SendsOp
  <2>1. PICK op \in Ops, n \in Intervals :
           /\ cmdq' = Append(cmdq, [op |-> op, n |-> n])
           /\ srv' = IF op \in {"q", "f"} THEN "idle" ELSE srv
      BY <1>3 DEF SendsOp
  <2>2. [op |-> op, n |-> n] \in Commands /\ op # "s"
      BY DEF Commands, OpCommands
  <2>3. /\ Len(cmdq') = Len(cmdq) + 1 /\ Pending' = Pending
        /\ Cuts' = IF op \in {"q", "f"} THEN Cuts \cup {Len(cmdq) + 1} ELSE Cuts
      BY <1>1, <2>1, <2>2, Appends
  <2>4. CASE op \in {"q", "f"}
    <3>1. Starting' = Pending \cup {Len(cmdq) + 2} /\ Cuts' = Cuts \cup {Len(cmdq) + 1}
        BY <1>2, <2>1, <2>3, <2>4 DEF Starting
    <3>2. \A i, k \in Pending : i < k => \E j \in Cuts : i < j /\ j < k
        BY DEF Alternate, Starting
    <3> HIDE DEF Alternate
    <3>3. Alternate'
        BY <1>2, <3>1, <3>2 DEF Alternate
    <3>4. ASSUME StartsNext' PROVE StartsNext
      <4>1. PICK i \in Starting' : \A j \in Cuts' : i < j
          BY <3>4 DEF StartsNext
      <4>2. i \in Pending
          BY <1>2, <3>1, <4>1
      <4> QED
          BY <3>1, <4>1, <4>2 DEF StartsNext, Starting
    <3> QED
        BY <3>3, <3>4
  <2>5. CASE op \notin {"q", "f"}
    <3>1. Starting' = Pending \cup (IF srv = "idle" THEN {Len(cmdq) + 2} ELSE {}) /\ Cuts' = Cuts
        BY <1>2, <2>1, <2>3, <2>5 DEF Starting
    <3>2. \A i \in Starting' : \/ i \in Pending
                               \/ i = Len(cmdq) + 2 /\ Len(cmdq) + 1 \in Starting
        BY <3>1 DEF Starting
    <3>3. Alternate'
      <4> SUFFICES ASSUME NEW i \in Starting', NEW k \in Starting', i < k
                   PROVE  \E j \in Cuts : i < j /\ j < k
          BY <3>1 DEF Alternate
      <4>1. i \in Pending /\ i \in Starting
        <5>1. \A m \in Pending : m \in Nat /\ m <= Len(cmdq)
            BY <1>2
        <5>2. ASSUME NEW m \in Starting' PROVE m \in Nat /\ m <= Len(cmdq) + 2
          <6>1. CASE m \in Pending
              BY <1>2, <5>1, <6>1
          <6>2. CASE m = Len(cmdq) + 2
              BY <1>2, <6>2
          <6> QED
              BY <3>2, <6>1, <6>2
        <5>3. i # Len(cmdq) + 2
            BY <1>2, <5>2
        <5> QED
            BY <3>2, <5>3 DEF Starting
      <4>2. CASE k \in Pending
          BY <4>1, <4>2 DEF Alternate, Starting
      <4>3. CASE k = Len(cmdq) + 2 /\ Len(cmdq) + 1 \in Starting
        <5>1. PICK j \in Cuts : i < j /\ j < Len(cmdq) + 1
            BY <1>2, <4>1, <4>3 DEF Alternate
        <5> QED
            BY <1>2, <4>3, <5>1
      <4> QED
          BY <3>2, <4>2, <4>3
    <3>4. ASSUME StartsNext' PROVE StartsNext
      <4>1. PICK i \in Starting' : \A j \in Cuts : i < j
          BY <3>1, <3>4 DEF StartsNext
      <4>2. CASE i \in Pending
          BY <4>1, <4>2 DEF StartsNext, Starting
      <4>3. CASE i = Len(cmdq) + 2 /\ Len(cmdq) + 1 \in Starting
        <5>1. \A j \in Cuts : Len(cmdq) + 1 < j
            BY <1>2, <4>1, <4>3
        <5> QED
            BY <4>3, <5>1 DEF StartsNext
      <4> QED
          BY <3>2, <4>2, <4>3
    <3> QED
        BY <3>3, <3>4
  <2> QED
      BY <2>4, <2>5
<1>4. CASE SendsStart
  <2>1. PICK s \in Starts : cmdq' = Append(cmdq, [op |-> "s", autostart |-> s.autostart,
                                                  file |-> s.file, format |-> s.format])
      BY <1>4 DEF SendsStart
  <2>2. [op |-> "s", autostart |-> s.autostart, file |-> s.file, format |-> s.format]
           \in Commands
      BY DEF Commands, StartCommands
  <2>3. Pending' = Pending \cup {Len(cmdq) + 1} /\ Cuts' = Cuts
      BY <1>1, <2>1, <2>2, Appends
  <2>4. srv = "idle" /\ srv' = "sent"
      BY <1>4 DEF SendsStart
  <2>5. Starting' = Starting
      BY <2>3, <2>4 DEF Starting
  <2> QED
      BY <2>3, <2>5 DEF Alternate, StartsNext
<1>5. CASE SendsCont
  <2>1. Len(cmdq') \in Nat /\ Len(cmdq) <= Len(cmdq') /\ Pending' = Pending /\ Cuts' = Cuts
      BY <1>1, <1>5, AppendsConts DEF SendsCont
  <2>2. srv' = srv
      BY <1>5 DEF SendsCont
  <2>3. Starting' = Pending \cup (IF srv = "idle" THEN {Len(cmdq') + 1} ELSE {})
      BY <2>1, <2>2 DEF Starting
  <2>4. Alternate'
      BY <1>2, <2>1, <2>3 DEF Alternate, Starting
  <2>5. StartsNext' => StartsNext
      BY <1>2, <2>1, <2>3 DEF StartsNext, Starting
  <2> QED
      BY <2>4, <2>5
<1> QED
    BY <1>3, <1>4, <1>5 DEF Server

\* An 's' is executed when it is what comes next, and what comes next then is not
\* another.
LEMMA ExecuteAlternates ==
    ASSUME IInv, Alternate, Execute
    PROVE  /\ Alternate'
           /\ Head(cmdq).op \notin {"q", "f"} => (StartsNext' => StartsNext)
           /\ Head(cmdq).op = "s" => StartsNext /\ ~StartsNext'
<1>1. cmdq \in Seq(Commands) /\ cmdq # << >> /\ cmdq' = Tail(cmdq)
    BY DEF IInv, Typed, Execute
<1>2. Len(cmdq) \in Nat /\ Pending \subseteq 1 .. Len(cmdq) /\ Cuts \subseteq 1 .. Len(cmdq)
      /\ Cuts \cap Pending = {}
    BY <1>1, Positions
<1>3. /\ Len(cmdq) >= 1 /\ Len(cmdq') = Len(cmdq) - 1
      /\ \A i \in Pending' : i \in Nat /\ i >= 1 /\ i + 1 \in Pending
      /\ \A i \in Pending : i # 1 => i - 1 \in Pending'
      /\ \A j \in Cuts' : j \in Nat /\ j >= 1 /\ j + 1 \in Cuts
      /\ \A j \in Cuts : j # 1 => j - 1 \in Cuts'
      /\ 1 \in Pending <=> Head(cmdq).op = "s"
      /\ 1 \in Cuts <=> Head(cmdq).op \in {"q", "f"}
    BY <1>1, Takes
<1>4. srv' = srv
  <2> DEFINE c == Head(cmdq)
  <2>1. sent' \subseteq {"STMf", "STMp", "STMr"}
    <3> HIDE DEF c
    <3>1. CASE StrmStop \/ StrmFlush \/ Cont \/ Codc(TRUE)
        BY <3>1 DEF StrmStop, StrmFlush, Cont, Codc, Goto
    <3>2. CASE StrmPause(c.n) \/ StrmSkip(c.n) \/ StrmUnpause(c.n)
        BY <3>2 DEF StrmPause, StrmSkip, StrmUnpause, Goto
    <3>3. CASE StrmStart(c)
        BY <3>3 DEF StrmStart, Goto
    <3> QED
        BY <3>1, <3>2, <3>3 DEF Execute, c
  <2> QED
      BY <2>1 DEF Execute, Hears
<1>5. \A i \in Starting' : i \in Nat /\ i >= 1 /\ i + 1 \in Starting
  <2>1. srv' = "idle" => Len(cmdq') + 1 = Len(cmdq) /\ Len(cmdq) + 1 \in Starting
      BY <1>2, <1>3, <1>4 DEF Starting
  <2> QED
      BY <1>2, <1>3, <2>1 DEF Starting
<1>6. \A i \in Starting : i \in Nat /\ i >= 1
    BY <1>2 DEF Starting
<1>7. Alternate'
  <2> SUFFICES ASSUME NEW i \in Starting', NEW k \in Starting', i < k
               PROVE  \E j \in Cuts' : i < j /\ j < k
      BY DEF Alternate
  <2>1. i + 1 \in Starting /\ k + 1 \in Starting /\ i + 1 < k + 1 /\ i \in Nat /\ k \in Nat
        /\ i >= 1
      BY <1>5
  <2>2. PICK j \in Cuts : i + 1 < j /\ j < k + 1
      BY <2>1 DEF Alternate
  <2>3. j # 1 /\ j - 1 \in Cuts' /\ i < j - 1 /\ j - 1 < k
      BY <1>2, <1>3, <2>1, <2>2
  <2> QED
      BY <2>3
<1>8. ASSUME Head(cmdq).op \notin {"q", "f"}, StartsNext' PROVE StartsNext
  <2>1. PICK i \in Starting' : \A j \in Cuts' : i < j
      BY <1>8 DEF StartsNext
  <2>2. i + 1 \in Starting /\ i \in Nat
      BY <1>5
  <2>3. \A j \in Cuts : i + 1 < j
      BY <1>2, <1>3, <1>8, <2>1, <2>2
  <2> QED
      BY <2>2, <2>3 DEF StartsNext
<1>9. ASSUME Head(cmdq).op = "s" PROVE StartsNext /\ ~StartsNext'
  <2>1. 1 \in Starting /\ 1 \notin Cuts
      BY <1>2, <1>3, <1>9 DEF Starting
  <2>2. StartsNext
      BY <1>2, <2>1 DEF StartsNext
  <2>3. ASSUME NEW i \in Starting', \A j \in Cuts' : i < j PROVE FALSE
    <3>1. i + 1 \in Starting /\ i \in Nat /\ i >= 1
        BY <1>5
    <3>2. PICK j \in Cuts : 1 < j /\ j < i + 1
        BY <2>1, <3>1 DEF Alternate
    <3>3. j - 1 \in Cuts' /\ j - 1 < i
        BY <1>2, <1>3, <3>1, <3>2
    <3> QED
        BY <1>2, <2>3, <3>1, <3>2, <3>3
  <2> QED
      BY <2>2, <2>3 DEF StartsNext
<1> QED
    BY <1>7, <1>8, <1>9

\* The events that let the server start the next stream.
EndHeard(events) == \/ events \cap {"STMd", "STMn", "STMu"} # {}
                    \/ "DSCO" \in events /\ tick.code # "DISCONNECT_OK"

LEMMA HearsAlternates ==
    ASSUME IInv, Alternate, Hears, cmdq' = cmdq
    PROVE  Alternate' /\ (StartsNext' => StartsNext \/ EndHeard(sent'))
<1>1. Pending' = Pending /\ Cuts' = Cuts
    BY DEF Pending, Cuts
<1>2. Starting' \subseteq Starting \/ (Starting' = {Len(cmdq) + 1} /\ EndHeard(sent'))
  <2>1. \/ srv' \in {srv, "busy"}
        \/ srv' = "idle" /\ Pending = {} /\ EndHeard(sent')
    <3>1. srv' = IF Pending # {} THEN srv
                 ELSE IF srv = "sent" /\ "STMc" \in sent' THEN "busy"
                 ELSE IF srv = "busy" /\ EndHeard(sent') THEN "idle" ELSE srv
        BY <1>1 DEF Hears, EndHeard
    <3> QED
        BY <3>1
  <2> QED
      BY <1>1, <2>1 DEF Starting
<1>3. Len(cmdq) \in Nat
    BY DEF IInv, Typed
<1> QED
    BY <1>1, <1>2, <1>3 DEF Alternate, StartsNext

LEMMA ServerNames == Named /\ IInv /\ NoCodc /\ Server => NoCodc'
<1> SUFFICES ASSUME Named, IInv, NoCodc, Server PROVE NoCodc'
    OBVIOUS
<1> USE DEF NoCodc
<1>1. CASE SendsOp
  <2>1. PICK op \in Ops, n \in Intervals : cmdq' = Append(cmdq, [op |-> op, n |-> n])
      BY <1>1 DEF SendsOp
  <2>2. [op |-> op, n |-> n] \in Asked
      BY DEF Asked, OpCommands
  <2> QED
      BY <1>1, <2>1, <2>2 DEF SendsOp
<1>2. CASE SendsStart
  <2>1. PICK s \in Starts :
           /\ cmdq' = Append(cmdq, [op |-> "s", autostart |-> s.autostart,
                                    file |-> s.file, format |-> s.format])
           /\ wanted' = IF s.file \/ s.autostart < 2 THEN << >>
                        ELSE IF s.format = "?" THEN <<[op |-> "codc"], [op |-> "cont"]>>
                        ELSE <<[op |-> "cont"]>>
      BY <1>2 DEF SendsStart
  <2>2. [op |-> "s", autostart |-> s.autostart, file |-> s.file, format |-> s.format] \in Asked
      BY DEF Asked, StartCommands
  <2>3. wanted' \in {<< >>, <<[op |-> "cont"]>>}
      BY <2>1 DEF Named
  <2>4. ASSUME NEW e PROVE << >> \in Seq({e}) /\ <<e>> \in Seq({e})
      OBVIOUS
  <2>5. wanted' \in Seq({[op |-> "cont"]})
      BY <2>3, <2>4
  <2> QED
      BY <2>1, <2>2, <2>5
<1>3. CASE SendsCont
  <2>1. wanted \in Seq(Asked)
      BY DEF Asked
  <2> QED
      BY <1>3, <2>1 DEF SendsCont
<1> QED
    BY <1>1, <1>2, <1>3 DEF Server

------------------------------------------------------------------------------
(* What the commands find *)

Stopping == cpc \in {"q_buffer", "q_output", "q_disconnect", "q_streambuf",
                     "f_output", "f_flushed", "f_disconnect", "f_streambuf"}
Streaming == {"STREAMING_HTTP", "STREAMING_FILE"}
Working == {"DECODE_RUNNING", "DECODE_COMPLETE", "DECODE_ERROR"}

\* More may come of the stream.
Live == fd # 0 /\ ~Ended(sstate)

\* A stream is opened when the one before it is over and the decoder awaits it.
NextFindsNone == StartsNext => (~Live /\ ~Opening) \/ Stopping
OpensAfterEnd == Opening => ~Live /\ dstate = "DECODE_READY"
ClosedStays == cpc = "f_streambuf" => fd = 0

\* What was polled before the stream ended is not received after it.
NotPolled == Ended(sstate) => fd = 0 \/ spc = "top"

\* The decoder works on a stream from when it streams, and stops after it is over,
\* or closed by the tick that stops it.
StoppedHasNone ==
    dstate = "DECODE_STOPPED" => \/ ~Live \/ Stopping
                                 \/ cpc \in {"tickO", "send"} /\ tick.disconnect
WorksOnStreaming == dstate \in Working /\ Live => sstate \in Streaming

\* What a tick saw of the stream is still so, unless it ended since.
TickKnows ==
    Ticking => /\ tick.stream \in Streaming => sstate = tick.stream \/ Ended(sstate)
               /\ Ended(tick.stream) => Ended(sstate)
               /\ cpc = "tickD" /\ dstate \in Working /\ Live => tick.stream \in Streaming

\* The ends it reports are those of a stream that is over, or that it closes.
TickTells ==
    /\ tick.send \cap {"STMd", "STMn"} # {} => ~Live \/ tick.disconnect
    /\ "STMu" \in tick.send => ~Live
    /\ "DSCO" \in tick.send => tick.stream = "DISCONNECT"
    /\ tick.disconnect => cpc \in {"tickO", "send"}

HandInv == /\ Alternate /\ NoCodc /\ NextFindsNone /\ OpensAfterEnd /\ ClosedStays
           /\ NotPolled /\ StoppedHasNone /\ WorksOnStreaming /\ TickKnows /\ TickTells

LEMMA HandInit == Init => HandInv
<1> SUFFICES ASSUME Init PROVE HandInv
    OBVIOUS
<1>1. /\ cmdq = << >> /\ wanted = << >> /\ srv = "idle" /\ cpc = "idle" /\ fd = 0
      /\ dstate = "DECODE_STOPPED" /\ tick = NoTick
    BY DEF Init, PipelineInit, ControllerInit
<1>2. Pending = {} /\ Cuts = {}
    BY <1>1 DEF Pending, Cuts
<1>3. Alternate
    BY <1>1, <1>2 DEF Alternate, Starting
<1>4. NoCodc
    BY <1>1 DEF NoCodc
<1> QED
    BY <1>1, <1>3, <1>4 DEF HandInv, NextFindsNone, OpensAfterEnd, ClosedStays, NotPolled,
       StoppedHasNone, WorksOnStreaming, Working, TickKnows, TickTells, Ticking, NoTick, Live, Opening

\* What stream_thread does with a stream that ended, and which end it gives one.
LEMMA StreamFades ==
    ASSUME StreamStep
    PROVE  /\ fd' \in {fd, 0} /\ (Live' => Live)
           /\ Ended(sstate) => Ended(sstate')
           /\ sstate \in Streaming => sstate' = sstate \/ Ended(sstate')
           /\ NotPolled => NotPolled'
           /\ NotPolled /\ Ended(sstate) => UNCHANGED <<sstate, disconnect, why>>
           /\ ~Ended(sstate) /\ sstate' = "DISCONNECT" => disconnect' = why'
<1> USE DEF Live, Ended, Streaming, NotPolled, SetDisconnect, Disconnect
<1>1. CASE ReadFile
    BY <1>1 DEF ReadFile, Receive
<1>2. CASE PollSocket
    BY <1>2 DEF PollSocket, NotReading
<1>3. CASE PollStale
    BY <1>3 DEF PollStale
<1>4. CASE SendHeader
    BY <1>4 DEF SendHeader
<1>5. CASE RecvHeaders
    BY <1>5 DEF RecvHeaders, HeaderDone
<1>6. CASE RecvBody
    BY <1>6 DEF RecvBody, Receive
<1> QED
    BY <1>1, <1>2, <1>3, <1>4, <1>5, <1>6 DEF StreamStep

\* What a step may do to the stream and the decoder without the controller.
LEMMA HandThreads ==
    ASSUME HandInv, UNCHANGED <<cpc, tick>>, Alternate', NoCodc', StartsNext' => StartsNext,
           fd' \in {fd, 0}, Live' => Live, Ended(sstate) => Ended(sstate'),
           sstate \in Streaming => sstate' = sstate \/ Ended(sstate'), NotPolled',
           dstate \in Working => dstate' \in Working,
           dstate \notin Working => dstate' = dstate
    PROVE  HandInv'
<1>1. NextFindsNone' /\ OpensAfterEnd' /\ ClosedStays'
    BY DEF HandInv, NextFindsNone, OpensAfterEnd, ClosedStays, Opening, Stopping, Working
<1>2. StoppedHasNone'
    BY DEF HandInv, StoppedHasNone, Stopping, Working
<1>3. WorksOnStreaming'
    BY DEF HandInv, WorksOnStreaming, Live, Streaming
<1>4. TickKnows'
    BY DEF HandInv, TickKnows, Ticking, Live, Streaming, Ended
<1>5. TickTells'
    BY DEF HandInv, TickTells
<1> QED
    BY <1>1, <1>2, <1>3, <1>4, <1>5 DEF HandInv

LEMMA QueueKept == UNCHANGED <<cmdq, srv, wanted>> =>
    (Alternate' <=> Alternate) /\ (NoCodc' <=> NoCodc) /\ (StartsNext' <=> StartsNext)
BY DEF Alternate, NoCodc, StartsNext, Starting, Cuts, Pending

LEMMA HandServer == Named /\ IInv /\ HandInv /\ Server => HandInv'
<1> SUFFICES ASSUME Named, IInv, HandInv, Server PROVE HandInv'
    OBVIOUS
<1>1. Alternate' /\ NoCodc' /\ (StartsNext' => StartsNext)
    BY ServerAlternates, ServerNames DEF HandInv
<1>2. UNCHANGED <<cpc, tick, fd, sstate, spc, dstate>>
    BY DEF Server, streamVars, decodeVars
<1>3. NotPolled' /\ (Live' <=> Live)
    BY <1>2 DEF HandInv, NotPolled, Live
<1> QED
    BY <1>1, <1>2, <1>3, HandThreads

LEMMA HandThread == IInv /\ HandInv /\ Threads => HandInv'
<1> SUFFICES ASSUME IInv, HandInv, Threads PROVE HandInv'
    OBVIOUS
<1>1. UNCHANGED <<cpc, tick, cmdq, srv, wanted>>
    BY DEF Threads, serverVars
<1>2. Alternate' /\ NoCodc' /\ (StartsNext' => StartsNext)
    BY <1>1, QueueKept DEF HandInv
<1>3. CASE StreamStep
  <2>1. dstate' = dstate
      BY <1>3 DEF StreamStep, decodeVars
  <2> QED
      BY <1>1, <1>2, <1>3, <2>1, StreamFades, HandThreads DEF HandInv
<1>4. CASE DecodeStep \/ _output_frames
  <2>1. UNCHANGED <<fd, sstate, spc>>
      BY <1>4 DEF DecodeStep, LookStream, LookOutput, NotRan, CodecInput, CodecTrackStart,
                  CodecWrite, _output_frames, streamVars
  <2>2. /\ dstate \in Working => dstate' \in Working
        /\ dstate \notin Working => dstate' = dstate
      BY <1>4 DEF DecodeStep, LookStream, LookOutput, NotRan, CodecInput, CodecTrackStart,
                  CodecWrite, _output_frames, decodeVars, IInv, DecoderRuns, Working
  <2>3. NotPolled' /\ (Live' <=> Live)
      BY <2>1 DEF HandInv, NotPolled, Live
  <2> QED
      BY <1>1, <1>2, <2>1, <2>2, <2>3, HandThreads
<1> QED
    BY <1>3, <1>4 DEF Threads

LEMMA HandExecute == Named /\ IInv /\ HandInv /\ Execute => HandInv'
<1> SUFFICES ASSUME Named, IInv, HandInv, Execute PROVE HandInv'
    OBVIOUS
<1> DEFINE c == Head(cmdq)
<1>1. c \in Asked /\ NoCodc'
    BY DEF Execute, Hears, HandInv, NoCodc
<1>2. c.op # "codc" /\ (c.op = "s" => c.format = "known")
    BY <1>1 DEF Asked, OpCommands, StartCommands, Named
<1>3. /\ Alternate'
      /\ c.op \notin {"q", "f"} => (StartsNext' => StartsNext)
      /\ c.op = "s" => StartsNext /\ ~StartsNext'
    BY ExecuteAlternates DEF HandInv
<1> HIDE DEF c
<1>4. /\ cpc = "idle" /\ tick = NoTick /\ tick' = NoTick /\ UNCHANGED <<fd, spc>>
      /\ sstate' \in {sstate, "STREAMING_BUFFERING"}
      /\ sstate' # sstate => sstate = "STREAMING_WAIT"
  <2>1. /\ cpc = "idle" /\ tick' = tick /\ UNCHANGED <<fd, spc>>
        /\ sstate' \in {sstate, "STREAMING_BUFFERING"}
        /\ sstate' # sstate => sstate = "STREAMING_WAIT"
    <3> USE DEF streamVars, LocalsKept
    <3>1. CASE StrmStop \/ StrmFlush \/ Codc(TRUE)
        BY <3>1 DEF StrmStop, StrmFlush, Codc
    <3>2. CASE StrmPause(c.n) \/ StrmSkip(c.n) \/ StrmUnpause(c.n)
        BY <3>2 DEF StrmPause, StrmSkip, StrmUnpause
    <3>3. CASE StrmStart(c)
        BY <3>3 DEF StrmStart
    <3>4. CASE Cont
        BY <3>4 DEF Cont
    <3> QED
        BY <3>1, <3>2, <3>3, <3>4 DEF Execute, c
  <2> QED
      BY <2>1 DEF IInv, TickLocals, Ticking
<1>5. (Live' <=> Live) /\ NotPolled'
  <2>1. Ended(sstate') <=> Ended(sstate)
      BY <1>4 DEF Ended
  <2> QED
      BY <1>4, <2>1 DEF Live, HandInv, NotPolled
<1>6. ~Opening /\ ~Stopping /\ (StartsNext => ~Live)
      /\ (dstate = "DECODE_STOPPED" => ~Live)
  <2>1. ~Opening /\ ~Stopping /\ cpc \notin {"tickO", "send"}
      BY <1>4 DEF Opening, Stopping
  <2> QED
      BY <2>1 DEF HandInv, NextFindsNone, StoppedHasNone
<1>7. TickKnows' /\ TickTells' /\ ClosedStays'
  <2>1. cpc' \notin {"tickD", "tickO", "send", "f_streambuf"}
      BY DEF Execute, StrmStop, StrmFlush, StrmPause, StrmSkip, StrmUnpause, StrmStart, Cont,
             Codc, Goto
  <2>2. tick'.send = {} /\ tick'.disconnect = FALSE
      BY <1>4 DEF NoTick
  <2> QED
      BY <2>1, <2>2 DEF TickKnows, TickTells, ClosedStays, Ticking
<1>8. /\ \/ c.op \in {"q", "f"} /\ cpc' \in {"q_buffer", "f_output"} /\ dstate' = "DECODE_STOPPED"
         \/ c.op = "s" /\ cpc' = "connect" /\ dstate' = "DECODE_READY" /\ sstate' = sstate
         \/ c.op \notin {"q", "f", "s"} /\ cpc' = "idle" /\ dstate' = dstate
  <2> USE DEF Goto, decodeVars, streamVars
  <2>1. CASE c.op = "q" /\ StrmStop
      BY <2>1 DEF StrmStop, decode_flush
  <2>2. CASE c.op = "f" /\ StrmFlush
      BY <2>2 DEF StrmFlush, decode_flush
  <2>3. CASE c.op \in {"p", "a", "u"} /\ (StrmPause(c.n) \/ StrmSkip(c.n) \/ StrmUnpause(c.n))
      BY <2>3 DEF StrmPause, StrmSkip, StrmUnpause
  <2>4. CASE c.op = "s" /\ StrmStart(c)
      BY <1>2, <2>4 DEF StrmStart, codec_open
  <2>5. CASE c.op = "cont" /\ Cont
      BY <2>5 DEF Cont
  <2> QED
      BY <1>2, <2>1, <2>2, <2>3, <2>4, <2>5 DEF Execute, c
<1>9. NextFindsNone' /\ OpensAfterEnd'
    BY <1>3, <1>5, <1>6, <1>8 DEF NextFindsNone, OpensAfterEnd, Opening, Stopping
<1>10. StoppedHasNone'
    BY <1>5, <1>6, <1>8 DEF StoppedHasNone, Stopping
<1>11. WorksOnStreaming'
  <2> SUFFICES ASSUME dstate' \in Working, Live PROVE sstate' \in Streaming
      BY <1>5 DEF WorksOnStreaming
  <2>1. dstate' = dstate
      BY <1>8 DEF Working
  <2>2. sstate \in Streaming
      BY <2>1 DEF HandInv, WorksOnStreaming
  <2> QED
      BY <1>4, <2>2 DEF Streaming
<1> QED
    BY <1>1, <1>3, <1>5, <1>7, <1>9, <1>10, <1>11 DEF HandInv

LEMMA HandTick == IInv /\ HandInv /\ Tick => HandInv'
<1> SUFFICES ASSUME IInv, HandInv, Tick PROVE HandInv'
    OBVIOUS
<1>1. /\ cpc = "idle" /\ cpc' = "tickD" /\ sent' = {}
      /\ UNCHANGED <<cmdq, fd, spc, dstate>> /\ Hears
      /\ sstate' = IF sstate = "DISCONNECT" THEN "STOPPED" ELSE sstate
      /\ tick'.stream = sstate /\ tick'.send \subseteq {"DSCO", "RESP"} /\ ~tick'.disconnect
      /\ "DSCO" \in tick'.send => tick'.stream = "DISCONNECT"
    BY DEF Tick, TickStream, Goto, NoTick, decodeVars
<1>2. Alternate' /\ (StartsNext' => StartsNext) /\ NoCodc'
    BY <1>1, HearsAlternates DEF HandInv, NoCodc, EndHeard, Hears
<1>3. (Live' <=> Live) /\ NotPolled' /\ Ended(sstate') = Ended(sstate)
    BY <1>1 DEF Live, Ended, HandInv, NotPolled
<1>4. ~Opening /\ ~Stopping /\ ~Opening' /\ (StartsNext => ~Live)
      /\ (dstate = "DECODE_STOPPED" => ~Live)
    BY <1>1 DEF HandInv, NextFindsNone, StoppedHasNone, Opening, Stopping
<1>5. NextFindsNone' /\ OpensAfterEnd' /\ ClosedStays' /\ StoppedHasNone'
    BY <1>1, <1>2, <1>3, <1>4 DEF NextFindsNone, OpensAfterEnd, ClosedStays, StoppedHasNone
<1>6. WorksOnStreaming'
    BY <1>1, <1>3 DEF HandInv, WorksOnStreaming, Live, Ended
<1>7. TickKnows'
    BY <1>1, <1>3 DEF TickKnows, HandInv, WorksOnStreaming, Live, Ended, Streaming
<1>8. TickTells'
    BY <1>1 DEF TickTells
<1> QED
    BY <1>2, <1>3, <1>5, <1>6, <1>7, <1>8 DEF HandInv

LEMMA NoTickTells == ~Ticking' /\ tick' = NoTick => TickKnows' /\ TickTells'
<1>1. NoTick.send = {} /\ NoTick.disconnect = FALSE
    BY DEF NoTick
<1> QED
    BY <1>1 DEF TickKnows, TickTells

\* The regions of 'q' and 'f', and those of 's'.
LEMMA HandCommand ==
    ASSUME IInv, HandInv, Continue, ~Ticking, Alternate', NoCodc',
           StartsNext' => StartsNext \/ EndHeard(sent')
    PROVE  HandInv'
<1>1. ControllerStep /\ ~TickDecode /\ ~TickOutput /\ ~TickSend
    BY DEF Continue, Ticking, TickDecode, TickOutput, TickSend
<1>2. tick = NoTick
    BY DEF IInv, TickLocals
<1> USE DEF LocalsKept, Goto, Started, streamVars, decodeVars
<1>3. /\ tick' = NoTick /\ ~Ticking' /\ dstate' = dstate
      /\ sent' \subseteq {"STMf", "STMc"}
    BY <1>1, <1>2 DEF ControllerStep, StopFlush, StopOutputToo, StopStream, FlushStreaming,
       FlushStream, EmptyStreambuf, ConnectFails, Connect, OpenSocket, OpenFile, Ticking
<1>4. TickKnows' /\ TickTells' /\ (StartsNext' => StartsNext)
    BY <1>3, NoTickTells DEF EndHeard
<1>5. CASE StopFlush \/ StopOutputToo \/ FlushStreaming
  <2>1. /\ UNCHANGED <<fd, sstate, spc>> /\ Stopping' /\ ~Opening' /\ cpc' # "f_streambuf"
      BY <1>5 DEF StopFlush, StopOutputToo, FlushStreaming, Stopping, Opening
  <2>2. NextFindsNone' /\ OpensAfterEnd' /\ ClosedStays' /\ StoppedHasNone'
      BY <2>1 DEF NextFindsNone, OpensAfterEnd, ClosedStays, StoppedHasNone
  <2>3. NotPolled' /\ WorksOnStreaming'
      BY <1>3, <2>1 DEF HandInv, NotPolled, WorksOnStreaming, Live
  <2> QED
      BY <1>4, <2>2, <2>3 DEF HandInv
<1>6. CASE StopStream \/ FlushStream \/ EmptyStreambuf
  <2>1. fd' = 0 /\ ~Opening'
    <3>1. cpc \in {"q_streambuf", "f_streambuf"} => fd = 0
        BY DEF IInv, StreamClosed, HandInv, ClosedStays
    <3> QED
        BY <1>6, <3>1 DEF StopStream, FlushStream, EmptyStreambuf, StreamDisconnect,
                          FlushStreambuf, Opening
  <2>2. ~Live'
      BY <2>1 DEF Live
  <2> QED
      BY <1>4, <2>1, <2>2 DEF HandInv, NextFindsNone, OpensAfterEnd, ClosedStays, NotPolled,
                              StoppedHasNone, WorksOnStreaming
<1>7. CASE ConnectFails \/ Connect \/ OpenSocket \/ OpenFile
  <2>1. /\ Opening /\ ~Stopping
        /\ cpc' # "f_streambuf" /\ spc' = spc
      BY <1>7 DEF ConnectFails, Connect, OpenSocket, OpenFile, SockUnreachable, SockConnected,
                  FileOpened, FlushStreambuf, Opening, Stopping
  <2>2. ~StartsNext /\ ~StartsNext' /\ ~Live /\ dstate = "DECODE_READY"
      BY <1>4, <2>1 DEF HandInv, NextFindsNone, OpensAfterEnd
  <2>3. NextFindsNone' /\ ClosedStays' /\ StoppedHasNone' /\ WorksOnStreaming'
      BY <1>3, <2>1, <2>2 DEF NextFindsNone, ClosedStays, StoppedHasNone, WorksOnStreaming, Working
  <2>4. OpensAfterEnd' /\ NotPolled'
    <3>1. CASE Connect
      <4>1. UNCHANGED <<fd, sstate, spc>>
          BY <3>1 DEF Connect, FlushStreambuf
      <4> QED
          BY <1>3, <2>2, <4>1 DEF HandInv, OpensAfterEnd, NotPolled, Live
    <3>2. CASE ConnectFails
      <4>1. cpc' = "idle" /\ UNCHANGED <<fd, spc>>
          BY <3>2 DEF ConnectFails, SockUnreachable
      <4>2. fd = 0 \/ spc = "top"
          BY <2>2 DEF HandInv, NotPolled, Live
      <4> QED
          BY <4>1, <4>2 DEF OpensAfterEnd, Opening, NotPolled
    <3>3. CASE OpenSocket \/ OpenFile
      <4>1. cpc' = "idle" /\ (Ended(sstate') => fd' = 0)
          BY <3>3 DEF OpenSocket, OpenFile, SockConnected, FileOpened, Ended
      <4> QED
          BY <4>1 DEF OpensAfterEnd, Opening, NotPolled
    <3> QED
        BY <1>7, <3>1, <3>2, <3>3
  <2> QED
      BY <1>4, <2>3, <2>4 DEF HandInv
<1> QED
    BY <1>1, <1>5, <1>6, <1>7 DEF ControllerStep

\* The tick after its S region: its D region, its O region, and its end.
LEMMA HandReport ==
    ASSUME IInv, HandInv, Continue, Ticking, Alternate', NoCodc',
           StartsNext' => StartsNext \/ EndHeard(sent')
    PROVE  HandInv'
<1>1. TickDecode \/ TickOutput \/ TickSend
    BY DEF Continue, ControllerStep, Ticking, StopFlush, StopOutputToo, StopStream, FlushStreaming,
       FlushStream, EmptyStreambuf, ConnectFails, Connect, OpenSocket, OpenFile
<1>2. ~Opening /\ ~Stopping /\ (StartsNext => ~Live)
  <2>1. ~Opening /\ ~Stopping
      BY DEF Ticking, Opening, Stopping
  <2> QED
      BY <2>1 DEF HandInv, NextFindsNone
<1>3. tick \in Ticks
    BY DEF IInv, Typed
<1> USE DEF Goto, streamVars, decodeVars
<1>4. CASE TickDecode
  <2>1. /\ cpc = "tickD" /\ cpc' = "tickO" /\ UNCHANGED <<fd, sstate, spc>> /\ sent' = {}
      BY <1>4 DEF TickDecode
  <2>2. /\ tick'.stream = tick.stream
        /\ tick'.disconnect = (DecodeDone /\ tick.stream \in Streaming)
        /\ tick'.send \subseteq tick.send \cup {"STMl"} \cup (IF DecodeDone THEN {"STMd", "STMn"} ELSE {})
    <3>1. tick'.stream = tick.stream
        BY <1>3, <1>4 DEF TickDecode, Ticks
    <3>2. tick'.disconnect = (DecodeDone /\ tick.stream \in Streaming)
        BY <1>3, <1>4 DEF TickDecode, Ticks, Streaming
    <3>3. tick'.send = tick.send \cup (IF StartsDecode /\ autostart = 0 THEN {"STMl"} ELSE {})
                             \cup (IF dstate = "DECODE_COMPLETE" THEN {"STMd"} ELSE {})
                             \cup (IF dstate = "DECODE_ERROR" THEN {"STMn"} ELSE {})
        BY <1>3, <1>4 DEF TickDecode, Ticks
    <3>4. tick'.send \subseteq tick.send \cup {"STMl"} \cup (IF DecodeDone THEN {"STMd", "STMn"} ELSE {})
        BY <3>3 DEF DecodeDone
    <3> QED
        BY <3>1, <3>2, <3>4
  <2>3. (Live' <=> Live) /\ NotPolled' /\ (StartsNext' => StartsNext)
      BY <2>1 DEF Live, HandInv, NotPolled, EndHeard
  <2>4. ~tick.disconnect
      BY <2>1 DEF HandInv, TickTells
  <2>5. ~Live \/ (DecodeDone => tick.stream \in Streaming)
      BY <2>1 DEF HandInv, TickKnows, Ticking, DecodeDone, Working
  <2>6. NextFindsNone' /\ OpensAfterEnd' /\ ClosedStays'
      BY <1>2, <2>1, <2>3 DEF NextFindsNone, OpensAfterEnd, ClosedStays, Opening
  <2>7. StoppedHasNone'
    <3>1. dstate' = "DECODE_STOPPED" => DecodeDone \/ dstate = "DECODE_STOPPED"
        BY <1>4 DEF TickDecode
    <3>2. dstate = "DECODE_STOPPED" => ~Live
        BY <1>2, <2>4 DEF HandInv, StoppedHasNone
    <3> QED
        BY <2>1, <2>2, <2>3, <2>5, <3>1, <3>2 DEF StoppedHasNone
  <2>8. WorksOnStreaming'
    <3> SUFFICES ASSUME dstate' \in Working, Live PROVE sstate \in Streaming
        BY <2>1, <2>3 DEF WorksOnStreaming
    <3>1. CASE StartsDecode
      <4>1. tick.stream \in Streaming \/ Ended(tick.stream)
          BY <3>1 DEF StartsDecode, StreamReady, Streaming, Ended
      <4> QED
          BY <4>1 DEF HandInv, TickKnows, Live
    <3>2. CASE ~StartsDecode
      <4>1. dstate \in Working
          BY <1>4, <3>2 DEF TickDecode, Working
      <4> QED
          BY <4>1 DEF HandInv, WorksOnStreaming
    <3> QED
        BY <3>1, <3>2
  <2>9. TickKnows'
      BY <2>1, <2>2 DEF HandInv, TickKnows, Ticking
  <2>10. TickTells'
    <3>1. tick'.send \cap {"STMd", "STMn"} # {} => ~Live \/ tick'.disconnect
        BY <2>2, <2>4, <2>5 DEF HandInv, TickTells
    <3>2. "STMu" \in tick'.send => ~Live
        BY <2>2 DEF HandInv, TickTells
    <3>3. "DSCO" \in tick'.send => tick'.stream = "DISCONNECT"
        BY <2>2 DEF HandInv, TickTells
    <3> QED
        BY <2>1, <2>3, <3>1, <3>2, <3>3 DEF TickTells
  <2> QED
      BY <2>3, <2>6, <2>7, <2>8, <2>9, <2>10 DEF HandInv
<1>5. CASE TickOutput
  <2>1. /\ cpc = "tickO" /\ cpc' = "send" /\ UNCHANGED <<fd, sstate, spc, dstate>> /\ sent' = {}
      BY <1>5 DEF TickOutput
  <2>2. /\ tick'.stream = tick.stream /\ tick'.disconnect = tick.disconnect
        /\ tick'.send \subseteq tick.send \cup {"STMs", "STMo"} \cup (IF Underrun THEN {"STMu"} ELSE {})
    <3>1. tick'.stream = tick.stream /\ tick'.disconnect = tick.disconnect
        BY <1>3, <1>5 DEF TickOutput, Ticks
    <3>2. tick'.send = tick.send \cup (IF trackStarted THEN {"STMs"} ELSE {})
                                 \cup (IF Underrun THEN {"STMu"} ELSE {})
                                 \cup (IF Starving THEN {"STMo"} ELSE {})
        BY <1>3, <1>5 DEF TickOutput, Ticks
    <3> QED
        BY <3>1, <3>2
  <2>3. (Live' <=> Live) /\ NotPolled' /\ (StartsNext' => StartsNext)
      BY <2>1 DEF Live, HandInv, NotPolled, EndHeard
  <2>4. Underrun => ~Live
      BY DEF Underrun, HandInv, TickKnows, Live
  <2>5. NextFindsNone' /\ OpensAfterEnd' /\ ClosedStays' /\ WorksOnStreaming'
      BY <1>2, <2>1, <2>3 DEF NextFindsNone, OpensAfterEnd, ClosedStays, Opening, HandInv,
                              WorksOnStreaming
  <2>6. StoppedHasNone'
      BY <1>2, <2>1, <2>2, <2>3 DEF HandInv, StoppedHasNone
  <2>7. TickKnows'
      BY <2>1, <2>2 DEF HandInv, TickKnows, Ticking
  <2>8. TickTells'
    <3>1. tick'.send \cap {"STMd", "STMn"} # {} => ~Live \/ tick'.disconnect
        BY <2>2 DEF HandInv, TickTells
    <3>2. "STMu" \in tick'.send => ~Live
        BY <2>2, <2>4 DEF HandInv, TickTells
    <3>3. "DSCO" \in tick'.send => tick'.stream = "DISCONNECT"
        BY <2>2 DEF HandInv, TickTells
    <3> QED
        BY <2>1, <2>3, <3>1, <3>2, <3>3 DEF TickTells
  <2> QED
      BY <2>3, <2>5, <2>6, <2>7, <2>8 DEF HandInv
<1>6. CASE TickSend
  <2>1. /\ cpc = "send" /\ cpc' = "idle" /\ dstate' = dstate /\ tick' = NoTick /\ sent' = tick.send
        /\ spc' = spc
        /\ IF tick.disconnect THEN fd' = 0 /\ sstate' = "STOPPED" ELSE UNCHANGED <<fd, sstate>>
      BY <1>6 DEF TickSend, StreamDisconnect
  <2>2. TickKnows' /\ TickTells' /\ ~Opening' /\ ~Stopping'
      BY <2>1, NoTickTells DEF Ticking, Opening, Stopping
  <2>3. (Live' => Live) /\ (tick.disconnect => ~Live') /\ NotPolled'
      BY <2>1 DEF Live, Ended, HandInv, NotPolled
  <2>4. EndHeard(sent') => ~Live'
    <3>1. tick.send \cap {"STMd", "STMn"} # {} => ~Live'
        BY <2>3 DEF HandInv, TickTells
    <3>2. "STMu" \in tick.send => ~Live'
        BY <2>3 DEF HandInv, TickTells
    <3>3. "DSCO" \in tick.send => ~Live'
      <4>1. "DSCO" \in tick.send => Ended(tick.stream)
          BY DEF HandInv, TickTells, Ended
      <4> QED
          BY <2>3, <4>1 DEF HandInv, TickKnows, Live
    <3> QED
        BY <2>1, <3>1, <3>2, <3>3 DEF EndHeard
  <2>5. NextFindsNone'
      BY <1>2, <2>2, <2>3, <2>4 DEF NextFindsNone
  <2>6. OpensAfterEnd' /\ ClosedStays'
      BY <2>1, <2>2 DEF OpensAfterEnd, ClosedStays
  <2>7. StoppedHasNone'
      BY <1>2, <2>1, <2>3 DEF HandInv, StoppedHasNone
  <2>8. WorksOnStreaming'
      BY <2>1, <2>3 DEF HandInv, WorksOnStreaming
  <2> QED
      BY <2>2, <2>3, <2>5, <2>6, <2>7, <2>8 DEF HandInv
<1> QED
    BY <1>1, <1>4, <1>5, <1>6

LEMMA HandContinue == IInv /\ HandInv /\ Continue => HandInv'
<1> SUFFICES ASSUME IInv, HandInv, Continue PROVE HandInv'
    OBVIOUS
<1>1. Hears /\ cmdq' = cmdq /\ wanted' = wanted
    BY DEF Continue, Hears
<1>2. Alternate' /\ (StartsNext' => StartsNext \/ EndHeard(sent')) /\ NoCodc'
    BY <1>1, HearsAlternates DEF HandInv, NoCodc
<1> QED
    BY <1>2, HandCommand, HandReport

LEMMA HandAlways == ASSUME Named PROVE Spec => []HandInv
<1>1. IInv /\ HandInv /\ [Next]_vars => HandInv'
  <2>1. IInv /\ HandInv /\ UNCHANGED vars => HandInv'
    <3> SUFFICES ASSUME HandInv, UNCHANGED vars PROVE HandInv'
        OBVIOUS
    <3>1. UNCHANGED <<cpc, tick, cmdq, srv, wanted, fd, sstate, spc, dstate>>
        BY DEF vars, streamVars, decodeVars, controlVars, serverVars
    <3>2. NotPolled' /\ (Live' <=> Live)
        BY <3>1 DEF HandInv, NotPolled, Live
    <3> QED
        BY <3>1, <3>2, QueueKept, HandThreads DEF HandInv
  <2> QED
      BY <2>1, HandServer, HandThread, HandExecute, HandTick, HandContinue DEF Next
<1> QED
    BY <1>1, HandInit, Invariance, PTL DEF Spec

------------------------------------------------------------------------------
(* Why the stream ended.  stream_file leaves the reason of an earlier stream  *)
(* behind when it cannot open the file, so it is assumed that it can.         *)

\* The reason recorded is that of this stream, and stays so until a tick that saw
\* the end has reported it.
ReasonKept ==
    /\ sstate = "DISCONNECT" => disconnect = why
    /\ Ticking /\ tick.stream = "DISCONNECT" =>
          tick.code = why /\ disconnect = why /\ Ended(sstate)
    /\ Ticking /\ "DSCO" \in tick.send => tick.stream = "DISCONNECT"

\* Without a connection that fails, each stream is opened over an older one's end.
LEMMA NotPolledStep == "connect" \notin Faults /\ NotPolled /\ [Next]_vars => NotPolled'
<1> SUFFICES ASSUME "connect" \notin Faults, NotPolled, [Next]_vars PROVE NotPolled'
    OBVIOUS
<1>1. ASSUME UNCHANGED <<fd, sstate, spc>> PROVE NotPolled'
    BY <1>1 DEF NotPolled
<1> USE DEF streamVars, decodeVars, outputVars
<1>2. CASE Server \/ UNCHANGED vars
    BY <1>1, <1>2 DEF Server, vars
<1>3. CASE Threads
  <2>1. CASE StreamStep
      BY <2>1, StreamFades
  <2> QED
      BY <1>1, <1>3, <2>1 DEF Threads, DecodeStep, LookStream, LookOutput, NotRan, CodecInput,
         CodecTrackStart, CodecWrite, _output_frames
<1>4. CASE Execute
  <2>1. /\ UNCHANGED <<fd, spc>> /\ sstate' \in {sstate, "STREAMING_BUFFERING"}
      BY <1>4 DEF Execute, StrmStop, StrmFlush, StrmPause, StrmSkip, StrmUnpause, StrmStart,
                  Cont, Codc
  <2> QED
      BY <2>1 DEF NotPolled, Ended
<1>5. CASE Tick
  <2>1. UNCHANGED <<fd, spc>> /\ (Ended(sstate') => Ended(sstate))
      BY <1>5 DEF Tick, TickStream, Ended
  <2> QED
      BY <2>1 DEF NotPolled
<1>6. CASE Continue
  <2>1. CASE StopFlush \/ StopOutputToo \/ FlushStreaming \/ EmptyStreambuf \/ Connect
             \/ TickDecode \/ TickOutput
      BY <1>1, <2>1 DEF StopFlush, StopOutputToo, FlushStreaming, EmptyStreambuf, Connect,
                        TickDecode, TickOutput, FlushStreambuf
  <2>2. CASE StopStream \/ FlushStream \/ TickSend
    <3>1. UNCHANGED <<fd, sstate, spc>> \/ fd' = 0
        BY <2>2 DEF StopStream, FlushStream, TickSend, StreamDisconnect
    <3> QED
        BY <1>1, <3>1 DEF NotPolled
  <2>3. CASE OpenSocket \/ OpenFile
    <3>1. Ended(sstate') => fd' = 0
        BY <2>3 DEF OpenSocket, OpenFile, SockConnected, FileOpened, Ended
    <3> QED
        BY <3>1 DEF NotPolled
  <2>4. ~ConnectFails
      BY DEF ConnectFails
  <2> QED
      BY <1>6, <2>1, <2>2, <2>3, <2>4 DEF Continue, ControllerStep
<1> QED
    BY <1>2, <1>3, <1>4, <1>5, <1>6 DEF Next

LEMMA NotPolledAlways ==
    ASSUME Named \/ "connect" \notin Faults PROVE Spec => []NotPolled
<1>1. CASE Named
  <2>1. HandInv => NotPolled
      BY DEF HandInv
  <2> QED
      BY <1>1, <2>1, HandAlways, PTL
<1>2. CASE "connect" \notin Faults
  <2>1. NotPolled /\ [Next]_vars => NotPolled'
      BY <1>2, NotPolledStep
  <2>2. Init => NotPolled
      BY DEF Init, PipelineInit, NotPolled
  <2> QED
      BY <2>1, <2>2, PTL DEF Spec
<1> QED
    BY <1>1, <1>2

LEMMA ReasonStep ==
    "open" \notin Faults /\ IInv /\ NotPolled /\ ReasonKept /\ [Next]_vars => ReasonKept'
<1> SUFFICES ASSUME "open" \notin Faults, IInv, NotPolled, ReasonKept, [Next]_vars
             PROVE  ReasonKept'
    OBVIOUS
<1>1. ASSUME UNCHANGED <<sstate, disconnect, why, cpc, tick>> PROVE ReasonKept'
    BY <1>1 DEF ReasonKept, Ticking
<1> USE DEF streamVars, decodeVars, outputVars, LocalsKept, Goto, Started
<1>2. CASE Server \/ UNCHANGED vars
    BY <1>1, <1>2 DEF Server, vars, controlVars
<1>3. CASE Threads
  <2>1. CASE StreamStep
    <3>1. cpc' = cpc /\ tick' = tick
        BY <1>3 DEF Threads
    <3>2. CASE Ended(sstate)
        BY <1>1, <2>1, <3>1, <3>2, StreamFades
    <3>3. CASE ~Ended(sstate)
      <4>1. ~(Ticking /\ tick.stream = "DISCONNECT")
          BY <3>3 DEF ReasonKept
      <4> QED
          BY <2>1, <3>1, <3>3, <4>1, StreamFades DEF ReasonKept, Ticking
    <3> QED
        BY <3>2, <3>3
  <2> QED
      BY <1>1, <1>3, <2>1 DEF Threads, DecodeStep, LookStream, LookOutput, NotRan, CodecInput,
         CodecTrackStart, CodecWrite, _output_frames
<1>4. CASE Execute
  <2>1. /\ UNCHANGED <<disconnect, why>> /\ sstate' \in {sstate, "STREAMING_BUFFERING"}
        /\ cpc' \notin {"tickD", "tickO", "send"}
      BY <1>4 DEF Execute, StrmStop, StrmFlush, StrmPause, StrmSkip, StrmUnpause, StrmStart,
                  Cont, Codc
  <2> QED
      BY <2>1 DEF ReasonKept, Ticking
<1>5. CASE Tick
  <2>1. /\ UNCHANGED <<disconnect, why>> /\ tick'.stream = sstate
        /\ sstate' = IF sstate = "DISCONNECT" THEN "STOPPED" ELSE sstate
        /\ tick'.code = IF sstate = "DISCONNECT" THEN disconnect ELSE "none"
        /\ "DSCO" \in tick'.send => sstate = "DISCONNECT"
      BY <1>5 DEF Tick, TickStream, NoTick
  <2> QED
      BY <2>1 DEF ReasonKept, Ended
<1>6. CASE Continue
  <2>1. CASE StopFlush \/ StopOutputToo \/ FlushStreaming \/ EmptyStreambuf \/ Connect
    <3>1. /\ UNCHANGED <<sstate, disconnect, why>> /\ cpc' \notin {"tickD", "tickO", "send"}
        BY <2>1 DEF StopFlush, StopOutputToo, FlushStreaming, EmptyStreambuf, Connect,
                    FlushStreambuf
    <3> QED
        BY <3>1 DEF ReasonKept, Ticking
  <2>2. CASE StopStream \/ FlushStream \/ TickSend
    <3>1. /\ UNCHANGED <<disconnect, why>> /\ sstate' \in {sstate, "STOPPED"}
          /\ cpc' \notin {"tickD", "tickO", "send"}
        BY <2>2 DEF StopStream, FlushStream, TickSend, StreamDisconnect
    <3> QED
        BY <3>1 DEF ReasonKept, Ticking
  <2>3. CASE ConnectFails \/ OpenSocket \/ OpenFile
    <3>1. /\ cpc' = "idle"
          /\ sstate' = "DISCONNECT" => disconnect' = why'
        BY <2>3 DEF ConnectFails, OpenSocket, OpenFile, SockUnreachable, SetDisconnect,
                    SockConnected, FileOpened
    <3> QED
        BY <3>1 DEF ReasonKept, Ticking
  <2>4. CASE TickDecode \/ TickOutput
    <3>1. UNCHANGED <<sstate, disconnect, why>> /\ Ticking
        BY <2>4 DEF TickDecode, TickOutput, Ticking
    <3>2. /\ tick'.stream = tick.stream /\ tick'.code = tick.code
          /\ "DSCO" \in tick'.send => "DSCO" \in tick.send
      <4>1. tick \in Ticks
          BY DEF IInv, Typed
      <4>2. CASE TickDecode
          BY <4>1, <4>2 DEF TickDecode, Ticks
      <4>3. CASE TickOutput
          BY <4>1, <4>3 DEF TickOutput, Ticks
      <4> QED
          BY <2>4, <4>2, <4>3
    <3> QED
        BY <3>1, <3>2 DEF ReasonKept
  <2> QED
      BY <1>6, <2>1, <2>2, <2>3, <2>4 DEF Continue, ControllerStep
<1> QED
    BY <1>2, <1>3, <1>4, <1>5, <1>6 DEF Next

\* A disconnect is reported with the reason of the stream it is about, and a stream
\* that is over is decoded only when it ended well (slimproto_run, slimproto.c:680-741:
\* stream.disconnect is read under S, and again after S was released), whichever way
\* stream_thread ends the stream and whatever it had polled when the stream changed.
THEOREM ReasonCurrent ==
    ASSUME "open" \notin Faults, Named \/ "connect" \notin Faults
    PROVE  Spec => ReasonIsCurrent
<1> DEFINE Current == /\ "DSCO" \in sent' => tick.code = why
                      /\ dstate' = "DECODE_RUNNING" /\ dstate = "DECODE_READY"
                            /\ tick.stream = "DISCONNECT" => why = "DISCONNECT_OK"
<1>1. Init => ReasonKept
    BY DEF Init, PipelineInit, ControllerInit, ReasonKept, Ticking
<1>2. IInv /\ NotPolled /\ ReasonKept /\ [Next]_vars => ReasonKept'
    BY ReasonStep
<1>3. Spec => []ReasonKept
    BY <1>1, <1>2, NotPolledAlways, Invariance, PTL DEF Spec
<1>4. ASSUME IInv, ReasonKept, Next PROVE Current
  <2>1. CASE Continue /\ (TickDecode \/ TickSend)
    <3>1. Ticking
        BY <2>1 DEF TickDecode, TickSend, Ticking
    <3>2. "DSCO" \in sent' => tick.stream = "DISCONNECT"
        BY <1>4, <2>1, <3>1 DEF TickDecode, TickSend, ReasonKept, Goto
    <3> QED
        BY <1>4, <2>1, <3>1, <3>2 DEF TickDecode, TickSend, ReasonKept, StartsDecode, StreamReady,
                                      Goto, decodeVars
  <2>2. CASE ~(Continue /\ (TickDecode \/ TickSend))
    <3> USE DEF Goto, decodeVars, streamVars, outputVars
    <3>1. CASE Server
        BY <3>1 DEF Server
    <3>2. CASE Threads
      <4>1. sent' = {}
          BY <3>2 DEF Threads
      <4>2. dstate = "DECODE_READY" => dstate' = dstate
          BY <1>4, <3>2 DEF Threads, StreamStep, DecodeStep, LookStream, LookOutput, NotRan,
             CodecInput, CodecTrackStart, CodecWrite, _output_frames, IInv, DecoderRuns
      <4> QED
          BY <4>1, <4>2
    <3>3. CASE Execute
      <4> DEFINE c == Head(cmdq)
      <4> HIDE DEF c
      <4>1. CASE StrmStop \/ StrmFlush \/ Cont \/ Codc(TRUE)
          BY <4>1 DEF StrmStop, StrmFlush, Cont, Codc, decode_flush, codec_open
      <4>2. CASE StrmPause(c.n) \/ StrmSkip(c.n) \/ StrmUnpause(c.n)
          BY <4>2 DEF StrmPause, StrmSkip, StrmUnpause
      <4>3. CASE StrmStart(c)
          BY <4>3 DEF StrmStart, codec_open
      <4> QED
          BY <3>3, <4>1, <4>2, <4>3 DEF Execute, c
    <3>4. CASE Tick
        BY <3>4 DEF Tick, TickStream
    <3>5. CASE Continue
        BY <2>2, <3>5 DEF Continue, ControllerStep, StopFlush, StopOutputToo, StopStream,
           FlushStreaming, FlushStream, EmptyStreambuf, ConnectFails, Connect, OpenSocket,
           OpenFile, Started, TickOutput
    <3> QED
        BY <1>4, <3>1, <3>2, <3>3, <3>4, <3>5 DEF Next
  <2> QED
      BY <2>1, <2>2
<1>5. IInv /\ ReasonKept /\ [Next]_vars => [Current]_vars
    BY <1>4
<1>6. [][Current]_vars => ReasonIsCurrent
    BY PTL DEF ReasonIsCurrent
<1> QED
    BY <1>3, <1>5, <1>6, Invariance, PTL DEF Spec
=============================================================================
