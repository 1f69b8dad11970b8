----------------------------- MODULE OrderProofs -----------------------------
(***************************************************************************)
(* What is proved of Player about the order in which audio leaves it, for  *)
(* every value of its constants: no unit is played twice or after a later  *)
(* one, and nothing is played that 'q' threw away, whatever the network,   *)
(* the server and the codec do and however the threads interleave.         *)
(*                                                                         *)
(* RoomInv is about the two positions in outputbuf that are used later     *)
(* than they were determined: the room decode_thread saw before it took D, *)
(* and the track start 'f' goes back to.  OrderInv lines up everything on  *)
(* its way, from the unit played last to the one the connection gives      *)
(* next, and follows 'q' through its five regions: units behind it may be  *)
(* left only where a later region still removes them.                      *)
(***************************************************************************)
EXTENDS PlayerProofs

USE PipelineAssumption, ServerAssumption DEF PipelineAssumption, ServerAssumption, HoldsD

------------------------------------------------------------------------------
(* outputbuf as a queue: what the three ways to move its pointers leave in it *)

\* The reader moves ahead over n units.
LEMMA ReadsAhead ==
    ASSUME OutputTypes, NEW n \in 0 .. Used,
           readp' = Ahead(readp, n), UNCHANGED <<mem, writep>>
    PROVE  /\ Used' = Used - n /\ Space' = Space + n
           /\ \A i \in 0 .. Used - n - 1 : UnitAt(i)' = UnitAt(i + n)
           /\ \A i \in n .. Used - 1 : Ahead(readp, i) \in Unread'
<1>1. /\ Used \in 0 .. OutSlots - 1 /\ readp \in 0 .. OutSlots - 1
      /\ writep \in 0 .. OutSlots - 1 /\ writep = Ahead(readp, Used)
    BY Measured
<1>2. Used' = Used - n
    BY <1>1 DEF Used, Ahead
<1>3. ASSUME NEW i \in 0 .. Used - n - 1 PROVE Ahead(readp, i)' = Ahead(readp, i + n)
    BY <1>1 DEF Ahead
<1>4. ASSUME NEW i \in n .. Used - 1 PROVE Ahead(readp, i) \in Unread'
  <2>1. i - n \in 0 .. Used' - 1 /\ i - n \in 0 .. Used - n - 1 /\ (i - n) + n = i
      BY <1>1, <1>2
  <2>2. Ahead(readp, i - n)' = Ahead(readp, i)
      BY <1>3, <2>1
  <2> QED
      BY <2>1, <2>2 DEF Unread
<1> QED
    BY <1>1, <1>2, <1>3, <1>4 DEF Space, UnitAt

\* The writer appends a unit.
LEMMA WritesBehind ==
    ASSUME OutputTypes, Space > 0, NEW u,
           mem' = [mem EXCEPT ![writep] = u], writep' = Ahead(writep, 1), readp' = readp
    PROVE  /\ Used' = Used + 1
           /\ \A i \in 0 .. Used - 1 : UnitAt(i)' = UnitAt(i)
           /\ \A i \in {Used} : UnitAt(i)' = u
           /\ Unread' = Unread \cup {writep}
<1>1. /\ Used \in 0 .. OutSlots - 2 /\ readp \in 0 .. OutSlots - 1
      /\ writep \in 0 .. OutSlots - 1 /\ writep = Ahead(readp, Used)
    BY Measured
<1>2. Used' = Used + 1
    BY <1>1 DEF Used, Ahead
<1>3. \A i : Ahead(readp, i)' = Ahead(readp, i)
    BY DEF Ahead
<1>4. \A i \in 0 .. Used - 1 : Ahead(readp, i) # writep /\ Ahead(readp, i) \in 0 .. OutSlots - 1
    BY <1>1 DEF Ahead
<1>5. \A i \in 0 .. Used - 1 : UnitAt(i)' = UnitAt(i)
    BY <1>3, <1>4 DEF UnitAt, OutputTypes
<1>6. \A i \in {Used} : UnitAt(i)' = u
    BY <1>1, <1>3 DEF OutputTypes, UnitAt
<1>7. Unread' = Unread \cup {writep}
  <2>1. 0 .. Used' - 1 = (0 .. Used - 1) \cup {Used}
      BY <1>1, <1>2
  <2> QED
      BY <1>1, <1>3, <2>1 DEF Unread
<1> QED
    BY <1>2, <1>5, <1>6, <1>7

\* 'f' sends the writer back to the track start.
LEMMA RewindsTo ==
    ASSUME OutputTypes, NEW p \in Unread \cup {writep},
           writep' = p, UNCHANGED <<mem, readp>>
    PROVE  /\ Used' \in 0 .. Used /\ Space <= Space'
           /\ \A i \in 0 .. Used' - 1 : UnitAt(i)' = UnitAt(i)
<1>1. /\ Used \in 0 .. OutSlots - 1 /\ readp \in 0 .. OutSlots - 1
      /\ writep \in 0 .. OutSlots - 1 /\ writep = Ahead(readp, Used)
    BY Measured
<1>2. Used' \in 0 .. Used
  <2>1. PICK k \in 0 .. Used : p = Ahead(readp, k)
      BY <1>1 DEF Unread
  <2>2. Used' = k
      BY <1>1, <2>1 DEF Used, Ahead
  <2> QED
      BY <1>1, <2>1, <2>2
<1>3. Space <= Space'
  <2>1. Used' \in Int /\ Used \in Int /\ Used' <= Used
      BY <1>1, <1>2
  <2>2. Space = OutSlots - Used - 1 /\ Space' = OutSlots - Used' - 1
      BY DEF Space
  <2>3. Space \in Int /\ Space' \in Int
      BY <2>1, <2>2
  <2>4. ASSUME NEW a \in Int, NEW b \in Int, b <= a, NEW c \in Int, NEW d \in Int,
               c = OutSlots - a - 1, d = OutSlots - b - 1
        PROVE  c <= d
      BY <2>4
  <2> QED
      BY <2>1, <2>2, <2>3, <2>4
<1>4. \A i : UnitAt(i)' = UnitAt(i)
    BY DEF UnitAt, Ahead
<1> QED
    BY <1>2, <1>3, <1>4

------------------------------------------------------------------------------
(* Room in outputbuf.  'f' sends the writer back to the track start, which is *)
(* right only when the reader is not past it yet: 'q' forgets what is in the  *)
(* buffer but not the track start, and 'a' passes it.  A server that uses 'f' *)
(* and either of those gets old frames played again, so it is assumed that it *)
(* does not; everything else may happen at any time.                          *)

FlushAlone == "f" \in Ops => "q" \notin Ops /\ "a" \notin Ops

\* Only the thread that holds D has a decoded unit.
HeldLocked == /\ ~HoldsD => held = NoUnit
              /\ dpc = "start" => held # NoUnit

\* The room that decode_thread saw is still there when it writes.
RoomKept == (dpc = "lock" /\ look.room) \/ HoldsD => Space > 0

\* The track start is ahead of the reader, or where the decoder is about to write.
Rewindable ==
    "f" \in Ops /\ trackStart # NULL =>
        \/ trackStart = writep /\ dpc = "write" /\ held # NoUnit
        \/ trackStart \in Unread

\* What the server never sends is never executed.
OnlyAsked ==
    /\ cpc \in {"q_buffer", "q_output", "q_disconnect", "q_streambuf"} => "q" \in Ops
    /\ cpc \in {"f_output", "f_flushed", "f_disconnect", "f_streambuf"} => "f" \in Ops
    /\ ostate = "OUTPUT_SKIP_FRAMES" => "a" \in Ops

RoomInv == HeldLocked /\ RoomKept /\ Rewindable /\ OnlyAsked

Base == Types /\ Flags /\ IInv

LEMMA BaseAlways == Spec => []Base
<1>1. Spec => []Flags
    BY TypesInit, FlagsKept, PTL DEF Spec
<1> QED
    BY <1>1, TypesAlways, Invariance, PTL DEF Base

LEMMA RoomInit == Init => RoomInv
BY DEF Init, PipelineInit, OutputInit, ControllerInit, RoomInv, HeldLocked, RoomKept,
       Rewindable, OnlyAsked

LEMMA RoomLeft == RoomInv /\ UNCHANGED <<decodeVars, outputVars, cpc>> => RoomInv'
BY DEF RoomInv, HeldLocked, RoomKept, Rewindable, OnlyAsked, decodeVars, outputVars, Used,
       Space, Unread, Ahead

LEMMA RoomDecode == Base /\ RoomInv /\ DecodeStep /\ ControllerKept => RoomInv'
<1> SUFFICES ASSUME Base, RoomInv, DecodeStep, ControllerKept PROVE RoomInv'
    OBVIOUS
<1>1. cpc' = cpc /\ OutputTypes /\ look \in [data : BOOLEAN, toend : BOOLEAN, room : BOOLEAN]
    BY DEF ControllerKept, Base, Types, Flags
<1>2. ostate' = ostate /\ OnlyAsked'
    BY <1>1 DEF DecodeStep, LookStream, LookOutput, NotRan, CodecInput, CodecTrackStart,
                CodecWrite, outputVars, RoomInv, OnlyAsked
<1>3. ASSUME outputVars' = outputVars
      PROVE  Space' = Space /\ Unread' = Unread /\ UNCHANGED <<trackStart, writep>>
    BY <1>3 DEF outputVars, Space, Used, Unread, Ahead
<1>4. CASE LookStream
    BY <1>1, <1>2, <1>3, <1>4 DEF LookStream, RoomInv, HeldLocked, RoomKept, Rewindable
<1>5. CASE LookOutput
  <2>1. look'.room <=> Space > 0
      BY <1>1, <1>5 DEF LookOutput
  <2>2. HeldLocked' /\ Rewindable'
      BY <1>3, <1>5 DEF LookOutput, RoomInv, HeldLocked, Rewindable
  <2>3. RoomKept'
      BY <1>3, <1>5, <2>1 DEF LookOutput, RoomKept
  <2> QED
      BY <1>2, <2>2, <2>3 DEF RoomInv
<1>6. CASE NotRan
    BY <1>2, <1>3, <1>6 DEF NotRan, RoomInv, HeldLocked, RoomKept, Rewindable
<1>7. CASE CodecInput
  <2>1. Space' > 0
      BY <1>3, <1>7 DEF CodecInput, MayDecode, RoomInv, RoomKept
  <2>2. dpc' = "start" => held' # NoUnit
    <3>1. sbuf # << >> => Head(sbuf) \in Known
        BY DEF Base, Types, StreamTypes
    <3>2. \A u \in Known : u # NoUnit
        BY DEF Known, Unit, Stream, NoUnit
    <3> QED
        BY <1>7, <3>1, <3>2 DEF CodecInput
  <2>3. Rewindable'
      BY <1>3, <1>7 DEF CodecInput, RoomInv, Rewindable
  <2> QED
      BY <1>2, <1>7, <2>1, <2>2, <2>3 DEF CodecInput, RoomInv, HeldLocked, RoomKept
<1>8. CASE CodecTrackStart
  <2>1. Space' = Space /\ writep' = writep
      BY <1>8 DEF CodecTrackStart, Space, Used
  <2> QED
      BY <1>2, <1>8, <2>1 DEF CodecTrackStart, RoomInv, HeldLocked, RoomKept, Rewindable
<1>9. CASE CodecWrite
  <2>1. Space > 0
      BY <1>9 DEF CodecWrite, RoomInv, RoomKept
  <2>2. CASE held = NoUnit
    <3>1. Unread' = Unread
        BY <1>9, <2>2 DEF CodecWrite, Unread, Used, Ahead
    <3> QED
        BY <1>2, <1>9, <2>2, <3>1 DEF CodecWrite, RoomInv, HeldLocked, RoomKept, Rewindable
  <2>3. CASE held # NoUnit
    <3>1. Unread' = Unread \cup {writep}
        BY <1>1, <1>9, <2>1, <2>3, WritesBehind DEF CodecWrite
    <3> QED
        BY <1>2, <1>9, <2>3, <3>1 DEF CodecWrite, RoomInv, HeldLocked, RoomKept, Rewindable
  <2> QED
      BY <2>2, <2>3
<1> QED
    BY <1>4, <1>5, <1>6, <1>7, <1>8, <1>9 DEF DecodeStep

\* How far a period moves the reader, and what it plays.
LEMMA Period ==
    ASSUME Base, _output_frames
    PROVE  \E n \in 0 .. Used :
              /\ readp' = Ahead(readp, n) /\ UNCHANGED <<mem, writep>>
              /\ \/ n = Skipped /\ UNCHANGED <<played, trackStart, started>>
                 \/ n = Skipped /\ n < Used /\ trackStart = Ahead(readp, n) /\ trackStart' = NULL
                    /\ started' = UnitAt(n)[1] /\ played' = played
                 \/ n = Skipped + 1 /\ trackStart # Ahead(readp, Skipped)
                    /\ played' = UnitAt(Skipped) /\ UNCHANGED <<trackStart, started>>
<1>1. OutputTypes /\ Skipped \in 0 .. Used /\ Used \in 0 .. OutSlots - 1
      /\ readp \in 0 .. OutSlots - 1
    BY Measured, SkipsLess DEF Base, IInv, Typed, Types
<1>2. Skipped < Used => Ahead(Ahead(readp, Skipped), 1) = Ahead(readp, Skipped + 1)
    BY <1>1 DEF Ahead
<1>3. UNCHANGED <<mem, writep>>
    BY DEF _output_frames
<1>4. \/ readp' = Ahead(readp, Skipped) /\ UNCHANGED <<played, trackStart, started>>
      \/ /\ Used # Skipped /\ readp' = Ahead(readp, Skipped)
         /\ trackStart = Ahead(readp, Skipped) /\ trackStart' = NULL
         /\ started' = UnitAt(Skipped)[1] /\ played' = played
      \/ /\ Used # Skipped /\ readp' = Ahead(Ahead(readp, Skipped), 1)
         /\ trackStart # Ahead(readp, Skipped)
         /\ played' = UnitAt(Skipped) /\ UNCHANGED <<trackStart, started>>
    BY DEF _output_frames, UnitAt
<1>5. CASE readp' = Ahead(readp, Skipped) /\ UNCHANGED <<played, trackStart, started>>
    BY <1>1, <1>3, <1>5
<1>6. CASE Used # Skipped /\ readp' = Ahead(readp, Skipped)
           /\ trackStart = Ahead(readp, Skipped) /\ trackStart' = NULL
           /\ started' = UnitAt(Skipped)[1] /\ played' = played
    BY <1>1, <1>3, <1>6
<1>7. CASE Used # Skipped /\ readp' = Ahead(Ahead(readp, Skipped), 1)
           /\ trackStart # Ahead(readp, Skipped)
           /\ played' = UnitAt(Skipped) /\ UNCHANGED <<trackStart, started>>
  <2>1. Skipped + 1 \in 0 .. Used /\ Skipped < Used
      BY <1>1, <1>7
  <2> QED
      BY <1>2, <1>3, <1>7, <2>1
<1> QED
    BY <1>4, <1>5, <1>6, <1>7

LEMMA RoomOutput == FlushAlone /\ Base /\ RoomInv /\ _output_frames /\ ControllerKept => RoomInv'
<1> SUFFICES ASSUME FlushAlone, Base, RoomInv, _output_frames, ControllerKept PROVE RoomInv'
    OBVIOUS
<1>1. /\ UNCHANGED <<dpc, held, look, cpc>> /\ OutputTypes
      /\ ostate' = "OUTPUT_SKIP_FRAMES" => ostate = "OUTPUT_SKIP_FRAMES"
    BY DEF _output_frames, PeriodState, ControllerKept, decodeVars, Base, Types
<1>2. PICK n \in 0 .. Used :
         /\ readp' = Ahead(readp, n) /\ UNCHANGED <<mem, writep>>
         /\ \/ n = Skipped /\ UNCHANGED <<played, trackStart, started>>
            \/ n = Skipped /\ n < Used /\ trackStart = Ahead(readp, n) /\ trackStart' = NULL
               /\ started' = UnitAt(n)[1] /\ played' = played
            \/ n = Skipped + 1 /\ trackStart # Ahead(readp, Skipped)
               /\ played' = UnitAt(Skipped) /\ UNCHANGED <<trackStart, started>>
    BY Period
<1>3. /\ Used' = Used - n /\ Space' = Space + n
      /\ \A i \in n .. Used - 1 : Ahead(readp, i) \in Unread'
    BY <1>1, <1>2, ReadsAhead
<1>4. Used \in 0 .. OutSlots - 1 /\ Space \in Int
    BY <1>1, Measured
<1>5. RoomKept'
  <2>1. Space > 0 => Space' > 0
      BY <1>3, <1>4
  <2> QED
      BY <1>1, <2>1 DEF RoomInv, RoomKept
<1>6. Rewindable'
  <2> SUFFICES ASSUME "f" \in Ops, trackStart' # NULL, trackStart \in Unread
               PROVE  trackStart \in Unread' /\ trackStart' = trackStart
      BY <1>1, <1>2 DEF RoomInv, Rewindable
  <2>1. Skipped = 0
      BY DEF FlushAlone, RoomInv, OnlyAsked, Skipped
  <2>2. trackStart' = trackStart /\ n \in {0, 1} /\ (n = 1 => trackStart # Ahead(readp, 0))
      BY <1>2, <2>1
  <2>3. PICK i \in 0 .. Used - 1 : trackStart = Ahead(readp, i)
      BY DEF Unread
  <2>4. i \in n .. Used - 1
      BY <1>4, <2>2, <2>3
  <2> QED
      BY <1>3, <2>2, <2>3, <2>4
<1> QED
    BY <1>1, <1>5, <1>6 DEF RoomInv, HeldLocked, OnlyAsked

LEMMA RoomExecute == Base /\ RoomInv /\ Execute => RoomInv'
<1> SUFFICES ASSUME Base, RoomInv, Execute PROVE RoomInv'
    OBVIOUS
<1> DEFINE c == Head(cmdq)
<1>1. c \in Commands
    BY DEF Base, IInv, Typed, Execute
<1>2. c.op \in {"q", "f", "a"} => c.op \in Ops
    BY <1>1 DEF Commands, OpCommands, StartCommands, ContCommands
<1> HIDE DEF c
<1>3. /\ UNCHANGED <<dpc, look, held, mem, readp, writep, trackStart>>
      /\ ostate' = "OUTPUT_SKIP_FRAMES" => "a" \in Ops
      /\ cpc' \in {"q_buffer", "f_output", "connect", "idle"}
      /\ cpc' = "q_buffer" => "q" \in Ops
      /\ cpc' = "f_output" => "f" \in Ops
  <2> USE DEF Goto, decodeVars, outputVars, RoomInv, OnlyAsked
  <2>1. CASE c.op = "q" /\ StrmStop
      BY <1>2, <2>1 DEF StrmStop, decode_flush
  <2>2. CASE c.op = "f" /\ StrmFlush
      BY <1>2, <2>2 DEF StrmFlush, decode_flush
  <2>3. CASE c.op = "p" /\ StrmPause(c.n)
      BY <2>3 DEF StrmPause, SetOutput
  <2>4. CASE c.op = "a" /\ StrmSkip(c.n)
      BY <1>2, <2>4 DEF StrmSkip, SetOutput
  <2>5. CASE c.op = "u" /\ StrmUnpause(c.n)
      BY <2>5 DEF StrmUnpause, SetOutput
  <2>6. CASE StrmStart(c) \/ Cont \/ Codc(TRUE)
      BY <2>6 DEF StrmStart, Cont, Codc, codec_open
  <2> QED
      BY <2>1, <2>2, <2>3, <2>4, <2>5, <2>6 DEF Execute, c
<1> QED
    BY <1>3 DEF RoomInv, HeldLocked, RoomKept, Rewindable, OnlyAsked, Space, Used, Unread, Ahead

LEMMA RoomTick == RoomInv /\ Tick => RoomInv'
BY DEF Tick, TickStream, Goto, RoomInv, HeldLocked, RoomKept, Rewindable, OnlyAsked, Space,
       Used, Unread, Ahead, decodeVars, outputVars

LEMMA RoomContinue == FlushAlone /\ Base /\ RoomInv /\ Continue => RoomInv'
<1> SUFFICES ASSUME FlushAlone, Base, RoomInv, Continue PROVE RoomInv'
    OBVIOUS
<1> USE DEF Goto, Started, decodeVars, outputVars
<1>1. CASE StopFlush
  <2>1. Space' > 0 /\ cpc' = "q_output" /\ "q" \in Ops /\ "f" \notin Ops
      BY <1>1 DEF StopFlush, FlushOutputbuf, Space, Used, FlushAlone, RoomInv, OnlyAsked
  <2> QED
      BY <1>1, <2>1 DEF StopFlush, FlushOutputbuf, RoomInv, HeldLocked, RoomKept,
                        Rewindable, OnlyAsked
<1>2. CASE FlushStreaming
  <2>1. OutputTypes /\ "f" \in Ops
      BY <1>2 DEF FlushStreaming, Base, Types, RoomInv, OnlyAsked
  <2>2. trackStart # NULL => trackStart \in Unread \cup {writep}
      BY <2>1 DEF RoomInv, Rewindable
  <2>3. Space <= Space'
    <3>1. UNCHANGED <<mem, readp>> /\ trackStart' = NULL
          /\ writep' = IF trackStart # NULL THEN trackStart ELSE writep
        BY <1>2 DEF FlushStreaming, output_flush_streaming
    <3>2. \E p \in Unread \cup {writep} : writep' = p
        BY <2>2, <3>1
    <3> QED
        BY <2>1, <3>1, <3>2, RewindsTo
  <2>4. Space > 0 => Space' > 0
    <3>1. Types'
        BY ContinueTyped DEF Base
    <3>2. Space \in Int /\ Space' \in Int
        BY <2>1, <3>1 DEF Types, OutputTypes, Space, Used
    <3> QED
        BY <2>3, <3>2
  <2> QED
      BY <1>2, <2>1, <2>4 DEF FlushStreaming, output_flush_streaming, RoomInv, HeldLocked,
                              RoomKept, Rewindable, OnlyAsked
<1>3. CASE ~StopFlush /\ ~FlushStreaming
  <2>1. /\ UNCHANGED <<dpc, look, held, mem, readp, writep, trackStart>>
        /\ ostate' \in {ostate, "OUTPUT_OFF", "OUTPUT_STOPPED", "OUTPUT_BUFFER"}
        /\ cpc' \in {"q_disconnect", "q_streambuf"} =>
              cpc \in {"q_output", "q_disconnect"}
        /\ cpc' = "f_streambuf" => cpc \in {"f_flushed", "f_disconnect"}
        /\ cpc' \notin {"q_buffer", "q_output", "f_output", "f_flushed", "f_disconnect"}
    <3>1. CASE StopOutputToo \/ StopStream
        BY <3>1 DEF StopOutputToo, StopOutput, StopStream
    <3>2. CASE FlushStream \/ EmptyStreambuf
        BY <3>2 DEF FlushStream, EmptyStreambuf
    <3>3. CASE ConnectFails \/ Connect \/ OpenSocket \/ OpenFile
        BY <3>3 DEF ConnectFails, Connect, OpenSocket, OpenFile
    <3>4. CASE TickDecode \/ TickOutput \/ TickSend
        BY <3>4 DEF TickDecode, TickOutput, TickSend
    <3> QED
        BY <1>3, <3>1, <3>2, <3>3, <3>4 DEF Continue, ControllerStep
  <2> QED
      BY <2>1 DEF RoomInv, HeldLocked, RoomKept, Rewindable, OnlyAsked, Space, Used, Unread, Ahead
<1> QED
    BY <1>1, <1>2, <1>3

LEMMA RoomStep == FlushAlone /\ Base /\ RoomInv /\ [Next]_vars => RoomInv'
<1>1. ASSUME Threads PROVE ControllerKept
    BY <1>1 DEF Threads, ControllerKept
<1>2. CASE Server
    BY <1>2, RoomLeft DEF Server
<1>3. CASE StreamStep /\ ControllerKept
    BY <1>3, RoomLeft DEF StreamStep, ControllerKept
<1>4. CASE UNCHANGED vars
    BY <1>4, RoomLeft DEF vars, controlVars
<1> QED
    BY <1>1, <1>2, <1>3, <1>4, RoomDecode, RoomOutput, RoomExecute, RoomTick, RoomContinue
       DEF Next, Threads

LEMMA RoomAlways == ASSUME FlushAlone PROVE Spec => []RoomInv
<1>1. Base /\ RoomInv /\ [Next]_vars => RoomInv'
    BY RoomStep
<1> QED
    BY <1>1, RoomInit, BaseAlways, PTL DEF Spec

------------------------------------------------------------------------------
(* The order of the units on their way                                        *)

Before(u, v) == u[1] < v[1] \/ (u[1] = v[1] /\ u[2] < v[2])

OutUnits == {UnitAt(i) : i \in 0 .. Used - 1}
HeldUnits == {held} \ {NoUnit}
StreamUnits == {sbuf[n] : n \in 1 .. Len(sbuf)}
Coming == OutUnits \cup HeldUnits \cup StreamUnits

OutOrdered == \A i, j \in 0 .. Used - 1 : i < j => Before(UnitAt(i), UnitAt(j))
StreamOrdered == \A m, n \in 1 .. Len(sbuf) : m < n => Before(sbuf[m], sbuf[n])
OutFirst == \A u \in OutUnits, v \in HeldUnits \cup StreamUnits : Before(u, v)
HeldFirst == \A u \in HeldUnits, v \in StreamUnits : Before(u, v)
PlayedFirst == \A u \in Coming : u \in Known /\ Before(played, u)

\* What the connection gives next comes after all that it, or another, gave.
NextLast == fd # 0 => \A u \in {played} \cup Coming : Before(u, <<fd, bytes + 1>>)

\* A stream that is being opened gave nothing yet.
NotYet == Opening => /\ flushed < snum /\ fd < snum
                     /\ \A u \in {played} \cup Coming : u[1] < snum

\* 'q' leaves nothing behind: first outputbuf and the codec are empty, then the
\* connection is closed, then streambuf is emptied.
Flushing == cpc \in {"q_disconnect", "q_streambuf"}
FlushedGone ==
    /\ \A u \in OutUnits \cup HeldUnits : u[1] > flushed
    /\ ~Flushing => /\ fd # 0 => fd > flushed
                    /\ \A u \in StreamUnits : u[1] > flushed

OrderInv == /\ OutOrdered /\ StreamOrdered /\ OutFirst /\ HeldFirst /\ PlayedFirst
            /\ NextLast /\ NotYet /\ FlushedGone

LEMMA OrderInit == Init => OrderInv
<1> SUFFICES ASSUME Init PROVE OrderInv
    OBVIOUS
<1>1. Used = 0 /\ held = NoUnit /\ Len(sbuf) = 0 /\ fd = 0 /\ ~Opening
    BY DEF Init, PipelineInit, ControllerInit, Used, Opening
<1>2. OutUnits = {} /\ HeldUnits = {} /\ StreamUnits = {} /\ Coming = {}
    BY <1>1 DEF OutUnits, HeldUnits, StreamUnits, Coming
<1>3. OutOrdered /\ StreamOrdered
    BY <1>1 DEF OutOrdered, StreamOrdered
<1> QED
    BY <1>1, <1>2, <1>3 DEF OrderInv, OutFirst, HeldFirst, PlayedFirst, NextLast, NotYet, FlushedGone

\* What only lost units is ordered as it was.
LEMMA Fewer ==
    ASSUME OrderInv, OutUnits' \subseteq OutUnits, HeldUnits' \subseteq HeldUnits,
           StreamUnits' \subseteq StreamUnits
    PROVE  OutFirst' /\ HeldFirst' /\ Coming' \subseteq Coming
BY DEF OrderInv, OutFirst, HeldFirst, Coming

LEMMA NothingNew ==
    ASSUME Base, OrderInv, Coming' \subseteq Coming, UNCHANGED <<played, bytes, snum, flushed>>,
           fd' \in {0, fd}, Opening' => Opening
    PROVE  PlayedFirst' /\ NextLast' /\ NotYet'
<1>1. PlayedFirst' /\ NextLast'
    BY DEF OrderInv, PlayedFirst, NextLast, Known
<1>2. NotYet'
  <2>1. Opening => 0 < snum
      BY DEF Base, Types, ControlTypes
  <2> QED
      BY <2>1 DEF OrderInv, NotYet
<1> QED
    BY <1>1, <1>2

LEMMA NothingMoves ==
    ASSUME Base, OrderInv,
           UNCHANGED <<mem, readp, writep, held, sbuf, played, bytes, snum, flushed>>,
           fd' \in {0, fd}, Opening' => Opening, Flushing => Flushing'
    PROVE  OrderInv'
<1>1. OutUnits' = OutUnits /\ HeldUnits' = HeldUnits /\ StreamUnits' = StreamUnits
    BY DEF OutUnits, HeldUnits, StreamUnits, UnitAt, Used, Ahead
<1>2. OutOrdered' /\ StreamOrdered'
    BY DEF OrderInv, OutOrdered, StreamOrdered, UnitAt, Used, Ahead
<1>3. OutFirst' /\ HeldFirst' /\ PlayedFirst' /\ NextLast' /\ NotYet'
    BY <1>1, Fewer, NothingNew
<1>4. FlushedGone'
    BY <1>1 DEF OrderInv, FlushedGone
<1> QED
    BY <1>2, <1>3, <1>4 DEF OrderInv

LEMMA ComingKnown ==
    ASSUME Base, OrderInv
    PROVE  /\ Coming \subseteq Known
           /\ \A u \in {played} \cup Coming : u[1] \in 0 .. snum /\ u[2] \in Nat
           /\ snum \in Nat /\ fd \in 0 .. snum /\ bytes \in Nat /\ flushed \in 0 .. snum
<1>1. snum \in Nat /\ fd \in 0 .. snum /\ bytes \in Nat /\ flushed \in 0 .. snum
    BY DEF Base, Types, StreamTypes, OutputTypes, ControlTypes
<1>2. Coming \subseteq Known /\ played \in Known \cup {NoUnit}
    BY DEF Base, Types, OutputTypes, OrderInv, PlayedFirst
<1>3. \A u \in Known \cup {NoUnit} : u[1] \in 0 .. snum /\ u[2] \in Nat
    BY <1>1 DEF Known, Unit, Stream, NoUnit
<1> QED
    BY <1>1, <1>2, <1>3

LEMMA OrderStream == Base /\ OrderInv /\ StreamStep /\ ControllerKept => OrderInv'
<1> SUFFICES ASSUME Base, OrderInv, StreamStep, ControllerKept PROVE OrderInv'
    OBVIOUS
<1>1. /\ UNCHANGED <<mem, readp, writep, held, played, snum, flushed, cpc>>
      /\ Opening' = Opening /\ Flushing' = Flushing
    BY DEF StreamStep, ControllerKept, decodeVars, outputVars, Opening, Flushing
<1>2. CASE UNCHANGED <<bytes, sbuf, got>>
  <2>1. fd' \in {0, fd}
      BY StreamMoves DEF Base
  <2> QED
      BY <1>1, <1>2, <2>1, NothingMoves
<1>3. CASE Receive /\ fd # 0 /\ fd' = fd /\ Len(sbuf) < StreamCap
  <2> DEFINE nx == <<fd, bytes + 1>>
  <2>1. /\ fd \in 1 .. snum /\ bytes \in 0 .. MaxLen /\ bytes < MaxLen /\ snum \in 0 .. MaxStreams
        /\ sbuf \in Seq(Known) /\ Len(sbuf) \in Nat
      BY <1>3 DEF Base, Types, StreamTypes, ControlTypes, Receive
  <2>2. sbuf' = Append(sbuf, nx) /\ bytes' = bytes + 1
      BY <1>3 DEF Receive
  <2>3. /\ Len(sbuf') = Len(sbuf) + 1 /\ sbuf'[Len(sbuf) + 1] = nx
        /\ \A n \in 1 .. Len(sbuf) : sbuf'[n] = sbuf[n]
      BY <2>1, <2>2
  <2>4. nx \in Known /\ nx[1] = fd /\ nx[2] = bytes + 1
      BY <2>1 DEF Known, Unit, Stream
  <2>5. \A u \in {played} \cup Coming : Before(u, nx)
      BY <1>3 DEF OrderInv, NextLast
  <2> HIDE DEF nx
  <2>6. OutUnits' = OutUnits /\ HeldUnits' = HeldUnits /\ StreamUnits' = StreamUnits \cup {nx}
    <3>1. 1 .. Len(sbuf') = (1 .. Len(sbuf)) \cup {Len(sbuf) + 1}
        BY <2>1, <2>3
    <3>2. StreamUnits' = StreamUnits \cup {nx}
        BY <2>3, <3>1 DEF StreamUnits
    <3> QED
        BY <1>1, <3>2 DEF OutUnits, HeldUnits, UnitAt, Used, Ahead
  <2>7. Coming' = Coming \cup {nx}
      BY <2>6 DEF Coming
  <2>8. OutOrdered'
      BY <1>1 DEF OrderInv, OutOrdered, UnitAt, Used, Ahead
  <2>9. StreamOrdered'
    <3>1. \A m, n \in 1 .. Len(sbuf) : m < n => Before(sbuf'[m], sbuf'[n])
        BY <2>3 DEF OrderInv, StreamOrdered
    <3>2. \A m \in 1 .. Len(sbuf) : Before(sbuf'[m], sbuf'[Len(sbuf) + 1])
        BY <2>3, <2>5 DEF Coming, StreamUnits
    <3>3. \A m, n \in 1 .. Len(sbuf') :
             m < n => m \in 1 .. Len(sbuf) /\ n \in (1 .. Len(sbuf)) \cup {Len(sbuf) + 1}
        BY <2>1, <2>3
    <3> QED
        BY <3>1, <3>2, <3>3 DEF StreamOrdered
  <2>10. OutFirst' /\ HeldFirst' /\ PlayedFirst'
      BY <1>1, <2>4, <2>5, <2>6, <2>7 DEF OrderInv, OutFirst, HeldFirst, PlayedFirst, Coming, Known
  <2>11. NextLast'
    <3>1. \A u \in {played} \cup Coming \cup {nx} : Before(u, <<fd, bytes + 2>>)
      <4>1. \A u \in {played} \cup Coming : u[1] \in 0 .. snum /\ u[2] \in Nat
          BY ComingKnown
      <4> QED
          BY <2>1, <2>4, <2>5, <4>1 DEF Before
    <3>2. bytes' + 1 = bytes + 2
        BY <2>1, <2>2
    <3> QED
        BY <1>1, <1>3, <2>7, <3>1, <3>2 DEF NextLast
  <2>12. NotYet'
      BY <1>1, <1>3, <2>4, <2>7 DEF OrderInv, NotYet
  <2>13. FlushedGone'
      BY <1>1, <1>3, <2>4, <2>6 DEF OrderInv, FlushedGone
  <2> QED
      BY <2>8, <2>9, <2>10, <2>11, <2>12, <2>13 DEF OrderInv
<1> QED
    BY <1>2, <1>3, StreamMoves DEF Base

LEMMA OrderDecode == Base /\ RoomInv /\ OrderInv /\ DecodeStep /\ ControllerKept => OrderInv'
<1> SUFFICES ASSUME Base, RoomInv, OrderInv, DecodeStep, ControllerKept PROVE OrderInv'
    OBVIOUS
<1>1. /\ UNCHANGED <<readp, played, bytes, snum, flushed, cpc, fd>>
      /\ Opening' = Opening /\ Flushing' = Flushing
    BY DEF DecodeStep, LookStream, LookOutput, NotRan, CodecInput, CodecTrackStart, CodecWrite,
           ControllerKept, streamVars, outputVars, Opening, Flushing
<1>2. CASE LookStream \/ LookOutput \/ NotRan \/ CodecTrackStart
  <2>1. UNCHANGED <<mem, writep, held, sbuf>>
      BY <1>2 DEF LookStream, LookOutput, NotRan, CodecTrackStart, streamVars, outputVars
  <2> QED
      BY <1>1, <2>1, NothingMoves
<1>3. CASE CodecInput
  <2>1. held = NoUnit /\ UNCHANGED <<mem, writep>>
      BY <1>3 DEF CodecInput, RoomInv, HeldLocked, outputVars
  <2>2. CASE sbuf = << >>
      BY <1>1, <1>3, <2>1, <2>2, NothingMoves DEF CodecInput
  <2>3. CASE sbuf # << >>
    <3>1. sbuf \in Seq(Known) /\ Len(sbuf) \in Nat /\ Len(sbuf) > 0
        BY <2>3 DEF Base, Types, StreamTypes
    <3>2. /\ held' = sbuf[1] /\ Len(sbuf') = Len(sbuf) - 1
          /\ \A n \in 1 .. Len(sbuf) - 1 : sbuf'[n] = sbuf[n + 1]
        BY <1>3, <2>3, <3>1 DEF CodecInput
    <3>3. sbuf[1] \in StreamUnits
        BY <3>1 DEF StreamUnits
    <3>4. /\ OutUnits' = OutUnits /\ OutOrdered'
        BY <1>1, <2>1 DEF OutUnits, UnitAt, Used, Ahead, OrderInv, OutOrdered
    <3>5. HeldUnits' \subseteq {sbuf[1]} /\ StreamUnits' \subseteq StreamUnits
        BY <3>1, <3>2 DEF HeldUnits, StreamUnits
    <3>6. \A v \in StreamUnits' : Before(sbuf[1], v)
      <4> SUFFICES ASSUME NEW n \in 1 .. Len(sbuf) - 1 PROVE Before(sbuf[1], sbuf'[n])
          BY <3>2 DEF StreamUnits
      <4>1. n + 1 \in 1 .. Len(sbuf) /\ 1 \in 1 .. Len(sbuf) /\ 1 < n + 1
          BY <3>1
      <4> QED
          BY <3>2, <4>1 DEF OrderInv, StreamOrdered
    <3>7. StreamOrdered'
      <4> SUFFICES ASSUME NEW m \in 1 .. Len(sbuf) - 1, NEW n \in 1 .. Len(sbuf) - 1, m < n
                   PROVE  Before(sbuf'[m], sbuf'[n])
          BY <3>2 DEF StreamOrdered
      <4>1. m + 1 \in 1 .. Len(sbuf) /\ n + 1 \in 1 .. Len(sbuf) /\ m + 1 < n + 1
          BY <3>1
      <4> QED
          BY <3>2, <4>1 DEF OrderInv, StreamOrdered
    <3>8. HeldUnits' \cup StreamUnits' \subseteq StreamUnits
        BY <3>3, <3>5
    <3>9. Coming' \subseteq Coming
        BY <3>4, <3>8 DEF Coming
    <3>10. OutFirst' /\ HeldFirst'
        BY <3>4, <3>5, <3>6, <3>8 DEF OrderInv, OutFirst, HeldFirst
    <3>11. PlayedFirst' /\ NextLast' /\ NotYet'
        BY <1>1, <3>9, NothingNew
    <3>12. FlushedGone'
      <4>1. ~Flushing
          BY <1>3 DEF CodecInput, MayDecode, Base, IInv, DecoderStopped, Flushing
      <4> QED
          BY <1>1, <3>4, <3>8, <4>1 DEF OrderInv, FlushedGone
    <3> QED
        BY <3>4, <3>7, <3>10, <3>11, <3>12 DEF OrderInv
  <2> QED
      BY <2>2, <2>3
<1>4. CASE CodecWrite
  <2>1. sbuf' = sbuf /\ held' = NoUnit /\ Space > 0
      BY <1>4 DEF CodecWrite, streamVars, RoomInv, RoomKept
  <2>2. CASE held = NoUnit
      BY <1>1, <1>4, <2>1, <2>2, NothingMoves DEF CodecWrite
  <2>3. CASE held # NoUnit
    <3>1. /\ Used' = Used + 1 /\ Used \in Nat
          /\ \A i \in 0 .. Used - 1 : UnitAt(i)' = UnitAt(i)
          /\ \A i \in {Used} : UnitAt(i)' = held
      <4>1. /\ mem' = [mem EXCEPT ![writep] = held] /\ writep' = Ahead(writep, 1)
            /\ readp' = readp /\ OutputTypes
          BY <1>1, <1>4, <2>1, <2>3 DEF CodecWrite, Base, Types
      <4>2. Used \in Nat
          BY <4>1, Measured
      <4> QED
          BY <2>1, <4>1, <4>2, WritesBehind
    <3>2. 0 .. Used' - 1 = (0 .. Used - 1) \cup {Used}
        BY <3>1
    <3>3. OutUnits' = OutUnits \cup {held}
        BY <3>1, <3>2 DEF OutUnits
    <3>4. HeldUnits' = {} /\ HeldUnits = {held} /\ StreamUnits' = StreamUnits
        BY <2>1, <2>3 DEF HeldUnits, StreamUnits
    <3>5. OutOrdered'
      <4>1. \A i, j \in 0 .. Used - 1 : i < j => Before(UnitAt(i)', UnitAt(j)')
          BY <3>1 DEF OrderInv, OutOrdered
      <4>2. \A i \in 0 .. Used - 1 : Before(UnitAt(i), held)
          BY <3>4 DEF OrderInv, OutFirst, OutUnits
      <4>3. \A i \in 0 .. Used - 1, j \in {Used} : Before(UnitAt(i)', UnitAt(j)')
          BY <3>1, <4>2
      <4>4. \A i, j \in 0 .. Used' - 1 : i < j => i \in 0 .. Used - 1
          BY <3>1
      <4> QED
          BY <3>2, <4>1, <4>3, <4>4 DEF OutOrdered
    <3>6. Coming' = Coming
        BY <3>3, <3>4 DEF Coming
    <3>7. OutFirst' /\ HeldFirst' /\ StreamOrdered'
        BY <2>1, <3>3, <3>4 DEF OrderInv, OutFirst, HeldFirst, StreamOrdered
    <3>8. PlayedFirst' /\ NextLast' /\ NotYet'
        BY <1>1, <3>6, NothingNew
    <3>9. FlushedGone'
        BY <1>1, <3>3, <3>4 DEF OrderInv, FlushedGone
    <3> QED
        BY <3>5, <3>7, <3>8, <3>9 DEF OrderInv
  <2> QED
      BY <2>2, <2>3
<1> QED
    BY <1>2, <1>3, <1>4 DEF DecodeStep

\* The reader moved ahead.
LEMMA FewerAhead ==
    ASSUME OutputTypes, OrderInv, NEW n \in 0 .. Used,
           readp' = Ahead(readp, n), UNCHANGED <<mem, writep>>
    PROVE  /\ OutUnits' \subseteq OutUnits /\ OutOrdered'
           /\ \A k \in 0 .. n - 1 : \A u \in OutUnits' : Before(UnitAt(k), u)
<1>1. /\ Used' = Used - n /\ Used \in Nat /\ n \in Nat
      /\ \A i \in 0 .. Used - n - 1 : UnitAt(i)' = UnitAt(i + n)
    BY ReadsAhead, Measured
<1>2. \A i \in 0 .. Used - n - 1 : i + n \in 0 .. Used - 1
    BY <1>1
<1>3. OutUnits' \subseteq OutUnits
    BY <1>1, <1>2 DEF OutUnits
<1>4. OutOrdered'
  <2> SUFFICES ASSUME NEW i \in 0 .. Used - n - 1, NEW j \in 0 .. Used - n - 1, i < j
               PROVE  Before(UnitAt(i)', UnitAt(j)')
      BY <1>1 DEF OutOrdered
  <2>1. i + n < j + n
      BY <1>1
  <2> QED
      BY <1>1, <1>2, <2>1 DEF OrderInv, OutOrdered
<1>5. ASSUME NEW k \in 0 .. n - 1, NEW i \in 0 .. Used - n - 1
      PROVE  Before(UnitAt(k), UnitAt(i)')
  <2>1. k \in 0 .. Used - 1 /\ k < i + n
      BY <1>1
  <2> QED
      BY <1>1, <1>2, <2>1 DEF OrderInv, OutOrdered
<1> QED
    BY <1>1, <1>3, <1>4, <1>5 DEF OutUnits

LEMMA OrderOutput == Base /\ OrderInv /\ _output_frames /\ ControllerKept => OrderInv'
<1> SUFFICES ASSUME Base, OrderInv, _output_frames, ControllerKept PROVE OrderInv'
    OBVIOUS
<1>1. /\ UNCHANGED <<held, sbuf, bytes, snum, flushed, cpc, fd>> /\ OutputTypes
      /\ Opening' = Opening /\ Flushing' = Flushing
    BY DEF _output_frames, ControllerKept, streamVars, decodeVars, Opening, Flushing, Base, Types
<1>2. Used \in Nat /\ Skipped \in Nat
    BY <1>1, Measured, SkipsLess DEF Base, IInv, Typed
<1>3. PICK n \in 0 .. Used :
         /\ readp' = Ahead(readp, n) /\ UNCHANGED <<mem, writep>>
         /\ played' = played \/ (n = Skipped + 1 /\ played' = UnitAt(Skipped))
    BY Period
<1>4. /\ OutUnits' \subseteq OutUnits /\ OutOrdered'
      /\ \A k \in 0 .. n - 1 : \A u \in OutUnits' : Before(UnitAt(k), u)
    BY <1>1, <1>3, FewerAhead
<1>5. HeldUnits' = HeldUnits /\ StreamUnits' = StreamUnits /\ StreamOrdered'
    BY <1>1 DEF HeldUnits, StreamUnits, OrderInv, StreamOrdered
<1>6. OutFirst' /\ HeldFirst' /\ Coming' \subseteq Coming
    BY <1>4, <1>5, Fewer
<1>7. FlushedGone'
    BY <1>1, <1>4, <1>5 DEF OrderInv, FlushedGone
<1>8. CASE played' = played
  <2>1. PlayedFirst' /\ NextLast' /\ NotYet'
      BY <1>1, <1>6, <1>8, NothingNew
  <2> QED
      BY <1>4, <1>5, <1>6, <1>7, <2>1 DEF OrderInv
<1>9. CASE n = Skipped + 1 /\ played' = UnitAt(Skipped)
  <2>1. Skipped \in 0 .. n - 1 /\ Skipped \in 0 .. Used - 1
      BY <1>2, <1>9
  <2>2. played' \in OutUnits
      BY <1>9, <2>1 DEF OutUnits
  <2>3. \A u \in OutUnits' : Before(played', u)
      BY <1>4, <1>9, <2>1
  <2>4. \A u \in HeldUnits \cup StreamUnits : Before(played', u)
      BY <2>2 DEF OrderInv, OutFirst
  <2>5. \A u \in Coming' : Before(played', u) /\ u \in Known'
      BY <1>1, <1>5, <1>6, <2>3, <2>4 DEF Coming, OrderInv, PlayedFirst, Known
  <2>6. {played'} \cup Coming' \subseteq {played} \cup Coming
      BY <1>6, <2>2 DEF Coming
  <2>7. PlayedFirst' /\ NextLast' /\ NotYet'
      BY <1>1, <2>5, <2>6 DEF OrderInv, PlayedFirst, NextLast, NotYet
  <2> QED
      BY <1>4, <1>5, <1>6, <1>7, <2>7 DEF OrderInv
<1> QED
    BY <1>3, <1>8, <1>9

LEMMA OrderExecute == Base /\ OrderInv /\ Execute => OrderInv'
<1> SUFFICES ASSUME Base, OrderInv, Execute PROVE OrderInv'
    OBVIOUS
<1> DEFINE c == Head(cmdq)
<1>1. /\ UNCHANGED <<mem, readp, writep, held, sbuf, played, bytes, flushed, fd>>
      /\ ~Flushing /\ ~Opening
      /\ \/ snum' = snum /\ ~Opening'
         \/ snum' = snum + 1 /\ ~Flushing'
  <2> USE DEF Goto, streamVars, decodeVars, outputVars, Flushing, Opening
  <2> HIDE DEF c
  <2>1. CASE StrmStop \/ StrmFlush \/ Codc(TRUE)
      BY <2>1 DEF StrmStop, StrmFlush, Codc, decode_flush, codec_open
  <2>2. CASE StrmPause(c.n) \/ StrmSkip(c.n) \/ StrmUnpause(c.n)
      BY <2>2 DEF StrmPause, StrmSkip, StrmUnpause, SetOutput
  <2>3. CASE StrmStart(c)
      BY <2>3 DEF StrmStart, codec_open
  <2>4. CASE Cont
      BY <2>4 DEF Cont
  <2> QED
      BY <2>1, <2>2, <2>3, <2>4 DEF Execute, c
<1>2. CASE snum' = snum /\ ~Opening'
    BY <1>1, <1>2, NothingMoves
<1>3. CASE snum' = snum + 1 /\ ~Flushing'
  <2>1. Known \subseteq Known'
      BY <1>3, KnownGrows DEF Base, Types, ControlTypes
  <2>2. /\ OutUnits' = OutUnits /\ HeldUnits' = HeldUnits /\ StreamUnits' = StreamUnits
        /\ Coming' = Coming
      BY <1>1 DEF OutUnits, HeldUnits, StreamUnits, UnitAt, Used, Ahead, Coming
  <2>3. OutOrdered' /\ StreamOrdered'
      BY <1>1 DEF OrderInv, OutOrdered, StreamOrdered, UnitAt, Used, Ahead
  <2>4. OutFirst' /\ HeldFirst' /\ PlayedFirst' /\ NextLast'
      BY <1>1, <2>1, <2>2 DEF OrderInv, OutFirst, HeldFirst, PlayedFirst, NextLast
  <2>5. flushed < snum' /\ fd < snum' /\ \A u \in {played} \cup Coming : u[1] < snum'
      BY <1>3, ComingKnown
  <2>6. NotYet'
      BY <1>1, <2>2, <2>5 DEF NotYet
  <2>7. FlushedGone'
      BY <1>1, <2>2 DEF OrderInv, FlushedGone
  <2> QED
      BY <2>3, <2>4, <2>6, <2>7 DEF OrderInv
<1> QED
    BY <1>1, <1>2, <1>3

LEMMA OrderContinue ==
    FlushAlone /\ Base /\ Base' /\ RoomInv /\ OrderInv /\ Continue => OrderInv'
<1> SUFFICES ASSUME FlushAlone, Base, Base', RoomInv, OrderInv, Continue PROVE OrderInv'
    OBVIOUS
<1>0. snum' = snum
    BY DEF Continue, ControllerStep, StopFlush, StopOutputToo, StopStream, FlushStreaming,
         FlushStream, EmptyStreambuf, ConnectFails, Connect, OpenSocket, OpenFile, Started,
         TickDecode, TickOutput, TickSend
<1> USE DEF Goto, Started, streamVars, decodeVars, outputVars, Opening, Flushing
<1>1. CASE StopStream \/ FlushStream \/ ConnectFails \/ TickDecode \/ TickOutput \/ TickSend
  <2>1. /\ UNCHANGED <<mem, readp, writep, held, sbuf, played, bytes, flushed>>
        /\ fd' \in {0, fd} /\ ~Opening' /\ (Flushing => Flushing')
    <3>1. CASE StopStream \/ FlushStream
        BY <3>1 DEF StopStream, FlushStream, StreamDisconnect
    <3>2. CASE ConnectFails
        BY <3>2 DEF ConnectFails, SockUnreachable
    <3>3. CASE TickDecode \/ TickOutput
        BY <3>3 DEF TickDecode, TickOutput
    <3>4. CASE TickSend
        BY <3>4 DEF TickSend, StreamDisconnect
    <3> QED
        BY <1>1, <3>1, <3>2, <3>3, <3>4
  <2> QED
      BY <1>0, <2>1, NothingMoves
<1>2. CASE StopFlush \/ FlushStreaming
  <2>1. /\ UNCHANGED <<held, sbuf, played, bytes, flushed, fd, snum>>
        /\ ~Opening' /\ ~Flushing' /\ ~Flushing
      BY <1>0, <1>2 DEF StopFlush, FlushStreaming, FlushOutputbuf, output_flush_streaming
  <2>2. OutUnits' \subseteq OutUnits /\ OutOrdered'
    <3>1. CASE StopFlush
      <4>1. Used' = 0
          BY <3>1 DEF StopFlush, FlushOutputbuf, Used
      <4> QED
          BY <4>1 DEF OutUnits, OutOrdered
    <3>2. CASE FlushStreaming
      <4>1. UNCHANGED <<mem, readp>>
            /\ writep' = IF trackStart # NULL THEN trackStart ELSE writep
          BY <3>2 DEF FlushStreaming, output_flush_streaming
      <4>2. OutputTypes /\ "f" \in Ops
          BY <3>2 DEF FlushStreaming, Base, Types, RoomInv, OnlyAsked
      <4>3. writep' \in Unread \cup {writep}
          BY <4>1, <4>2 DEF RoomInv, Rewindable
      <4>4. Used' \in 0 .. Used /\ \A i \in 0 .. Used' - 1 : UnitAt(i)' = UnitAt(i)
        <5>1. PICK p \in Unread \cup {writep} : writep' = p
            BY <4>3
        <5> QED
            BY <4>1, <4>2, <5>1, RewindsTo
      <4>5. 0 .. Used' - 1 \subseteq 0 .. Used - 1
        <5>1. Used \in Nat
            BY <4>2, Measured
        <5>2. Used' \in Int /\ Used \in Int /\ Used' <= Used
            BY <4>4, <5>1
        <5>3. \A a, b \in Int : a <= b => 0 .. a - 1 \subseteq 0 .. b - 1
            OBVIOUS
        <5> QED
            BY <5>1, <5>2, <5>3
      <4> QED
          BY <4>4, <4>5 DEF OutUnits, OrderInv, OutOrdered
    <3> QED
        BY <1>2, <3>1, <3>2
  <2>3. HeldUnits' = HeldUnits /\ StreamUnits' = StreamUnits /\ StreamOrdered'
      BY <2>1 DEF HeldUnits, StreamUnits, OrderInv, StreamOrdered
  <2>4. OutFirst' /\ HeldFirst' /\ Coming' \subseteq Coming
      BY <2>2, <2>3, Fewer
  <2>5. PlayedFirst' /\ NextLast' /\ NotYet'
      BY <2>1, <2>4, NothingNew
  <2>6. FlushedGone'
      BY <2>1, <2>2, <2>3 DEF OrderInv, FlushedGone
  <2> QED
      BY <2>2, <2>3, <2>4, <2>5, <2>6 DEF OrderInv
<1>3. CASE EmptyStreambuf \/ Connect
  <2>1. /\ UNCHANGED <<mem, readp, writep, held, played, bytes, flushed, fd, snum>>
        /\ sbuf' = << >> /\ (Opening' => Opening) /\ ~Flushing'
        /\ cpc \in {"q_streambuf", "f_streambuf", "connect"}
      BY <1>0, <1>3 DEF EmptyStreambuf, Connect, FlushStreambuf
  <2>2. /\ OutUnits' = OutUnits /\ HeldUnits' = HeldUnits /\ StreamUnits' = {}
        /\ StreamOrdered'
      BY <2>1 DEF OutUnits, HeldUnits, StreamUnits, UnitAt, Used, Ahead, StreamOrdered
  <2>3. OutOrdered'
      BY <2>1 DEF OrderInv, OutOrdered, UnitAt, Used, Ahead
  <2>4. OutFirst' /\ HeldFirst' /\ Coming' \subseteq Coming
      BY <2>2, Fewer
  <2>5. PlayedFirst' /\ NextLast' /\ NotYet'
      BY <2>1, <2>4, NothingNew
  <2>6. cpc = "q_streambuf" => fd = 0
      BY DEF Base, IInv, StreamClosed
  <2>7. FlushedGone'
      BY <2>1, <2>2, <2>6 DEF OrderInv, FlushedGone
  <2> QED
      BY <2>2, <2>3, <2>4, <2>5, <2>7 DEF OrderInv
<1>4. CASE StopOutputToo
  <2>1. /\ UNCHANGED <<mem, readp, writep, held, sbuf, played, bytes, fd, snum>>
        /\ flushed' = snum /\ Flushing' /\ ~Opening'
      BY <1>0, <1>4 DEF StopOutputToo, StopOutput
  <2>2. OutUnits = {} /\ HeldUnits = {}
    <3>1. Used = 0
        BY <1>4 DEF StopOutputToo, Base, IInv, OutputEmpty, Used
    <3>2. held = NoUnit
        BY <1>4 DEF StopOutputToo, Base, IInv, DecoderStopped, DecoderRuns, RoomInv, HeldLocked
    <3> QED
        BY <3>1, <3>2 DEF OutUnits, HeldUnits
  <2>3. /\ OutUnits' = OutUnits /\ HeldUnits' = HeldUnits /\ StreamUnits' = StreamUnits
        /\ Coming' = Coming
      BY <2>1 DEF OutUnits, HeldUnits, StreamUnits, UnitAt, Used, Ahead, Coming
  <2>4. OutOrdered' /\ StreamOrdered'
      BY <2>1 DEF OrderInv, OutOrdered, StreamOrdered, UnitAt, Used, Ahead
  <2>5. OutFirst' /\ HeldFirst' /\ PlayedFirst' /\ NextLast'
      BY <2>1, <2>3 DEF OrderInv, OutFirst, HeldFirst, PlayedFirst, NextLast, Known
  <2>6. NotYet' /\ FlushedGone'
      BY <2>1, <2>2, <2>3 DEF NotYet, FlushedGone
  <2> QED
      BY <2>4, <2>5, <2>6 DEF OrderInv
<1>5. CASE OpenSocket \/ OpenFile
  <2>1. /\ UNCHANGED <<mem, readp, writep, held, sbuf, played, flushed>>
        /\ fd' \in {0, snum} /\ bytes' = 0 /\ ~Opening' /\ Opening /\ ~Flushing /\ ~Flushing'
      BY <1>5 DEF OpenSocket, OpenFile, SockConnected, FileOpened
  <2>2. flushed < snum /\ \A u \in {played} \cup Coming : u[1] < snum
      BY <2>1 DEF OrderInv, NotYet
  <2>3. /\ OutUnits' = OutUnits /\ HeldUnits' = HeldUnits /\ StreamUnits' = StreamUnits
        /\ Coming' = Coming
      BY <2>1 DEF OutUnits, HeldUnits, StreamUnits, UnitAt, Used, Ahead, Coming
  <2>4. OutOrdered' /\ StreamOrdered'
      BY <2>1 DEF OrderInv, OutOrdered, StreamOrdered, UnitAt, Used, Ahead
  <2>5. OutFirst' /\ HeldFirst' /\ PlayedFirst'
      BY <1>0, <2>1, <2>3 DEF OrderInv, OutFirst, HeldFirst, PlayedFirst, Known
  <2>6. NextLast'
      BY <2>1, <2>2, <2>3 DEF NextLast, Before
  <2>7. FlushedGone'
      BY <2>1, <2>2, <2>3 DEF OrderInv, FlushedGone
  <2>8. NotYet'
      BY <2>1 DEF NotYet
  <2> QED
      BY <2>4, <2>5, <2>6, <2>7, <2>8 DEF OrderInv
<1> QED
    BY <1>1, <1>2, <1>3, <1>4, <1>5 DEF Continue, ControllerStep

LEMMA OrderStep ==
    FlushAlone /\ Base /\ Base' /\ RoomInv /\ OrderInv /\ [Next]_vars => OrderInv'
<1> SUFFICES ASSUME FlushAlone, Base, Base', RoomInv, OrderInv, [Next]_vars PROVE OrderInv'
    OBVIOUS
<1>1. ASSUME Threads PROVE ControllerKept
    BY <1>1 DEF Threads, ControllerKept
<1>2. CASE Server \/ Tick \/ UNCHANGED vars
  <2>1. /\ UNCHANGED <<mem, readp, writep, held, sbuf, played, bytes, snum, flushed, fd>>
        /\ (Opening' => Opening) /\ (Flushing => Flushing')
      BY <1>2 DEF Server, Tick, TickStream, Goto, vars, streamVars, decodeVars, outputVars,
                  controlVars, Opening, Flushing
  <2> QED
      BY <2>1, NothingMoves
<1> QED
    BY <1>1, <1>2, OrderStream, OrderDecode, OrderOutput, OrderExecute, OrderContinue
       DEF Next, Threads

LEMMA OrderAlways == ASSUME FlushAlone PROVE Spec => []OrderInv
<1>1. Base /\ Base' /\ RoomInv /\ OrderInv /\ [Next]_vars => OrderInv'
    BY OrderStep
<1> QED
    BY <1>1, OrderInit, RoomAlways, BaseAlways, PTL DEF Spec

------------------------------------------------------------------------------
(* What the output thread plays next is on its way                            *)

LEMMA PlaysNext ==
    ASSUME Base, [Next]_vars, played' # played
    PROVE  _output_frames /\ played' \in OutUnits
<1>1. CASE _output_frames
  <2>1. PICK n \in 0 .. Used : n = Skipped + 1 /\ played' = UnitAt(Skipped)
      BY <1>1, Period
  <2>2. Used \in Nat /\ Skipped \in Nat
      BY Measured, SkipsLess DEF Base, Types, IInv, Typed
  <2> QED
      BY <1>1, <2>1, <2>2 DEF OutUnits
<1>2. CASE ~_output_frames
  <2>1. played' = played
    <3> USE DEF streamVars, decodeVars, outputVars
    <3>1. CASE Server
        BY <3>1 DEF Server
    <3>2. CASE Threads
        BY <1>2, <3>2 DEF Threads, StreamStep, DecodeStep, LookStream, LookOutput, NotRan,
                   CodecInput, CodecTrackStart, CodecWrite
    <3>3. CASE Execute
        BY <3>3 DEF Execute, StrmStop, StrmFlush, StrmPause, StrmSkip, StrmUnpause, StrmStart,
                    Cont, Codc, SetOutput
    <3>4. CASE Tick
        BY <3>4 DEF Tick, TickStream
    <3>5. CASE Continue
        BY <3>5 DEF Continue, ControllerStep, StopFlush, StopOutputToo, StopStream,
             FlushStreaming, FlushStream, EmptyStreambuf, ConnectFails, Connect, OpenSocket,
             OpenFile, Started, TickDecode, TickOutput, TickSend, FlushOutputbuf, StopOutput,
             output_flush_streaming
    <3>6. CASE UNCHANGED vars
        BY <3>6 DEF vars
    <3> QED
        BY <3>1, <3>2, <3>3, <3>4, <3>5, <3>6 DEF Next
  <2> QED
      BY <2>1
<1> QED
    BY <1>1, <1>2

\* No unit is played twice and no stream resumes after a later one (_output_frames,
\* output.c:46-294, with what decode_thread, stream_thread and process_strm do to the
\* two buffers meanwhile), whatever fails.
THEOREM NothingRepeats == ASSUME FlushAlone PROVE Spec => NeverRepeated
<1>1. ASSUME Base, OrderInv, [Next]_vars, played' # played
      PROVE  played'[1] > played[1] \/ (played'[1] = played[1] /\ played'[2] > played[2])
  <2>1. played' \in Coming
      BY <1>1, PlaysNext DEF Coming
  <2>2. Before(played, played')
      BY <1>1, <2>1 DEF OrderInv, PlayedFirst
  <2>3. \A u \in {played} \cup Coming : u[1] \in 0 .. snum /\ u[2] \in Nat
      BY <1>1, ComingKnown
  <2> QED
      BY <2>1, <2>2, <2>3 DEF Before
<1>2. Base /\ OrderInv /\ [Next]_vars =>
          [played' # played => \/ played'[1] > played[1]
                               \/ played'[1] = played[1] /\ played'[2] > played[2]]_vars
    BY <1>1
<1> QED
    BY <1>2, OrderAlways, BaseAlways, PTL DEF Spec, NeverRepeated

\* After 'q' nothing of the streams before it is played (process_strm 'q',
\* slimproto.c:295-305).
THEOREM FlushedIsGone == ASSUME FlushAlone PROVE Spec => FlushedStaysFlushed
<1>1. ASSUME Base, OrderInv, [Next]_vars, played' # played
      PROVE  played'[1] > flushed
    BY <1>1, PlaysNext DEF OrderInv, FlushedGone
<1>2. Base /\ OrderInv /\ [Next]_vars => [played' # played => played'[1] > flushed]_vars
    BY <1>1
<1> QED
    BY <1>2, OrderAlways, BaseAlways, PTL DEF Spec, FlushedStaysFlushed
=============================================================================
