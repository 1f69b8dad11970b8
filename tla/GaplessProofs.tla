----------------------------- MODULE GaplessProofs -----------------------------
(***************************************************************************)
(* What is proved of Player about gaps, for every value of its constants:  *)
(* everything that is received is played in order, except what the server  *)
(* cuts short, and the ends that the player reports are real.              *)
(*                                                                         *)
(* It needs that nothing is thrown away on purpose or by failing: no reset *)
(* connection, no codec that gives up, no skipping, not both 'q' and 'f',  *)
(* and every stream started with its format (Smooth).  A request that      *)
(* fails, headers that are too long and a file that cannot be opened are   *)
(* allowed: such a stream gives nothing.                                   *)
(*                                                                         *)
(* GapInv follows the units: each in outputbuf comes after the one before  *)
(* it (Chained), so does the one in the codec (HeldNext), and streambuf    *)
(* begins where that ends (Complete, Numbered).  The next stream adds no   *)
(* gap because it is started and opened only when all of the last one was  *)
(* decoded (StartsDrained, OpensDrained), which in turn is so because of   *)
(* what the decoder, the ticks and the failures leave (StopsDrained,       *)
(* CompletesDrained, FailsDrained, FindsKept).                             *)
(***************************************************************************)
EXTENDS OrderProofs

USE PipelineAssumption, ServerAssumption DEF PipelineAssumption, ServerAssumption, HoldsD

Smooth == /\ "reset" \notin Faults /\ CodecFails = FALSE
          /\ "a" \notin Ops /\ ~({"q", "f"} \subseteq Ops)
          /\ Named

Ground == Base /\ RoomInv /\ OrderInv /\ HandInv

------------------------------------------------------------------------------
(* The invariant *)

\* The streams cut short: those 'q' stopped and those 'f' cut.
CutShort == (0 .. flushed) \cup trimmed

\* All that was received of stream k left before what follows u: g is what was
\* received of each stream, c are the streams cut short.
Done(g, c, u, k) == g[k] = 0 \/ k \in c \/ u = <<k, g[k]>>

\* v is the unit to come after u.
Follows(g, c, u, v) ==
    \/ v[1] = u[1] /\ v[2] = u[2] + 1
    \/ /\ v[1] > u[1] /\ v[2] = 1
       /\ \A k \in Stream : u[1] <= k /\ k < v[1] => Done(g, c, u, k)

\* After u no stream before the n-th has anything to come.
Settled(g, c, n, u) == \A k \in Stream : u[1] <= k /\ k < n => Done(g, c, u, k)

\* The units of the last stream that the codec took.
Taken == IF snum = 0 THEN 0 ELSE got[snum] - Len(sbuf)

\* Nothing more comes of the last stream.
Drained == ~Live /\ sbuf = << >> /\ held = NoUnit

\* The unit before the i-th in outputbuf, the last in it, and the last decoded.
Prev(i) == IF i = 0 THEN played ELSE UnitAt(i - 1)
OutEnd == Prev(Used)
LastEnd == IF held = NoUnit THEN OutEnd ELSE held

\* streambuf holds what the codec has yet to take of the last stream.
Numbered ==
    /\ \A n \in 1 .. Len(sbuf) : sbuf[n] = <<snum, Taken + n>>
    /\ Taken >= 0
    /\ \A k \in Stream : k > snum => got[k] = 0
    /\ Live => fd = snum /\ bytes = got[snum]

\* What is played and what is in outputbuf and in the codec is without a gap.
Chained == \A i \in 0 .. Used - 1 : Follows(got, CutShort, Prev(i), UnitAt(i))
HeldNext == held # NoUnit => /\ Follows(got, CutShort, OutEnd, held)
                             /\ held = <<snum, Taken>>

\* What was decoded ends where streambuf begins, and nothing is missing before it.
Complete ==
    ~Stopping =>
        /\ Settled(got, CutShort, snum, LastEnd)
        /\ snum \in CutShort => Drained
        /\ snum \notin CutShort => \/ LastEnd = <<snum, Taken>>
                                   \/ Taken = 0 /\ LastEnd[1] < snum

\* 'q' and 'f' on their way to that.
StoppedShort ==
    /\ cpc \in {"f_output", "f_flushed", "f_disconnect", "f_streambuf"} =>
          Settled(got, CutShort, snum, OutEnd) /\ snum \in CutShort
    /\ cpc \in {"q_disconnect", "q_streambuf"} => flushed = snum
    /\ Stopping => dstate = "DECODE_STOPPED" /\ held = NoUnit

\* decode.new_stream says whether the codec has yet to take the first unit.
Fresh ==
    /\ ~newStream => Taken >= 1
    /\ newStream /\ snum \notin CutShort => Taken = 0 \/ (dpc = "start" /\ Taken = 1)
    /\ dpc = "start" => newStream /\ Taken = 1
    /\ dpc = "write" /\ held # NoUnit /\ held[2] = 1 => trackStart = writep

\* The track start marks the first unit of the last stream in outputbuf.
Marked ==
    "q" \notin Ops /\ trackStart # NULL =>
        \/ trackStart = writep /\ dpc = "write" /\ held # NoUnit /\ held[2] = 1
        \/ \E j \in 0 .. Used - 1 :
              /\ trackStart = Ahead(readp, j) /\ UnitAt(j)[2] = 1
              /\ \A i \in j .. Used - 1 : UnitAt(i)[1] = UnitAt(j)[1]

\* A stream is started, and the decoder stops, when there is nothing left of the
\* last one.
OpensDrained == Opening => Drained /\ got[snum] = 0 /\ snum \notin CutShort
StartsDrained == StartsNext => Drained \/ Stopping
StopsDrained == dstate = "DECODE_STOPPED" => Drained \/ Stopping
CompletesDrained ==
    /\ dstate # "DECODE_ERROR"
    /\ dstate = "DECODE_COMPLETE" => Ended(sstate) /\ Drained
    /\ eos => dpc \in {"start", "write"} /\ Ended(sstate) /\ sbuf = << >>

\* A stream that ends in a failure gave nothing.
FailsDrained ==
    /\ sstate = "DISCONNECT" /\ disconnect # "DISCONNECT_OK" => Drained
    /\ "DSCO" \in tick.send /\ tick.code # "DISCONNECT_OK" => Drained
NothingYet ==
    /\ Live /\ (sstate \in {"SEND_HEADERS", "RECV_HEADERS"} \/ (isFile /\ spc = "in")) =>
          got[snum] = 0
    /\ isFile /\ Live => sstate = "STREAMING_FILE"

\* What a tick found is still so when it reports it.
FindsKept ==
    /\ cpc = "tickD" => tick.send \subseteq {"DSCO", "RESP"}
    /\ cpc \in {"tickO", "send"} =>
          /\ tick.decode = "DECODE_STOPPED" => dstate = "DECODE_STOPPED"
          /\ "STMd" \in tick.send => dstate = "DECODE_STOPPED" /\ Ended(sstate)
          /\ "STMu" \in tick.send => dstate = "DECODE_STOPPED" /\ Ended(sstate) /\ Used = 0
          /\ "STMn" \notin tick.send

Units == /\ Numbered /\ Chained /\ HeldNext /\ Complete /\ StoppedShort
         /\ Fresh /\ Marked
Ends == /\ OpensDrained /\ StartsDrained /\ StopsDrained /\ CompletesDrained
        /\ FailsDrained /\ NothingYet /\ FindsKept
GapInv == Units /\ Ends

------------------------------------------------------------------------------
(* What is used of it again and again *)

\* More may be received of the n-th stream, and more streams cut short.
LEMMA FollowsLater ==
    ASSUME NEW g, NEW h, NEW c, NEW d, NEW n \in Int, NEW u, NEW v, c \subseteq d,
           \A k \in Stream : k < n => h[k] = g[k]
    PROVE  /\ Settled(g, c, n, u) => Settled(h, d, n, u)
           /\ v[1] \in Int /\ v[1] <= n /\ Follows(g, c, u, v) => Follows(h, d, u, v)
BY DEF Settled, Follows, Done, Stream

LEMMA UnitsKnown ==
    /\ \A u \in Known : /\ u[1] \in 1 .. MaxStreams /\ u[1] <= snum /\ u[2] \in Nat \ {0}
                        /\ u # NoUnit
    /\ NoUnit[1] = 0 /\ NoUnit[2] = 0
BY DEF Known, Unit, Stream, NoUnit

LEMMA Located ==
    ASSUME Ground
    PROVE  /\ OutputTypes /\ Used \in Nat
           /\ snum \in 0 .. MaxStreams /\ flushed \in 0 .. snum /\ trimmed \subseteq 0 .. snum
           /\ got \in [Stream -> 0 .. MaxLen]
           /\ sbuf \in Seq(Known) /\ Len(sbuf) \in Nat /\ held \in Known \cup {NoUnit}
           /\ \A i \in 0 .. Used - 1 : UnitAt(i) \in Known
           /\ \A i \in 0 .. Used : Prev(i) \in Known \cup {NoUnit}
           /\ OutEnd \in Known \cup {NoUnit} /\ LastEnd \in Known \cup {NoUnit}
           /\ Taken \in Int
<1>1. /\ Types /\ OutputTypes /\ StreamTypes /\ ControlTypes /\ DecodeTypes
      /\ played \in Known \cup {NoUnit}
    BY DEF Ground, Base, Types, OutputTypes
<1>2. Used \in Nat /\ sbuf \in Seq(Known) /\ Len(sbuf) \in Nat
    BY <1>1, Measured DEF StreamTypes
<1>3. \A i \in 0 .. Used - 1 : UnitAt(i) \in Known
    BY DEF Ground, OrderInv, PlayedFirst, Coming, OutUnits
<1>4. \A i \in 0 .. Used : Prev(i) \in Known \cup {NoUnit}
    BY <1>1, <1>2, <1>3 DEF Prev
<1>5. OutEnd \in Known \cup {NoUnit} /\ LastEnd \in Known \cup {NoUnit}
    BY <1>1, <1>2, <1>4 DEF OutEnd, LastEnd, DecodeTypes
<1>6. Taken \in Int
    BY <1>1, <1>2 DEF Taken, StreamTypes, ControlTypes, Stream
<1> QED
    BY <1>1, <1>2, <1>3, <1>4, <1>5, <1>6 DEF StreamTypes, ControlTypes, DecodeTypes

\* Where no unit moves nothing becomes of the chain.
LEMMA ChainKept ==
    ASSUME UNCHANGED <<mem, readp, writep, played, held, sbuf, snum, got, flushed, trimmed>>
    PROVE  /\ Used' = Used /\ Taken' = Taken /\ CutShort' = CutShort
           /\ OutEnd' = OutEnd /\ LastEnd' = LastEnd
           /\ Chained' = Chained /\ HeldNext' = HeldNext
<1>1. /\ Used' = Used /\ Taken' = Taken /\ CutShort' = CutShort
      /\ \A i : UnitAt(i)' = UnitAt(i)
    BY DEF Used, Taken, CutShort, UnitAt, Ahead
<1>2. \A i : Prev(i)' = Prev(i)
    BY <1>1 DEF Prev
<1>3. OutEnd' = OutEnd /\ LastEnd' = LastEnd
    BY <1>1, <1>2 DEF OutEnd, LastEnd, Prev
<1>4. Chained' = Chained /\ HeldNext' = HeldNext
    BY <1>1, <1>2, <1>3 DEF Chained, HeldNext
<1> QED
    BY <1>1, <1>3, <1>4

LEMMA UnitsKept ==
    ASSUME Units,
           UNCHANGED <<mem, readp, writep, played, held, sbuf, snum, got, flushed, trimmed,
                       bytes, trackStart, newStream>>,
           fd' \in {0, fd}, Live' => Live, Stopping => Stopping',
           dpc' = dpc \/ {dpc, dpc'} \cap {"start", "write"} = {}
    PROVE  /\ Numbered' /\ Chained' /\ HeldNext' /\ Complete' /\ Fresh' /\ Marked'
           /\ Drained => Drained'
           /\ \A m : Settled(got, CutShort, m, OutEnd)' = Settled(got, CutShort, m, OutEnd)
<1>1. /\ Used' = Used /\ Taken' = Taken /\ CutShort' = CutShort
      /\ OutEnd' = OutEnd /\ LastEnd' = LastEnd
      /\ Chained' = Chained /\ HeldNext' = HeldNext
    BY ChainKept
<1>2. Drained => Drained'
    BY DEF Drained
<1>3. Numbered'
    BY <1>1 DEF Units, Numbered, Live
<1>4. Complete'
    BY <1>1, <1>2 DEF Units, Complete
<1>5. Fresh'
    BY <1>1 DEF Units, Fresh
<1>6. Marked'
    BY <1>1 DEF Units, Marked, UnitAt, Ahead
<1> QED
    BY <1>1, <1>2, <1>3, <1>4, <1>5, <1>6 DEF Units

\* A stream that gave nothing has nothing left when it fails.
LEMMA GaveNothing ==
    ASSUME Ground, Units, Live, got[snum] = 0
    PROVE  sbuf = << >> /\ held = NoUnit
<1>1. /\ Taken >= 0 /\ fd = snum /\ fd # 0 /\ Len(sbuf) \in Nat /\ sbuf \in Seq(Known)
      /\ held \in Known \cup {NoUnit}
      /\ held # NoUnit => held = <<snum, Taken>>
    BY Located DEF Units, Numbered, HeldNext, Live
<1>2. Taken = 0 - Len(sbuf)
    BY <1>1 DEF Taken
<1>3. Len(sbuf) = 0 /\ Taken = 0
    BY <1>1, <1>2
<1>4. held # NoUnit => held[2] = Taken
    BY <1>1
<1> QED
    BY <1>1, <1>3, <1>4, UnitsKnown

LEMMA GapInit == Init => GapInv
<1> SUFFICES ASSUME Init PROVE GapInv
    OBVIOUS
<1>1. /\ Used = 0 /\ Taken = 0 /\ held = NoUnit /\ sbuf = << >> /\ Len(sbuf) = 0
      /\ snum = 0 /\ 0 \in CutShort /\ trackStart = NULL /\ newStream = TRUE
      /\ dpc = "stream" /\ cpc = "idle" /\ dstate = "DECODE_STOPPED" /\ eos = FALSE
      /\ sstate = "STOPPED" /\ tick = NoTick /\ got = [k \in Stream |-> 0]
    BY DEF Init, PipelineInit, ControllerInit, Used, Taken, CutShort
<1>2. ~Live /\ Drained /\ ~Opening /\ ~Stopping
    BY <1>1 DEF Live, Drained, Ended, Opening, Stopping
<1>3. Settled(got, CutShort, 0, LastEnd)
    BY DEF Settled, Stream
<1>4. Numbered /\ Chained /\ HeldNext
    BY <1>1, <1>2 DEF Numbered, Chained, HeldNext
<1>5. Complete /\ StoppedShort /\ Fresh /\ Marked
    BY <1>1, <1>2, <1>3 DEF Complete, StoppedShort, Fresh, Marked, Stopping
<1>6. Ends
    BY <1>1, <1>2 DEF Ends, OpensDrained, StartsDrained, StopsDrained, CompletesDrained,
       FailsDrained, NothingYet, FindsKept, NoTick
<1> QED
    BY <1>4, <1>5, <1>6 DEF GapInv, Units

(* stream_thread *)

\* How a stream that gave something ends: well.
LEMMA FailsEarly ==
    ASSUME Smooth, Ground, GapInv, StreamStep, ~Ended(sstate),
           sstate' = "DISCONNECT", disconnect' # "DISCONNECT_OK"
    PROVE  Live /\ got[snum] = 0
<1>1. NotPolled
    BY DEF Ground, HandInv
<1> USE DEF Smooth, Disconnect, SetDisconnect, Live, GapInv, Ends, NothingYet
<1>2. CASE ReadFile
    BY <1>2 DEF ReadFile, Receive
<1>3. CASE PollSocket
    BY <1>3 DEF PollSocket, Ended
<1>4. CASE PollStale
    BY <1>4 DEF PollStale, Ended
<1>5. CASE SendHeader
    BY <1>5 DEF SendHeader
<1>6. CASE RecvHeaders
    BY <1>6 DEF RecvHeaders, HeaderDone
<1>7. CASE RecvBody
    BY <1>7 DEF RecvBody, Receive, Ended
<1> QED
    BY <1>2, <1>3, <1>4, <1>5, <1>6, <1>7 DEF StreamStep

\* Nothing of a stream is received before its response headers, or through recv of
\* a file.
LEMMA NothingYetKept == Ground /\ NothingYet /\ StreamStep /\ snum' = snum => NothingYet'
<1> SUFFICES ASSUME Ground, NothingYet, StreamStep, snum' = snum PROVE NothingYet'
    OBVIOUS
<1>1. NotPolled /\ (Live' => Live) /\ isFile' = isFile
    BY StreamFades, StreamMoves DEF Ground, HandInv, Base
<1> USE DEF Disconnect, SetDisconnect, NothingYet, Live, Ended
<1>2. CASE ReadFile
    BY <1>1, <1>2 DEF ReadFile, Receive
<1>3. CASE PollSocket
    BY <1>1, <1>3 DEF PollSocket, NotReading
<1>4. CASE PollStale
    BY <1>1, <1>4 DEF PollStale
<1>5. CASE SendHeader
    BY <1>1, <1>5 DEF SendHeader
<1>6. CASE RecvHeaders
    BY <1>1, <1>6 DEF RecvHeaders, HeaderDone
<1>7. CASE RecvBody
    BY <1>1, <1>7 DEF RecvBody, Receive, NotPolled
<1> QED
    BY <1>2, <1>3, <1>4, <1>5, <1>6, <1>7 DEF StreamStep

LEMMA GapReceives ==
    ASSUME Smooth, Ground, GapInv, StreamStep, ControllerKept, Receive, fd # 0, fd' = fd
    PROVE  GapInv' /\ Live
<1>1. UNCHANGED <<cpc, tick, snum, flushed, trimmed, mem, readp, writep, played, held, dstate,
                  newStream, dpc, eos, trackStart, cmdq, srv, wanted>>
    BY DEF StreamStep, ControllerKept, decodeVars, outputVars, serverVars
<1>2. ~Ended(sstate) /\ sstate' # "DISCONNECT" /\ (Live' => Live)
  <2>1. NotPolled
      BY DEF Ground, HandInv
  <2>2. bytes' = bytes + 1 /\ bytes \in Nat
      BY DEF Receive, Ground, Base, Types, StreamTypes
  <2>3. bytes' # bytes
      BY <2>2
  <2>4. ReadFile \/ RecvBody
      BY <2>3 DEF StreamStep, PollSocket, PollStale, SendHeader, RecvHeaders
  <2>5. ~Ended(sstate) /\ sstate' # "DISCONNECT"
      BY <2>1, <2>3, <2>4 DEF ReadFile, RecvBody, Ended, NotPolled, Disconnect
  <2> QED
      BY <2>5, StreamFades
<1>3. Live /\ ~Drained /\ ~Drained'
    BY <1>2 DEF Live, Drained, Receive
<1>4. /\ fd = snum /\ bytes = got[snum] /\ snum \in Stream /\ bytes \in 0 .. MaxLen
      /\ sbuf \in Seq(Known) /\ Len(sbuf) \in Nat
      /\ got \in [Stream -> 0 .. MaxLen]
    BY <1>3, Located DEF GapInv, Units, Numbered, Stream
<1> DEFINE nx == <<snum, bytes + 1>>
<1>5. /\ sbuf' = Append(sbuf, nx) /\ bytes' = bytes + 1
      /\ got' = [got EXCEPT ![snum] = bytes + 1]
    BY <1>4 DEF Receive
<1>6. /\ got'[snum] = bytes + 1 /\ \A k \in Stream : k # snum => got'[k] = got[k]
      /\ Len(sbuf') = Len(sbuf) + 1 /\ sbuf'[Len(sbuf) + 1] = nx
      /\ \A n \in 1 .. Len(sbuf) : sbuf'[n] = sbuf[n]
    BY <1>4, <1>5
<1>7. /\ Taken' = Taken /\ Taken = bytes - Len(sbuf) /\ CutShort' = CutShort
      /\ Used' = Used /\ \A i : UnitAt(i)' = UnitAt(i)
    BY <1>1, <1>4, <1>6 DEF Taken, CutShort, Used, UnitAt, Ahead, Stream
<1>8. /\ \A i : Prev(i)' = Prev(i)
      /\ OutEnd' = OutEnd /\ LastEnd' = LastEnd
    BY <1>1, <1>7 DEF Prev, OutEnd, LastEnd
<1>9. Numbered'
  <2>1. 1 .. Len(sbuf') = (1 .. Len(sbuf)) \cup {Len(sbuf) + 1}
      BY <1>4, <1>6
  <2>2. \A n \in 1 .. Len(sbuf) : sbuf'[n] = <<snum, Taken + n>>
      BY <1>6 DEF GapInv, Units, Numbered
  <2>3. bytes + 1 = Taken + (Len(sbuf) + 1)
      BY <1>4, <1>7
  <2>4. sbuf'[Len(sbuf) + 1] = <<snum, Taken + (Len(sbuf) + 1)>>
      BY <1>6, <2>3
  <2>5. \A n \in 1 .. Len(sbuf') : sbuf'[n] = <<snum, Taken + n>>
      BY <2>1, <2>2, <2>4
  <2>6. \A k \in Stream : k > snum => got'[k] = 0
      BY <1>4, <1>6 DEF GapInv, Units, Numbered, Stream
  <2>7. Taken >= 0
      BY DEF GapInv, Units, Numbered
  <2> QED
      BY <1>1, <1>4, <1>5, <1>6, <1>7, <2>5, <2>6, <2>7 DEF Numbered
<1> HIDE DEF nx
<1>10. /\ \A u : Settled(got, CutShort, snum, u) => Settled(got, CutShort, snum, u)'
       /\ \A u, v : v \in Known /\ Follows(got, CutShort, u, v)
                       => Follows(got, CutShort, u, v)'
  <2>1. \A k \in Stream : k < snum => got'[k] = got[k]
      BY <1>4, <1>6 DEF Stream
  <2>2. snum \in Int /\ CutShort \subseteq CutShort
      BY <1>4 DEF Stream
  <2>3. ASSUME NEW u, NEW v
        PROVE  /\ Settled(got, CutShort, snum, u) => Settled(got', CutShort, snum, u)
               /\ v[1] \in Int /\ v[1] <= snum /\ Follows(got, CutShort, u, v)
                     => Follows(got', CutShort, u, v)
      BY <2>1, <2>2, FollowsLater
  <2> QED
      BY <1>1, <1>7, <2>3, UnitsKnown DEF Settled, Follows, Done
<1>11. Chained' /\ HeldNext'
  <2>1. \A i \in 0 .. Used - 1 : UnitAt(i) \in Known
      BY Located
  <2>2. ASSUME NEW i \in 0 .. Used - 1 PROVE Follows(got', CutShort', Prev(i)', UnitAt(i)')
    <3>1. Follows(got, CutShort, Prev(i), UnitAt(i))
        BY DEF GapInv, Units, Chained
    <3>2. Follows(got', CutShort, Prev(i), UnitAt(i))
        BY <1>7, <1>10, <2>1, <3>1 DEF Follows, Done
    <3> QED
        BY <1>7, <1>8, <3>2
  <2>3. Chained'
      BY <1>7, <2>2 DEF Chained
  <2>4. ASSUME held # NoUnit PROVE Follows(got', CutShort', OutEnd', held')
    <3>1. Follows(got, CutShort, OutEnd, held) /\ held \in Known
        BY <2>4, Located DEF GapInv, Units, HeldNext
    <3> QED
        BY <1>1, <1>7, <1>8, <1>10, <3>1 DEF Follows, Done
  <2>5. HeldNext'
      BY <1>1, <1>7, <2>4 DEF GapInv, Units, HeldNext
  <2> QED
      BY <2>3, <2>5
<1>12. Complete' /\ StoppedShort' /\ Fresh' /\ Marked'
  <2>1. Complete'
    <3>1. Stopping' = Stopping
        BY <1>1 DEF Stopping
    <3>2. Settled(got, CutShort, snum, LastEnd) => Settled(got', CutShort', snum', LastEnd')
        BY <1>1, <1>7, <1>8, <1>10 DEF Settled, Done
    <3> QED
        BY <1>1, <1>3, <1>7, <1>8, <3>1, <3>2 DEF GapInv, Units, Complete
  <2>2. StoppedShort'
    <3>1. Settled(got, CutShort, snum, OutEnd) => Settled(got', CutShort', snum', OutEnd')
        BY <1>1, <1>7, <1>8, <1>10 DEF Settled, Done
    <3> QED
        BY <1>1, <1>7, <3>1 DEF GapInv, Units, StoppedShort, Stopping
  <2>3. Fresh'
      BY <1>1, <1>7 DEF GapInv, Units, Fresh
  <2>4. Marked'
      BY <1>1, <1>7 DEF GapInv, Units, Marked, Ahead
  <2> QED
      BY <2>1, <2>2, <2>3, <2>4
<1>13. StartsNext' <=> StartsNext
    BY <1>1, QueueKept
<1>14. Ends'
  <2>1. OpensDrained' /\ StartsDrained' /\ StopsDrained'
      BY <1>1, <1>3, <1>13 DEF GapInv, Ends, OpensDrained, StartsDrained, StopsDrained, Opening,
                               Stopping
  <2>2. CompletesDrained' /\ FailsDrained'
      BY <1>1, <1>2, <1>3 DEF GapInv, Ends, CompletesDrained, FailsDrained
  <2>3. NothingYet'
    <3>1. NotPolled
        BY DEF Ground, HandInv
    <3>2. bytes' # bytes
        BY <1>4, <1>5
    <3>3. CASE ReadFile
        BY <1>1, <3>2, <3>3 DEF ReadFile, Disconnect, NothingYet, GapInv, Ends, Live
    <3>4. CASE RecvBody
        BY <1>1, <3>2, <3>4 DEF RecvBody, Disconnect, NothingYet, GapInv, Ends, Live
    <3> QED
        BY <3>2, <3>3, <3>4 DEF StreamStep, PollSocket, PollStale, SendHeader, RecvHeaders
  <2>4. FindsKept'
      BY <1>1, <1>2, <1>7, StreamFades DEF GapInv, Ends, FindsKept
  <2> QED
      BY <2>1, <2>2, <2>3, <2>4 DEF Ends
<1> QED
    BY <1>3, <1>9, <1>11, <1>12, <1>14 DEF GapInv, Units

LEMMA GapStream == Smooth /\ Ground /\ GapInv /\ StreamStep /\ ControllerKept => GapInv'
<1> SUFFICES ASSUME Smooth, Ground, GapInv, StreamStep, ControllerKept PROVE GapInv'
    OBVIOUS
<1>1. CASE Receive /\ fd # 0 /\ fd' = fd
    BY <1>1, GapReceives
<1>2. CASE UNCHANGED <<bytes, sbuf, got>>
  <2>1. UNCHANGED <<cpc, tick, snum, flushed, trimmed, mem, readp, writep, played, held, dstate,
                    newStream, dpc, eos, trackStart, cmdq, srv, wanted>>
      BY DEF StreamStep, ControllerKept, decodeVars, outputVars, serverVars
  <2>2. /\ fd' \in {0, fd} /\ (Live' => Live) /\ (Ended(sstate) => Ended(sstate'))
        /\ Ended(sstate) => UNCHANGED <<sstate, disconnect>>
      BY StreamFades DEF Ground, HandInv
  <2>3. /\ Numbered' /\ Chained' /\ HeldNext' /\ Complete' /\ Fresh' /\ Marked'
        /\ (Drained => Drained') /\ CutShort' = CutShort /\ Used' = Used
        /\ \A m : Settled(got, CutShort, m, OutEnd)' = Settled(got, CutShort, m, OutEnd)
      BY <1>2, <2>1, <2>2, UnitsKept, ChainKept DEF GapInv, Stopping
  <2>4. StoppedShort'
      BY <2>1, <2>3 DEF GapInv, Units, StoppedShort, Stopping
  <2>5. StartsNext' <=> StartsNext
      BY <2>1, QueueKept
  <2>6. OpensDrained' /\ StartsDrained' /\ StopsDrained' /\ CompletesDrained'
      BY <1>2, <2>1, <2>2, <2>3, <2>5 DEF GapInv, Ends, OpensDrained, StartsDrained,
         StopsDrained, CompletesDrained, Opening, Stopping
  <2>7. FailsDrained'
    <3>1. CASE Ended(sstate)
        BY <2>1, <2>2, <2>3, <3>1 DEF GapInv, Ends, FailsDrained
    <3>2. CASE ~Ended(sstate)
      <4>1. ASSUME sstate' = "DISCONNECT", disconnect' # "DISCONNECT_OK" PROVE Drained'
        <5>1. sbuf = << >> /\ held = NoUnit
            BY <3>2, <4>1, FailsEarly, GaveNothing DEF GapInv
        <5> QED
            BY <1>2, <2>1, <4>1, <5>1 DEF Drained, Live, Ended
      <4> QED
          BY <2>1, <2>3, <4>1 DEF GapInv, Ends, FailsDrained
    <3> QED
        BY <3>1, <3>2
  <2>8. NothingYet'
      BY <2>1, NothingYetKept DEF GapInv, Ends
  <2>9. FindsKept'
      BY <2>1, <2>2, <2>3 DEF GapInv, Ends, FindsKept
  <2> QED
      BY <2>3, <2>4, <2>6, <2>7, <2>8, <2>9 DEF GapInv, Units, Ends
<1> QED
    BY <1>1, <1>2, StreamMoves DEF Ground, Base

(* decode_thread *)

\* What a step of decode_thread or of the output thread leaves alone.
LEMMA EndsLeft ==
    ASSUME GapInv, UNCHANGED <<sstate, disconnect, fd, isFile, spc, got, cpc, tick, snum,
                               flushed, trimmed, dstate, cmdq, srv, wanted>>,
           Drained => Drained', Used = 0 => Used' = 0
    PROVE  /\ OpensDrained' /\ StartsDrained' /\ StopsDrained' /\ FailsDrained' /\ NothingYet'
           /\ FindsKept'
<1>1. /\ Opening' = Opening /\ Stopping' = Stopping /\ Live' = Live /\ CutShort' = CutShort
      /\ StartsNext' <=> StartsNext
    BY QueueKept DEF Opening, Stopping, Live, CutShort
<1>2. OpensDrained' /\ StartsDrained' /\ StopsDrained' /\ FailsDrained'
    BY <1>1 DEF GapInv, Ends, OpensDrained, StartsDrained, StopsDrained, FailsDrained
<1>3. NothingYet' /\ FindsKept'
    BY <1>1 DEF GapInv, Ends, NothingYet, FindsKept
<1> QED
    BY <1>2, <1>3

LEMMA DecodeLeaves ==
    ASSUME DecodeStep, ControllerKept
    PROVE  /\ UNCHANGED <<sstate, disconnect, fd, isFile, spc, got, cpc, tick, snum, flushed,
                          trimmed, cmdq, srv, wanted, bytes, readp, played>>
           /\ ~CodecWrite => UNCHANGED <<dstate, mem, writep>>
           /\ ~CodecWrite /\ ~CodecInput => UNCHANGED <<sbuf, held, eos>>
           /\ ~CodecTrackStart => UNCHANGED <<newStream, trackStart>>
BY DEF DecodeStep, LookStream, LookOutput, NotRan, CodecInput, CodecTrackStart, CodecWrite,
       ControllerKept, streamVars, outputVars, serverVars

LEMMA GapLooks ==
    Ground /\ GapInv /\ (LookStream \/ LookOutput \/ NotRan) /\ ControllerKept => GapInv'
<1> SUFFICES ASSUME Ground, GapInv, LookStream \/ LookOutput \/ NotRan, ControllerKept
             PROVE  GapInv'
    OBVIOUS
<1>1. /\ UNCHANGED <<sstate, disconnect, fd, isFile, spc, got, cpc, tick, snum, flushed, trimmed,
                     cmdq, srv, wanted, bytes, readp, played, dstate, mem, writep, sbuf, held,
                     eos, newStream, trackStart>>
      /\ {dpc, dpc'} \cap {"start", "write"} = {}
    BY DecodeLeaves DEF DecodeStep, LookStream, LookOutput, NotRan, CodecWrite, CodecInput,
                        CodecTrackStart
<1>2. Live' = Live /\ Stopping' = Stopping
    BY <1>1 DEF Live, Stopping
<1>3. /\ Numbered' /\ Chained' /\ HeldNext' /\ Complete' /\ Fresh' /\ Marked'
      /\ (Drained => Drained') /\ CutShort' = CutShort /\ Used' = Used
      /\ \A m : Settled(got, CutShort, m, OutEnd)' = Settled(got, CutShort, m, OutEnd)
    BY <1>1, <1>2, UnitsKept, ChainKept DEF GapInv
<1>4. StoppedShort'
    BY <1>1, <1>2, <1>3 DEF GapInv, Units, StoppedShort
<1>5. CompletesDrained'
    BY <1>1, <1>3 DEF GapInv, Ends, CompletesDrained
<1> QED
    BY <1>1, <1>3, <1>4, <1>5, EndsLeft DEF GapInv, Units, Ends

\* While the decoder runs nothing is being stopped or opened.
LEMMA WhileRunning ==
    Ground /\ GapInv /\ dstate = "DECODE_RUNNING" => ~Stopping /\ ~Opening
BY DEF Ground, HandInv, OpensAfterEnd, GapInv, Units, StoppedShort

LEMMA GapInput == Ground /\ GapInv /\ CodecInput /\ ControllerKept => GapInv'
<1> SUFFICES ASSUME Ground, GapInv, CodecInput, ControllerKept PROVE GapInv'
    OBVIOUS
<1>1. /\ UNCHANGED <<sstate, disconnect, fd, isFile, spc, got, cpc, tick, snum, flushed, trimmed,
                     cmdq, srv, wanted, bytes, readp, played, dstate, mem, writep, newStream,
                     trackStart>>
      /\ dpc = "lock" /\ dpc' = (IF newStream /\ sbuf # << >> THEN "start" ELSE "write")
    BY DecodeLeaves DEF DecodeStep, CodecInput, CodecWrite, CodecTrackStart
<1>2. held = NoUnit /\ dstate = "DECODE_RUNNING" /\ ~Stopping /\ ~Opening
  <2>1. dstate = "DECODE_RUNNING"
      BY DEF CodecInput, MayDecode
  <2> QED
      BY <1>1, <2>1, WhileRunning DEF Ground, RoomInv, HeldLocked
<1>3. /\ ~Stopping' /\ CutShort' = CutShort /\ Used' = Used /\ Live' = Live
      /\ \A i : UnitAt(i)' = UnitAt(i)
    BY <1>1, <1>2 DEF Stopping, CutShort, Used, UnitAt, Ahead, Live
<1>4. (\A i : Prev(i)' = Prev(i)) /\ OutEnd' = OutEnd /\ LastEnd = OutEnd
    BY <1>1, <1>2, <1>3 DEF Prev, OutEnd, LastEnd
<1>5. Chained' /\ StoppedShort' /\ Marked'
  <2>1. Chained'
      BY <1>1, <1>3, <1>4 DEF GapInv, Units, Chained
  <2>2. StoppedShort'
      BY <1>3 DEF StoppedShort, Stopping
  <2>3. Marked'
      BY <1>1, <1>2, <1>3 DEF GapInv, Units, Marked, Ahead
  <2> QED
      BY <2>1, <2>2, <2>3
<1>6. CompletesDrained'
    BY <1>1, <1>2 DEF CompletesDrained, CodecInput, EndOfStream
<1>7. CASE sbuf = << >>
  <2>1. sbuf' = sbuf /\ held' = held /\ dpc' = "write"
      BY <1>1, <1>2, <1>7 DEF CodecInput
  <2>2. Taken' = Taken /\ LastEnd' = LastEnd /\ (Drained => Drained')
      BY <1>1, <1>2, <1>3, <1>4, <2>1 DEF Taken, LastEnd, Drained
  <2>3. Numbered' /\ HeldNext' /\ Fresh'
      BY <1>1, <1>2, <1>3, <1>7, <2>1, <2>2 DEF GapInv, Units, Numbered, HeldNext, Fresh
  <2>4. Complete'
      BY <1>1, <1>2, <1>3, <2>2 DEF GapInv, Units, Complete
  <2> QED
      BY <1>1, <1>2, <1>3, <1>5, <1>6, <2>2, <2>3, <2>4, EndsLeft DEF GapInv, Units, Ends
<1>8. CASE sbuf # << >>
  <2>1. /\ sbuf \in Seq(Known) /\ Len(sbuf) \in Nat /\ Len(sbuf) > 0 /\ Taken \in Int
        /\ snum \in 0 .. MaxStreams /\ got \in [Stream -> 0 .. MaxLen]
      BY <1>8, Located
  <2>2. /\ held' = sbuf[1] /\ Len(sbuf') = Len(sbuf) - 1
        /\ \A n \in 1 .. Len(sbuf) - 1 : sbuf'[n] = sbuf[n + 1]
      BY <1>8, <2>1 DEF CodecInput
  <2>3. sbuf[1] = <<snum, Taken + 1>> /\ sbuf[1] \in Known
      BY <2>1 DEF GapInv, Units, Numbered
  <2>4. snum # 0 /\ snum \in Stream /\ held' # NoUnit
    <3>1. sbuf[1][1] = snum /\ sbuf[1][1] \in 1 .. MaxStreams /\ sbuf[1] # NoUnit
        BY <2>3, UnitsKnown
    <3> QED
        BY <2>2, <3>1 DEF Stream
  <2>5. Taken' = Taken + 1 /\ Taken' \in Int /\ Taken >= 0
    <3>1. Taken = got[snum] - Len(sbuf) /\ Taken' = got[snum] - Len(sbuf') /\ got[snum] \in Int
        BY <1>1, <2>1, <2>4 DEF Taken
    <3>2. Taken >= 0
        BY DEF GapInv, Units, Numbered
    <3> QED
        BY <2>1, <2>2, <3>1, <3>2
  <2>6. held' = <<snum, Taken'>> /\ held'[1] = snum /\ held'[2] = Taken + 1
      BY <2>2, <2>3, <2>5
  <2>7. ~Drained /\ snum \notin CutShort
      BY <1>2, <1>8 DEF Drained, GapInv, Units, Complete
  <2>8. Follows(got, CutShort, OutEnd, held')
    <3>1. LastEnd = <<snum, Taken>> \/ (Taken = 0 /\ LastEnd[1] < snum)
        BY <1>2, <2>7 DEF GapInv, Units, Complete
    <3>2. CASE LastEnd = <<snum, Taken>>
      <4>1. OutEnd[1] = snum /\ OutEnd[2] = Taken
          BY <1>4, <3>2
      <4> QED
          BY <2>6, <4>1 DEF Follows
    <3>3. CASE Taken = 0 /\ LastEnd[1] < snum
      <4>1. held'[2] = 1 /\ held'[1] > OutEnd[1]
        <5>1. OutEnd[1] \in Int /\ OutEnd[1] < snum
            BY <1>4, <3>3, Located, UnitsKnown
        <5> QED
            BY <2>1, <2>6, <3>3, <5>1
      <4>2. Settled(got, CutShort, snum, OutEnd)
          BY <1>2, <1>4 DEF GapInv, Units, Complete
      <4> QED
          BY <2>6, <4>1, <4>2 DEF Follows, Settled
    <3> QED
        BY <3>1, <3>2, <3>3
  <2>9. HeldNext'
      BY <1>1, <1>3, <1>4, <2>6, <2>8 DEF HeldNext, Follows, Done
  <2>10. Numbered'
    <3>1. ASSUME NEW n \in 1 .. Len(sbuf') PROVE sbuf'[n] = <<snum, Taken' + n>>
      <4>1. n \in 1 .. Len(sbuf) - 1 /\ n + 1 \in 1 .. Len(sbuf)
          BY <2>1, <2>2, <3>1
      <4>2. sbuf'[n] = <<snum, Taken + (n + 1)>>
          BY <2>2, <4>1 DEF GapInv, Units, Numbered
      <4>3. Taken + (n + 1) = Taken' + n
          BY <2>1, <2>5
      <4> QED
          BY <4>2, <4>3
    <3>2. Taken' >= 0
        BY <2>1, <2>5
    <3> QED
        BY <1>1, <1>3, <3>1, <3>2 DEF GapInv, Units, Numbered
  <2>11. Complete'
    <3>1. LastEnd' = held'
        BY <2>4 DEF LastEnd
    <3>2. Settled(got, CutShort, snum, held')
        BY <2>1, <2>6 DEF Settled, Stream
    <3> QED
        BY <1>1, <1>3, <2>6, <2>7, <3>1, <3>2 DEF Complete, Settled, Done
  <2>12. Fresh'
    <3>1. newStream => Taken = 0 /\ dpc' = "start"
        BY <1>1, <1>8, <2>7 DEF GapInv, Units, Fresh
    <3>2. ~newStream => Taken >= 1 /\ dpc' = "write"
        BY <1>1 DEF GapInv, Units, Fresh
    <3>3. newStream \in BOOLEAN
        BY DEF Ground, Base, Flags
    <3> QED
        BY <1>1, <2>1, <2>5, <2>6, <3>1, <3>2, <3>3 DEF Fresh
  <2>13. Drained => Drained'
      BY <2>7
  <2> QED
      BY <1>1, <1>3, <1>5, <1>6, <2>9, <2>10, <2>11, <2>12, <2>13, EndsLeft
         DEF GapInv, Units, Ends
<1> QED
    BY <1>7, <1>8

LEMMA GapTrackStart == Ground /\ GapInv /\ CodecTrackStart /\ ControllerKept => GapInv'
<1> SUFFICES ASSUME Ground, GapInv, CodecTrackStart, ControllerKept PROVE GapInv'
    OBVIOUS
<1>1. /\ UNCHANGED <<sstate, disconnect, fd, isFile, spc, got, cpc, tick, snum, flushed, trimmed,
                     cmdq, srv, wanted, bytes, readp, played, dstate, mem, writep, sbuf, held, eos>>
      /\ dpc = "start" /\ dpc' = "write" /\ newStream' = FALSE /\ trackStart' = writep
    BY DecodeLeaves DEF DecodeStep, CodecTrackStart, CodecWrite, CodecInput
<1>2. /\ CutShort' = CutShort /\ Used' = Used /\ Taken' = Taken /\ OutEnd' = OutEnd
      /\ LastEnd' = LastEnd /\ Chained' = Chained /\ HeldNext' = HeldNext
      /\ Live' = Live /\ Stopping' = Stopping /\ Drained' = Drained
    BY <1>1, ChainKept DEF Live, Stopping, Drained
<1>3. held # NoUnit /\ held[2] = 1 /\ Taken = 1
    BY <1>1 DEF Ground, RoomInv, HeldLocked, GapInv, Units, HeldNext, Fresh
<1>4. Numbered' /\ Chained' /\ HeldNext' /\ Complete'
    BY <1>1, <1>2 DEF GapInv, Units, Numbered, Complete
<1>5. Fresh' /\ Marked' /\ CompletesDrained'
    BY <1>1, <1>2, <1>3 DEF GapInv, Ends, Fresh, Marked, CompletesDrained
<1>6. StoppedShort'
    BY <1>1, <1>2 DEF GapInv, Units, StoppedShort
<1> QED
    BY <1>1, <1>2, <1>4, <1>5, <1>6, EndsLeft DEF GapInv, Units, Ends

\* A unit joins the chain: it comes after the last in outputbuf.
LEMMA ChainGrows ==
    ASSUME Used \in Nat, Chained, Follows(got, CutShort, OutEnd, held), Used' = Used + 1,
           \A i \in 0 .. Used - 1 : UnitAt(i)' = UnitAt(i),
           \A i \in {Used} : UnitAt(i)' = held,
           UNCHANGED <<got, flushed, trimmed, played>>
    PROVE  Chained' /\ OutEnd' = held
<1>1. \A i \in 0 .. Used : Prev(i)' = Prev(i)
  <2> SUFFICES ASSUME NEW i \in 0 .. Used PROVE Prev(i)' = Prev(i)
      OBVIOUS
  <2>1. i # 0 => i - 1 \in 0 .. Used - 1
      OBVIOUS
  <2> QED
      BY <2>1 DEF Prev
<1>2. ASSUME NEW i \in 0 .. Used' - 1
      PROVE  Follows(got, CutShort, Prev(i)', UnitAt(i)')
  <2>1. CASE i \in 0 .. Used - 1
      BY <1>1, <2>1 DEF Chained
  <2>2. CASE i = Used
      BY <1>1, <2>2 DEF OutEnd
  <2> QED
      BY <2>1, <2>2
<1>3. Chained'
    BY <1>2 DEF Chained, Follows, Done, CutShort
<1>4. OutEnd' = held
  <2>1. ASSUME NEW m \in {Used'} PROVE Prev(m)' = held
    <3>1. m # 0 /\ m - 1 = Used
        OBVIOUS
    <3> QED
        BY <3>1 DEF Prev
  <2> QED
      BY <2>1 DEF OutEnd, Prev
<1> QED
    BY <1>3, <1>4

LEMMA GapWrites == Smooth /\ Ground /\ GapInv /\ CodecWrite /\ ControllerKept => GapInv'
<1> SUFFICES ASSUME Smooth, Ground, GapInv, CodecWrite, ControllerKept PROVE GapInv'
    OBVIOUS
<1>1. /\ UNCHANGED <<sstate, disconnect, fd, isFile, spc, got, cpc, tick, snum, flushed, trimmed,
                     cmdq, srv, wanted, bytes, readp, played, sbuf, newStream, trackStart>>
      /\ dpc = "write" /\ dpc' = "stream" /\ held' = NoUnit /\ eos' = FALSE
    BY DEF CodecWrite, ControllerKept, streamVars, serverVars
<1>2. /\ dstate = "DECODE_RUNNING" /\ ~Stopping /\ ~Opening
      /\ dstate' = IF eos THEN "DECODE_COMPLETE" ELSE "DECODE_RUNNING"
  <2>1. dstate = "DECODE_RUNNING"
      BY <1>1 DEF Ground, Base, IInv, DecoderRuns
  <2> QED
      BY <2>1, WhileRunning DEF CodecWrite, Smooth
<1>3. /\ Taken' = Taken /\ CutShort' = CutShort /\ ~Stopping' /\ ~Opening' /\ Live' = Live
      /\ (Drained => Drained') /\ (StartsNext' <=> StartsNext)
    BY <1>1, <1>2, QueueKept DEF Taken, CutShort, Stopping, Opening, Live, Drained
<1>4. Numbered' /\ HeldNext' /\ StoppedShort' /\ Fresh'
    BY <1>1, <1>3 DEF GapInv, Units, Numbered, HeldNext, StoppedShort, Stopping, Fresh
<1>5. CompletesDrained'
  <2>1. eos => Ended(sstate) /\ sbuf = << >>
      BY DEF GapInv, Ends, CompletesDrained
  <2> QED
      BY <1>1, <1>2, <2>1 DEF CompletesDrained, Drained, Live
<1>6. OpensDrained' /\ StartsDrained' /\ StopsDrained' /\ FailsDrained' /\ NothingYet'
    BY <1>1, <1>2, <1>3 DEF GapInv, Ends, OpensDrained, StartsDrained, StopsDrained,
                            FailsDrained, NothingYet
<1>7. FindsKept'
  <2>1. dstate # "DECODE_STOPPED"
      BY <1>2
  <2> QED
      BY <1>1, <2>1 DEF GapInv, Ends, FindsKept
<1>8. CASE held = NoUnit
  <2>1. UNCHANGED <<mem, writep, held>>
      BY <1>1, <1>8 DEF CodecWrite
  <2>2. /\ Used' = Used /\ OutEnd' = OutEnd /\ LastEnd' = LastEnd /\ Chained' = Chained
      BY <1>1, <2>1, ChainKept
  <2>3. Complete'
      BY <1>1, <1>2, <1>3, <2>2 DEF GapInv, Units, Complete
  <2>4. Marked'
      BY <1>1, <1>8, <2>1, <2>2 DEF GapInv, Units, Marked, UnitAt, Ahead
  <2> QED
      BY <1>4, <1>5, <1>6, <1>7, <2>2, <2>3, <2>4 DEF GapInv, Units, Ends
<1>9. CASE held # NoUnit
  <2>1. /\ Used' = Used + 1 /\ Used \in Nat /\ OutputTypes
        /\ \A i \in 0 .. Used - 1 : UnitAt(i)' = UnitAt(i)
        /\ \A i \in {Used} : UnitAt(i)' = held
    <3>1. Space > 0
        BY <1>1 DEF Ground, RoomInv, RoomKept
    <3>2. OutputTypes /\ Used \in Nat
        BY Located
    <3> QED
        BY <1>1, <1>9, <3>1, <3>2, WritesBehind DEF CodecWrite
  <2>2. Chained' /\ OutEnd' = held
    <3>1. Chained /\ Follows(got, CutShort, OutEnd, held)
        BY <1>9 DEF GapInv, Units, HeldNext
    <3> QED
        BY <1>1, <2>1, <3>1, ChainGrows
  <2>3. LastEnd' = LastEnd
      BY <1>1, <1>9, <2>2 DEF LastEnd
  <2>4. Complete'
      BY <1>1, <1>2, <1>3, <2>3 DEF GapInv, Units, Complete
  <2>5. Marked'
    <3> SUFFICES ASSUME "q" \notin Ops, trackStart # NULL
                 PROVE  \E j \in 0 .. Used' - 1 :
                           /\ trackStart' = Ahead(readp', j) /\ UnitAt(j)'[2] = 1
                           /\ \A i \in j .. Used' - 1 : UnitAt(i)'[1] = UnitAt(j)'[1]
        BY <1>1 DEF Marked
    <3>1. Used \in 0 .. Used' - 1 /\ \A j \in {Used} : j .. Used' - 1 = {j}
        BY <2>1
    <3>2. CASE trackStart = writep /\ held[2] = 1
      <4>1. writep = Ahead(readp, Used)
          BY <2>1, Measured
      <4>2. ASSUME NEW j \in {Used}
            PROVE  /\ trackStart' = Ahead(readp', j) /\ UnitAt(j)'[2] = 1
                   /\ \A i \in j .. Used' - 1 : UnitAt(i)'[1] = UnitAt(j)'[1]
          BY <1>1, <2>1, <3>1, <3>2, <4>1 DEF Ahead
      <4> QED
          BY <3>1, <4>2
    <3>3. CASE ~(trackStart = writep /\ held[2] = 1)
      <4>1. PICK j \in 0 .. Used - 1 :
               /\ trackStart = Ahead(readp, j) /\ UnitAt(j)[2] = 1
               /\ \A i \in j .. Used - 1 : UnitAt(i)[1] = UnitAt(j)[1]
          BY <3>3 DEF GapInv, Units, Marked
      <4>2. held[2] # 1
          BY <1>1, <1>9, <3>3 DEF GapInv, Units, Fresh
      <4>3. held[1] = OutEnd[1]
          BY <1>9, <4>2 DEF GapInv, Units, HeldNext, Follows
      <4>4. Used # 0 /\ Used - 1 \in j .. Used - 1
          BY <2>1
      <4>5. held[1] = UnitAt(j)[1]
          BY <4>1, <4>3, <4>4 DEF OutEnd, Prev
      <4>6. j \in 0 .. Used' - 1 /\ UnitAt(j)' = UnitAt(j)
          BY <2>1
      <4>7. ASSUME NEW i \in j .. Used' - 1 PROVE UnitAt(i)'[1] = UnitAt(j)'[1]
        <5>1. CASE i \in 0 .. Used - 1
            BY <2>1, <4>1, <4>6, <5>1
        <5>2. CASE i = Used
            BY <2>1, <4>5, <4>6, <5>2
        <5> QED
            BY <2>1, <5>1, <5>2
      <4>8. trackStart' = Ahead(readp', j) /\ UnitAt(j)'[2] = 1
          BY <1>1, <4>1, <4>6 DEF Ahead
      <4> QED
          BY <4>6, <4>7, <4>8
    <3> QED
        BY <3>2, <3>3
  <2> QED
      BY <1>4, <1>5, <1>6, <1>7, <2>2, <2>4, <2>5 DEF GapInv, Units, Ends
<1> QED
    BY <1>8, <1>9

(* The output thread *)

\* The first unit leaves the chain to be the one played last.
LEMMA GapOutput == Smooth /\ Ground /\ GapInv /\ _output_frames /\ ControllerKept => GapInv'
<1> SUFFICES ASSUME Smooth, Ground, GapInv, _output_frames, ControllerKept PROVE GapInv'
    OBVIOUS
<1>1. /\ UNCHANGED <<sstate, disconnect, fd, isFile, spc, got, cpc, tick, snum, flushed, trimmed,
                     cmdq, srv, wanted, bytes, sbuf, dstate, newStream, dpc, held, eos>>
    BY DEF _output_frames, ControllerKept, streamVars, decodeVars, serverVars
<1>2. PICK n \in 0 .. Used :
         /\ readp' = Ahead(readp, n) /\ UNCHANGED <<mem, writep>>
         /\ \/ n = Skipped /\ UNCHANGED <<played, trackStart, started>>
            \/ n = Skipped /\ n < Used /\ trackStart = Ahead(readp, n) /\ trackStart' = NULL
               /\ started' = UnitAt(n)[1] /\ played' = played
            \/ n = Skipped + 1 /\ trackStart # Ahead(readp, Skipped)
               /\ played' = UnitAt(Skipped) /\ UNCHANGED <<trackStart, started>>
    BY Period DEF Ground
<1>3. Skipped = 0
    BY DEF Smooth, Ground, RoomInv, OnlyAsked, Skipped
<1>4. /\ OutputTypes /\ Used \in 0 .. OutSlots - 1 /\ readp \in 0 .. OutSlots - 1
    BY Located, Measured
<1>5. /\ Used' = Used - n
      /\ \A i \in 0 .. Used - n - 1 : UnitAt(i)' = UnitAt(i + n)
    BY <1>2, <1>4, ReadsAhead
<1>6. /\ Taken' = Taken /\ CutShort' = CutShort /\ Stopping' = Stopping /\ Live' = Live
      /\ Drained' = Drained /\ (Used = 0 => Used' = 0)
    BY <1>1, <1>4, <1>5 DEF Taken, CutShort, Stopping, Live, Drained
<1>7. n \in {0, 1}
    BY <1>2, <1>3
<1>8. \A i \in 0 .. Used - n : Prev(i)' = Prev(i + n)
  <2> SUFFICES ASSUME NEW i \in 0 .. Used - n PROVE Prev(i)' = Prev(i + n)
      OBVIOUS
  <2>1. CASE i = 0
      BY <1>2, <1>3, <1>7, <2>1 DEF Prev
  <2>2. CASE i # 0
    <3>1. i - 1 \in 0 .. Used - n - 1 /\ (i - 1) + n = (i + n) - 1 /\ i + n # 0
        BY <1>4, <1>7, <2>2
    <3>2. UnitAt(i - 1)' = UnitAt((i + n) - 1)
        BY <1>5, <3>1
    <3> QED
        BY <2>2, <3>1, <3>2 DEF Prev
  <2> QED
      BY <2>1, <2>2
<1>9. OutEnd' = OutEnd /\ LastEnd' = LastEnd
  <2>1. \A m \in {Used'} : Prev(m)' = Prev(Used)
    <3> SUFFICES ASSUME NEW m \in {Used'} PROVE Prev(m)' = Prev(Used)
        OBVIOUS
    <3>1. m \in 0 .. Used - n /\ m + n = Used
        BY <1>4, <1>5
    <3> QED
        BY <1>8, <3>1
  <2>2. OutEnd' = OutEnd
      BY <2>1 DEF OutEnd, Prev
  <2> QED
      BY <1>1, <2>2 DEF LastEnd
<1>10. Chained'
  <2>1. ASSUME NEW i \in 0 .. Used' - 1
        PROVE  Follows(got, CutShort, Prev(i)', UnitAt(i)')
    <3>1. i \in 0 .. Used - n - 1 /\ i \in 0 .. Used - n /\ i + n \in 0 .. Used - 1
        BY <1>4, <1>5
    <3>2. Follows(got, CutShort, Prev(i + n), UnitAt(i + n))
        BY <3>1 DEF GapInv, Units, Chained
    <3> QED
        BY <1>5, <1>8, <3>1, <3>2
  <2> QED
      BY <1>1, <1>6, <2>1 DEF Chained, Follows, Done
<1>11. HeldNext'
    BY <1>1, <1>6, <1>9 DEF GapInv, Units, HeldNext, Follows, Done
<1>12. Complete' /\ StoppedShort'
    BY <1>1, <1>6, <1>9 DEF GapInv, Units, Complete, StoppedShort, Settled, Done
<1>13. Numbered'
    BY <1>1, <1>6 DEF GapInv, Units, Numbered
<1>14. Fresh'
  <2>1. dpc = "write" /\ held # NoUnit /\ held[2] = 1 => trackStart' = writep'
    <3> SUFFICES ASSUME dpc = "write", held # NoUnit, held[2] = 1 PROVE trackStart' = writep'
        OBVIOUS
    <3>1. trackStart = writep /\ writep = Ahead(readp, Used)
        BY <1>4, Measured DEF GapInv, Units, Fresh
    <3>2. 0 < Used => Ahead(readp, 0) # writep
        BY <1>4, <3>1 DEF Ahead
    <3> QED
        BY <1>2, <1>3, <1>4, <3>1, <3>2
  <2> QED
      BY <1>1, <1>6, <2>1 DEF GapInv, Units, Fresh
<1>15. Marked'
  <2> SUFFICES ASSUME "q" \notin Ops, trackStart' # NULL PROVE Marked'
      BY DEF Marked
  <2>1. trackStart' = trackStart /\ writep' = writep
      BY <1>2
  <2>2. CASE trackStart = writep /\ dpc = "write" /\ held # NoUnit /\ held[2] = 1
      BY <1>1, <2>1, <2>2 DEF Marked
  <2>3. CASE ~(trackStart = writep /\ dpc = "write" /\ held # NoUnit /\ held[2] = 1)
    <3>1. PICK j \in 0 .. Used - 1 :
             /\ trackStart = Ahead(readp, j) /\ UnitAt(j)[2] = 1
             /\ \A i \in j .. Used - 1 : UnitAt(i)[1] = UnitAt(j)[1]
        BY <2>1, <2>3 DEF GapInv, Units, Marked
    <3>2. n = 1 => j # 0
        BY <1>2, <1>3, <3>1
    <3>3. /\ j - n \in 0 .. Used' - 1 /\ j - n \in 0 .. Used - n - 1 /\ (j - n) + n = j
        BY <1>4, <1>5, <1>7, <3>2
    <3>4. UnitAt(j - n)' = UnitAt(j)
        BY <1>5, <3>3
    <3>5. trackStart' = Ahead(readp', j - n)
        BY <1>2, <1>4, <1>7, <2>1, <3>1, <3>2 DEF Ahead
    <3>6. ASSUME NEW i \in j - n .. Used' - 1 PROVE UnitAt(i)'[1] = UnitAt(j - n)'[1]
      <4>1. i \in 0 .. Used - n - 1 /\ i + n \in j .. Used - 1
          BY <1>4, <1>5, <1>7, <3>3
      <4>2. UnitAt(i)' = UnitAt(i + n) /\ UnitAt(i + n)[1] = UnitAt(j)[1]
          BY <1>5, <3>1, <4>1
      <4> QED
          BY <3>4, <4>2
    <3>7. \E m \in 0 .. Used' - 1 :
             /\ trackStart' = Ahead(readp', m) /\ UnitAt(m)'[2] = 1
             /\ \A i \in m .. Used' - 1 : UnitAt(i)'[1] = UnitAt(m)'[1]
      <4>1. UnitAt(j - n)'[2] = 1
          BY <3>1, <3>4
      <4> QED
          BY <3>3, <3>5, <3>6, <4>1
    <3> QED
        BY <3>7 DEF Marked, Ahead
  <2> QED
      BY <2>2, <2>3
<1>16. CompletesDrained'
    BY <1>1, <1>6 DEF GapInv, Ends, CompletesDrained
<1> QED
    BY <1>1, <1>6, <1>10, <1>11, <1>12, <1>13, <1>14, <1>15, <1>16, EndsLeft
       DEF GapInv, Units, Ends

(* The server and the commands *)

LEMMA GapServer == Ground /\ GapInv /\ Server => GapInv'
<1> SUFFICES ASSUME Ground, GapInv, Server PROVE GapInv'
    OBVIOUS
<1>1. UNCHANGED <<sstate, disconnect, fd, isFile, bytes, sbuf, spc, got, dstate, newStream, dpc,
                  held, eos, mem, readp, writep, trackStart, played, cpc, tick, snum, flushed,
                  trimmed>>
    BY DEF Server, streamVars, decodeVars, outputVars
<1>2. Live' = Live /\ Stopping' = Stopping /\ Opening' = Opening
    BY <1>1 DEF Live, Stopping, Opening
<1>3. /\ Numbered' /\ Chained' /\ HeldNext' /\ Complete' /\ Fresh' /\ Marked'
      /\ (Drained => Drained') /\ CutShort' = CutShort /\ Used' = Used
      /\ \A m : Settled(got, CutShort, m, OutEnd)' = Settled(got, CutShort, m, OutEnd)
    BY <1>1, <1>2, UnitsKept, ChainKept DEF GapInv
<1>4. StoppedShort'
    BY <1>1, <1>2, <1>3 DEF GapInv, Units, StoppedShort
<1>5. StartsNext' => StartsNext
    BY ServerAlternates DEF Ground, Base, HandInv
<1>6. OpensDrained' /\ StartsDrained' /\ StopsDrained' /\ CompletesDrained'
    BY <1>1, <1>2, <1>3, <1>5 DEF GapInv, Ends, OpensDrained, StartsDrained, StopsDrained,
                                  CompletesDrained
<1>7. FailsDrained' /\ NothingYet' /\ FindsKept'
    BY <1>1, <1>2, <1>3 DEF GapInv, Ends, FailsDrained, NothingYet, FindsKept
<1> QED
    BY <1>3, <1>4, <1>6, <1>7 DEF GapInv, Units, Ends

\* A step of the controller that moves no unit, opens no stream and sets no decoder going.
LEMMA UnitsStay ==
    ASSUME GapInv,
           UNCHANGED <<mem, readp, writep, played, held, sbuf, snum, got, flushed, trimmed,
                       bytes, trackStart, newStream, dpc, eos, isFile, spc>>,
           fd' \in {0, fd}, Live' => Live, Ended(sstate) => Ended(sstate'),
           sstate' \in {sstate, "STOPPED", "STREAMING_BUFFERING"},
           sstate' = "STREAMING_BUFFERING" => sstate \in {sstate', "STREAMING_WAIT"},
           dstate' = dstate, UNCHANGED disconnect,
           Stopping' <=> Stopping, Opening' => Opening, StartsNext' => StartsNext
    PROVE  /\ Numbered' /\ Chained' /\ HeldNext' /\ Complete' /\ Fresh' /\ Marked'
           /\ OpensDrained' /\ StartsDrained' /\ StopsDrained' /\ CompletesDrained' /\ NothingYet'
           /\ sstate' = "DISCONNECT" /\ disconnect' # "DISCONNECT_OK" => Drained'
           /\ CutShort' = CutShort /\ Used' = Used /\ (Drained => Drained')
           /\ \A m : Settled(got, CutShort, m, OutEnd)' = Settled(got, CutShort, m, OutEnd)
<1>1. /\ Numbered' /\ Chained' /\ HeldNext' /\ Complete' /\ Fresh' /\ Marked'
      /\ (Drained => Drained') /\ CutShort' = CutShort /\ Used' = Used
      /\ \A m : Settled(got, CutShort, m, OutEnd)' = Settled(got, CutShort, m, OutEnd)
    BY UnitsKept, ChainKept DEF GapInv
<1>2. OpensDrained' /\ StartsDrained' /\ StopsDrained' /\ CompletesDrained'
    BY <1>1 DEF GapInv, Ends, OpensDrained, StartsDrained, StopsDrained, CompletesDrained
<1>3. NothingYet'
    BY DEF GapInv, Ends, NothingYet, Live, Ended
<1>4. sstate' = "DISCONNECT" /\ disconnect' # "DISCONNECT_OK" => Drained'
    BY <1>1 DEF GapInv, Ends, FailsDrained
<1> QED
    BY <1>1, <1>2, <1>3, <1>4

LEMMA GapStops ==
    ASSUME Ground, GapInv, StrmStop \/ StrmFlush PROVE GapInv'
<1>1. /\ UNCHANGED <<sstate, disconnect, fd, isFile, bytes, sbuf, spc, got, newStream, dpc,
                     held, eos, mem, readp, writep, trackStart, played, tick, snum, flushed>>
      /\ cpc = "idle" /\ cpc' \in {"q_buffer", "f_output"} /\ dstate' = "DECODE_STOPPED"
      /\ ~HoldsD
      /\ trimmed' = IF cpc' = "f_output" THEN trimmed \cup {snum} ELSE trimmed
    BY DEF StrmStop, StrmFlush, Goto, LocalsKept, streamVars, outputVars, decode_flush
<1>2. held = NoUnit /\ eos = FALSE /\ tick = NoTick
    BY <1>1 DEF Ground, RoomInv, HeldLocked, GapInv, Ends, CompletesDrained, Base, IInv,
                TickLocals, Ticking, Flags
<1>3. ~Stopping /\ Stopping' /\ ~Opening' /\ Live' = Live /\ CutShort \subseteq CutShort'
    BY <1>1 DEF Stopping, Opening, Live, CutShort
<1>4. /\ Used' = Used /\ Taken' = Taken /\ \A i : UnitAt(i)' = UnitAt(i)
    BY <1>1 DEF Used, Taken, UnitAt, Ahead
<1>5. (\A i : Prev(i)' = Prev(i)) /\ OutEnd' = OutEnd
    BY <1>1, <1>4 DEF Prev, OutEnd
<1>6. /\ \A i \in 0 .. Used - 1 : UnitAt(i) \in Known
      /\ snum \in 0 .. MaxStreams
    BY Located
<1>7. Chained' /\ StoppedShort'
  <2>1. ASSUME NEW i \in 0 .. Used - 1
        PROVE  Follows(got, CutShort', Prev(i), UnitAt(i))
    <3>1. /\ UnitAt(i)[1] \in Int /\ UnitAt(i)[1] <= snum /\ snum \in Int
          /\ Follows(got, CutShort, Prev(i), UnitAt(i))
        BY <1>6, UnitsKnown DEF GapInv, Units, Chained
    <3> QED
        BY <1>3, <3>1, FollowsLater
  <2>2. Chained'
      BY <1>1, <1>4, <1>5, <2>1 DEF Chained, Follows, Done
  <2>3. Settled(got, CutShort', snum, OutEnd)
    <3>1. Settled(got, CutShort, snum, OutEnd) /\ snum \in Int
        BY <1>2, <1>3, <1>6 DEF GapInv, Units, Complete, LastEnd
    <3> QED
        BY <1>3, <3>1, FollowsLater
  <2>4. cpc' = "f_output" => snum \in CutShort'
      BY <1>1 DEF CutShort
  <2>5. StoppedShort'
      BY <1>1, <1>2, <1>5, <2>3, <2>4 DEF StoppedShort, Settled, Done
  <2> QED
      BY <2>2, <2>5
<1>8. Numbered' /\ HeldNext' /\ Complete' /\ Fresh' /\ Marked'
  <2>1. Numbered' /\ HeldNext' /\ Complete'
      BY <1>1, <1>2, <1>3, <1>4 DEF GapInv, Units, Numbered, HeldNext, Complete
  <2>2. Fresh' /\ Marked'
      BY <1>1, <1>2, <1>3, <1>4 DEF GapInv, Units, Fresh, Marked, Ahead
  <2> QED
      BY <2>1, <2>2
<1>9. Ends'
  <2>1. OpensDrained' /\ StartsDrained' /\ StopsDrained' /\ CompletesDrained'
      BY <1>1, <1>2, <1>3 DEF OpensDrained, StartsDrained, StopsDrained, CompletesDrained
  <2>2. Drained' = Drained
      BY <1>1, <1>3 DEF Drained
  <2>3. FailsDrained' /\ NothingYet' /\ FindsKept'
      BY <1>1, <1>2, <1>3, <2>2 DEF GapInv, Ends, FailsDrained, NothingYet, FindsKept, NoTick
  <2> QED
      BY <2>1, <2>3 DEF Ends
<1> QED
    BY <1>7, <1>8, <1>9 DEF GapInv, Units

\* A stream is started when nothing of the one before it is left, so that what it
\* gives comes next.
LEMMA GapStarts ==
    ASSUME Ground, Ground', GapInv, StartsNext, ~StartsNext', NEW c, c.format = "known",
           StrmStart(c)
    PROVE  GapInv'
<1>1. /\ UNCHANGED <<sstate, disconnect, fd, isFile, bytes, sbuf, spc, got, dpc, held, eos,
                     mem, readp, writep, trackStart, played, tick, flushed, trimmed>>
      /\ cpc = "idle" /\ cpc' = "connect" /\ dstate' = "DECODE_READY" /\ newStream' = TRUE
      /\ ~HoldsD /\ snum' = snum + 1
    BY DEF StrmStart, Goto, streamVars, outputVars, codec_open
<1>2. held = NoUnit /\ eos = FALSE /\ tick = NoTick
    BY <1>1 DEF Ground, RoomInv, HeldLocked, GapInv, Ends, CompletesDrained, Base, IInv,
                TickLocals, Ticking, Flags
<1>3. ~Stopping /\ ~Stopping' /\ Live' = Live /\ CutShort' = CutShort /\ Drained' = Drained
    BY <1>1 DEF Stopping, Live, CutShort, Drained
<1>4. Drained /\ ~Live /\ sbuf = << >> /\ Len(sbuf) = 0
    BY <1>3 DEF GapInv, Ends, StartsDrained, Drained
<1>5. /\ snum \in Nat /\ snum + 1 \in Stream /\ flushed \in 0 .. snum /\ trimmed \subseteq 0 .. snum
      /\ LastEnd \in Known \cup {NoUnit} /\ got \in [Stream -> 0 .. MaxLen]
  <2>1. snum \in 0 .. MaxStreams /\ snum' \in 0 .. MaxStreams
      BY DEF Ground, Base, Types, ControlTypes
  <2> QED
      BY <1>1, <2>1, Located DEF Stream
<1>6. got[snum + 1] = 0 /\ snum + 1 \notin CutShort
    BY <1>5 DEF GapInv, Units, Numbered, CutShort
<1>7. /\ Taken' = 0 /\ Used' = Used /\ OutEnd' = OutEnd /\ LastEnd' = LastEnd
      /\ \A i : Prev(i)' = Prev(i) /\ UnitAt(i)' = UnitAt(i)
  <2>1. Taken' = 0
    <3>1. snum' # 0 /\ got'[snum'] = 0 /\ Len(sbuf') = 0
        BY <1>1, <1>4, <1>5, <1>6
    <3> QED
        BY <3>1 DEF Taken
  <2>2. Used' = Used /\ \A i : UnitAt(i)' = UnitAt(i)
      BY <1>1 DEF Used, UnitAt, Ahead
  <2> QED
      BY <1>1, <2>1, <2>2 DEF Prev, OutEnd, LastEnd
<1>8. Numbered'
    BY <1>1, <1>3, <1>4, <1>5, <1>6, <1>7 DEF GapInv, Units, Numbered
<1>9. Chained' /\ HeldNext' /\ Fresh' /\ Marked' /\ StoppedShort'
  <2>1. Chained'
      BY <1>1, <1>3, <1>7 DEF GapInv, Units, Chained, Follows, Done
  <2>2. HeldNext' /\ Fresh' /\ StoppedShort'
      BY <1>1, <1>2, <1>3, <1>7 DEF HeldNext, Fresh, StoppedShort, Stopping
  <2>3. Marked'
      BY <1>1, <1>2, <1>7 DEF GapInv, Units, Marked, Ahead
  <2> QED
      BY <2>1, <2>2, <2>3
<1>10. Complete'
  <2>1. LastEnd[1] \in 0 .. snum
      BY <1>5, UnitsKnown
  <2>2. Settled(got, CutShort, snum, LastEnd)
      BY <1>3 DEF GapInv, Units, Complete
  <2>3. snum \in Stream => Done(got, CutShort, LastEnd, snum)
    <3> SUFFICES ASSUME snum \in Stream, snum \notin CutShort, got[snum] # 0
                 PROVE  LastEnd = <<snum, got[snum]>>
        BY DEF Done
    <3>1. Taken = got[snum]
        BY <1>4, <1>5 DEF Taken, Stream
    <3> QED
        BY <1>3, <3>1 DEF GapInv, Units, Complete
  <2>4. Settled(got, CutShort, snum + 1, LastEnd)
      BY <1>5, <2>2, <2>3 DEF Settled, Stream
  <2>5. LastEnd[1] < snum + 1
      BY <1>5, <2>1
  <2> QED
      BY <1>1, <1>3, <1>4, <1>6, <1>7, <2>4, <2>5 DEF Complete, Settled, Done
<1>11. Ends'
  <2>1. OpensDrained'
      BY <1>1, <1>3, <1>4, <1>6 DEF OpensDrained
  <2>2. StartsDrained' /\ StopsDrained' /\ CompletesDrained'
      BY <1>1, <1>2 DEF StartsDrained, StopsDrained, CompletesDrained
  <2>3. FailsDrained' /\ NothingYet' /\ FindsKept'
      BY <1>1, <1>2, <1>3, <1>4 DEF FailsDrained, NothingYet, FindsKept, NoTick
  <2> QED
      BY <2>1, <2>2, <2>3 DEF Ends
<1> QED
    BY <1>8, <1>9, <1>10, <1>11 DEF GapInv, Units

LEMMA GapExecute == Smooth /\ Ground /\ Ground' /\ GapInv /\ Execute => GapInv'
<1> SUFFICES ASSUME Smooth, Ground, Ground', GapInv, Execute PROVE GapInv'
    OBVIOUS
<1> DEFINE c == Head(cmdq)
<1>1. c \in Asked
    BY DEF Execute, Ground, HandInv, NoCodc
<1>2. c.op # "codc" /\ (c.op = "s" => c.format = "known")
    BY <1>1 DEF Asked, OpCommands, StartCommands, Named, Smooth
<1>3. /\ c.op \notin {"q", "f"} => (StartsNext' => StartsNext)
      /\ c.op = "s" => StartsNext /\ ~StartsNext'
    BY ExecuteAlternates DEF Ground, Base, HandInv
<1>4. CASE (c.op = "q" /\ StrmStop) \/ (c.op = "f" /\ StrmFlush)
    BY <1>4, GapStops
<1>5. CASE c.op = "s" /\ StrmStart(c)
    BY <1>2, <1>3, <1>5, GapStarts
<1> HIDE DEF c
<1>6. CASE \/ c.op = "p" /\ StrmPause(c.n)
           \/ c.op = "a" /\ StrmSkip(c.n)
           \/ c.op = "u" /\ StrmUnpause(c.n)
           \/ c.op = "cont" /\ Cont
  <2>1. /\ UNCHANGED <<disconnect, fd, isFile, bytes, sbuf, spc, got, dstate, newStream, dpc,
                       held, eos, mem, readp, writep, trackStart, played, tick, snum, flushed,
                       trimmed>>
        /\ cpc = "idle" /\ cpc' = "idle"
        /\ sstate' \in {sstate, "STREAMING_BUFFERING"}
        /\ sstate' # sstate => sstate = "STREAMING_WAIT"
    <3>1. CASE StrmPause(c.n) \/ StrmSkip(c.n) \/ StrmUnpause(c.n)
        BY <3>1 DEF StrmPause, StrmSkip, StrmUnpause, SetOutput, Goto, LocalsKept, streamVars,
                    decodeVars
    <3>2. CASE Cont
        BY <3>2 DEF Cont, Goto, decodeVars, outputVars
    <3> QED
        BY <1>6, <3>1, <3>2
  <2>2. /\ Stopping' = Stopping /\ Opening' = Opening /\ Live' = Live
        /\ (Ended(sstate') <=> Ended(sstate)) /\ (StartsNext' => StartsNext)
    <3>1. Ended(sstate') <=> Ended(sstate)
        BY <2>1 DEF Ended
    <3>2. StartsNext' => StartsNext
        BY <1>3, <1>6
    <3> QED
        BY <2>1, <3>1, <3>2 DEF Stopping, Opening, Live
  <2>3. /\ Numbered' /\ Chained' /\ HeldNext' /\ Complete' /\ Fresh' /\ Marked'
        /\ OpensDrained' /\ StartsDrained' /\ StopsDrained' /\ CompletesDrained' /\ NothingYet'
        /\ (sstate' = "DISCONNECT" /\ disconnect' # "DISCONNECT_OK" => Drained')
      BY <2>1, <2>2, UnitsStay
  <2>4. tick = NoTick
      BY <2>1 DEF Ground, Base, IInv, TickLocals, Ticking
  <2>5. FailsDrained' /\ FindsKept' /\ StoppedShort'
      BY <2>1, <2>3, <2>4 DEF FailsDrained, FindsKept, StoppedShort, Stopping, NoTick
  <2> QED
      BY <2>3, <2>5 DEF GapInv, Units, Ends
<1>7. \/ c.op = "q" /\ StrmStop
      \/ c.op = "f" /\ StrmFlush
      \/ c.op = "p" /\ StrmPause(c.n)
      \/ c.op = "a" /\ StrmSkip(c.n)
      \/ c.op = "u" /\ StrmUnpause(c.n)
      \/ c.op = "s" /\ StrmStart(c)
      \/ c.op = "cont" /\ Cont
    BY <1>2 DEF Execute, c
<1> QED
    BY <1>4, <1>5, <1>6, <1>7

(* Ticks *)

LEMMA GapTick == Ground /\ GapInv /\ Tick => GapInv'
<1> SUFFICES ASSUME Ground, GapInv, Tick PROVE GapInv'
    OBVIOUS
<1>1. /\ UNCHANGED <<disconnect, fd, isFile, bytes, sbuf, spc, got, dstate, newStream, dpc,
                     held, eos, mem, readp, writep, trackStart, played, snum, flushed,
                     trimmed, cmdq>>
      /\ cpc = "idle" /\ cpc' = "tickD" /\ sent' = {}
      /\ sstate' = IF sstate = "DISCONNECT" THEN "STOPPED" ELSE sstate
      /\ tick'.send \subseteq {"DSCO", "RESP"}
      /\ "DSCO" \in tick'.send => sstate = "DISCONNECT" /\ tick'.code = disconnect
    BY DEF Tick, TickStream, Goto, decodeVars, outputVars, NoTick
<1>2. /\ Stopping' = Stopping /\ Opening' = Opening /\ Live' = Live
      /\ Ended(sstate) <=> Ended(sstate')
    BY <1>1 DEF Stopping, Opening, Live, Ended
<1>3. StartsNext' => StartsNext
    BY <1>1, HearsAlternates DEF Tick, EndHeard, Ground, Base, HandInv
<1>4. /\ Numbered' /\ Chained' /\ HeldNext' /\ Complete' /\ Fresh' /\ Marked'
      /\ OpensDrained' /\ StartsDrained' /\ StopsDrained' /\ CompletesDrained' /\ NothingYet'
      /\ sstate' = "DISCONNECT" /\ disconnect' # "DISCONNECT_OK" => Drained'
      /\ (Drained => Drained')
    BY <1>1, <1>2, <1>3, UnitsStay
<1>5. FailsDrained'
    BY <1>1, <1>4 DEF FailsDrained, GapInv, Ends
<1>6. FindsKept' /\ StoppedShort'
    BY <1>1 DEF FindsKept, StoppedShort, Stopping
<1> QED
    BY <1>4, <1>5, <1>6 DEF GapInv, Units, Ends

\* What the three steps of a tick leave alone.
LEMMA TickLeaves ==
    ASSUME TickDecode \/ TickOutput \/ TickSend
    PROVE  /\ UNCHANGED <<disconnect, isFile, bytes, sbuf, spc, got, newStream, dpc, held, eos,
                          mem, readp, writep, trackStart, played, snum, flushed, trimmed>>
           /\ ~Stopping /\ ~Stopping' /\ ~Opening /\ ~Opening'
<1> USE DEF Goto, streamVars, decodeVars, outputVars, Stopping, Opening
<1>1. CASE TickDecode
    BY <1>1 DEF TickDecode
<1>2. CASE TickOutput
    BY <1>2 DEF TickOutput
<1>3. CASE TickSend
    BY <1>3 DEF TickSend, StreamDisconnect
<1> QED
    BY <1>1, <1>2, <1>3

LEMMA GapTicks ==
    ASSUME Ground, GapInv, Continue, TickDecode \/ TickOutput \/ TickSend
    PROVE  GapInv'
<1>1. /\ UNCHANGED <<disconnect, isFile, bytes, sbuf, spc, got, newStream, dpc, held, eos,
                     mem, readp, writep, trackStart, played, snum, flushed, trimmed>>
      /\ ~Stopping /\ ~Stopping' /\ ~Opening /\ ~Opening'
    BY TickLeaves
<1>2. StartsNext' => StartsNext \/ EndHeard(sent')
    BY HearsAlternates DEF Continue, Ground, Base, HandInv
<1>3. tick \in Ticks
    BY DEF Ground, Base, IInv, Typed
<1>4. StoppedShort'
    BY <1>1 DEF StoppedShort, Stopping
<1>5. CASE TickDecode
  <2>1. /\ UNCHANGED <<sstate, fd>> /\ cpc = "tickD" /\ cpc' = "tickO" /\ sent' = {}
        /\ dstate' = IF StartsDecode THEN "DECODE_RUNNING"
                     ELSE IF DecodeDone THEN "DECODE_STOPPED" ELSE dstate
        /\ StartsDecode => dstate = "DECODE_READY"
        /\ tick'.decode = dstate' /\ tick'.code = tick.code
        /\ tick'.send = tick.send \cup (IF StartsDecode /\ autostart = 0 THEN {"STMl"} ELSE {})
                             \cup (IF dstate = "DECODE_COMPLETE" THEN {"STMd"} ELSE {})
                             \cup (IF dstate = "DECODE_ERROR" THEN {"STMn"} ELSE {})
      BY <1>3, <1>5 DEF TickDecode, Ticks, Goto, StartsDecode, streamVars
  <2>2. Live' = Live /\ (StartsNext' => StartsNext)
      BY <1>2, <2>1 DEF Live, EndHeard
  <2>3. /\ Numbered' /\ Chained' /\ HeldNext' /\ Complete' /\ Fresh' /\ Marked'
        /\ (Drained => Drained') /\ CutShort' = CutShort /\ Used' = Used
      BY <1>1, <2>1, <2>2, UnitsKept, ChainKept DEF GapInv
  <2>4. /\ dstate # "DECODE_ERROR"
        /\ dstate = "DECODE_COMPLETE" => Ended(sstate) /\ Drained
      BY DEF GapInv, Ends, CompletesDrained
  <2>5. dstate' = "DECODE_STOPPED" => Drained \/ Stopping
      BY <2>1, <2>4 DEF DecodeDone, GapInv, Ends, StopsDrained
  <2>6. OpensDrained' /\ StartsDrained' /\ StopsDrained'
      BY <1>1, <2>2, <2>3, <2>5 DEF GapInv, Ends, OpensDrained, StartsDrained, StopsDrained
  <2>7. CompletesDrained'
      BY <1>1, <2>1, <2>4 DEF GapInv, Ends, CompletesDrained, DecodeDone
  <2>8. FailsDrained'
      BY <1>1, <2>1, <2>3 DEF GapInv, Ends, FailsDrained
  <2>9. NothingYet'
      BY <1>1, <2>1, <2>2 DEF GapInv, Ends, NothingYet
  <2>10. FindsKept'
    <3>1. tick.send \subseteq {"DSCO", "RESP"}
        BY <2>1 DEF GapInv, Ends, FindsKept
    <3>2. "STMd" \in tick'.send => dstate = "DECODE_COMPLETE"
        BY <2>1, <3>1
    <3>3. "STMu" \notin tick'.send /\ "STMn" \notin tick'.send
        BY <2>1, <2>4, <3>1
    <3>4. dstate = "DECODE_COMPLETE" => dstate' = "DECODE_STOPPED" /\ Ended(sstate')
        BY <2>1, <2>4 DEF DecodeDone
    <3> QED
        BY <2>1, <3>2, <3>3, <3>4 DEF FindsKept
  <2> QED
      BY <1>4, <2>3, <2>6, <2>7, <2>8, <2>9, <2>10 DEF GapInv, Units, Ends
<1>6. CASE TickOutput
  <2>1. /\ UNCHANGED <<sstate, fd, dstate>> /\ cpc = "tickO" /\ cpc' = "send" /\ sent' = {}
        /\ tick'.decode = tick.decode /\ tick'.code = tick.code
        /\ tick'.send = tick.send \cup (IF trackStarted THEN {"STMs"} ELSE {})
                             \cup (IF Underrun THEN {"STMu"} ELSE {})
                             \cup (IF Starving THEN {"STMo"} ELSE {})
      BY <1>3, <1>6 DEF TickOutput, Ticks, Goto, streamVars, decodeVars
  <2>2. Live' = Live /\ (StartsNext' => StartsNext)
      BY <1>2, <2>1 DEF Live, EndHeard
  <2>3. /\ Numbered' /\ Chained' /\ HeldNext' /\ Complete' /\ Fresh' /\ Marked'
        /\ OpensDrained' /\ StartsDrained' /\ StopsDrained' /\ CompletesDrained' /\ NothingYet'
        /\ sstate' = "DISCONNECT" /\ disconnect' # "DISCONNECT_OK" => Drained'
        /\ CutShort' = CutShort /\ Used' = Used /\ (Drained => Drained')
      BY <1>1, <2>1, <2>2, UnitsStay
  <2>4. FailsDrained'
      BY <2>1, <2>3 DEF GapInv, Ends, FailsDrained
  <2>5. FindsKept'
    <3>1. Underrun => dstate = "DECODE_STOPPED" /\ Ended(sstate) /\ Used = 0
      <4>1. Ended(tick.stream) => Ended(sstate)
          BY <2>1 DEF Ground, HandInv, TickKnows, Ticking
      <4>2. tick.decode = "DECODE_STOPPED" => dstate = "DECODE_STOPPED"
          BY <2>1 DEF GapInv, Ends, FindsKept
      <4> QED
          BY <4>1, <4>2 DEF Underrun
    <3>2. /\ "STMd" \in tick'.send => "STMd" \in tick.send
          /\ "STMu" \in tick'.send => "STMu" \in tick.send \/ Underrun
          /\ "STMn" \in tick'.send => "STMn" \in tick.send
        BY <2>1
    <3> QED
        BY <2>1, <2>3, <3>1, <3>2 DEF GapInv, Ends, FindsKept
  <2> QED
      BY <1>4, <2>3, <2>4, <2>5 DEF GapInv, Units, Ends
<1>7. CASE TickSend
  <2>1. /\ cpc = "send" /\ cpc' = "idle" /\ dstate' = dstate /\ tick' = NoTick /\ sent' = tick.send
        /\ fd' \in {0, fd} /\ sstate' \in {sstate, "STOPPED"}
      BY <1>7 DEF TickSend, StreamDisconnect, Goto, decodeVars, streamVars
  <2>2. (Live' => Live) /\ (Ended(sstate) => Ended(sstate'))
      BY <2>1 DEF Live, Ended
  <2>3. /\ Numbered' /\ Chained' /\ HeldNext' /\ Complete' /\ Fresh' /\ Marked'
        /\ (Drained => Drained') /\ CutShort' = CutShort
      BY <1>1, <2>1, <2>2, UnitsKept, ChainKept DEF GapInv
  <2>4. EndHeard(sent') => Drained
    <3>1. "STMd" \in tick.send \/ "STMu" \in tick.send => dstate = "DECODE_STOPPED"
        BY <2>1 DEF GapInv, Ends, FindsKept
    <3>2. "STMn" \notin tick.send
        BY <2>1 DEF GapInv, Ends, FindsKept
    <3>3. "DSCO" \in tick.send /\ tick.code # "DISCONNECT_OK" => Drained
        BY DEF GapInv, Ends, FailsDrained
    <3>4. dstate = "DECODE_STOPPED" => Drained
        BY <1>1 DEF GapInv, Ends, StopsDrained
    <3> QED
        BY <2>1, <3>1, <3>2, <3>3, <3>4 DEF EndHeard
  <2>5. OpensDrained' /\ StartsDrained' /\ StopsDrained' /\ CompletesDrained'
      BY <1>1, <1>2, <2>1, <2>2, <2>3, <2>4 DEF GapInv, Ends, OpensDrained, StartsDrained,
         StopsDrained, CompletesDrained
  <2>6. FailsDrained' /\ FindsKept'
      BY <1>1, <2>1, <2>3 DEF GapInv, Ends, FailsDrained, FindsKept, NoTick
  <2>7. NothingYet'
      BY <1>1, <2>1, <2>2 DEF GapInv, Ends, NothingYet, Live, Ended
  <2> QED
      BY <1>4, <2>3, <2>5, <2>6, <2>7 DEF GapInv, Units, Ends
<1> QED
    BY <1>5, <1>6, <1>7

(* 'q' and 'f' *)

\* What their regions leave alone; while one of them is executed, there is no tick to
\* report and the decoder is stopped.
LEMMA StopLeaves ==
    ASSUME Ground, GapInv, Continue,
           StopFlush \/ StopOutputToo \/ StopStream \/ FlushStreaming \/ FlushStream \/ EmptyStreambuf
    PROVE  /\ UNCHANGED <<disconnect, isFile, bytes, spc, got, dstate, newStream, dpc, held, eos,
                          mem, played, snum, tick>>
           /\ fd' \in {0, fd} /\ sstate' \in {sstate, "STOPPED"} /\ (Live' => Live)
           /\ Stopping /\ ~Opening /\ ~Opening' /\ (~Stopping' => EmptyStreambuf)
           /\ dstate = "DECODE_STOPPED" /\ held = NoUnit /\ dpc \notin {"start", "write"}
           /\ tick = NoTick /\ (StartsNext' => StartsNext)
           /\ cpc' \notin {"tickD", "tickO", "send"}
<1> USE DEF Goto, LocalsKept, streamVars, decodeVars, outputVars
<1>1. CASE StopFlush \/ StopOutputToo \/ StopStream
  <2>1. /\ UNCHANGED <<disconnect, isFile, bytes, spc, got, dstate, newStream, dpc, held, eos,
                       mem, played, snum, tick>>
        /\ fd' \in {0, fd} /\ sstate' \in {sstate, "STOPPED"} /\ (fd' = 0 \/ sstate' = sstate)
        /\ cpc \in {"q_buffer", "q_output", "q_disconnect"} /\ sent' \subseteq {"STMf"}
        /\ cpc' \in {"q_output", "q_disconnect", "q_streambuf"}
    <3>1. CASE StopFlush
        BY <3>1 DEF StopFlush, FlushOutputbuf
    <3>2. CASE StopOutputToo
        BY <3>2 DEF StopOutputToo, StopOutput
    <3>3. CASE StopStream
        BY <3>3 DEF StopStream, StreamDisconnect
    <3> QED
        BY <1>1, <3>1, <3>2, <3>3
  <2>2. Stopping /\ ~Opening /\ ~Opening' /\ Stopping' /\ tick = NoTick
      BY <2>1 DEF Stopping, Opening, Ground, Base, IInv, TickLocals, Ticking
  <2>3. dstate = "DECODE_STOPPED" /\ held = NoUnit /\ dpc \notin {"start", "write"}
      BY <2>2 DEF GapInv, Units, StoppedShort, Ground, Base, IInv, DecoderRuns
  <2>4. StartsNext' => StartsNext
      BY <2>1, HearsAlternates DEF Continue, Ground, Base, HandInv, EndHeard
  <2>5. Live' => Live
      BY <2>1 DEF Live, Ended
  <2> QED
      BY <2>1, <2>2, <2>3, <2>4, <2>5
<1>2. CASE FlushStreaming \/ FlushStream \/ EmptyStreambuf
  <2>1. /\ UNCHANGED <<disconnect, isFile, bytes, spc, got, dstate, newStream, dpc, held, eos,
                       mem, played, snum, tick>>
        /\ fd' \in {0, fd} /\ sstate' \in {sstate, "STOPPED"} /\ (fd' = 0 \/ sstate' = sstate)
        /\ cpc \in {"f_output", "f_flushed", "f_disconnect", "f_streambuf", "q_streambuf"}
        /\ sent' \subseteq {"STMf"}
        /\ cpc' \in {"f_flushed", "f_disconnect", "f_streambuf", "idle"}
        /\ cpc' = "idle" => EmptyStreambuf
    <3>1. CASE FlushStreaming
        BY <3>1 DEF FlushStreaming, output_flush_streaming
    <3>2. CASE FlushStream
        BY <3>2 DEF FlushStream, StreamDisconnect
    <3>3. CASE EmptyStreambuf
        BY <3>3 DEF EmptyStreambuf, FlushStreambuf
    <3> QED
        BY <1>2, <3>1, <3>2, <3>3
  <2>2. Stopping /\ ~Opening /\ ~Opening' /\ (~Stopping' => EmptyStreambuf) /\ tick = NoTick
      BY <2>1 DEF Stopping, Opening, Ground, Base, IInv, TickLocals, Ticking
  <2>3. dstate = "DECODE_STOPPED" /\ held = NoUnit /\ dpc \notin {"start", "write"}
      BY <2>2 DEF GapInv, Units, StoppedShort, Ground, Base, IInv, DecoderRuns
  <2>4. StartsNext' => StartsNext
      BY <2>1, HearsAlternates DEF Continue, Ground, Base, HandInv, EndHeard
  <2>5. Live' => Live
      BY <2>1 DEF Live, Ended
  <2> QED
      BY <2>1, <2>2, <2>3, <2>4, <2>5
<1> QED
    BY <1>1, <1>2

\* What they do to the ends of streams.
LEMMA StopEnds ==
    ASSUME Ground, GapInv, Continue,
           StopFlush \/ StopOutputToo \/ StopStream \/ FlushStreaming \/ FlushStream \/ EmptyStreambuf,
           sbuf' \in {sbuf, << >>}, Stopping' \/ Drained'
    PROVE  Ends'
<1>1. /\ UNCHANGED <<disconnect, isFile, bytes, spc, got, dstate, newStream, dpc, held, eos,
                     mem, played, snum, tick>>
      /\ fd' \in {0, fd} /\ sstate' \in {sstate, "STOPPED"} /\ (Live' => Live)
      /\ ~Opening' /\ dstate = "DECODE_STOPPED" /\ held = NoUnit /\ dpc \notin {"start", "write"}
      /\ tick = NoTick /\ cpc' \notin {"tickD", "tickO", "send"}
    BY StopLeaves
<1>2. Drained => Drained'
    BY <1>1 DEF Drained
<1>3. OpensDrained' /\ StartsDrained' /\ StopsDrained'
    BY <1>1 DEF OpensDrained, StartsDrained, StopsDrained
<1>4. CompletesDrained'
    BY <1>1 DEF GapInv, Ends, CompletesDrained
<1>5. FailsDrained' /\ FindsKept'
    BY <1>1, <1>2 DEF GapInv, Ends, FailsDrained, FindsKept, NoTick
<1>6. NothingYet'
    BY <1>1 DEF GapInv, Ends, NothingYet, Live, Ended
<1> QED
    BY <1>3, <1>4, <1>5, <1>6 DEF Ends

\* More streams are cut short, and nothing is added to outputbuf.
LEMMA ChainShortens ==
    ASSUME Ground, GapInv, CutShort \subseteq CutShort', UNCHANGED <<got, played, snum>>,
           Used' \in Nat, Used' <= Used, \A i \in 0 .. Used' - 1 : UnitAt(i)' = UnitAt(i)
    PROVE  /\ Chained'
           /\ \A i \in 0 .. Used' : Prev(i)' = Prev(i)
<1>1. /\ \A i \in 0 .. Used - 1 : UnitAt(i) \in Known
      /\ snum \in 0 .. MaxStreams /\ Used \in Nat
    BY Located
<1>2. \A i \in 0 .. Used' : Prev(i)' = Prev(i)
  <2> SUFFICES ASSUME NEW i \in 0 .. Used' PROVE Prev(i)' = Prev(i)
      OBVIOUS
  <2>1. \A a \in Nat : i \in 0 .. a /\ i # 0 => i - 1 \in 0 .. a - 1
      OBVIOUS
  <2>2. i # 0 => i - 1 \in 0 .. Used' - 1
      BY <2>1
  <2>3. CASE i = 0
      BY <2>3 DEF Prev
  <2>4. CASE i # 0
    <3>1. \A m \in {i - 1} : UnitAt(m)' = UnitAt(m)
        BY <2>2, <2>4
    <3> QED
        BY <2>4, <3>1 DEF Prev
  <2> QED
      BY <2>3, <2>4
<1>3. ASSUME NEW i \in 0 .. Used' - 1
      PROVE  Follows(got', CutShort', Prev(i)', UnitAt(i)')
  <2>1. i \in 0 .. Used - 1 /\ i \in 0 .. Used'
    <3>1. \A a, b \in Nat : a <= b /\ i \in 0 .. a - 1 => i \in 0 .. b - 1 /\ i \in 0 .. a
        OBVIOUS
    <3> QED
        BY <1>1, <3>1
  <2>2. /\ UnitAt(i)[1] \in Int /\ UnitAt(i)[1] <= snum /\ snum \in Int
        /\ Follows(got, CutShort, Prev(i), UnitAt(i))
      BY <1>1, <2>1, UnitsKnown DEF GapInv, Units, Chained
  <2>3. Follows(got, CutShort', Prev(i), UnitAt(i))
      BY <2>2, FollowsLater
  <2> QED
      BY <1>2, <2>1, <2>3
<1> QED
    BY <1>2, <1>3 DEF Chained

LEMMA GapStopRegions ==
    ASSUME Smooth, Ground, GapInv, Continue, StopFlush \/ StopOutputToo \/ StopStream \/ FlushStream
    PROVE  GapInv'
<1>1. /\ UNCHANGED <<disconnect, isFile, bytes, spc, got, dstate, newStream, dpc, held, eos,
                     mem, played, snum, tick>>
      /\ fd' \in {0, fd} /\ (Live' => Live) /\ Stopping
      /\ dstate = "DECODE_STOPPED" /\ held = NoUnit /\ dpc \notin {"start", "write"}
    BY StopLeaves
<1>2. UNCHANGED <<sbuf, trackStart>> /\ Stopping' /\ trimmed' = trimmed
    BY DEF StopFlush, FlushOutputbuf, StopOutputToo, StopOutput, StopStream, FlushStream,
           StreamDisconnect, Goto, Stopping, streamVars, outputVars
<1>3. flushed' \in {flushed, snum} /\ CutShort \subseteq CutShort'
  <2>1. flushed' \in {flushed, snum}
      BY DEF StopFlush, StopOutputToo, StopStream, FlushStream
  <2> QED
      BY <1>2, <2>1, Located DEF CutShort
<1>4. Used \in Nat /\ Used' \in Nat /\ Used' <= Used /\ \A i \in 0 .. Used' - 1 : UnitAt(i)' = UnitAt(i)
  <2>1. Used \in Nat
      BY Located
  <2>2. CASE StopFlush
    <3>1. Used' = 0
        BY <2>2 DEF StopFlush, FlushOutputbuf, Used
    <3> QED
        BY <2>1, <3>1
  <2>3. CASE ~StopFlush
    <3>1. UNCHANGED <<mem, readp, writep>>
        BY <2>3 DEF StopOutputToo, StopOutput, StopStream, FlushStream, outputVars
    <3>2. Used' = Used /\ \A i : UnitAt(i)' = UnitAt(i)
        BY <3>1 DEF Used, UnitAt, Ahead
    <3> QED
        BY <2>1, <3>2
  <2> QED
      BY <2>2, <2>3
<1>5. Chained' /\ \A i \in 0 .. Used' : Prev(i)' = Prev(i)
    BY <1>1, <1>3, <1>4, ChainShortens
<1>6. Taken' = Taken
    BY <1>1, <1>2 DEF Taken
<1>7. Numbered' /\ HeldNext' /\ Complete' /\ Fresh'
    BY <1>1, <1>2, <1>3, <1>6 DEF GapInv, Units, Numbered, HeldNext, Complete, Fresh, Live
<1>8. CASE StopFlush \/ StopOutputToo \/ StopStream
  <2>1. "q" \in Ops
      BY <1>8 DEF StopFlush, StopOutputToo, StopStream, Ground, RoomInv, OnlyAsked
  <2>2. Marked'
      BY <2>1 DEF Marked
  <2>3. StoppedShort'
      BY <1>1, <1>8 DEF StopFlush, StopOutputToo, StopStream, Goto, StoppedShort, GapInv, Units
  <2> QED
      BY <1>1, <1>2, <1>5, <1>7, <2>2, <2>3, StopEnds DEF GapInv, Units
<1>9. CASE FlushStream
  <2>1. UNCHANGED <<mem, readp, writep, flushed>> /\ cpc' = "f_streambuf"
        /\ cpc \in {"f_flushed", "f_disconnect"}
      BY <1>9 DEF FlushStream, Goto, outputVars
  <2>2. Used' = Used /\ CutShort' = CutShort /\ \A i : UnitAt(i)' = UnitAt(i)
      BY <1>2, <2>1 DEF Used, UnitAt, Ahead, CutShort
  <2>3. OutEnd' = OutEnd
      BY <1>1, <2>2 DEF OutEnd, Prev
  <2>4. StoppedShort'
      BY <1>1, <2>1, <2>2, <2>3 DEF GapInv, Units, StoppedShort, Stopping, Settled, Done
  <2>5. Marked'
      BY <1>1, <1>2, <2>1, <2>2 DEF GapInv, Units, Marked, Ahead
  <2> QED
      BY <1>1, <1>2, <1>5, <1>7, <2>4, <2>5, StopEnds DEF GapInv, Units
<1> QED
    BY <1>8, <1>9

\* The stream that 'f' finds marked is cut short from its first unit on: what is
\* left ends with an earlier stream, all of which is there.
LEMMA GapFlushes ==
    ASSUME Smooth, Ground, GapInv, Continue, FlushStreaming
    PROVE  GapInv'
<1>1. /\ UNCHANGED <<disconnect, isFile, bytes, spc, got, dstate, newStream, dpc, held, eos,
                     mem, played, snum, tick>>
      /\ fd' \in {0, fd} /\ (Live' => Live) /\ Stopping
      /\ dstate = "DECODE_STOPPED" /\ held = NoUnit /\ dpc \notin {"start", "write"}
    BY StopLeaves
<1>2. /\ UNCHANGED <<sbuf, readp, flushed>> /\ trackStart' = NULL
      /\ cpc = "f_output" /\ cpc' \in {"f_flushed", "f_disconnect"} /\ Stopping'
      /\ trackStart = NULL => UNCHANGED <<writep, trimmed>>
      /\ trackStart # NULL => /\ writep' = trackStart
                              /\ trimmed' = trimmed \cup {mem[trackStart][1]}
    BY DEF FlushStreaming, output_flush_streaming, Goto, Stopping, streamVars
<1>3. /\ OutputTypes /\ Used \in 0 .. OutSlots - 1 /\ readp \in 0 .. OutSlots - 1
      /\ snum \in 0 .. MaxStreams /\ "q" \notin Ops
  <2>1. "f" \in Ops
      BY <1>2 DEF Ground, RoomInv, OnlyAsked
  <2> QED
      BY <2>1, Located, Measured DEF Smooth
<1>4. CutShort \subseteq CutShort'
    BY <1>2 DEF CutShort
<1>5. snum \in CutShort /\ Settled(got, CutShort, snum, OutEnd)
    BY <1>2 DEF GapInv, Units, StoppedShort
<1>6. /\ Used' \in Nat /\ Used' <= Used /\ \A i \in 0 .. Used' - 1 : UnitAt(i)' = UnitAt(i)
      /\ Settled(got, CutShort', snum, Prev(Used'))
  <2>1. \A i : UnitAt(i)' = UnitAt(i)
      BY <1>1, <1>2 DEF UnitAt, Ahead
  <2>2. CASE trackStart = NULL
    <3>1. Used' = Used
        BY <1>2, <2>2 DEF Used
    <3>2. Settled(got, CutShort', snum, OutEnd)
        BY <1>4, <1>5 DEF Settled, Done
    <3> QED
        BY <1>3, <2>1, <3>1, <3>2 DEF OutEnd
  <2>3. CASE trackStart # NULL
    <3>1. PICK j \in 0 .. Used - 1 :
             /\ trackStart = Ahead(readp, j) /\ UnitAt(j)[2] = 1
             /\ \A i \in j .. Used - 1 : UnitAt(i)[1] = UnitAt(j)[1]
        BY <1>1, <1>3, <2>3 DEF GapInv, Units, Marked
    <3>2. Used' = j
        BY <1>2, <1>3, <2>3, <3>1 DEF Used, Ahead
    <3> DEFINE b == UnitAt(j)[1]
    <3>3. /\ b \in Int /\ b > 0 /\ b <= snum
          /\ Prev(j)[1] \in Int /\ (Prev(j)[2] = 0 => Prev(j)[1] = 0)
          /\ Prev(j)[2] \in Int
      <4>1. UnitAt(j) \in Known /\ Prev(j) \in Known \cup {NoUnit}
          BY <1>3, <3>1, Located
      <4> QED
          BY <4>1, UnitsKnown
    <3>4. OutEnd[1] = b /\ b \in CutShort'
      <4>1. Used # 0 /\ Used - 1 \in j .. Used - 1
          BY <1>3, <3>1
      <4>2. OutEnd[1] = b
          BY <3>1, <4>1 DEF OutEnd, Prev
      <4>3. b \in CutShort'
          BY <1>2, <2>3, <3>1 DEF CutShort, UnitAt
      <4> QED
          BY <4>2, <4>3
    <3>5. Follows(got, CutShort, Prev(j), UnitAt(j))
        BY <3>1 DEF GapInv, Units, Chained
    <3>6. Prev(j)[1] < b
        BY <3>1, <3>3, <3>5 DEF Follows
    <3>7. \A k \in Stream : Prev(j)[1] <= k /\ k < b => Done(got, CutShort, Prev(j), k)
        BY <3>3, <3>5, <3>6 DEF Follows
    <3> HIDE DEF b
    <3>8. ASSUME NEW k \in Stream, Prev(j)[1] <= k, k < snum
          PROVE  Done(got, CutShort', Prev(j), k)
      <4>1. CASE k < b
          BY <1>4, <3>7, <3>8, <4>1 DEF Done
      <4>2. CASE k = b
          BY <3>4, <4>2 DEF Done
      <4>3. CASE k > b
        <5>1. Done(got, CutShort, OutEnd, k)
            BY <1>5, <3>3, <3>4, <3>8, <4>3 DEF Settled, Stream
        <5>2. OutEnd # <<k, got[k]>>
            BY <3>3, <3>4, <4>3 DEF Stream
        <5> QED
            BY <1>4, <5>1, <5>2 DEF Done
      <4> QED
          BY <3>3, <4>1, <4>2, <4>3 DEF Stream
    <3>9. Settled(got, CutShort', snum, Prev(j))
        BY <3>8 DEF Settled
    <3> QED
        BY <1>3, <2>1, <3>1, <3>2, <3>9
  <2> QED
      BY <2>2, <2>3
<1>7. /\ Chained'
      /\ \A i \in 0 .. Used' : Prev(i)' = Prev(i)
    BY <1>1, <1>4, <1>6, ChainShortens
<1>8. OutEnd' = Prev(Used')
  <2>1. \A m \in {Used'} : Prev(m)' = Prev(m)
      BY <1>6, <1>7
  <2> QED
      BY <2>1 DEF OutEnd, Prev
<1>9. StoppedShort'
    BY <1>1, <1>2, <1>4, <1>5, <1>6, <1>8 DEF StoppedShort, Settled, Done
<1>10. Taken' = Taken
    BY <1>1, <1>2 DEF Taken
<1>11. Numbered' /\ HeldNext' /\ Complete' /\ Fresh' /\ Marked'
    BY <1>1, <1>2, <1>4, <1>10 DEF GapInv, Units, Numbered, HeldNext, Complete, Fresh, Marked, Live
<1> QED
    BY <1>1, <1>2, <1>7, <1>9, <1>11, StopEnds DEF GapInv, Units

\* What they leave is the end of a stream that was cut short.
LEMMA GapEmpties ==
    ASSUME Ground, GapInv, Continue, EmptyStreambuf
    PROVE  GapInv'
<1>1. /\ UNCHANGED <<disconnect, isFile, bytes, spc, got, dstate, newStream, dpc, held, eos,
                     mem, played, snum, tick>>
      /\ fd' \in {0, fd} /\ (Live' => Live) /\ Stopping
      /\ dstate = "DECODE_STOPPED" /\ held = NoUnit /\ dpc \notin {"start", "write"}
    BY StopLeaves
<1>2. /\ UNCHANGED <<readp, writep, trackStart, flushed, trimmed, fd>> /\ sbuf' = << >>
      /\ cpc \in {"q_streambuf", "f_streambuf"} /\ cpc' = "idle" /\ ~Stopping'
    BY DEF EmptyStreambuf, FlushStreambuf, Goto, outputVars, Stopping
<1>3. fd = 0 /\ ~Live /\ Drained'
    BY <1>1, <1>2 DEF Ground, Base, IInv, StreamClosed, HandInv, ClosedStays, Live, Drained
<1>4. /\ Used' = Used /\ CutShort' = CutShort /\ \A i : UnitAt(i)' = UnitAt(i)
    BY <1>1, <1>2 DEF Used, CutShort, UnitAt, Ahead
<1>5. (\A i : Prev(i)' = Prev(i)) /\ OutEnd' = OutEnd /\ LastEnd' = OutEnd
    BY <1>1, <1>4 DEF Prev, OutEnd, LastEnd
<1>6. /\ snum \in 0 .. MaxStreams /\ flushed \in 0 .. snum /\ Taken \in Int
      /\ Len(sbuf) \in Nat /\ got \in [Stream -> 0 .. MaxLen]
      /\ OutEnd \in Known \cup {NoUnit}
    BY Located
<1>7. Taken' \in Int /\ Taken' >= Taken /\ Taken' >= 0
  <2>1. Len(sbuf') = 0
      BY <1>2
  <2>2. CASE snum = 0
      BY <1>1, <2>2 DEF Taken
  <2>3. CASE snum # 0
    <3>1. got[snum] \in Nat
        BY <1>6, <2>3 DEF Stream
    <3>2. Taken = got[snum] - Len(sbuf) /\ Taken' = got[snum] - 0
        BY <1>1, <2>1, <2>3 DEF Taken
    <3> QED
        BY <1>6, <3>1, <3>2
  <2> QED
      BY <2>2, <2>3
<1>8. snum \in CutShort /\ Settled(got, CutShort, snum, OutEnd)
  <2>1. CASE cpc = "q_streambuf"
    <3>1. flushed = snum
        BY <2>1 DEF GapInv, Units, StoppedShort
    <3>2. OutEnd[1] \in Nat
        BY <1>6, UnitsKnown
    <3> QED
        BY <1>6, <3>1, <3>2 DEF CutShort, Settled, Done, Stream
  <2>2. CASE cpc = "f_streambuf"
      BY <2>2 DEF GapInv, Units, StoppedShort
  <2> QED
      BY <1>2, <2>1, <2>2
<1>9. Complete'
    BY <1>1, <1>3, <1>4, <1>5, <1>8 DEF Complete, Settled, Done
<1>10. Numbered' /\ Chained' /\ HeldNext' /\ StoppedShort'
  <2>1. Numbered'
      BY <1>1, <1>2, <1>3, <1>7 DEF GapInv, Units, Numbered
  <2>2. Chained' /\ HeldNext'
      BY <1>1, <1>4, <1>5 DEF GapInv, Units, Chained, HeldNext, Follows, Done
  <2>3. StoppedShort'
      BY <1>2 DEF StoppedShort, Stopping
  <2> QED
      BY <2>1, <2>2, <2>3
<1>11. Fresh' /\ Marked'
  <2>1. ~newStream => Taken' >= 1
    <3>1. \A a, b \in Int : b >= a /\ a >= 1 => b >= 1
        OBVIOUS
    <3> QED
        BY <1>1, <1>6, <1>7, <3>1 DEF GapInv, Units, Fresh
  <2>3. Fresh'
      BY <1>1, <1>4, <1>8, <2>1 DEF Fresh
  <2>2. Marked'
      BY <1>1, <1>2, <1>4 DEF GapInv, Units, Marked, Ahead
  <2> QED
      BY <2>2, <2>3
<1> QED
    BY <1>2, <1>3, <1>9, <1>10, <1>11, StopEnds DEF GapInv, Units

(* Opening a stream *)

\* Nothing of the last stream is left where the next one is put.
LEMMA GapOpens ==
    ASSUME Ground, GapInv, Continue, Connect \/ ConnectFails \/ OpenSocket \/ OpenFile
    PROVE  GapInv'
<1>1. /\ UNCHANGED <<spc, got, dstate, newStream, dpc, held, eos, mem, readp, writep,
                     trackStart, played, snum, flushed, trimmed, tick>>
      /\ sbuf' \in {sbuf, << >>} /\ Opening /\ cpc' \in {"open", "idle"}
      /\ cpc' = "open" => UNCHANGED <<fd, sstate>>
      /\ sent' \subseteq {"STMc"}
      /\ \/ UNCHANGED fd /\ sstate' \in {sstate, "DISCONNECT"}
         \/ /\ fd' \in {0, snum} /\ bytes' = 0
            /\ sstate' \in {"SEND_HEADERS", "STREAMING_FILE", "DISCONNECT"}
            /\ isFile' /\ sstate' # "DISCONNECT" => sstate' = "STREAMING_FILE"
  <2> USE DEF Opening, Goto, Started, LocalsKept, decodeVars, outputVars
  <2>1. CASE Connect
      BY <2>1 DEF Connect, FlushStreambuf
  <2>2. CASE ConnectFails
      BY <2>2 DEF ConnectFails, SockUnreachable
  <2>3. CASE OpenSocket
      BY <2>3 DEF OpenSocket, SockConnected
  <2>4. CASE OpenFile
      BY <2>4 DEF OpenFile, FileOpened
  <2> QED
      BY <2>1, <2>2, <2>3, <2>4
<1>2. /\ Drained /\ got[snum] = 0 /\ snum \notin CutShort
      /\ dstate = "DECODE_READY" /\ ~Live /\ held = NoUnit /\ eos = FALSE /\ tick = NoTick
  <2>1. /\ Drained /\ got[snum] = 0 /\ snum \notin CutShort
        /\ dstate = "DECODE_READY" /\ ~Live
      BY <1>1 DEF GapInv, Ends, OpensDrained, Ground, HandInv, OpensAfterEnd
  <2>2. ~HoldsD
      BY <2>1 DEF Ground, Base, IInv, DecoderRuns
  <2>3. eos = FALSE
      BY <2>2 DEF GapInv, Ends, CompletesDrained, Ground, Base, Flags
  <2>4. tick = NoTick
      BY <1>1 DEF Opening, Ground, Base, IInv, TickLocals, Ticking
  <2> QED
      BY <2>1, <2>3, <2>4 DEF Drained
<1>3. sbuf = << >> /\ sbuf' = << >> /\ Len(sbuf) = 0 /\ Len(sbuf') = 0
    BY <1>1, <1>2 DEF Drained
<1>4. ~Stopping /\ ~Stopping' /\ ~Ended("SEND_HEADERS") /\ Ended("DISCONNECT")
      /\ (cpc' = "open" => ~Live')
    BY <1>1, <1>2 DEF Opening, Stopping, Ended, Live
<1>5. Live' => /\ fd' = snum /\ bytes' = 0
               /\ isFile' => sstate' = "STREAMING_FILE"
  <2> SUFFICES ASSUME Live' PROVE /\ fd' = snum /\ bytes' = 0
                                  /\ isFile' => sstate' = "STREAMING_FILE"
      OBVIOUS
  <2>1. fd' # 0 /\ ~Ended(sstate')
      BY DEF Live
  <2>2. ~(UNCHANGED fd /\ sstate' \in {sstate, "DISCONNECT"})
      BY <1>2, <1>4, <2>1 DEF Live
  <2> QED
      BY <1>1, <1>4, <2>1, <2>2
<1>6. snum \in Stream /\ Taken = 0 /\ got \in [Stream -> 0 .. MaxLen]
  <2>1. snum \in Stream
      BY <1>1, Located DEF Ground, Base, Types, ControlTypes, Stream
  <2>2. snum # 0
      BY <2>1 DEF Stream
  <2>3. Taken = 0
    <3>1. \A a, b : a = 0 /\ b = 0 => a - b = 0
        OBVIOUS
    <3>2. got[snum] - Len(sbuf) = 0
        BY <1>2, <1>3, <3>1
    <3> QED
        BY <2>2, <3>2 DEF Taken
  <2>4. got \in [Stream -> 0 .. MaxLen]
      BY Located
  <2> QED
      BY <2>1, <2>3, <2>4
<1>7. sbuf' = sbuf
    BY <1>3
<1>8. /\ Used' = Used /\ Taken' = Taken /\ CutShort' = CutShort
      /\ OutEnd' = OutEnd /\ LastEnd' = LastEnd
      /\ Chained' = Chained /\ HeldNext' = HeldNext
    BY <1>1, <1>7, ChainKept
<1>9. Chained' /\ HeldNext'
    BY <1>8 DEF GapInv, Units
<1>10. Numbered'
    BY <1>1, <1>2, <1>3, <1>5, <1>6, <1>8 DEF GapInv, Units, Numbered
<1>11. Complete' /\ StoppedShort'
  <2>1. Settled(got, CutShort, snum, LastEnd)
        /\ (LastEnd = <<snum, Taken>> \/ (Taken = 0 /\ LastEnd[1] < snum))
      BY <1>2, <1>4 DEF GapInv, Units, Complete
  <2>2. Complete'
      BY <1>1, <1>2, <1>8, <2>1 DEF Complete, Settled, Done
  <2>3. StoppedShort'
      BY <1>1, <1>4 DEF StoppedShort, Stopping
  <2> QED
      BY <2>2, <2>3
<1>12. Fresh' /\ Marked'
    BY <1>1, <1>8 DEF GapInv, Units, Fresh, Marked, UnitAt, Ahead
<1>13. ~StartsNext'
  <2>1. ~StartsNext
      BY <1>1, <1>4 DEF Ground, HandInv, NextFindsNone
  <2>2. ~EndHeard(sent')
      BY <1>1, <1>2 DEF EndHeard
  <2> QED
      BY <2>1, <2>2, HearsAlternates DEF Continue, Ground, Base, HandInv
<1>14. Ends'
  <2>1. ~Live' => Drained'
      BY <1>1, <1>2, <1>3 DEF Drained
  <2>2. OpensDrained'
      BY <1>1, <1>2, <1>4, <1>8, <2>1 DEF OpensDrained, Opening
  <2>3. StartsDrained' /\ StopsDrained' /\ CompletesDrained'
      BY <1>1, <1>2, <1>13 DEF StartsDrained, StopsDrained, CompletesDrained
  <2>4. FailsDrained'
      BY <1>1, <1>2, <1>4, <2>1 DEF FailsDrained, NoTick, Live
  <2>5. NothingYet' /\ FindsKept'
      BY <1>1, <1>2, <1>5 DEF NothingYet, FindsKept
  <2> QED
      BY <2>2, <2>3, <2>4, <2>5 DEF Ends
<1> QED
    BY <1>9, <1>10, <1>11, <1>12, <1>14 DEF GapInv, Units

LEMMA GapStep ==
    Smooth /\ Ground /\ Ground' /\ GapInv /\ [Next]_vars => GapInv'
<1> SUFFICES ASSUME Smooth, Ground, Ground', GapInv, [Next]_vars PROVE GapInv'
    OBVIOUS
<1>1. ASSUME Threads PROVE ControllerKept
    BY <1>1 DEF Threads, ControllerKept
<1>2. CASE Threads /\ DecodeStep
    BY <1>1, <1>2, GapLooks, GapInput, GapTrackStart, GapWrites DEF DecodeStep
<1>3. CASE Threads /\ ~DecodeStep
    BY <1>1, <1>3, GapStream, GapOutput DEF Threads
<1>4. CASE Continue
    BY <1>4, GapStopRegions, GapFlushes, GapEmpties, GapOpens, GapTicks
       DEF Continue, ControllerStep
<1>5. CASE UNCHANGED vars
  <2>1. /\ UNCHANGED <<sstate, disconnect, fd, isFile, bytes, sbuf, spc, got, dstate, newStream,
                       dpc, held, eos, mem, readp, writep, trackStart, played, cpc, tick, snum,
                       flushed, trimmed, cmdq, srv, wanted>>
      BY <1>5 DEF vars, streamVars, decodeVars, outputVars, controlVars, serverVars
  <2>2. /\ Live' = Live /\ Stopping' = Stopping /\ Drained' = Drained
      BY <2>1 DEF Live, Stopping, Drained
  <2>3. /\ Numbered' /\ Chained' /\ HeldNext' /\ Complete' /\ Fresh' /\ Marked'
        /\ \A m : Settled(got, CutShort, m, OutEnd)' = Settled(got, CutShort, m, OutEnd)
      BY <2>1, <2>2, UnitsKept DEF GapInv
  <2>4. CutShort' = CutShort /\ Used' = Used
      BY <2>1, ChainKept
  <2>5. StoppedShort' /\ CompletesDrained'
      BY <2>1, <2>2, <2>3, <2>4 DEF GapInv, Units, StoppedShort, Ends, CompletesDrained
  <2>6. /\ OpensDrained' /\ StartsDrained' /\ StopsDrained' /\ FailsDrained' /\ NothingYet'
        /\ FindsKept'
      BY <2>1, <2>2, <2>4, EndsLeft
  <2> QED
      BY <2>3, <2>5, <2>6 DEF GapInv, Units, Ends
<1> QED
    BY <1>2, <1>3, <1>4, <1>5, GapServer, GapExecute, GapTick DEF Next

LEMMA GapAlways == ASSUME Smooth PROVE Spec => [](Ground /\ GapInv)
<1>1. FlushAlone /\ Named
    BY DEF Smooth, FlushAlone
<1>2. Spec => []Ground
  <2>1. Spec => []Base /\ []RoomInv /\ []OrderInv /\ []HandInv
      BY <1>1, BaseAlways, RoomAlways, OrderAlways, HandAlways
  <2> QED
      BY <2>1, PTL DEF Ground
<1>3. Ground /\ Ground' /\ GapInv /\ [Next]_vars => GapInv'
    BY GapStep
<1> QED
    BY <1>2, <1>3, GapInit, PTL DEF Spec

------------------------------------------------------------------------------
(* What the server and the listener can rely on *)

\* Of all that the player does only the end of a tick reports an end.
LEMMA TicksReport ==
    ASSUME Next, sent' \cap {"STMd", "STMu"} # {}
    PROVE  Continue /\ TickSend
<1> USE DEF Goto, Started
<1>1. ~Server /\ ~Threads /\ ~Tick
    BY DEF Server, Threads, Tick, TickStream
<1>2. ~Execute
  <2> DEFINE c == Head(cmdq)
  <2> HIDE DEF c
  <2>1. ~StrmStop /\ ~StrmFlush /\ ~Cont /\ ~Codc(TRUE)
      BY DEF StrmStop, StrmFlush, Cont, Codc
  <2>2. ~StrmPause(c.n) /\ ~StrmSkip(c.n) /\ ~StrmUnpause(c.n)
      BY DEF StrmPause, StrmSkip, StrmUnpause
  <2>3. ~StrmStart(c)
      BY DEF StrmStart
  <2> QED
      BY <2>1, <2>2, <2>3 DEF Execute, c
<1>3. Continue => TickSend
  <2>1. ~StopFlush /\ ~StopOutputToo /\ ~StopStream /\ ~FlushStreaming /\ ~FlushStream
        /\ ~EmptyStreambuf
      BY DEF StopFlush, StopOutputToo, StopStream, FlushStreaming, FlushStream, EmptyStreambuf
  <2>2. ~ConnectFails /\ ~Connect /\ ~OpenSocket /\ ~OpenFile /\ ~TickDecode /\ ~TickOutput
      BY DEF ConnectFails, Connect, OpenSocket, OpenFile, TickDecode, TickOutput
  <2> QED
      BY <2>1, <2>2 DEF Continue, ControllerStep
<1> QED
    BY <1>1, <1>2, <1>3 DEF Next

\* When nothing more comes of the last stream, what was decoded last is the end of
\* all that was received.
LEMMA AllDecoded ==
    ASSUME Ground, GapInv, Drained, ~Stopping
    PROVE  \A k \in Stream : k >= OutEnd[1] => Done(got, CutShort, OutEnd, k)
<1>1. /\ snum \in 0 .. MaxStreams /\ Len(sbuf) = 0 /\ got \in [Stream -> 0 .. MaxLen]
      /\ OutEnd[1] \in Int /\ LastEnd = OutEnd
    BY Located, UnitsKnown DEF Drained, LastEnd
<1>2. snum # 0 => Taken = got[snum]
  <2>1. snum # 0 => snum \in Stream
      BY <1>1 DEF Stream
  <2>2. \A a \in Int : \A b : b = 0 => a - b = a
      OBVIOUS
  <2>3. snum # 0 => got[snum] - Len(sbuf) = got[snum]
      BY <1>1, <2>1, <2>2
  <2> QED
      BY <2>3 DEF Taken
<1>3. ASSUME NEW k \in Stream, k >= OutEnd[1] PROVE Done(got, CutShort, OutEnd, k)
  <2>1. CASE k < snum
      BY <1>1, <1>3, <2>1 DEF GapInv, Units, Complete, Settled
  <2>2. CASE k = snum
      BY <1>1, <1>2, <2>2 DEF GapInv, Units, Complete, Done, Stream
  <2>3. CASE k > snum
      BY <2>3 DEF GapInv, Units, Numbered, Done
  <2> QED
      BY <1>1, <2>1, <2>2, <2>3 DEF Stream
<1> QED
    BY <1>3

\* What is done after the unit played last is what the properties call exhausted.
LEMMA DoneIsExhausted ==
    ASSUME Ground, NEW k \in Stream
    PROVE  Done(got, CutShort, played, k) <=> Exhausted(k)
<1>1. flushed \in Int
    BY Located
<1> QED
    BY <1>1 DEF Done, Exhausted, CutShort, Stream

\* Playback is gapless: the output plays one unit after the other of a stream, and after
\* the last that was received of it the first of the next one, however the threads
\* interleave between the network, streambuf, the codec and outputbuf (stream_thread,
\* decode_thread, _output_frames and the ticks of slimproto_run).  All that is ever missing
\* is what 'q' or 'f' cut short.
THEOREM PlayedWithoutGap == ASSUME Smooth PROVE Spec => PlayedInOrder
<1> DEFINE InOrder ==
        played' # played =>
          \/ played' = <<played[1], played[2] + 1>>
          \/ /\ played'[1] > played[1] /\ played'[2] = 1
             /\ \A k \in Stream : played[1] <= k /\ k < played'[1] => Exhausted(k)
<1>1. ASSUME Ground, GapInv, Next, played' # played PROVE InOrder
  <2>1. /\ _output_frames /\ Skipped = 0 /\ OutputTypes
        /\ \A j \in 0 .. Used - 1 : UnitAt(j) \in Known
    BY <1>1, PlaysNext, Located DEF Smooth, Ground, RoomInv, OnlyAsked, Skipped
  <2>2. PICK n \in 0 .. Used : n = Skipped + 1 /\ played' = UnitAt(Skipped)
    BY <1>1, <2>1, Period DEF Ground
  <2>3. /\ 0 \in 0 .. Used - 1 /\ played' = UnitAt(0)
    BY <2>1, <2>2, Measured
  <2>4. Follows(got, CutShort, played, UnitAt(0))
    <3>1. Prev(0) = played
        BY DEF Prev
    <3> QED
        BY <1>1, <2>3, <3>1 DEF GapInv, Units, Chained
  <2>5. UnitAt(0) \in Unit
    BY <2>1, <2>3 DEF Known
  <2>6. CASE UnitAt(0)[1] = played[1] /\ UnitAt(0)[2] = played[2] + 1
    BY <2>3, <2>5, <2>6 DEF Unit
  <2>7. CASE /\ UnitAt(0)[1] > played[1] /\ UnitAt(0)[2] = 1
             /\ \A k \in Stream : played[1] <= k /\ k < UnitAt(0)[1]
                   => Done(got, CutShort, played, k)
    <3>1. ASSUME NEW k \in Stream, played[1] <= k, k < UnitAt(0)[1] PROVE Exhausted(k)
        BY <1>1, <2>7, <3>1, DoneIsExhausted
    <3> QED
        BY <2>3, <2>7, <3>1
  <2> QED
    BY <2>4, <2>6, <2>7 DEF Follows
<1>2. Ground /\ GapInv /\ [Next]_vars => [InOrder]_vars
    BY <1>1
<1>3. [][InOrder]_vars => PlayedInOrder
    BY PTL DEF PlayedInOrder
<1> QED
    BY <1>2, <1>3, GapAlways, PTL DEF Spec

\* The ends the player reports are real: when it sends STMu (slimproto.c:766) everything
\* that was received was played, and when it sends STMd (slimproto.c:727), on which the
\* server starts the next stream and stream_sock flushes streambuf, all of the last one is
\* in outputbuf or played; although both are sent after S, D and O were released.
THEOREM ReportedEndsAreReal == ASSUME Smooth PROVE Spec => EndsAreReal
<1> DEFINE Real ==
      /\ "STMu" \in sent' =>
             /\ Used = 0 /\ dstate = "DECODE_STOPPED" /\ Ended(sstate) /\ sbuf = << >>
             /\ \A k \in Stream : k >= played[1] => Exhausted(k)
      /\ "STMd" \in sent' =>
             /\ Ended(sstate) /\ sbuf = << >> /\ held = NoUnit
             /\ \/ Exhausted(snum)
                \/ Used > 0 /\ UnitAt(Used - 1) = <<snum, got[snum]>>
<1>1. ASSUME Ground, GapInv, Next, sent' \cap {"STMd", "STMu"} # {}
      PROVE  Real
  <2>1. cpc = "send" /\ sent' = tick.send
    BY <1>1, TicksReport DEF TickSend, Goto
  <2>2. /\ dstate = "DECODE_STOPPED" /\ Ended(sstate) /\ ~Stopping
        /\ "STMu" \in sent' => Used = 0
    BY <1>1, <2>1 DEF GapInv, Ends, FindsKept, Stopping
  <2>3. Drained
    BY <1>1, <2>2 DEF GapInv, Ends, StopsDrained
  <2>4. \A k \in Stream : k >= OutEnd[1] => Done(got, CutShort, OutEnd, k)
    BY <1>1, <2>2, <2>3, AllDecoded
  <2>5. Used = 0 => /\ OutEnd = played
                    /\ \A k \in Stream : k >= played[1] => Exhausted(k)
    <3>1. Used = 0 => OutEnd = played
        BY DEF OutEnd, Prev
    <3>2. ASSUME Used = 0, NEW k \in Stream, k >= played[1] PROVE Exhausted(k)
        BY <1>1, <2>4, <3>1, <3>2, DoneIsExhausted
    <3> QED
        BY <3>1, <3>2
  <2>6. Exhausted(snum) \/ (Used > 0 /\ UnitAt(Used - 1) = <<snum, got[snum]>>)
    <3>1. /\ snum \in 0 .. MaxStreams /\ flushed \in 0 .. snum /\ trimmed \subseteq 0 .. snum
          /\ Used \in Nat /\ OutEnd \in Known \cup {NoUnit}
        BY <1>1, Located
    <3>2. CASE snum = 0
        BY <3>1, <3>2 DEF Exhausted
    <3>3. CASE snum # 0
      <4>1. snum \in Stream /\ OutEnd[1] <= snum
          BY <3>1, <3>3, UnitsKnown DEF Stream
      <4>2. Done(got, CutShort, OutEnd, snum)
          BY <2>4, <4>1
      <4>3. CASE Used = 0
          BY <1>1, <2>5, <4>1, <4>2, <4>3, DoneIsExhausted
      <4>4. CASE Used # 0
        <5>1. Used > 0 /\ OutEnd = UnitAt(Used - 1)
            BY <3>1, <4>4 DEF OutEnd, Prev
        <5>2. snum \in CutShort => Exhausted(snum)
            BY <3>1, <4>1 DEF CutShort, Exhausted
        <5> QED
            BY <4>2, <5>1, <5>2 DEF Done, Exhausted
      <4> QED
          BY <4>3, <4>4
    <3> QED
        BY <3>2, <3>3
  <2> QED
    BY <2>2, <2>3, <2>5, <2>6 DEF Drained
<1>2. Ground /\ GapInv /\ [Next]_vars => [Real]_vars
    BY <1>1
<1>3. [][Real]_vars => EndsAreReal
    BY PTL DEF EndsAreReal
<1> QED
    BY <1>2, <1>3, GapAlways, PTL DEF Spec

\* As long as the server does not use 'q', output.track_start is ahead of the reader of
\* outputbuf, on the first unit of a stream (output.track_start, which codecs set under O and
\* _output_frames and output_flush_streaming use): no track starts unnoticed.
THEOREM TrackStartStaysAhead ==
    ASSUME Smooth, "q" \notin Ops PROVE Spec => []TrackStartAhead
<1>1. Ground /\ GapInv => TrackStartAhead
  <2> SUFFICES ASSUME Ground, GapInv, trackStart # NULL
               PROVE  \/ trackStart = writep /\ dpc = "write"
                      \/ trackStart \in Unread /\ mem[trackStart][2] = 1
      BY DEF TrackStartAhead
  <2>1. CASE trackStart = writep /\ dpc = "write"
      BY <2>1
  <2>2. CASE ~(trackStart = writep /\ dpc = "write")
    <3>1. PICK j \in 0 .. Used - 1 : trackStart = Ahead(readp, j) /\ UnitAt(j)[2] = 1
        BY <2>2 DEF GapInv, Units, Marked
    <3> QED
        BY <3>1 DEF Unread, UnitAt
  <2> QED
      BY <2>1, <2>2
<1> QED
    BY <1>1, GapAlways, PTL
=============================================================================
