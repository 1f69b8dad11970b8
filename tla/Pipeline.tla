------------------------------ MODULE Pipeline ------------------------------
(***************************************************************************)
(* The state the threads of squeezelite share, and the mutexes it is       *)
(* guarded by:                                                             *)
(*                                                                         *)
(*    server --> controller (slimproto_run, main thread)                   *)
(*                   |   starts, stops and watches                         *)
(*    network --> stream_thread --streambuf--> decode_thread               *)
(*                   --outputbuf--> output thread --> audio device         *)
(*                                                                         *)
(* S is streambuf->mutex, D is decode.mutex, O is outputbuf->mutex.  Every *)
(* action of the thread modules is one region executed under S or O (or    *)
(* both); D is held across steps by the decoder alone (HoldsD), since the  *)
(* controller takes it for one region at a time.                           *)
(*                                                                         *)
(* Audio is counted in units: <<k, i>> is the i-th unit of the k-th stream *)
(* the server started.  One unit of stream bytes decodes to one unit of    *)
(* output frames.  The variables named as history are not in the program.  *)
(***************************************************************************)
EXTENDS Integers, Sequences, FiniteSets

CONSTANTS MaxStreams,   \* bound: streams the server starts
          MaxLen,       \* bound: units a stream can have
          StreamCap,    \* units streambuf holds
          OutSlots,     \* slots of outputbuf: it holds one unit less
          Threshold,    \* stream.threshold, in units
          StartLevel    \* what outputbuf must exceed before output starts

ASSUME PipelineAssumption ==
    /\ MaxStreams \in Nat /\ MaxLen \in Nat /\ Threshold \in Nat
    /\ StreamCap \in Nat \ {0} /\ StartLevel \in Nat
    /\ OutSlots \in Nat /\ OutSlots >= 2

VARIABLES
    (* guarded by S: struct streamstate, fd and streambuf *)
    sstate,       \* stream.state
    disconnect,   \* stream.disconnect
    fd,           \* the open connection or file: its stream, or 0 for -1
    isFile,       \* whether fd is a local file
    bytes,        \* stream.bytes
    sbuf,         \* the units in streambuf
    sentHeaders,  \* stream.sent_headers
    contWait,     \* stream.cont_wait
    spc,          \* where stream_thread is: what its poll reported
    got,          \* history: for each stream, the units put in streambuf
    why,          \* history: the last stream.disconnect assigned since the
                  \* stream was started, or "none"
    (* guarded by D: struct decodestate and codec *)
    dstate,       \* decode.state
    newStream,    \* decode.new_stream
    codec,        \* whether a codec is selected
    dpc,          \* where decode_thread is
    look,         \* what it saw of streambuf, stream.state and outputbuf
    held,         \* the unit the codec took from streambuf and has to output
    eos,          \* the codec saw the end of the stream
    (* guarded by O: struct outputstate and outputbuf *)
    ostate,       \* output.state
    mem,          \* the memory of outputbuf
    readp, writep,
    trackStart,   \* output.track_start: a slot, or NULL
    trackStarted, \* output.track_started
    due,          \* the union pause_frames / skip_frames / start_at
    played,       \* history: the last unit that left outputbuf
    started       \* history: the stream whose start set track_started

streamVars == <<sstate, disconnect, fd, isFile, bytes, sbuf, sentHeaders,
                contWait, spc, why, got>>
decodeVars == <<dstate, newStream, codec, dpc, look, held, eos>>
outputVars == <<ostate, mem, readp, writep, trackStart, trackStarted, due,
                played, started>>

------------------------------------------------------------------------------
StreamState == {"STOPPED", "DISCONNECT", "STREAMING_WAIT", "STREAMING_BUFFERING",
                "STREAMING_FILE", "STREAMING_HTTP", "SEND_HEADERS", "RECV_HEADERS"}
DisconnectCode == {"DISCONNECT_OK", "LOCAL_DISCONNECT", "REMOTE_DISCONNECT",
                   "UNREACHABLE"}
DecodeState == {"DECODE_STOPPED", "DECODE_READY", "DECODE_RUNNING",
                "DECODE_COMPLETE", "DECODE_ERROR"}
OutputState == {"OUTPUT_OFF", "OUTPUT_STOPPED", "OUTPUT_BUFFER", "OUTPUT_RUNNING",
                "OUTPUT_PAUSE_FRAMES", "OUTPUT_SKIP_FRAMES", "OUTPUT_START_AT"}

\* stream.state <= DISCONNECT and stream.state <= STREAMING_WAIT in enum order.
Ended(s) == s \in {"STOPPED", "DISCONNECT"}
NotReading(s) == Ended(s) \/ s = "STREAMING_WAIT"

Stream == 1 .. MaxStreams
Unit == Stream \X (1 .. MaxLen)
NoUnit == <<0, 0>>
NoLook == [data |-> FALSE, toend |-> FALSE, room |-> FALSE]
NULL == -1

------------------------------------------------------------------------------
(* outputbuf, as Buffer.tla defines it, with the slot contents kept after they *)
(* were read                                                                   *)

Used == IF writep >= readp THEN writep - readp ELSE OutSlots - (readp - writep)
Space == OutSlots - Used - 1
Ahead(p, n) == IF p + n >= OutSlots THEN p + n - OutSlots ELSE p + n

\* The slots between the pointers.
Unread == {Ahead(readp, i) : i \in 0 .. Used - 1}

\* The unit at distance i from the reader.
UnitAt(i) == mem[Ahead(readp, i)]

\* The thread holding decode.mutex between its regions is the decoder.
HoldsD == dpc \in {"start", "write"}

PipelineInit ==
    /\ sstate = "STOPPED" /\ disconnect = "DISCONNECT_OK" /\ fd = 0
    /\ isFile = FALSE /\ bytes = 0 /\ sbuf = << >> /\ sentHeaders = FALSE
    /\ contWait = FALSE /\ spc = "top" /\ why = "none"
    /\ got = [k \in Stream |-> 0]
    /\ dstate = "DECODE_STOPPED" /\ newStream = TRUE /\ codec = FALSE
    /\ dpc = "stream" /\ look = NoLook /\ held = NoUnit /\ eos = FALSE
    /\ mem = [i \in 0 .. OutSlots - 1 |-> NoUnit]
    /\ readp = 0 /\ writep = 0 /\ trackStart = NULL
    /\ trackStarted = FALSE /\ due = 0 /\ played = NoUnit /\ started = 0
=============================================================================
