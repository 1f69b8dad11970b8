----------------------------- MODULE Controller -----------------------------
(***************************************************************************)
(* slimproto.c: the main thread.  slimproto_run takes a command from the   *)
(* server and executes it (process_strm, process_cont, process_codc), or   *)
(* looks at the other threads and reports to the server what it saw (a     *)
(* tick).  Both take S, D and O one after the other and never together, so *)
(* the other threads run between two regions of one command or tick.       *)
(*                                                                         *)
(* A command is a record with the field op: the letter of a strm command,  *)
(* "cont" or "codc".  snum is the number of the last stream started.       *)
(***************************************************************************)
EXTENDS StreamThread, DecodeThread, OutputThread

VARIABLES
    cpc,         \* where the controller is
    cmd,         \* the strm 's' command it executes, or NoCmd
    autostart,
    sentSTMl, sentSTMu, sentSTMo,
    tick,        \* the locals of a tick
    sent,        \* history: the events its last step sent to the server
    snum,        \* history: streams started
    flushed,     \* history: streams up to this one were stopped by 'q'
    trimmed      \* history: streams 'f' cut: the last, and the one it found marked

controlVars == <<cpc, cmd, autostart, sentSTMl, sentSTMu, sentSTMo, tick, sent,
                 snum, flushed, trimmed>>

NoCmd == [op |-> "none"]
NoTick == [stream |-> "STOPPED", decode |-> "DECODE_STOPPED", send |-> {},
           code |-> "none", disconnect |-> FALSE, start |-> FALSE]

ControllerInit ==
    /\ cpc = "idle" /\ cmd = NoCmd /\ autostart = 0
    /\ sentSTMl = FALSE /\ sentSTMu = FALSE /\ sentSTMo = FALSE
    /\ tick = NoTick /\ sent = {} /\ snum = 0 /\ flushed = 0 /\ trimmed = {}

\* The controller moves to pc, and sends the events.
Goto(pc, events) == cpc' = pc /\ sent' = events

LocalsKept == UNCHANGED <<autostart, sentSTMl, sentSTMu, sentSTMo, tick>>

------------------------------------------------------------------------------
(* process_strm 'q' and 'f'.  The first step of a command is given it by the *)
(* module that holds the commands.                                           *)

StrmStop ==
    /\ cpc = "idle" /\ decode_flush
    /\ Goto("q_buffer", {})
    /\ UNCHANGED <<streamVars, outputVars, cmd, snum, flushed, trimmed>> /\ LocalsKept

StopFlush ==
    /\ cpc = "q_buffer" /\ FlushOutputbuf
    /\ Goto("q_output", {})
    /\ UNCHANGED <<streamVars, decodeVars, cmd, snum, flushed, trimmed>> /\ LocalsKept

StopOutputToo ==
    /\ cpc = "q_output" /\ StopOutput
    /\ Goto("q_disconnect", {})
    /\ flushed' = snum
    /\ UNCHANGED <<streamVars, decodeVars, cmd, snum, trimmed>> /\ LocalsKept

StopStream ==
    /\ cpc = "q_disconnect" /\ StreamDisconnect
    /\ Goto("q_streambuf", {"STMf"})
    /\ UNCHANGED <<decodeVars, outputVars, cmd, snum, flushed, trimmed>> /\ LocalsKept

StrmFlush ==
    /\ cpc = "idle" /\ decode_flush
    /\ Goto("f_output", {})
    /\ trimmed' = trimmed \cup {snum}
    /\ UNCHANGED <<streamVars, outputVars, cmd, snum, flushed>> /\ LocalsKept

FlushStreaming ==
    /\ cpc = "f_output" /\ output_flush_streaming
    /\ Goto(IF trackStart # NULL THEN "f_flushed" ELSE "f_disconnect", {})
    /\ trimmed' = IF trackStart # NULL THEN trimmed \cup {mem[trackStart][1]} ELSE trimmed
    /\ UNCHANGED <<streamVars, decodeVars, cmd, snum, flushed>> /\ LocalsKept

FlushStream ==
    /\ cpc \in {"f_flushed", "f_disconnect"} /\ StreamDisconnect
    /\ Goto("f_streambuf", IF fd # 0 \/ cpc = "f_flushed" THEN {"STMf"} ELSE {})
    /\ UNCHANGED <<decodeVars, outputVars, cmd, snum, flushed, trimmed>> /\ LocalsKept

\* The last step of both.
EmptyStreambuf ==
    /\ cpc \in {"q_streambuf", "f_streambuf"} /\ FlushStreambuf
    /\ Goto("idle", {})
    /\ UNCHANGED <<decodeVars, outputVars, cmd, snum, flushed, trimmed>> /\ LocalsKept

------------------------------------------------------------------------------
(* process_strm 'p', 'a' and 'u': an interval, or a time to start at, of n *)

StrmPause(n) ==
    /\ cpc = "idle"
    /\ SetOutput(IF n > 0 THEN "OUTPUT_PAUSE_FRAMES"
                 ELSE IF ostate = "OUTPUT_OFF" THEN ostate ELSE "OUTPUT_STOPPED", n)
    /\ Goto("idle", IF n > 0 THEN {} ELSE {"STMp"})
    /\ UNCHANGED <<streamVars, decodeVars, cmd, snum, flushed, trimmed>> /\ LocalsKept

StrmSkip(n) ==
    /\ cpc = "idle"
    /\ SetOutput("OUTPUT_SKIP_FRAMES", n)
    /\ Goto("idle", {})
    /\ UNCHANGED <<streamVars, decodeVars, cmd, snum, flushed, trimmed>> /\ LocalsKept

StrmUnpause(n) ==
    /\ cpc = "idle"
    /\ SetOutput(IF n > 0 THEN "OUTPUT_START_AT" ELSE "OUTPUT_RUNNING", n)
    /\ Goto("idle", {"STMr"})
    /\ UNCHANGED <<streamVars, decodeVars, cmd, snum, flushed, trimmed>> /\ LocalsKept

------------------------------------------------------------------------------
(* process_strm 's': c.format is "known" for a codec the player has, "none"  *)
(* for one it has not, and "?" when the server is to name it later           *)

StrmStart(c) ==
    /\ cpc = "idle"
    /\ autostart' = c.autostart
    /\ \/ c.format # "?" /\ codec_open(c.format = "known")
       \/ c.format = "?" /\ UNCHANGED decodeVars
    /\ IF c.format = "?" /\ c.autostart < 2
       THEN Goto("idle", {"STMf"}) /\ UNCHANGED <<cmd, snum>>
       ELSE Goto("connect", {"STMf"}) /\ cmd' = c /\ snum' = snum + 1
    /\ UNCHANGED <<streamVars, outputVars, sentSTMl, sentSTMu, sentSTMo, tick,
                   flushed, trimmed>>

Started ==
    /\ Goto("idle", {"STMc"})
    /\ cmd' = NoCmd
    /\ sentSTMl' = FALSE /\ sentSTMu' = FALSE /\ sentSTMo' = FALSE
    /\ UNCHANGED <<decodeVars, outputVars, tick, snum, flushed, trimmed>>

ConnectFails ==
    /\ cpc = "connect" /\ ~cmd.file /\ "connect" \in Faults
    /\ SockUnreachable
    /\ Started /\ UNCHANGED autostart

\* stream_file and stream_sock begin with buf_flush(streambuf).
Connect ==
    /\ cpc = "connect"
    /\ FlushStreambuf
    /\ Goto("open", {})
    /\ UNCHANGED <<decodeVars, outputVars, cmd, snum, flushed, trimmed>> /\ LocalsKept

OpenSocket ==
    /\ cpc = "open" /\ ~cmd.file
    /\ SockConnected(snum, autostart >= 2)
    /\ Started /\ UNCHANGED autostart

OpenFile ==
    /\ cpc = "open" /\ cmd.file
    /\ \E ok \in {TRUE} \cup (IF "open" \in Faults THEN {FALSE} ELSE {}) : FileOpened(snum, ok)
    /\ autostart' = autostart - 2
    /\ Started

------------------------------------------------------------------------------
(* process_cont and process_codc *)

Cont ==
    /\ cpc = "idle"
    /\ autostart' = IF autostart > 1 THEN autostart - 2 ELSE autostart
    /\ sstate' = IF autostart > 1 /\ sstate = "STREAMING_WAIT"
                 THEN "STREAMING_BUFFERING" ELSE sstate
    /\ Goto("idle", {})
    /\ UNCHANGED <<disconnect, fd, isFile, bytes, sbuf, sentHeaders, contWait, spc,
                   why, got, decodeVars, outputVars, cmd, sentSTMl, sentSTMu,
                   sentSTMo, tick, snum, flushed, trimmed>>

Codc(known) ==
    /\ cpc = "idle" /\ codec_open(known)
    /\ Goto("idle", {})
    /\ UNCHANGED <<streamVars, outputVars, cmd, snum, flushed, trimmed>> /\ LocalsKept

------------------------------------------------------------------------------
(* A tick: one region under each of S, D and O, then what there is to send *)

TickStream ==
    /\ cpc = "idle"
    /\ LET resp == ~sentHeaders /\ sstate \in {"STREAMING_HTTP", "STREAMING_WAIT",
                                                "STREAMING_BUFFERING"}
       IN /\ sentHeaders' = (sentHeaders \/ resp)
          /\ tick' = [NoTick EXCEPT
                        !.stream = sstate,
                        !.send = (IF sstate = "DISCONNECT" THEN {"DSCO"} ELSE {})
                                 \cup (IF resp THEN {"RESP"} ELSE {}),
                        !.code = IF sstate = "DISCONNECT" THEN disconnect ELSE "none"]
    /\ sstate' = IF sstate = "DISCONNECT" THEN "STOPPED" ELSE sstate
    /\ Goto("tickD", {})
    /\ UNCHANGED <<disconnect, fd, isFile, bytes, sbuf, contWait, spc, why, got,
                   decodeVars, outputVars, cmd, autostart, sentSTMl, sentSTMu,
                   sentSTMo, snum, flushed, trimmed>>

\* stream.disconnect is read although S was released.
StreamReady == \/ tick.stream \in {"STREAMING_HTTP", "STREAMING_FILE"}
               \/ tick.stream = "DISCONNECT" /\ disconnect = "DISCONNECT_OK"

StartsDecode == StreamReady /\ ~sentSTMl /\ dstate = "DECODE_READY" /\ autostart \in {0, 1}

DecodeDone == dstate \in {"DECODE_COMPLETE", "DECODE_ERROR"}

TickDecode ==
    /\ cpc = "tickD" /\ ~HoldsD
    /\ dstate' = IF StartsDecode THEN "DECODE_RUNNING"
                 ELSE IF DecodeDone THEN "DECODE_STOPPED" ELSE dstate
    /\ sentSTMl' = (sentSTMl \/ (StartsDecode /\ autostart = 0))
    /\ tick' = [tick EXCEPT
                  !.decode = dstate',
                  !.send = @ \cup (IF StartsDecode /\ autostart = 0 THEN {"STMl"} ELSE {})
                             \cup (IF dstate = "DECODE_COMPLETE" THEN {"STMd"} ELSE {})
                             \cup (IF dstate = "DECODE_ERROR" THEN {"STMn"} ELSE {}),
                  !.start = StartsDecode /\ autostart = 1,
                  !.disconnect = DecodeDone /\ tick.stream \in
                                    {"STREAMING_HTTP", "STREAMING_FILE"}]
    /\ Goto("tickO", {})
    /\ UNCHANGED <<streamVars, newStream, codec, dpc, look, held, eos, outputVars,
                   cmd, autostart, sentSTMu, sentSTMo, snum, flushed, trimmed>>

\* Mutant: the decoder is not looked at.
UnderrunWhileDecoding == /\ ostate = "OUTPUT_RUNNING" /\ ~sentSTMu /\ Used = 0
                         /\ Ended(tick.stream)

Underrun == /\ ostate = "OUTPUT_RUNNING" /\ ~sentSTMu /\ Used = 0
            /\ Ended(tick.stream) /\ tick.decode = "DECODE_STOPPED"

Starving == /\ ostate = "OUTPUT_RUNNING" /\ ~sentSTMo /\ Used = 0
            /\ tick.stream = "STREAMING_HTTP"

StartsOutput == tick.start /\ ostate \in {"OUTPUT_STOPPED", "OUTPUT_OFF"}

\* An output that was stopped for long enough is closed.
TickOutput ==
    /\ cpc = "tickO"
    /\ trackStarted' = FALSE
    /\ \/ StartsOutput /\ ostate' = "OUTPUT_BUFFER"
       \/ Underrun /\ ostate' = "OUTPUT_STOPPED"
       \/ /\ ~StartsOutput /\ ~Underrun
          /\ \/ UNCHANGED ostate
             \/ Idle /\ ostate = "OUTPUT_STOPPED" /\ ostate' = "OUTPUT_OFF"
    /\ sentSTMu' = (sentSTMu \/ Underrun)
    /\ sentSTMo' = (sentSTMo \/ Starving)
    /\ tick' = [tick EXCEPT !.send = @ \cup (IF trackStarted THEN {"STMs"} ELSE {})
                                       \cup (IF Underrun THEN {"STMu"} ELSE {})
                                       \cup (IF Starving THEN {"STMo"} ELSE {})]
    /\ Goto("send", {})
    /\ UNCHANGED <<streamVars, decodeVars, mem, readp, writep, trackStart, due, played,
                   started, cmd, autostart, sentSTMl, snum, flushed, trimmed>>

TickSend ==
    /\ cpc = "send"
    /\ IF tick.disconnect THEN StreamDisconnect ELSE UNCHANGED streamVars
    /\ Goto("idle", tick.send)
    /\ tick' = NoTick
    /\ UNCHANGED <<decodeVars, outputVars, cmd, autostart, sentSTMl, sentSTMu, sentSTMo,
                   snum, flushed, trimmed>>

\* The steps that are not the first of a command or a tick.
ControllerStep ==
    \/ StopFlush \/ StopOutputToo \/ StopStream
    \/ FlushStreaming \/ FlushStream \/ EmptyStreambuf
    \/ ConnectFails \/ Connect \/ OpenSocket \/ OpenFile
    \/ TickDecode \/ TickOutput \/ TickSend
=============================================================================
