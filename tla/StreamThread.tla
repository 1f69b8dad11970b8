---------------------------- MODULE StreamThread ----------------------------
(***************************************************************************)
(* stream.c: stream_thread, and the functions the controller calls on the  *)
(* stream.  stream_thread looks at the stream under S, polls the descriptor*)
(* without it and takes S again to act on what poll reported; by then the  *)
(* controller may have closed the descriptor or opened another one.        *)
(*                                                                         *)
(* Left out: icy metadata, ogg parsing and SSL; headers arrive as a whole. *)
(***************************************************************************)
EXTENDS Pipeline

CONSTANT Faults   \* which failures the network and the server can show

ASSUME FaultsAssumption ==
    Faults \subseteq {"connect", "send", "header", "headerlong", "reset", "open"}

\* stream.disconnect = code
SetDisconnect(code) == disconnect' = code /\ why' = code

Disconnect(state, code) ==
    /\ sstate' = state
    /\ SetDisconnect(code)
    /\ fd' = 0

\* One more unit of the stream that fd is connected to.
Receive ==
    /\ bytes < MaxLen
    /\ sbuf' = Append(sbuf, <<fd, bytes + 1>>)
    /\ bytes' = bytes + 1
    /\ got' = [got EXCEPT ![fd] = bytes + 1]

------------------------------------------------------------------------------
(* stream_thread *)

\* STREAMING_FILE: read with S held.
ReadFile ==
    /\ spc = "top" /\ fd # 0 /\ Len(sbuf) < StreamCap /\ sstate = "STREAMING_FILE"
    /\ \/ Receive /\ UNCHANGED <<sstate, disconnect, why, fd>>
       \/ /\ Disconnect("DISCONNECT", "DISCONNECT_OK")
          /\ UNCHANGED <<bytes, sbuf, got>>
       \/ /\ "reset" \in Faults
          /\ Disconnect("DISCONNECT", "REMOTE_DISCONNECT")
          /\ UNCHANGED <<bytes, sbuf, got>>
    /\ UNCHANGED <<isFile, sentHeaders, contWait, spc>>

\* poll returns: writable while the headers are still to be sent (a socket that the
\* peer closed is writable, too), or readable.
PollSocket ==
    /\ spc = "top" /\ fd # 0 /\ Len(sbuf) < StreamCap
    /\ ~NotReading(sstate) /\ sstate # "STREAMING_FILE"
    /\ spc' = IF sstate = "SEND_HEADERS" THEN "out" ELSE "in"
    /\ UNCHANGED <<sstate, disconnect, fd, isFile, bytes, sbuf, sentHeaders,
                   contWait, why, got>>

\* The socket was closed while in poll, or there is nothing to do with what
\* poll reported.
PollStale ==
    /\ \/ spc # "top" /\ fd = 0
       \/ spc = "out" /\ fd # 0 /\ sstate # "SEND_HEADERS"
    /\ spc' = "top"
    /\ UNCHANGED <<sstate, disconnect, fd, isFile, bytes, sbuf, sentHeaders,
                   contWait, why, got>>

\* send_header leaves fd open when it fails.
SendHeader ==
    /\ spc = "out" /\ fd # 0 /\ sstate = "SEND_HEADERS"
    /\ \/ sstate' = "RECV_HEADERS" /\ UNCHANGED <<disconnect, why>>
       \/ /\ "send" \in Faults
          /\ sstate' = "DISCONNECT"
          /\ SetDisconnect("LOCAL_DISCONNECT")
    /\ spc' = "top"
    /\ UNCHANGED <<fd, isFile, bytes, sbuf, sentHeaders, contWait, got>>

HeaderDone == IF contWait THEN "STREAMING_WAIT" ELSE "STREAMING_BUFFERING"

\* A header longer than MAX_HEADER closes the connection; if that byte also ends
\* the header the state still moves on.  A failed read leaves STOPPED behind.
RecvHeaders ==
    /\ spc = "in" /\ fd # 0 /\ sstate = "RECV_HEADERS"
    /\ \/ sstate' = HeaderDone /\ UNCHANGED <<disconnect, why, fd>>
       \/ /\ "headerlong" \in Faults
          /\ \E s \in {"DISCONNECT", HeaderDone} : Disconnect(s, "LOCAL_DISCONNECT")
       \/ /\ "header" \in Faults
          /\ Disconnect("STOPPED", "LOCAL_DISCONNECT")
    /\ spc' = "top"
    /\ UNCHANGED <<isFile, bytes, sbuf, sentHeaders, contWait, got>>

\* recv into streambuf, whatever else the state has become since the poll.  A
\* request not sent yet gets no data, and recv on a file's descriptor fails.
RecvBody ==
    /\ spc = "in" /\ fd # 0 /\ sstate # "RECV_HEADERS"
    /\ \/ /\ ~isFile /\ sstate # "SEND_HEADERS"
          /\ Receive
          /\ sstate' = IF sstate = "STREAMING_BUFFERING" /\ bytes' > Threshold
                       THEN "STREAMING_HTTP" ELSE sstate
          /\ UNCHANGED <<disconnect, why, fd>>
       \/ /\ ~isFile
          /\ sstate = "SEND_HEADERS" => "header" \in Faults
          /\ Disconnect("DISCONNECT", "DISCONNECT_OK")
          /\ UNCHANGED <<bytes, sbuf, got>>
       \/ /\ isFile \/ "reset" \in Faults
          /\ Disconnect("DISCONNECT", "REMOTE_DISCONNECT")
          /\ UNCHANGED <<bytes, sbuf, got>>
       \/ /\ ~isFile      \* ERROR_WOULDBLOCK: what poll saw was another socket's
          /\ sstate = "SEND_HEADERS"
          /\ UNCHANGED <<sstate, disconnect, why, fd, bytes, sbuf, got>>
    /\ spc' = "top"
    /\ UNCHANGED <<isFile, sentHeaders, contWait>>

StreamStep == /\ \/ ReadFile \/ PollSocket \/ PollStale
                 \/ SendHeader \/ RecvHeaders \/ RecvBody
              /\ UNCHANGED <<decodeVars, outputVars>>

------------------------------------------------------------------------------
(* Called by the controller; each is one S region *)

\* Mutant: the reason stays what it was.
UnreachableSilently ==
    /\ sstate' = "DISCONNECT"
    /\ why' = "UNREACHABLE"
    /\ UNCHANGED <<disconnect, fd, isFile, bytes, sbuf, sentHeaders, contWait, spc, got>>

\* Mutant: the stream is stopped instead.
UnreachableStopped ==
    /\ sstate' = "STOPPED"
    /\ SetDisconnect("UNREACHABLE")
    /\ UNCHANGED <<fd, isFile, bytes, sbuf, sentHeaders, contWait, spc, got>>

\* stream_sock could not connect: fd and streambuf are left alone.
SockUnreachable ==
    /\ sstate' = "DISCONNECT"
    /\ SetDisconnect("UNREACHABLE")
    /\ UNCHANGED <<fd, isFile, bytes, sbuf, sentHeaders, contWait, spc, got>>

\* stream_sock connected stream k, after buf_flush(streambuf).
SockConnected(k, wait) ==
    /\ fd' = k /\ isFile' = FALSE
    /\ sstate' = "SEND_HEADERS"
    /\ contWait' = wait
    /\ sentHeaders' = FALSE
    /\ bytes' = 0
    /\ why' = "none"
    /\ UNCHANGED <<disconnect, sbuf, spc, got>>

\* stream_file opened stream k, after buf_flush(streambuf); when the open fails
\* stream.disconnect keeps the value it had.
FileOpened(k, ok) ==
    /\ fd' = IF ok THEN k ELSE 0
    /\ isFile' = TRUE
    /\ sstate' = IF ok THEN "STREAMING_FILE" ELSE "DISCONNECT"
    /\ contWait' = FALSE
    /\ sentHeaders' = FALSE
    /\ bytes' = 0
    /\ why' = "none"
    /\ UNCHANGED <<disconnect, sbuf, spc, got>>

\* buf_flush(streambuf)
FlushStreambuf ==
    /\ sbuf' = << >>
    /\ UNCHANGED <<sstate, disconnect, fd, isFile, bytes, sentHeaders, contWait,
                   spc, why, got>>

\* Mutant: a connection that is closed already keeps its state.
DisconnectIfOpen ==
    /\ fd' = 0
    /\ sstate' = IF fd # 0 THEN "STOPPED" ELSE sstate
    /\ UNCHANGED <<disconnect, isFile, bytes, sbuf, sentHeaders, contWait, spc, why, got>>

\* stream_disconnect; its result is whether fd was open.
StreamDisconnect ==
    /\ fd' = 0
    /\ sstate' = "STOPPED"
    /\ UNCHANGED <<disconnect, isFile, bytes, sbuf, sentHeaders, contWait, spc, why, got>>
=============================================================================
