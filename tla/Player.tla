------------------------------- MODULE Player -------------------------------
(***************************************************************************)
(* The player: the controller, stream_thread, decode_thread and the output *)
(* thread, and a server that sends it commands.                            *)
(*                                                                         *)
(* The server is the environment.  It may stop, flush, pause, skip and     *)
(* unpause at any time.  It starts a stream when there is none, after it   *)
(* sent 'q' or 'f', or after the player reported that it is done with the  *)
(* last one, and answers the response headers of a stream that waits for   *)
(* it with codc, if it left the format open, and cont.                     *)
(***************************************************************************)
EXTENDS Controller

CONSTANTS Ops,      \* the strm commands the server may use, without 's'
          Starts,   \* the kinds of 's' it may send: [autostart, file, format]
          QMax,     \* bound: commands under way
          MaxCmds   \* bound: commands of Ops it sends

ASSUME ServerAssumption ==
    /\ Ops \subseteq {"q", "f", "p", "a", "u"}
    /\ Starts \subseteq [autostart : 0 .. 3, file : BOOLEAN,
                         format : {"known", "none", "?"}]
    /\ \A s \in Starts : s.file => s.autostart >= 2
    /\ QMax \in Nat /\ MaxCmds \in Nat

VARIABLES
    cmdq,    \* the commands on their way to the player
    ncmd,    \* bound: commands of Ops sent
    srv,     \* what the server thinks of the last stream it started
    wanted,  \* the commands that the last stream waits for, or will
    asked,   \* the player sent the response headers of the last stream
    quiet    \* history: the player executed 'q', and nothing since

serverVars == <<cmdq, ncmd, srv, wanted, asked, quiet>>
vars == <<streamVars, decodeVars, outputVars, controlVars, serverVars>>

Init == /\ PipelineInit /\ OutputInit /\ ControllerInit
        /\ cmdq = << >> /\ ncmd = 0 /\ srv = "idle" /\ wanted = << >>
        /\ asked = FALSE /\ quiet = FALSE

------------------------------------------------------------------------------
(* The server *)

Intervals == {0, 1}

\* The strm 's' commands on their way.
Pending == {i \in DOMAIN cmdq : cmdq[i].op = "s"}

SendsOp ==
    /\ Len(cmdq) < QMax /\ ncmd < MaxCmds
    /\ \E op \in Ops, n \in Intervals :
          /\ op \in {"q", "f"} => n = 0
          /\ cmdq' = Append(cmdq, [op |-> op, n |-> n])
          /\ srv' = IF op \in {"q", "f"} THEN "idle" ELSE srv
          /\ asked' = (asked /\ op \notin {"q", "f"})
    /\ ncmd' = ncmd + 1
    /\ UNCHANGED <<wanted, quiet>>

SendsStart ==
    /\ srv = "idle" /\ Len(cmdq) < QMax
    /\ snum + Cardinality(Pending) < MaxStreams
    /\ \E s \in Starts :
          /\ cmdq' = Append(cmdq, [op |-> "s", autostart |-> s.autostart,
                                   file |-> s.file, format |-> s.format])
          /\ wanted' = IF s.file \/ s.autostart < 2 THEN << >>
                       ELSE IF s.format = "?" THEN <<[op |-> "codc"], [op |-> "cont"]>>
                       ELSE <<[op |-> "cont"]>>
    /\ srv' = "sent"
    /\ asked' = FALSE
    /\ UNCHANGED <<ncmd, quiet>>

SendsCont ==
    /\ asked /\ wanted # << >>
    /\ cmdq' = cmdq \o wanted
    /\ wanted' = << >>
    /\ UNCHANGED <<ncmd, srv, asked, quiet>>

Server == /\ SendsOp \/ SendsStart \/ SendsCont
          /\ sent' = {}
          /\ UNCHANGED <<streamVars, decodeVars, outputVars, cpc, cmd, autostart, sentSTMl,
                         sentSTMu, sentSTMo, tick, snum, flushed, trimmed>>

\* What the server makes of the events the controller sends in this step.  It
\* ignores those about a stream older than the last one it started.
Hears ==
    /\ srv' = IF Pending' # {} THEN srv
              ELSE IF srv = "sent" /\ "STMc" \in sent' THEN "busy"
              ELSE IF srv = "busy" /\ \/ sent' \cap {"STMd", "STMn", "STMu"} # {}
                                      \/ "DSCO" \in sent' /\ tick.code # "DISCONNECT_OK"
                   THEN "idle" ELSE srv
    /\ asked' = (asked \/ (srv' = "busy" /\ "RESP" \in sent'))
    /\ UNCHANGED <<ncmd, wanted>>

------------------------------------------------------------------------------
(* The player *)

Threads == /\ StreamStep \/ DecodeStep \/ _output_frames
           /\ sent' = {}
           /\ UNCHANGED <<cpc, cmd, autostart, sentSTMl, sentSTMu, sentSTMo, tick,
                          snum, flushed, trimmed, serverVars>>

\* process(): the first step of the next command.
Execute ==
    /\ cmdq # << >>
    /\ LET c == Head(cmdq)
       IN /\ \/ c.op = "q" /\ StrmStop
             \/ c.op = "f" /\ StrmFlush
             \/ c.op = "p" /\ StrmPause(c.n)
             \/ c.op = "a" /\ StrmSkip(c.n)
             \/ c.op = "u" /\ StrmUnpause(c.n)
             \/ c.op = "s" /\ StrmStart(c)
             \/ c.op = "cont" /\ Cont
             \/ c.op = "codc" /\ Codc(TRUE)
          /\ quiet' = (quiet /\ c.op = "cont")
    /\ cmdq' = Tail(cmdq)
    /\ Hears

Tick == TickStream /\ UNCHANGED <<cmdq, quiet>> /\ Hears

Continue == /\ ControllerStep
            /\ quiet' = (quiet \/ cpc = "q_streambuf")
            /\ UNCHANGED cmdq
            /\ Hears

Next == Server \/ Threads \/ Execute \/ Tick \/ Continue

Spec == Init /\ [][Next]_vars

\* Every thread keeps running.  slimproto_run looks at the socket and at the
\* clock in every round of its loop, so neither commands nor ticks starve.  A
\* server that was asked for it sends cont.
Fairness ==
    /\ WF_vars(StreamStep /\ Threads)
    /\ WF_vars(DecodeStep /\ Threads)
    /\ WF_vars(_output_frames /\ Threads)
    /\ WF_vars(Continue) /\ SF_vars(Execute) /\ SF_vars(Tick)
    /\ WF_vars(SendsCont /\ Server)

FairSpec == Spec /\ Fairness

------------------------------------------------------------------------------
(* Properties *)

\* Every variable keeps its type; streambuf and outputbuf never hold more than
\* they have room for.
TypeOK ==
    /\ sstate \in StreamState /\ disconnect \in DisconnectCode
    /\ fd \in 0 .. MaxStreams /\ isFile \in BOOLEAN /\ bytes \in 0 .. MaxLen
    /\ sbuf \in Seq(Unit) /\ Len(sbuf) <= StreamCap
    /\ sentHeaders \in BOOLEAN /\ contWait \in BOOLEAN
    /\ spc \in {"top", "in", "out"} /\ why \in DisconnectCode \cup {"none"}
    /\ got \in [Stream -> 0 .. MaxLen]
    /\ dstate \in DecodeState /\ newStream \in BOOLEAN /\ codec \in BOOLEAN
    /\ dpc \in {"stream", "output", "lock", "start", "write"}
    /\ look \in [data : BOOLEAN, toend : BOOLEAN, room : BOOLEAN]
    /\ held \in Unit \cup {NoUnit} /\ eos \in BOOLEAN
    /\ ostate \in OutputState /\ due \in Intervals
    /\ mem \in [0 .. OutSlots - 1 -> Unit \cup {NoUnit}]
    /\ readp \in 0 .. OutSlots - 1 /\ writep \in 0 .. OutSlots - 1
    /\ trackStart \in {NULL} \cup (0 .. OutSlots - 1) /\ trackStarted \in BOOLEAN
    /\ played \in Unit \cup {NoUnit} /\ started \in 0 .. MaxStreams
    /\ autostart \in -2 .. 3 /\ {sentSTMl, sentSTMu, sentSTMo} \subseteq BOOLEAN
    /\ snum \in 0 .. MaxStreams /\ flushed \in 0 .. snum /\ trimmed \subseteq 0 .. snum
    /\ srv \in {"idle", "sent", "busy"} /\ ncmd \in 0 .. MaxCmds

\* Stream k gave all that was received of it.
Exhausted(k) == got[k] = 0 \/ k <= flushed \/ k \in trimmed \/ played = <<k, got[k]>>

\* What is played is the next unit of the stream being played, or the first of a
\* later one when all that was received of those before it was played, unless
\* the server cut them short: nothing is lost, repeated or played out of order on
\* the way through streambuf, the codec and outputbuf.
PlayedInOrder ==
    [][played' # played =>
          \/ played' = <<played[1], played[2] + 1>>
          \/ /\ played'[1] > played[1] /\ played'[2] = 1
             /\ \A k \in Stream : played[1] <= k /\ k < played'[1] => Exhausted(k)]_vars

\* No unit is played twice, and no stream resumes after a later one, whatever is
\* skipped or lost when the network, the server or a codec fails.
NeverRepeated ==
    [][played' # played => \/ played'[1] > played[1]
                           \/ played'[1] = played[1] /\ played'[2] > played[2]]_vars

\* After 'q' nothing of the streams before it is played: the output thread finds
\* none of it left, whatever the other threads were doing when 'q' came.
FlushedStaysFlushed == [][played' # played => played'[1] > flushed]_vars

\* The ends the player reports are real. It says that it played to the end (STMu) only
\* when the decoder is stopped, outputbuf is empty, and all that was received was played;
\* and that it decoded a stream (STMd), on which the server starts the next and streambuf
\* is flushed, only when the stream ended, streambuf is empty and the last unit received
\* is on its way to the output.
EndsAreReal ==
    [][/\ "STMu" \in sent' =>
             /\ Used = 0 /\ dstate = "DECODE_STOPPED" /\ Ended(sstate) /\ sbuf = << >>
             /\ \A k \in Stream : k >= played[1] => Exhausted(k)
       /\ "STMd" \in sent' =>
             /\ Ended(sstate) /\ sbuf = << >> /\ held = NoUnit
             /\ \/ Exhausted(snum)
                \/ Used > 0 /\ UnitAt(Used - 1) = <<snum, got[snum]>>]_vars

\* Until the server stops or skips, the reader of outputbuf never passes the
\* track start set for it, which then is the first unit of a stream.
TrackStartAhead ==
    trackStart # NULL /\ flushed = 0 =>
        \/ trackStart = writep /\ dpc = "write"
        \/ trackStart \in Unread /\ mem[trackStart][2] = 1

\* Once 'q' was executed and until the next command everything is stopped and
\* empty, and stays so: no thread acts on what it saw before.
Quiesced ==
    quiet => /\ sstate = "STOPPED" /\ fd = 0 /\ sbuf = << >>
             /\ dstate = "DECODE_STOPPED" /\ ~HoldsD
             /\ ostate \in {"OUTPUT_STOPPED", "OUTPUT_OFF"} /\ Used = 0

\* Meanwhile the server hears of no end, failure or start of the streams before.
QuietIsSilent ==
    [][quiet => sent' \cap {"STMd", "STMn", "STMl", "STMu", "STMo", "DSCO", "RESP"} = {}]_vars

\* A disconnect is reported with the reason of the stream it is about, and decoding
\* a stream that is over starts only when it ended well.
ReasonIsCurrent ==
    [][/\ "DSCO" \in sent' => tick.code = why
       /\ dstate' = "DECODE_RUNNING" /\ dstate = "DECODE_READY"
             /\ tick.stream = "DISCONNECT" => why = "DISCONNECT_OK"]_vars

\* The server is told that a track started (STMs) only about the stream it plays now:
\* never, once it started another, about one it had stopped with 'q' before that.
StartedIsPlaying == [][ "STMs" \in sent' /\ snum > flushed => started > flushed]_vars

\* What was received of stream k but not decoded is lost although no command cut it: its
\* connection broke before a tick saw enough of it to start the decoder, which then never
\* starts (slimproto.c:713), or the server starts the next stream when it hears of that.
Broken(k) == /\ why \notin {"none", "DISCONNECT_OK"}
             /\ \/ /\ k = snum /\ cpc \notin {"connect", "open"}
                   /\ sstate = "STOPPED" /\ dstate = "DECODE_READY"
                \/ k = snum - 1 /\ cpc = "connect"

\* The server always hears that a stream it started is over, and all that is received
\* of a stream is played, unless it is cut short. A broken connection alone does not lose
\* what came before: only if the decoder was not started, or the server does not wait.
StreamEnds ==
    /\ srv = "busy" ~> srv # "busy"
    /\ \A k \in Stream, i \in 1 .. MaxLen :
          <>(got[k] >= i) => <>(\/ played[1] > k
                                \/ played[1] = k /\ played[2] >= i
                                \/ k <= flushed \/ k \in trimmed \/ Broken(k))
=============================================================================
