-------------------------------- MODULE Link --------------------------------
(***************************************************************************)
(* slimproto.c: the connection to the server.  slimproto() connects to the *)
(* server it was given or discovers one, says HELO and runs slimproto_run, *)
(* which cuts the bytes received into packets; it comes back when the      *)
(* connection is lost or silent for too long, or when the server told the  *)
(* player to switch to another one (serv).                                 *)
(*                                                                         *)
(* A packet is [size, to]: the length of its body, and for serv packets    *)
(* the server it names, Unresolved or NoServer (no serv).  A byte is       *)
(* <<p, i>>: the i-th of packet p, whose first two are its length.  What   *)
(* the packets do to the player is in Controller.                          *)
(***************************************************************************)
EXTENDS Integers, Sequences, FiniteSets

CONSTANTS Servers,     \* where a server may be
          First,       \* the server the player starts with
          NoServer, Unresolved,
          Sizes,       \* the lengths a packet can have
          MAXBUF,      \* the longest packet the player takes
          Timeouts,    \* seconds of silence it waits, 35
          Failures,    \* failed connects before it looks for a server, 5
          MaxPackets,  \* bound: packets a server sends on one connection
          MaxWakes,    \* bound: wake-ups by the other threads meanwhile
          MaxChanges   \* bound: how often servers go down or come back

ASSUME LinkAssumption ==
    /\ First \in Servers
    /\ NoServer \notin Servers /\ Unresolved \notin Servers \cup {NoServer}
    /\ Sizes \subseteq Nat /\ MAXBUF \in Nat /\ Timeouts \in Nat /\ Failures \in Nat
    /\ MaxPackets \in Nat /\ MaxWakes \in Nat /\ MaxChanges \in Nat

VARIABLES
    given,       \* the server was given on the command line, not discovered
    down,        \* the servers that do not answer
    changes,     \* bound: changes of down
    pc,          \* "connect": slimproto(), "run": slimproto_run
    server,      \* slimproto_ip, the server to connect to
    previous,    \* previous_server
    newServer,   \* new_server
    cap,         \* new_server_cap: the server whose sync group it names, or NoServer
    reconnect,
    failed,      \* failed_connect
    expect,      \* what is missing of the packet, 0 while the length is read
    buffer,      \* the bytes got
    timeouts,
    wire,        \* the bytes on their way to the player
    sentPkts,    \* the packets sent on this connection
    lost,        \* the connection delivers no more
    wakes,       \* bound: wake-ups
    done,        \* history: how many packets were executed, and the last one's bytes
    helo         \* history: the last HELO

linkVars == <<server, previous, newServer, cap, reconnect, failed>>
runVars == <<expect, buffer, timeouts, wire, sentPkts, lost, wakes, done>>
netVars == <<given, down, changes>>
vars == <<netVars, pc, linkVars, runVars, helo>>

Packet == [size : Sizes, to : Servers \cup {NoServer, Unresolved}]
Body(p) == [i \in 1 .. sentPkts[p].size |-> <<p, i + 2>>]

Fresh == /\ expect' = 0 /\ buffer' = << >> /\ timeouts' = 0 /\ wire' = << >>
         /\ sentPkts' = << >> /\ lost' = FALSE /\ wakes' = 0
         /\ done' = [n |-> 0, bytes |-> << >>]

Init == /\ given \in BOOLEAN /\ down = {} /\ changes = 0
        /\ pc = "connect" /\ server = First /\ previous = NoServer
        /\ newServer = NoServer /\ cap = NoServer /\ reconnect = FALSE /\ failed = 0
        /\ expect = 0 /\ buffer = << >> /\ timeouts = 0 /\ wire = << >>
        /\ sentPkts = << >> /\ lost = FALSE /\ wakes = 0
        /\ done = [n |-> 0, bytes |-> << >>]
        /\ helo = [to |-> NoServer, reconnect |-> FALSE, cap |-> NoServer]

------------------------------------------------------------------------------
(* slimproto *)

\* Mutant: the player still claims to be back from a lost connection.
SwitchQuietly ==
    /\ pc = "connect" /\ newServer # NoServer
    /\ previous' = server
    /\ server' = newServer
    /\ newServer' = NoServer
    /\ UNCHANGED <<netVars, pc, cap, reconnect, failed, runVars, helo>>

Switch ==
    /\ pc = "connect" /\ newServer # NoServer
    /\ previous' = server
    /\ server' = newServer
    /\ newServer' = NoServer
    /\ reconnect' = FALSE
    /\ UNCHANGED <<netVars, pc, cap, failed, runVars, helo>>

\* Mutant: it keeps trying the new server.
FallBackNever == server

\* After a failed connect: back to the server that told it to switch.
FallBack == IF previous # NoServer THEN previous ELSE server

\* discover_server, after too many failures and if no server was given.
Discovers == ~given /\ failed >= Failures

ConnectFails ==
    /\ pc = "connect" /\ newServer = NoServer /\ server \in down
    /\ failed' = IF given \/ failed > Failures THEN failed ELSE failed + 1
    /\ \/ ~Discovers /\ server' = FallBack
       \/ Discovers /\ server' \in Servers \ down
    /\ previous' = NoServer
    /\ UNCHANGED <<netVars, pc, newServer, cap, reconnect, runVars, helo>>

\* Connected: sendHELO, and into slimproto_run.
Connect ==
    /\ pc = "connect" /\ newServer = NoServer /\ server \notin down
    /\ failed' = 0
    /\ helo' = [to |-> server, reconnect |-> reconnect, cap |-> cap]
    /\ cap' = NoServer
    /\ pc' = "run"
    /\ Fresh
    /\ UNCHANGED <<netVars, server, previous, newServer, reconnect>>

\* slimproto_run returned.
Leave == /\ pc' = "connect"
         /\ reconnect' = TRUE
         /\ previous' = NoServer

------------------------------------------------------------------------------
(* slimproto_run *)

Running == pc = "run" /\ newServer = NoServer

\* process(), of which only serv changes the link.  The name of a server may not
\* resolve, and the packet may name a sync group or not.
Process(p) ==
    LET to == sentPkts[p].to
    IN  IF to = NoServer THEN UNCHANGED <<newServer, cap>>
        ELSE /\ newServer' = IF to = Unresolved THEN NoServer ELSE to
             /\ cap' \in {to, NoServer}

\* Mutant: what recv returned is taken for all that was asked for.
TakenWhole(n) == expect

Taken(n) == n

\* recv of n bytes of a packet's body.
RecvBody(n) ==
    /\ expect > 0 /\ n <= expect
    /\ expect' = expect - Taken(n)
    /\ IF expect' = 0
       THEN /\ buffer' = << >>
            /\ done' = [n |-> done.n + 1, bytes |-> buffer \o SubSeq(wire, 1, n)]
            /\ Process(wire[n][1])
       ELSE /\ buffer' = buffer \o SubSeq(wire, 1, n)
            /\ UNCHANGED <<done, newServer, cap>>
    /\ UNCHANGED <<pc, reconnect, previous>>

TooLong(size) == size > MAXBUF

\* recv of n bytes of a length; the connection is left when it is too long.
RecvLength(n) ==
    /\ expect = 0 /\ n <= 2 - Len(buffer)
    /\ IF Len(buffer) + n = 2
       THEN LET size == sentPkts[wire[n][1]].size
            IN  /\ buffer' = << >>
                /\ expect' = size
                /\ IF TooLong(size) THEN Leave ELSE UNCHANGED <<pc, reconnect, previous>>
       ELSE /\ buffer' = SubSeq(wire, 1, n)
            /\ UNCHANGED <<expect, pc, reconnect, previous>>
    /\ UNCHANGED <<done, newServer, cap>>

Recv ==
    /\ Running /\ ~lost
    /\ \E n \in 1 .. Len(wire) :
          /\ RecvBody(n) \/ RecvLength(n)
          /\ wire' = SubSeq(wire, n + 1, Len(wire))
    /\ timeouts' = 0
    /\ UNCHANGED <<netVars, server, failed, sentPkts, lost, wakes, helo>>

\* recv fails or returns 0.
RecvFails ==
    /\ Running /\ lost
    /\ Leave
    /\ UNCHANGED <<netVars, server, newServer, cap, failed, runVars, helo>>

\* The loop sees new_server; what is still on the wire is not read.
LeaveForNew ==
    /\ pc = "run" /\ newServer # NoServer
    /\ Leave
    /\ UNCHANGED <<netVars, server, newServer, cap, failed, runVars, helo>>

\* Another thread, or an answer that is no packet, ends the wait.
Wake ==
    /\ Running /\ wakes < MaxWakes
    /\ wakes' = wakes + 1
    /\ timeouts' = 0
    /\ UNCHANGED <<netVars, pc, linkVars, expect, buffer, wire, sentPkts, lost, done, helo>>

Silence == Running

\* A second without an event.
Wait ==
    /\ Silence /\ (wire = << >> \/ lost)
    /\ timeouts' = timeouts + 1
    /\ IF timeouts' > Timeouts THEN Leave ELSE UNCHANGED <<pc, reconnect, previous>>
    /\ UNCHANGED <<netVars, server, newServer, cap, failed, expect, buffer, wire, sentPkts, lost,
                   wakes, done, helo>>

------------------------------------------------------------------------------
(* The server and the network *)

Send ==
    /\ pc = "run" /\ ~lost /\ Len(sentPkts) < MaxPackets
    /\ \E p \in Packet :
          /\ sentPkts' = Append(sentPkts, p)
          /\ p.to # NoServer => p.size \in 1 .. MAXBUF
          /\ wire' = wire \o [i \in 1 .. 2 + p.size |-> <<Len(sentPkts) + 1, i>>]
    /\ UNCHANGED <<netVars, pc, linkVars, expect, buffer, timeouts, lost, wakes, done, helo>>

Lose ==
    /\ pc = "run" /\ ~lost
    /\ lost' = TRUE
    /\ UNCHANGED <<netVars, pc, linkVars, expect, buffer, timeouts, wire, sentPkts, wakes, done, helo>>

\* Servers go down and come back; it matters while the player is connecting.
Change ==
    /\ pc = "connect" /\ changes < MaxChanges
    /\ changes' = changes + 1
    /\ down' \in SUBSET Servers \ {Servers}
    /\ UNCHANGED <<given, pc, linkVars, runVars, helo>>

Next == \/ Switch \/ ConnectFails \/ Connect
        \/ Recv \/ RecvFails \/ LeaveForNew \/ Wake \/ Wait
        \/ Send \/ Lose \/ Change

Spec == Init /\ [][Next]_vars

\* The main thread keeps going; the network delivers what it does not lose.  Whether
\* a lost connection is ever reported by recv is left open.
Fairness == /\ WF_vars(Switch \/ ConnectFails \/ Connect \/ LeaveForNew)
            /\ WF_vars(Recv) /\ WF_vars(Wait)

FairSpec == Spec /\ Fairness

------------------------------------------------------------------------------
(* Properties *)

\* The types, with what the framing keeps: a length is read only while nothing is
\* expected, and buffer never holds more than MAXBUF bytes.
TypeOK ==
    /\ given \in BOOLEAN /\ down \subseteq Servers /\ changes \in 0 .. MaxChanges
    /\ pc \in {"connect", "run"} /\ server \in Servers
    /\ {previous, newServer, cap} \subseteq Servers \cup {NoServer, Unresolved}
    /\ reconnect \in BOOLEAN /\ failed \in 0 .. Failures + 1
    /\ timeouts \in 0 .. Timeouts + 1 /\ wakes \in 0 .. MaxWakes /\ lost \in BOOLEAN
    /\ pc = "run" => /\ expect = 0 => Len(buffer) < 2
                     /\ expect > 0 => Len(buffer) + expect <= MAXBUF

\* However the bytes are cut on their way, the packets executed on a connection are
\* those sent, each whole, none twice or left out (but those without a body).
WholePackets ==
    [][done' # done /\ done'.n > 0 =>
          \E p \in DOMAIN sentPkts :
             /\ done'.bytes = Body(p)
             /\ done'.n = Cardinality({q \in 1 .. p : sentPkts[q].size > 0})]_vars

\* HELO claims to come back from a lost connection only to the server the player was
\* connected to last, also when it was sent to another server that does not answer;
\* but a player that had to discover another server says so to that one.
ReconnectIsTrue ==
    [][helo' # helo /\ helo'.reconnect => helo'.to = helo.to \/ ~given]_vars

\* The player gets back to a server, however connections are lost, servers go down, and
\* although it may be sent to one that never answers - unless the server it was given
\* or was connected to last stays down; and it leaves a server that fell silent, also in
\* the middle of a packet.
LastServer == IF helo.to = NoServer THEN First ELSE helo.to
PlayerReturns == /\ pc = "connect" ~> pc = "run" \/ (given /\ LastServer \in down)
                 /\ pc = "run" ~> pc = "connect"

\* slimproto.c:1036, "add on any capablity to be sent to the new server": the sync
\* group a serv packet names for a server is sent to that server only.
GroupOfServer == [][helo' # helo => helo'.cap \in {NoServer, helo'.to}]_vars
=============================================================================
