----------------------------- MODULE LinkProofs -----------------------------
(***************************************************************************)
(* What is proved of Link, for any servers, packets, bounds and losses: a   *)
(* player that was given its server claims to be back from a lost          *)
(* connection only to the server it was connected to last, and the packets *)
(* it executes are those that were sent, each whole and once, however the  *)
(* network cuts them.                                                      *)
(***************************************************************************)
EXTENDS Link, FiniteSetTheorems, SequenceTheorems, TLAPS

------------------------------------------------------------------------------
(* HELO *)

\* While connected, the last HELO went to the server.  Once reconnect is set it stays
\* so until a switch, which clears it: hence previous_server, to which a failed connect
\* goes back, is never set together with reconnect.
ReconnectInv ==
    /\ pc \in {"connect", "run"}
    /\ pc = "run" => helo.to = server
    /\ pc = "connect" /\ previous # NoServer => ~reconnect
    /\ pc = "connect" /\ reconnect /\ given => server = helo.to

\* Leaving a connection: the server stays the one the last HELO went to.
LEMMA LeaveKeeps ==
    ASSUME ReconnectInv, pc = "run", Leave, UNCHANGED <<server, helo, given>>
    PROVE  ReconnectInv'
BY DEF ReconnectInv, Leave

LEMMA StepKeeps == ASSUME ReconnectInv, [Next]_vars PROVE ReconnectInv'
<1> USE DEF ReconnectInv
<1>1. CASE Switch
  BY <1>1 DEF Switch, netVars, runVars
<1>2. CASE ConnectFails
  <2>1. server' = server \/ ~given \/ previous # NoServer
    BY <1>2 DEF ConnectFails, FallBack, Discovers
  <2> QED BY <1>2, <2>1 DEF ConnectFails, netVars, runVars
<1>3. CASE Connect
  BY <1>3 DEF Connect, netVars
<1>4. CASE Recv
  <2>1. PICK n \in 1 .. Len(wire) : RecvBody(n) \/ RecvLength(n)
    BY <1>4 DEF Recv
  <2>2. pc = "run" /\ UNCHANGED <<server, helo, given>>
    BY <1>4 DEF Recv, Running, netVars
  <2>3. Leave \/ UNCHANGED <<pc, reconnect, previous>>
    BY <2>1 DEF RecvBody, RecvLength
  <2> QED BY <2>2, <2>3, LeaveKeeps
<1>5. CASE RecvFails
  BY <1>5, LeaveKeeps DEF RecvFails, Running, netVars
<1>6. CASE LeaveForNew
  BY <1>6, LeaveKeeps DEF LeaveForNew, netVars
<1>7. CASE Wake
  BY <1>7 DEF Wake, linkVars, netVars
<1>8. CASE Wait
  <2>1. pc = "run" /\ UNCHANGED <<server, helo, given>>
    BY <1>8 DEF Wait, Silence, Running, netVars
  <2>2. Leave \/ UNCHANGED <<pc, reconnect, previous>>
    BY <1>8 DEF Wait
  <2> QED BY <2>1, <2>2, LeaveKeeps
<1>9. CASE Send
  BY <1>9 DEF Send, linkVars, netVars
<1>10. CASE Lose
  BY <1>10 DEF Lose, linkVars, netVars
<1>11. CASE Change
  BY <1>11 DEF Change, linkVars
<1>12. CASE UNCHANGED vars
  BY <1>12 DEF vars, linkVars, netVars
<1> QED
  BY <1>1, <1>2, <1>3, <1>4, <1>5, <1>6, <1>7, <1>8, <1>9, <1>10, <1>11, <1>12 DEF Next

\* Only Connect says HELO, and then to the server that ReconnectInv names.
LEMMA HeloIsTrue ==
    ASSUME ReconnectInv, [Next]_vars
    PROVE  [helo' # helo /\ helo'.reconnect => helo'.to = helo.to \/ ~given]_vars
<1> SUFFICES ASSUME helo' # helo, helo'.reconnect, given PROVE helo'.to = helo.to
  OBVIOUS
<1>1. Connect
  BY DEF Next, vars, Switch, ConnectFails, Recv, RecvFails, LeaveForNew, Wake, Wait, Send,
         Lose, Change
<1> QED BY <1>1 DEF Connect, ReconnectInv

\* HELO claims to come back from a lost connection only to the server the player was
\* connected to last, or to one that was discovered.
THEOREM ReconnectTrue == Spec => ReconnectIsTrue
<1>1. Init => ReconnectInv
  BY DEF Init, ReconnectInv
<1>2. ReconnectInv /\ [Next]_vars => ReconnectInv'
  BY StepKeeps
<1>3. ReconnectInv /\ [Next]_vars =>
        [helo' # helo /\ helo'.reconnect => helo'.to = helo.to \/ ~given]_vars
  BY HeloIsTrue
<1> QED BY <1>1, <1>2, <1>3, PTL DEF Spec, ReconnectIsTrue

------------------------------------------------------------------------------
(* Packets: what is on the wire is the rest of what was sent, in order; a    *)
(* byte brings the rest of its packet and then the next one.                 *)

Bytes == Nat \X Nat
Size(q) == sentPkts[q].size

\* The k-th byte on the wire is the i-th of packet q.
RestOf(k, q, i) ==
    /\ wire[k] = <<q, i>>
    /\ k + 2 + Size(q) - i <= Len(wire)
    /\ \A j \in i .. 2 + Size(q) : wire[k + j - i] = <<q, j>>
    /\ IF k + 2 + Size(q) - i = Len(wire) THEN q = Len(sentPkts)
       ELSE wire[k + 2 + Size(q) - i + 1] = <<q + 1, 1>>
WireOk == \A k \in 1 .. Len(wire) : \E q \in 1 .. Len(sentPkts) : \E i \in 1 .. 2 + Size(q) : RestOf(k, q, i)

\* Of p packets all bytes were received, and the packet after them is in buffer.
Whole(p) == {q \in 1 .. p : Size(q) > 0}
NextByte(p) == <<p + 1, Len(buffer) + IF expect = 0 THEN 1 ELSE 3>>
Framed(p) ==
    /\ IF wire = << >> THEN NextByte(p) = <<Len(sentPkts) + 1, 1>> ELSE wire[1] = NextByte(p)
    /\ expect = 0 => Len(buffer) < 2
    /\ expect > 0 => /\ p < Len(sentPkts) /\ expect + Len(buffer) = Size(p + 1) /\ Size(p + 1) <= MAXBUF
                     /\ \A i \in 1 .. Len(buffer) : buffer[i] = <<p + 1, i + 2>>
    /\ done.n = Cardinality(Whole(p))
FrameInv == pc = "run" => WireOk /\ \E p \in 0 .. Len(sentPkts) : Framed(p)

LinkTypes ==
    /\ TypeOK
    /\ pc = "run" => timeouts <= Timeouts
    /\ newServer # Unresolved /\ previous # Unresolved
    /\ sentPkts \in Seq(Packet) /\ expect \in Nat
    /\ wire \in Seq(Bytes) /\ buffer \in Seq(Bytes)
    /\ done \in [n : Nat, bytes : Seq(Bytes)]

LEMMA Joined ==
    ASSUME NEW S, NEW a \in Seq(S), NEW b \in Seq(S), NEW c, c = a \o b
    PROVE  /\ c \in Seq(S) /\ Len(c) = Len(a) + Len(b)
           /\ \A i \in 1 .. Len(a) : c[i] = a[i]
           /\ \A i \in 1 .. Len(b) : c[Len(a) + i] = b[i]
OBVIOUS

LEMMA Split ==
    ASSUME NEW S, NEW a \in Seq(S), NEW n \in 1 .. Len(a), NEW b, NEW c,
           b = SubSeq(a, 1, n), c = SubSeq(a, n + 1, Len(a))
    PROVE  /\ b \in Seq(S) /\ Len(b) = n /\ \A i \in 1 .. n : b[i] = a[i]
           /\ c \in Seq(S) /\ Len(c) = Len(a) - n /\ \A i \in 1 .. Len(c) : c[i] = a[i + n]
OBVIOUS

\* What is received is a part of one packet, and what is left goes on with it or with the next.
LEMMA Receiving ==
    ASSUME LinkTypes, WireOk, NEW n \in 1 .. Len(wire), NEW p \in Nat, NEW i \in Nat,
           wire[1] = <<p, i>>
    PROVE  /\ p \in 1 .. Len(sentPkts) /\ i \in 1 .. 2 + Size(p) /\ Size(p) \in Nat
           /\ i + n - 1 <= 2 + Size(p) =>
                 /\ \A j \in 1 .. n : wire[j] = <<p, i + j - 1>>
                 /\ IF n = Len(wire) THEN p = Len(sentPkts) /\ i + n - 1 = 2 + Size(p)
                    ELSE wire[n + 1] = IF i + n - 1 = 2 + Size(p) THEN <<p + 1, 1>> ELSE <<p, i + n>>
<1>1. Len(wire) \in Nat /\ 1 \in 1 .. Len(wire)
    BY DEF LinkTypes
<1>2. PICK q \in 1 .. Len(sentPkts) : \E j \in 1 .. 2 + Size(q) : RestOf(1, q, j)
    BY <1>1 DEF WireOk
<1>3. PICK j \in 1 .. 2 + Size(q) : RestOf(1, q, j)
    BY <1>2
<1>4. q \in DOMAIN sentPkts /\ Size(q) \in Nat /\ Len(sentPkts) \in Nat
  <2>1. q \in DOMAIN sentPkts /\ sentPkts[q] \in Packet /\ Len(sentPkts) \in Nat
      BY DEF LinkTypes
  <2> QED
      BY <2>1, LinkAssumption DEF Packet, Size, LinkAssumption
<1>5. <<q, j>> = <<p, i>> /\ q \in Nat /\ j \in Nat
    BY <1>3, <1>4 DEF RestOf
<1>6. q = p /\ j = i
    BY <1>5
<1>7. RestOf(1, p, i) /\ p \in 1 .. Len(sentPkts) /\ i \in 1 .. 2 + Size(p) /\ Size(p) \in Nat
    BY <1>3, <1>4, <1>6
<1> DEFINE size == Size(p)
<1>8. /\ 1 + 2 + size - i <= Len(wire)
      /\ \A k \in i .. 2 + size : wire[1 + k - i] = <<p, k>>
      /\ IF 1 + 2 + size - i = Len(wire) THEN p = Len(sentPkts) ELSE wire[1 + 2 + size - i + 1] = <<p + 1, 1>>
    BY <1>7 DEF RestOf
<1>9. ASSUME i + n - 1 <= 2 + size
      PROVE  /\ \A k \in 1 .. n : wire[k] = <<p, i + k - 1>>
             /\ IF n = Len(wire) THEN p = Len(sentPkts) /\ i + n - 1 = 2 + size
                ELSE wire[n + 1] = IF i + n - 1 = 2 + size THEN <<p + 1, 1>> ELSE <<p, i + n>>
  <2> HIDE DEF size
  <2>0. size \in Nat
      BY <1>7 DEF size
  <2>1. ASSUME NEW k \in 1 .. n PROVE wire[k] = <<p, i + k - 1>>
    <3>1. i + k - 1 \in i .. 2 + size /\ 1 + (i + k - 1) - i = k
        BY <1>9, <2>0
    <3> QED
        BY <1>8, <3>1
  <2>2. CASE i + n - 1 = 2 + size
    <3>1. 1 + 2 + size - i = n /\ 1 + 2 + size - i + 1 = n + 1
        BY <2>0, <2>2
    <3> QED
        BY <1>8, <2>1, <2>2, <3>1
  <2>3. CASE i + n - 1 # 2 + size
    <3>1. i + n \in i .. 2 + size /\ 1 + (i + n) - i = n + 1 /\ n # Len(wire)
        BY <1>1, <1>8, <1>9, <2>0, <2>3
    <3>2. wire[n + 1] = <<p, i + n>>
        BY <1>8, <3>1
    <3> QED
        BY <2>1, <2>3, <3>1, <3>2
  <2> QED
      BY <2>2, <2>3
<1> QED
    BY <1>7, <1>9

\* The wire stays in order when its first bytes are received.
LEMMA WireShifts ==
    ASSUME LinkTypes, WireOk, NEW n \in 1 .. Len(wire), UNCHANGED sentPkts,
           wire' = SubSeq(wire, n + 1, Len(wire))
    PROVE  WireOk'
<1>1. /\ Len(wire) \in Nat /\ Len(wire') = Len(wire) - n /\ Len(wire') \in Nat
      /\ \A k \in 1 .. Len(wire') : wire'[k] = wire[k + n]
    BY Split DEF LinkTypes
<1> SUFFICES ASSUME NEW k \in 1 .. Len(wire')
            PROVE  \E q \in 1 .. Len(sentPkts) : \E i \in 1 .. 2 + Size(q) : RestOf(k, q, i)'
    BY DEF WireOk, Size
<1>2. k + n \in 1 .. Len(wire)
    BY <1>1
<1>3. PICK q \in 1 .. Len(sentPkts) : \E i \in 1 .. 2 + Size(q) : RestOf(k + n, q, i)
    BY <1>2 DEF WireOk
<1>4. PICK i \in 1 .. 2 + Size(q) : RestOf(k + n, q, i)
    BY <1>3
<1>5. Size(q) \in Nat
  <2>1. sentPkts[q] \in Packet
      BY DEF LinkTypes
  <2> QED
      BY <2>1, LinkAssumption DEF Packet, Size, LinkAssumption
<1>6. RestOf(k, q, i)'
  <2> DEFINE size == Size(q)
  <2>0. Size(q)' = size
      BY DEF Size
  <2>1. /\ wire[k + n] = <<q, i>>
        /\ k + n + 2 + size - i <= Len(wire)
        /\ \A j \in i .. 2 + size : wire[k + n + j - i] = <<q, j>>
        /\ IF k + n + 2 + size - i = Len(wire) THEN q = Len(sentPkts)
           ELSE wire[k + n + 2 + size - i + 1] = <<q + 1, 1>>
      BY <1>4 DEF RestOf
  <2> HIDE DEF size
  <2>2. size \in Nat /\ i \in 1 .. 2 + size
      BY <1>5 DEF size
  <2>3. k + 2 + size - i <= Len(wire')
      BY <1>1, <2>1, <2>2
  <2>4. ASSUME NEW j \in i .. 2 + size PROVE wire'[k + j - i] = <<q, j>>
    <3>1. k + j - i \in 1 .. Len(wire') /\ (k + j - i) + n = k + n + j - i
        BY <2>2, <2>3, <1>1
    <3> QED
        BY <1>1, <2>1, <3>1
  <2>7. /\ Len(wire) = Len(wire') + n /\ Len(wire') \in Nat /\ n \in Nat
        /\ k \in Nat /\ k >= 1 /\ i \in Nat /\ i <= 2 + size
      BY <1>1, <2>2
  <2>5. IF k + 2 + size - i = Len(wire') THEN q = Len(sentPkts')
        ELSE wire'[k + 2 + size - i + 1] = <<q + 1, 1>>
    <3>1. CASE k + 2 + size - i = Len(wire')
      <4>1. k + n + 2 + size - i = Len(wire)
          BY <2>2, <2>7, <3>1
      <4> QED
          BY <2>1, <3>1, <4>1
    <3>2. CASE k + 2 + size - i # Len(wire')
      <4>1. /\ k + n + 2 + size - i # Len(wire)
            /\ k + 2 + size - i + 1 \in 1 .. Len(wire')
            /\ (k + 2 + size - i + 1) + n = k + n + 2 + size - i + 1
        <5>1. k + 2 + size - i < Len(wire') /\ k + 2 + size - i >= 1
          <6> DEFINE e == k + 2 + size - i
                     m == Len(wire')
          <6>1. e \in Int /\ m \in Int /\ e >= 1
              BY <2>2, <2>7
          <6>2. e <= m /\ e # m
              BY <2>3, <3>2
          <6> HIDE DEF e, m
          <6>3. e < m
              BY <6>1, <6>2
          <6> QED
              BY <6>1, <6>3 DEF e, m
        <5>2. k + n + 2 + size - i = (k + 2 + size - i) + n
            BY <2>2, <2>7
        <5> QED
            BY <2>2, <2>7, <5>1, <5>2
      <4> QED
          BY <1>1, <2>1, <3>2, <4>1
    <3> QED
        BY <3>1, <3>2
  <2>6. wire'[k] = <<q, i>>
      BY <1>1, <2>1
  <2> QED
      BY <2>0, <2>3, <2>4, <2>5, <2>6 DEF RestOf
<1> QED
    BY <1>4, <1>6

LEMMA PacketBytes ==
    ASSUME NEW m \in Nat, NEW q \in Nat, NEW b, b = [i \in 1 .. m |-> <<q, i>>]
    PROVE  b \in Seq(Bytes) /\ Len(b) = m /\ \A i \in 1 .. m : b[i] = <<q, i>>
<1>1. \A i \in 1 .. m : <<q, i>> \in Bytes
    BY DEF Bytes
<1> QED
    BY <1>1

LEMMA Appended ==
    ASSUME NEW S, NEW a \in Seq(S), NEW x \in S, NEW b, b = Append(a, x)
    PROVE  /\ b \in Seq(S) /\ Len(b) = Len(a) + 1 /\ b[Len(a) + 1] = x
           /\ \A i \in 1 .. Len(a) : b[i] = a[i]
OBVIOUS

\* A packet that is sent comes behind what is on the wire.
LEMMA SendFrames ==
    ASSUME LinkTypes, FrameInv, Send
    PROVE  FrameInv'
<1>1. /\ pc = "run" /\ pc' = pc /\ UNCHANGED <<expect, buffer, done>>
      /\ sentPkts \in Seq(Packet) /\ wire \in Seq(Bytes)
    BY DEF Send, LinkTypes
<1>2. PICK p \in Packet : /\ sentPkts' = Append(sentPkts, p)
                          /\ wire' = wire \o [i \in 1 .. 2 + p.size |-> <<Len(sentPkts) + 1, i>>]
    BY DEF Send
<1>5. PICK last \in Nat : last = Len(sentPkts) + 1
    BY <1>1
<1> DEFINE new == [i \in 1 .. 2 + p.size |-> <<last, i>>]
<1>3. /\ p.size \in Nat /\ Len(sentPkts) \in Nat /\ Len(wire) \in Nat /\ Len(sentPkts') = last
      /\ \A q \in 1 .. Len(sentPkts) : Size(q)' = Size(q) /\ Size(q) \in Nat
      /\ Size(last)' = p.size
  <2>1. p.size \in Nat /\ \A q \in 1 .. Len(sentPkts) : Size(q) \in Nat
    <3>1. \A r \in Packet : r.size \in Nat
        BY LinkAssumption DEF LinkAssumption, Packet
    <3> QED
        BY <1>1, <3>1 DEF Size
  <2>2. /\ Len(sentPkts) \in Nat /\ Len(wire) \in Nat /\ Len(sentPkts') = last /\ sentPkts'[last] = p
        /\ \A q \in 1 .. Len(sentPkts) : sentPkts'[q] = sentPkts[q]
      BY <1>1, <1>2, <1>5, Appended
  <2>3. \A q : Size(q)' = sentPkts'[q].size
      BY DEF Size
  <2>4. \A q \in 1 .. Len(sentPkts) : Size(q)' = Size(q)
      BY <2>2, <2>3 DEF Size
  <2>5. Size(last)' = p.size
      BY <2>2, <2>3
  <2> QED
      BY <2>1, <2>2, <2>4, <2>5
<1>4. /\ Len(wire') = Len(wire) + 2 + p.size
      /\ \A i \in 1 .. Len(wire) : wire'[i] = wire[i]
      /\ \A i \in 1 .. 2 + p.size : wire'[Len(wire) + i] = <<last, i>>
  <2>1. new \in Seq(Bytes) /\ Len(new) = 2 + p.size /\ \A i \in 1 .. 2 + p.size : new[i] = <<last, i>>
    <3>1. 2 + p.size \in Nat /\ last \in Nat
        BY <1>3
    <3> QED
        BY <3>1, PacketBytes
  <2>2. wire' = wire \o new
      BY <1>2, <1>5
  <2> HIDE DEF new
  <2>3. Len(wire') = Len(wire) + Len(new) /\ \A i \in 1 .. Len(new) : wire'[Len(wire) + i] = new[i]
      BY <1>1, <2>1, <2>2, Joined
  <2>4. \A i \in 1 .. Len(wire) : wire'[i] = wire[i]
      BY <1>1, <2>1, <2>2, Joined
  <2>5. Len(wire') = Len(wire) + 2 + p.size
      BY <1>3, <2>1, <2>3
  <2>6. \A i \in 1 .. 2 + p.size : wire'[Len(wire) + i] = <<last, i>>
      BY <2>1, <2>3
  <2> QED
      BY <2>4, <2>5, <2>6
<1> HIDE DEF new
<1>6. WireOk'
  <2> SUFFICES ASSUME NEW k \in 1 .. Len(wire')
              PROVE  \E q \in 1 .. last : \E i \in 1 .. 2 + Size(q)' : RestOf(k, q, i)'
      BY <1>3 DEF WireOk
  <2>1. CASE k <= Len(wire)
    <3>1. PICK q \in 1 .. Len(sentPkts) : \E i \in 1 .. 2 + Size(q) : RestOf(k, q, i)
        BY <1>1, <1>3, <2>1 DEF WireOk, FrameInv
    <3>2. PICK i \in 1 .. 2 + Size(q) : RestOf(k, q, i)
        BY <3>1
    <3> DEFINE size == Size(q)
               e == k + 2 + size - i
    <3>3. Size(q)' = size /\ size \in Nat /\ i \in 1 .. 2 + size /\ e \in Int /\ e >= k /\ k >= 1 /\ k \in Nat
        BY <1>3
    <3>4. /\ wire[k] = <<q, i>> /\ e <= Len(wire)
          /\ \A j \in i .. 2 + size : wire[k + j - i] = <<q, j>>
          /\ IF e = Len(wire) THEN q = Len(sentPkts) ELSE wire[e + 1] = <<q + 1, 1>>
        BY <3>2 DEF RestOf
    <3> HIDE DEF size
    <3>5. wire'[k] = <<q, i>> /\ e < Len(wire')
      <4> HIDE DEF e
      <4>1. k \in 1 .. Len(wire) /\ e < Len(wire) + 2 + p.size
          BY <1>3, <2>1, <3>3, <3>4
      <4> QED
          BY <1>4, <3>4, <4>1
    <3>6. ASSUME NEW j \in i .. 2 + size PROVE wire'[k + j - i] = <<q, j>>
      <4>1. k + j - i \in 1 .. Len(wire)
          BY <1>3, <3>3, <3>4
      <4> QED
          BY <1>4, <3>4, <4>1
    <3>7. wire'[e + 1] = <<q + 1, 1>>
      <4> HIDE DEF e
      <4>1. CASE e = Len(wire)
          BY <1>3, <1>4, <1>5, <3>4, <4>1
      <4>2. CASE e # Len(wire)
        <5>1. e < Len(wire)
            BY <1>3, <3>3, <3>4, <4>2
        <5>2. e + 1 \in 1 .. Len(wire)
            BY <1>3, <3>3, <5>1
        <5> QED
            BY <1>4, <3>4, <4>2, <5>2
      <4> QED
          BY <4>1, <4>2
    <3>8. e # Len(wire')
      <4> HIDE DEF e
      <4> QED
          BY <1>3, <1>4, <3>3, <3>5
    <3>9. RestOf(k, q, i)'
      <4>1. k + 2 + Size(q)' - i = e
          BY <3>3
      <4>2. e <= Len(wire')
        <5> HIDE DEF e
        <5> QED
            BY <1>3, <1>4, <3>3, <3>5
      <4> HIDE DEF e
      <4> QED
          BY <3>3, <3>5, <3>6, <3>7, <3>8, <4>1, <4>2 DEF RestOf
    <3>10. q \in 1 .. last /\ i \in 1 .. 2 + Size(q)'
        BY <1>3, <1>5, <3>3
    <3> QED
        BY <3>9, <3>10
  <2>2. CASE k > Len(wire)
    <3>7. PICK z \in Nat : z = p.size
        BY <1>3
    <3> DEFINE m == 2 + z
    <3>0. /\ m \in Nat /\ Len(wire') = Len(wire) + m /\ 2 + Size(last)' = m
          /\ \A j \in 1 .. m : wire'[Len(wire) + j] = <<last, j>>
      <4>1. m \in Nat /\ 2 + Size(last)' = m
          BY <1>3, <3>7
      <4>2. Len(wire) \in Nat /\ Len(wire') = Len(wire) + 2 + z
          BY <1>3, <1>4, <3>7
      <4>3. Len(wire') = Len(wire) + m
          BY <4>2
      <4> QED
          BY <1>4, <3>7, <4>1, <4>3
    <3> HIDE DEF m
    <3>6. PICK i \in Int : i = k - Len(wire)
        BY <1>3
    <3>1. i \in 1 .. m /\ k = Len(wire) + i /\ k + m - i = Len(wire')
        BY <1>3, <2>2, <3>0, <3>6
    <3>2. wire'[k] = <<last, i>>
        BY <3>0, <3>1
    <3>3. ASSUME NEW j \in i .. m PROVE wire'[k + j - i] = <<last, j>>
      <4>1. k + j - i = Len(wire) + j /\ j \in 1 .. m
          BY <1>3, <3>0, <3>1
      <4> QED
          BY <3>0, <4>1
    <3>4. RestOf(k, last, i)'
      <4>1. 2 + Size(last)' = m /\ k + 2 + Size(last)' - i = Len(wire')
        <5>1. Size(last)' = z /\ k \in Int /\ m = 2 + z
            BY <1>3, <3>1, <3>7 DEF m
        <5> QED
            BY <3>0, <3>1, <5>1
      <4>2. Len(wire') <= Len(wire')
          BY <1>3, <3>0
      <4> QED
          BY <1>3, <3>2, <3>3, <4>1, <4>2 DEF RestOf
    <3>5. last \in 1 .. last /\ i \in 1 .. 2 + Size(last)'
        BY <1>3, <1>5, <3>0, <3>1
    <3> QED
        BY <3>4, <3>5
  <2> QED
      BY <1>3, <2>1, <2>2
<1>7. PICK n \in 0 .. Len(sentPkts) : Framed(n)
    BY <1>1 DEF FrameInv
<1>8. Framed(n)'
  <2>1. NextByte(n)' = NextByte(n) /\ Whole(n)' = Whole(n)
      BY <1>1, <1>3, <1>7 DEF NextByte, Whole
  <2>2. wire' # << >> /\ wire'[1] = NextByte(n)
    <3>1. CASE wire = << >>
      <4>1. Len(wire) = 0 /\ NextByte(n) = <<last, 1>>
          BY <1>5, <1>7, <3>1 DEF Framed
      <4> QED
          BY <1>3, <1>4, <4>1
    <3>2. CASE wire # << >>
      <4>1. 1 \in 1 .. Len(wire) /\ wire[1] = NextByte(n)
          BY <1>1, <1>7, <3>2 DEF Framed
      <4> QED
          BY <1>3, <1>4, <4>1
    <3> QED
        BY <3>1, <3>2
  <2>3. expect > 0 => n < Len(sentPkts') /\ Size(n + 1)' = Size(n + 1)
      BY <1>3, <1>5, <1>7 DEF Framed
  <2> QED
      BY <1>1, <1>7, <2>1, <2>2, <2>3 DEF Framed
<1> QED
    BY <1>3, <1>5, <1>6, <1>7, <1>8 DEF FrameInv


LEMMA WholeNext ==
    ASSUME LinkTypes, NEW p \in 0 .. Len(sentPkts) - 1
    PROVE  /\ Cardinality(Whole(p)) \in Nat
           /\ Cardinality(Whole(p + 1)) = IF Size(p + 1) > 0 THEN Cardinality(Whole(p)) + 1 ELSE Cardinality(Whole(p))
<1>1. Len(sentPkts) \in Nat /\ p \in Nat
    BY DEF LinkTypes
<1>2. IsFiniteSet(1 .. p)
    BY <1>1, FS_Interval
<1>3. Whole(p) \in SUBSET (1 .. p) /\ IsFiniteSet(Whole(p))
    BY <1>2, FS_Subset DEF Whole
<1>4. Cardinality(Whole(p)) \in Nat
    BY <1>3, FS_CardinalityType
<1>5. p + 1 \notin Whole(p)
    BY <1>1, <1>3
<1>6. CASE Size(p + 1) > 0
  <2>1. Whole(p + 1) = Whole(p) \cup {p + 1}
      BY <1>1, <1>6 DEF Whole
  <2> QED
      BY <1>3, <1>4, <1>5, <1>6, <2>1, FS_AddElement
<1>7. CASE ~(Size(p + 1) > 0)
  <2>1. Whole(p + 1) = Whole(p)
      BY <1>1, <1>7 DEF Whole
  <2> QED
      BY <1>4, <1>7, <2>1
<1> QED
    BY <1>6, <1>7

LEMMA NotEmpty ==
    ASSUME NEW S, NEW s \in Seq(S), Len(s) >= 1
    PROVE  s # << >>
OBVIOUS

LEMMA BodyBytes ==
    ASSUME NEW m \in Nat, NEW q \in Nat, NEW b, b = [i \in 1 .. m |-> <<q, i + 2>>]
    PROVE  b \in Seq(Bytes) /\ Len(b) = m /\ \A i \in 1 .. m : b[i] = <<q, i + 2>>
<1>1. \A i \in 1 .. m : <<q, i + 2>> \in Bytes
    BY DEF Bytes
<1> QED
    BY <1>1

LEMMA BodyFrames ==
    ASSUME LinkTypes, FrameInv, pc = "run", NEW n \in 1 .. Len(wire), RecvBody(n), UNCHANGED sentPkts,
           wire' = SubSeq(wire, n + 1, Len(wire))
    PROVE  /\ FrameInv' /\ wire' \in Seq(Bytes) /\ buffer' \in Seq(Bytes) /\ expect' \in Nat
           /\ done' \in [n : Nat, bytes : Seq(Bytes)]
           /\ wire[n][1] \in 1 .. Len(sentPkts)
           /\ done' # done => \E p \in DOMAIN sentPkts :
                                 done'.bytes = Body(p) /\ done'.n = Cardinality(Whole(p))
<1>1. /\ wire \in Seq(Bytes) /\ buffer \in Seq(Bytes) /\ expect \in Nat /\ Len(wire) \in Nat
      /\ Len(buffer) \in Nat /\ Len(sentPkts) \in Nat /\ DOMAIN sentPkts = 1 .. Len(sentPkts)
      /\ expect > 0 /\ n <= expect /\ expect' = expect - n /\ WireOk /\ done.n \in Nat
    BY DEF LinkTypes, RecvBody, Taken, FrameInv
<1>2. PICK p \in 0 .. Len(sentPkts) : Framed(p)
    BY DEF FrameInv
<1>3. PICK b \in Nat : b = Len(buffer)
    BY <1>1
<1>4. /\ wire # << >> /\ wire[1] = <<p + 1, b + 3>> /\ p < Len(sentPkts)
      /\ expect + b = Size(p + 1) /\ Size(p + 1) <= MAXBUF
      /\ \A i \in 1 .. b : buffer[i] = <<p + 1, i + 2>>
      /\ done.n = Cardinality(Whole(p))
    BY <1>1, <1>2, <1>3 DEF Framed, NextByte
<1>5. PICK z \in Nat : z = Size(p + 1) /\ z = expect + b
    BY <1>1, <1>4
<1>6. PICK r \in Nat : r = p + 1 /\ Size(r) = z
    BY <1>1, <1>5
<1>7. /\ r \in 1 .. Len(sentPkts) /\ \A j \in 1 .. n : wire[j] = <<r, b + 2 + j>>
      /\ IF n = Len(wire) THEN r = Len(sentPkts) /\ n = expect
         ELSE wire[n + 1] = IF n = expect THEN <<r + 1, 1>> ELSE <<r, b + 3 + n>>
  <2>1. PICK m \in Nat : m = b + 3
      OBVIOUS
  <2>2. wire[1] = <<r, m>>
      BY <1>4, <1>6, <2>1
  <2>3. m + n - 1 <= 2 + z /\ (m + n - 1 = 2 + z <=> n = expect)
      BY <1>1, <1>5, <2>1
  <2>4. WireOk
      BY <1>1
  <2>5. /\ r \in 1 .. Len(sentPkts)
        /\ \A j \in 1 .. n : wire[j] = <<r, m + j - 1>>
        /\ IF n = Len(wire) THEN r = Len(sentPkts) /\ m + n - 1 = 2 + z
           ELSE wire[n + 1] = IF m + n - 1 = 2 + z THEN <<r + 1, 1>> ELSE <<r, m + n>>
    <3>1. m + n - 1 <= 2 + Size(r)
        BY <1>6, <2>3
    <3>2. r \in 1 .. Len(sentPkts)
        BY <2>2, <2>4, Receiving
    <3>3. /\ \A j \in 1 .. n : wire[j] = <<r, m + j - 1>>
          /\ IF n = Len(wire) THEN r = Len(sentPkts) /\ m + n - 1 = 2 + Size(r)
             ELSE wire[n + 1] = IF m + n - 1 = 2 + Size(r) THEN <<r + 1, 1>> ELSE <<r, m + n>>
        BY <2>2, <2>4, <3>1, Receiving
    <3> QED
        BY <1>6, <3>2, <3>3
  <2>6. (\A j \in 1 .. n : m + j - 1 = b + 2 + j) /\ m + n = b + 3 + n
      BY <2>1
  <2> QED
      BY <2>3, <2>5, <2>6
<1> DEFINE part == SubSeq(wire, 1, n)
           all == buffer \o part
<1>8. /\ part \in Seq(Bytes) /\ Len(part) = n /\ \A i \in 1 .. n : part[i] = wire[i]
      /\ wire' \in Seq(Bytes) /\ Len(wire') = Len(wire) - n /\ \A k \in 1 .. Len(wire') : wire'[k] = wire[k + n]
  <2>1. PICK c : c = SubSeq(wire, n + 1, Len(wire))
      OBVIOUS
  <2>2. /\ part \in Seq(Bytes) /\ Len(part) = n /\ \A i \in 1 .. n : part[i] = wire[i]
        /\ c \in Seq(Bytes) /\ Len(c) = Len(wire) - n /\ \A k \in 1 .. Len(c) : c[k] = wire[k + n]
    <3>1. part = SubSeq(wire, 1, n)
        OBVIOUS
    <3> HIDE DEF part, all
    <3> QED
        BY <1>1, <2>1, <3>1, Split
  <2>3. wire' = c
      BY <2>1
  <2> QED
      BY <2>2, <2>3
<1>9. all \in Seq(Bytes) /\ Len(all) = b + n /\ \A i \in 1 .. b + n : all[i] = <<r, i + 2>>
  <2> HIDE DEF part
  <2>1. all = buffer \o part
      OBVIOUS
  <2> HIDE DEF all
  <2>2. /\ all \in Seq(Bytes) /\ Len(all) = Len(buffer) + Len(part)
        /\ \A i \in 1 .. Len(buffer) : all[i] = buffer[i]
        /\ \A i \in 1 .. Len(part) : all[Len(buffer) + i] = part[i]
    <3>1. buffer \in Seq(Bytes) /\ part \in Seq(Bytes)
        BY <1>1, <1>8
    <3> QED
        BY <2>1, <3>1, Joined
  <2>3. ASSUME NEW i \in 1 .. b + n PROVE all[i] = <<r, i + 2>>
    <3>1. CASE i <= b
        BY <1>3, <1>4, <1>6, <2>2, <3>1
    <3>2. CASE i > b
      <4>1. PICK j \in 1 .. n : i = b + j
        <5>1. i - b \in 1 .. n /\ i = b + (i - b)
            BY <3>2
        <5> QED
            BY <5>1
      <4>2. all[i] = wire[j]
          BY <1>3, <1>8, <2>2, <4>1
      <4>3. b + 2 + j = i + 2
          BY <4>1
      <4> QED
          BY <1>7, <4>1, <4>2, <4>3
    <3> QED
        BY <3>1, <3>2
  <2> QED
      BY <1>3, <1>8, <2>2, <2>3
<1>10. WireOk'
    BY <1>1, WireShifts
<1>11. wire[n][1] = r
    BY <1>7
<1>12. CASE n = expect
  <2>1. /\ expect' = 0 /\ buffer' = << >> /\ done' = [n |-> done.n + 1, bytes |-> all]
      BY <1>1, <1>12 DEF RecvBody
  <2> HIDE DEF all, part
  <2>2. all = Body(r)
    <3>1. all = [i \in 1 .. z |-> <<r, i + 2>>]
      <4>1. PICK f : f = [i \in 1 .. z |-> <<r, i + 2>>]
          OBVIOUS
      <4>2. f \in Seq(Bytes) /\ Len(f) = z /\ \A i \in 1 .. z : f[i] = <<r, i + 2>>
          BY <4>1, BodyBytes
      <4>3. b + n = z
        <5>1. z = expect + b /\ expect \in Nat /\ n = expect
            BY <1>1, <1>5, <1>12
        <5> QED
            BY <5>1
      <4>4. Len(all) = Len(f) /\ \A i \in 1 .. Len(all) : all[i] = f[i]
          BY <1>9, <4>2, <4>3
      <4>5. all = f
          BY <1>9, <4>2, <4>4, SeqEqual
      <4> QED
          BY <4>1, <4>5
    <3> QED
        BY <1>5, <1>6, <3>1 DEF Body, Size
  <2>3. done.n + 1 = Cardinality(Whole(r))
    <3>1. p \in 0 .. Len(sentPkts) - 1 /\ Size(p + 1) > 0
        BY <1>1, <1>4, <1>5
    <3> QED
        BY <1>4, <1>6, <3>1, WholeNext
  <2>4. Framed(r)'
    <3>1. NextByte(r)' = <<r + 1, 1>> /\ Whole(r)' = Whole(r)
        BY <2>1 DEF NextByte, Whole, Size
    <3>2. IF wire' = << >> THEN <<r + 1, 1>> = <<Len(sentPkts) + 1, 1>> ELSE wire'[1] = <<r + 1, 1>>
      <4>1. CASE n = Len(wire)
          BY <1>7, <1>8, <4>1
      <4>2. CASE n # Len(wire)
        <5>1. Len(wire') >= 1 /\ 1 \in 1 .. Len(wire')
            BY <1>1, <1>8, <4>2
        <5>2. wire'[1] = wire[n + 1]
          <6>1. wire'[1] = wire[1 + n] /\ 1 + n = n + 1
              BY <1>8, <5>1
          <6> QED
              BY <6>1
        <5>3. wire[n + 1] = <<r + 1, 1>>
            BY <1>7, <1>12, <4>2
        <5>4. wire' # << >>
            BY <1>8, <5>1, NotEmpty
        <5> QED
            BY <5>2, <5>3, <5>4
      <4> QED
          BY <4>1, <4>2
    <3> QED
        BY <2>1, <2>3, <3>1, <3>2 DEF Framed
  <2>5. FrameInv'
      BY <1>7, <1>10, <2>4 DEF FrameInv
  <2>6. /\ buffer' \in Seq(Bytes) /\ expect' \in Nat /\ done' \in [n : Nat, bytes : Seq(Bytes)]
        /\ done'.bytes = all /\ done'.n = done.n + 1
      BY <1>1, <1>9, <2>1
  <2> QED
      BY <1>1, <1>7, <1>8, <1>11, <2>2, <2>3, <2>5, <2>6
<1>13. CASE n # expect
  <2>1. /\ expect' = expect - n /\ expect' > 0 /\ expect' # 0 /\ expect' \in Nat
        /\ buffer' = all /\ done' = done
      BY <1>1, <1>13 DEF RecvBody
  <2> HIDE DEF all, part
  <2>2. Framed(p)'
    <3>1. NextByte(p)' = <<r, b + 3 + n>> /\ Whole(p)' = Whole(p) /\ Size(p + 1)' = Size(p + 1)
      <4>1. Len(buffer') + 3 = b + 3 + n
          BY <1>9, <2>1
      <4> QED
          BY <1>6, <2>1, <4>1 DEF NextByte, Whole, Size
    <3>2. wire' # << >> /\ wire'[1] = <<r, b + 3 + n>>
      <4>1. n # Len(wire)
          BY <1>7, <1>13
      <4>2. Len(wire') >= 1 /\ 1 \in 1 .. Len(wire')
          BY <1>1, <1>8, <4>1
      <4>3. wire'[1] = wire[n + 1]
        <5>1. wire'[1] = wire[1 + n] /\ 1 + n = n + 1
            BY <1>8, <4>2
        <5> QED
            BY <5>1
      <4>4. wire[n + 1] = <<r, b + 3 + n>>
          BY <1>7, <1>13, <4>1
      <4>5. wire' # << >>
          BY <1>8, <4>2, NotEmpty
      <4> QED
          BY <4>3, <4>4, <4>5
    <3>3. expect' + Len(buffer') = Size(p + 1)
      <4>1. Len(buffer') = b + n
          BY <1>9, <2>1
      <4>2. expect' = expect - n /\ z = expect + b /\ z = Size(p + 1)
          BY <1>5, <2>1
      <4>3. expect \in Nat /\ n \in Nat
          BY <1>1
      <4>4. PICK x \in Nat : x = expect
          BY <4>3
      <4>5. expect' = x - n /\ z = x + b
          BY <4>2, <4>4
      <4>6. x - n + (b + n) = x + b
          BY <4>3, <4>4
      <4>7. expect' + Len(buffer') = x - n + (b + n)
          BY <4>1, <4>5
      <4> QED
          BY <4>2, <4>5, <4>6, <4>7
    <3>4. \A i \in 1 .. Len(buffer') : buffer'[i] = <<p + 1, i + 2>>
        BY <1>6, <1>9, <2>1
    <3> QED
        BY <1>4, <2>1, <3>1, <3>2, <3>3, <3>4 DEF Framed
  <2>3. FrameInv'
      BY <1>10, <2>2 DEF FrameInv
  <2> QED
      BY <1>7, <1>8, <1>9, <1>11, <2>1, <2>3 DEF LinkTypes
<1> QED
    BY <1>12, <1>13

\* recv of bytes of a length: the last one announces the body, of a packet without one
\* nothing more is to come.
LEMMA LengthFrames ==
    ASSUME LinkTypes, FrameInv, pc = "run", NEW n \in 1 .. Len(wire), RecvLength(n), UNCHANGED sentPkts,
           wire' = SubSeq(wire, n + 1, Len(wire))
    PROVE  FrameInv' /\ wire' \in Seq(Bytes) /\ buffer' \in Seq(Bytes) /\ expect' \in Nat /\ done' = done
<1>1. /\ wire \in Seq(Bytes) /\ buffer \in Seq(Bytes) /\ Len(wire) \in Nat /\ Len(buffer) \in Nat
      /\ Len(sentPkts) \in Nat /\ expect = 0 /\ n <= 2 - Len(buffer) /\ WireOk /\ done.n \in Nat /\ done' = done
    BY DEF LinkTypes, RecvLength, FrameInv
<1>2. PICK p \in 0 .. Len(sentPkts) : Framed(p)
    BY DEF FrameInv
<1>3. PICK b \in Nat : b = Len(buffer)
    BY <1>1
<1>4. PICK r \in Nat : r = p + 1
    BY <1>1
<1>5. PICK m \in Nat : m = b + 1
    OBVIOUS
<1>6. b < 2 /\ n \in 1 .. 2 - b /\ wire[1] = <<r, m>> /\ done.n = Cardinality(Whole(p))
  <2>1. wire # << >>
      BY Len(<< >>) = 0
  <2> QED
      BY <1>1, <1>2, <1>3, <1>4, <1>5, <2>1 DEF Framed, NextByte
<1>7. r \in 1 .. Len(sentPkts) /\ Size(r) \in Nat
    BY <1>1, <1>6, Receiving
<1>8. PICK z \in Nat : z = Size(r)
    BY <1>7
<1>9. /\ wire[n][1] = r
      /\ IF n = Len(wire) THEN r = Len(sentPkts) /\ b + n = 2 + z
         ELSE wire[n + 1] = IF b + n = 2 + z THEN <<r + 1, 1>> ELSE <<r, b + n + 1>>
  <2>1. m + n - 1 <= 2 + Size(r)
      BY <1>5, <1>6, <1>8
  <2>2. /\ \A j \in 1 .. n : wire[j] = <<r, m + j - 1>>
        /\ IF n = Len(wire) THEN r = Len(sentPkts) /\ m + n - 1 = 2 + Size(r)
           ELSE wire[n + 1] = IF m + n - 1 = 2 + Size(r) THEN <<r + 1, 1>> ELSE <<r, m + n>>
      BY <1>1, <1>6, <2>1, Receiving
  <2>3. m + n - 1 = b + n /\ m + n = b + n + 1 /\ n \in 1 .. n
      BY <1>5
  <2>4. wire[n] = <<r, m + n - 1>>
      BY <2>2, <2>3
  <2>5. wire[n][1] = r
      BY <2>4
  <2> QED
      BY <1>8, <2>2, <2>3, <2>5
<1>10. WireOk'
    BY <1>1, WireShifts
<1>11. PICK c \in Seq(Bytes) : c = wire' /\ Len(c) = Len(wire) - n /\ \A k \in 1 .. Len(c) : c[k] = wire[k + n]
  <2>1. PICK c : c = SubSeq(wire, n + 1, Len(wire))
      OBVIOUS
  <2>2. c \in Seq(Bytes) /\ Len(c) = Len(wire) - n /\ \A k \in 1 .. Len(c) : c[k] = wire[k + n]
    <3>1. PICK d : d = SubSeq(wire, 1, n)
        OBVIOUS
    <3> QED
        BY <1>1, <2>1, <3>1, Split
  <2> QED
      BY <2>1, <2>2
<1>12. IF n = Len(wire) THEN c = << >> ELSE c # << >> /\ c[1] = wire[n + 1]
  <2>1. CASE n = Len(wire)
      BY <1>1, <1>11, <2>1
  <2>2. CASE n # Len(wire)
    <3>1. Len(c) >= 1 /\ 1 \in 1 .. Len(c) /\ 1 + n = n + 1
        BY <1>1, <1>11, <2>2
    <3>2. c[1] = wire[1 + n]
        BY <1>11, <3>1
    <3> QED
        BY <1>11, <2>2, <3>1, <3>2, NotEmpty
  <2> QED
      BY <2>1, <2>2
<1> HIDE DEF WireOk
<1>13. CASE b + n # 2
  <2>1. b = 0 /\ n = 1
      BY <1>6, <1>13
  <2>2. expect' = 0 /\ buffer' = SubSeq(wire, 1, 1) /\ pc' = "run"
      BY <1>1, <1>3, <1>13, <2>1 DEF RecvLength
  <2>3. buffer' \in Seq(Bytes) /\ Len(buffer') = 1
    <3>1. PICK d : d = SubSeq(wire, 1, 1)
        OBVIOUS
    <3>2. d \in Seq(Bytes) /\ Len(d) = 1
        BY <1>1, <2>1, <3>1, Split
    <3> QED
        BY <2>2, <3>1, <3>2
  <2>4. c # << >> /\ c[1] = <<r, 2>>
    <3>1. b + n # 2 + z /\ b + n + 1 = 2
        BY <2>1
    <3> QED
        BY <1>9, <1>12, <3>1
  <2>5. Framed(p)'
    <3>1. NextByte(p)' = <<r, 2>> /\ Whole(p)' = Whole(p)
        BY <1>4, <2>2, <2>3 DEF NextByte, Whole, Size
    <3> QED
        BY <1>1, <1>6, <1>11, <2>2, <2>3, <2>4, <3>1 DEF Framed
  <2>6. FrameInv'
      BY <1>1, <1>10, <2>5 DEF FrameInv
  <2> QED
      BY <1>1, <1>11, <2>2, <2>3, <2>6
<1>14. CASE b + n = 2
  <2>1. /\ buffer' = << >> /\ expect' = z
        /\ IF TooLong(z) THEN Leave ELSE UNCHANGED pc
      BY <1>1, <1>3, <1>8, <1>9, <1>14 DEF RecvLength, Size
  <2>2. buffer' \in Seq(Bytes) /\ Len(buffer') = 0
      BY <2>1
  <2>3. CASE TooLong(z)
      BY <1>1, <1>11, <2>1, <2>2, <2>3 DEF Leave, FrameInv
  <2>4. CASE ~TooLong(z) /\ z = 0
    <3>1. NextByte(r)' = <<r + 1, 1>> /\ Whole(r)' = Whole(r)
        BY <2>1, <2>2, <2>4 DEF NextByte, Whole, Size
    <3>2. IF n = Len(wire) THEN r = Len(sentPkts) ELSE wire[n + 1] = <<r + 1, 1>>
        BY <1>9, <1>14, <2>4
    <3>3. done.n = Cardinality(Whole(r))
      <4>1. p \in 0 .. Len(sentPkts) - 1 /\ Size(p + 1) = 0
          BY <1>1, <1>4, <1>7, <1>8, <2>4
      <4> QED
          BY <1>4, <1>6, <4>1, WholeNext
    <3>4. Framed(r)'
      <4>1. IF wire' = << >> THEN <<r + 1, 1>> = <<Len(sentPkts) + 1, 1>> ELSE wire'[1] = <<r + 1, 1>>
          BY <1>11, <1>12, <3>2
      <4>2. expect' = 0 /\ Len(buffer') < 2 /\ ~(expect' > 0)
          BY <2>1, <2>2, <2>4
      <4>3. done'.n = Cardinality(Whole(r))'
          BY <1>1, <3>1, <3>3
      <4> QED
          BY <3>1, <4>1, <4>2, <4>3 DEF Framed
    <3>5. FrameInv'
        BY <1>1, <1>7, <1>10, <3>4 DEF FrameInv
    <3> QED
        BY <1>1, <1>11, <2>1, <2>2, <3>5
  <2>5. CASE ~TooLong(z) /\ z # 0
    <3>1. NextByte(p)' = <<r, 3>> /\ Whole(p)' = Whole(p) /\ Size(p + 1)' = z
      <4>1. expect' # 0
          BY <2>1, <2>5
      <4> QED
          BY <1>4, <1>8, <2>2, <4>1 DEF NextByte, Whole, Size
    <3>2. c # << >> /\ c[1] = <<r, 3>>
      <4>1. b + n # 2 + z /\ b + n + 1 = 3
          BY <1>14, <2>5
      <4> QED
          BY <1>9, <1>12, <4>1
    <3>3. z <= MAXBUF /\ z > 0 /\ p < Len(sentPkts)
        BY <1>1, <1>4, <1>7, <2>5, LinkAssumption DEF TooLong, LinkAssumption
    <3>4. Framed(p)'
      <4>1. wire' # << >> /\ wire'[1] = NextByte(p)'
          BY <1>11, <3>1, <3>2
      <4>2. expect' > 0 /\ expect' # 0 /\ expect' + Len(buffer') = Size(p + 1)' /\ Size(p + 1)' <= MAXBUF
          BY <2>1, <2>2, <3>1, <3>3
      <4>3. done'.n = Cardinality(Whole(p))'
          BY <1>1, <1>6, <3>1
      <4>4. \A i \in 1 .. Len(buffer') : buffer'[i] = <<p + 1, i + 2>>
          BY <2>2
      <4> QED
          BY <3>3, <4>1, <4>2, <4>3, <4>4 DEF Framed
    <3>5. FrameInv'
        BY <1>1, <1>10, <3>4 DEF FrameInv
    <3> QED
        BY <1>1, <1>11, <2>1, <2>2, <3>5
  <2> QED
      BY <2>3, <2>4, <2>5
<1> QED
    BY <1>13, <1>14

LEMMA FramingOf ==
    ASSUME FrameInv', buffer' \in Seq(Bytes), expect' \in Nat, pc' = "run"
    PROVE  (expect' = 0 => Len(buffer') < 2) /\ (expect' > 0 => Len(buffer') + expect' <= MAXBUF)
<1>1. PICK p : Framed(p)'
    BY DEF FrameInv
<1>2. PICK z : z = Size(p + 1)'
    OBVIOUS
<1>3. /\ expect' = 0 => Len(buffer') < 2
      /\ expect' > 0 => expect' + Len(buffer') = z /\ z <= MAXBUF
    BY <1>1, <1>2 DEF Framed
<1>4. Len(buffer') \in Nat
    OBVIOUS
<1> QED
    BY <1>3, <1>4

LEMMA FrameStays ==
    ASSUME FrameInv, pc' \in {pc, "connect"}, UNCHANGED <<expect, buffer, wire, sentPkts, done>>
    PROVE  FrameInv'
<1>1. CASE pc' = "connect"
    BY <1>1 DEF FrameInv
<1>2. CASE pc' = pc
    BY <1>2 DEF FrameInv, WireOk, RestOf, Framed, NextByte, Whole, Size
<1> QED
    BY <1>1, <1>2

LEMMA ConnectFrames ==
    ASSUME Fresh
    PROVE  FrameInv'
<1> USE DEF Fresh
<1>1. Len(wire') = 0 /\ Len(buffer') = 0 /\ Len(sentPkts') = 0
    OBVIOUS
<1>2. WireOk'
    BY <1>1 DEF WireOk
<1>3. Framed(0)'
  <2>1. Cardinality(Whole(0)') = 0
    <3>1. Whole(0)' = {}
        BY DEF Whole
    <3> QED
        BY <3>1, FS_EmptySet
  <2>2. NextByte(0)' = <<1, 1>> /\ <<Len(sentPkts') + 1, 1>> = <<1, 1>>
      BY <1>1 DEF NextByte
  <2> QED
      BY <1>1, <2>1, <2>2 DEF Framed
<1> QED
    BY <1>1, <1>2, <1>3 DEF FrameInv

\* What process() may leave in new_server and new_server_cap.
LEMMA ProcessTypes ==
    ASSUME LinkTypes, NEW q \in 1 .. Len(sentPkts), Process(q)
    PROVE  /\ newServer' \in Servers \cup {NoServer}
           /\ cap' \in Servers \cup {NoServer, Unresolved}
<1>1. sentPkts[q].to \in Servers \cup {NoServer, Unresolved}
  <2>1. sentPkts[q] \in Packet
      BY DEF LinkTypes
  <2> QED
      BY <2>1 DEF Packet
<1>2. newServer \in Servers \cup {NoServer} /\ cap \in Servers \cup {NoServer, Unresolved}
    BY DEF LinkTypes, TypeOK
<1> QED
    BY <1>1, <1>2 DEF Process

LEMMA RecvKeeps ==
    ASSUME LinkTypes, FrameInv, Recv
    PROVE  /\ LinkTypes' /\ FrameInv'
           /\ done' # done => \E p \in DOMAIN sentPkts :
                                 done'.bytes = Body(p) /\ done'.n = Cardinality(Whole(p))
<1>1. pc = "run" /\ timeouts' = 0 /\ UNCHANGED <<netVars, server, failed, sentPkts, lost, wakes, helo>>
    BY DEF Recv, Running
<1>2. PICK n \in 1 .. Len(wire) : (RecvBody(n) \/ RecvLength(n)) /\ wire' = SubSeq(wire, n + 1, Len(wire))
    BY DEF Recv
<1>3. /\ FrameInv' /\ wire' \in Seq(Bytes) /\ buffer' \in Seq(Bytes) /\ expect' \in Nat
      /\ done' \in [n : Nat, bytes : Seq(Bytes)]
      /\ done' # done => \E p \in DOMAIN sentPkts :
                            done'.bytes = Body(p) /\ done'.n = Cardinality(Whole(p))
  <2>1. CASE RecvBody(n)
      BY <1>1, <1>2, <2>1, BodyFrames
  <2>2. CASE RecvLength(n)
    <3>1. FrameInv' /\ wire' \in Seq(Bytes) /\ buffer' \in Seq(Bytes) /\ expect' \in Nat /\ done' = done
        BY <1>1, <1>2, <2>2, LengthFrames
    <3> QED
        BY <3>1 DEF LinkTypes
  <2> QED
      BY <1>2, <2>1, <2>2
<1>4. newServer' \in Servers \cup {NoServer} /\ cap' \in Servers \cup {NoServer, Unresolved}
  <2>1. newServer \in Servers \cup {NoServer} /\ cap \in Servers \cup {NoServer, Unresolved}
      BY DEF LinkTypes, TypeOK
  <2>2. CASE RecvBody(n)
    <3>1. wire[n][1] \in 1 .. Len(sentPkts)
        BY <1>1, <1>2, <2>2, BodyFrames
    <3>2. Process(wire[n][1]) \/ UNCHANGED <<newServer, cap>>
        BY <2>2 DEF RecvBody
    <3> QED
        BY <2>1, <3>1, <3>2, ProcessTypes
  <2>3. CASE RecvLength(n)
      BY <2>1, <2>3 DEF RecvLength
  <2> QED
      BY <1>2, <2>2, <2>3
<1>5. pc' \in {"connect", "run"} /\ reconnect' \in BOOLEAN /\ previous' \in Servers \cup {NoServer}
  <2>1. previous \in Servers \cup {NoServer} /\ reconnect \in BOOLEAN
      BY DEF LinkTypes, TypeOK
  <2>2. Leave \/ UNCHANGED <<pc, reconnect, previous>>
      BY <1>2 DEF RecvBody, RecvLength
  <2> QED
      BY <1>1, <2>1, <2>2 DEF Leave
<1>6. pc' = "run" => /\ expect' = 0 => Len(buffer') < 2
                     /\ expect' > 0 => Len(buffer') + expect' <= MAXBUF
    BY <1>3, FramingOf
<1>7. LinkTypes'
    BY <1>1, <1>3, <1>4, <1>5, <1>6, LinkAssumption DEF LinkTypes, TypeOK, netVars, LinkAssumption
<1> QED
    BY <1>3, <1>7

LEMMA LinkKeeps ==
    ASSUME LinkTypes, FrameInv, [Next]_vars
    PROVE  LinkTypes' /\ FrameInv'
<1> USE LinkAssumption DEF LinkAssumption
<1>1. CASE Switch
  <2>1. pc' = "connect" /\ server' \in Servers /\ previous' \in Servers /\ newServer' = NoServer
      BY <1>1 DEF Switch, LinkTypes, TypeOK
  <2> QED
      BY <1>1, <2>1 DEF Switch, LinkTypes, TypeOK, FrameInv, netVars, runVars
<1>2. CASE ConnectFails
  <2>1. pc' = "connect" /\ server' \in Servers /\ failed' \in 0 .. Failures + 1
      BY <1>2 DEF ConnectFails, FallBack, LinkTypes, TypeOK
  <2> QED
      BY <1>2, <2>1 DEF ConnectFails, LinkTypes, TypeOK, FrameInv, netVars, runVars
<1>3. CASE Connect
  <2>1. FrameInv' /\ buffer' \in Seq(Bytes) /\ expect' \in Nat
    <3>1. Fresh
        BY <1>3 DEF Connect
    <3>2. buffer' = << >> /\ expect' = 0
        BY <3>1 DEF Fresh
    <3> QED
        BY <3>1, <3>2, ConnectFrames
  <2>2. Len(buffer') = 0 /\ expect' = 0
      BY <1>3 DEF Connect, Fresh
  <2>3. sentPkts' \in Seq(Packet) /\ wire' \in Seq(Bytes) /\ done' \in [n : Nat, bytes : Seq(Bytes)]
      BY <1>3 DEF Connect, Fresh
  <2> QED
    <3>1. /\ given' \in BOOLEAN /\ down' \subseteq Servers /\ changes' \in 0 .. MaxChanges
          /\ pc' = "run" /\ server' \in Servers
          /\ {previous', newServer'} \subseteq Servers \cup {NoServer} /\ cap' = NoServer
          /\ reconnect' \in BOOLEAN /\ failed' = 0
        BY <1>3 DEF Connect, LinkTypes, TypeOK, netVars
    <3>2. timeouts' = 0 /\ wakes' = 0 /\ lost' = FALSE
        BY <1>3 DEF Connect, Fresh
    <3>3. failed' \in 0 .. Failures + 1 /\ timeouts' \in 0 .. Timeouts + 1 /\ wakes' \in 0 .. MaxWakes
          /\ lost' \in BOOLEAN /\ timeouts' <= Timeouts
      <4>1. Failures \in Nat /\ Timeouts \in Nat /\ MaxWakes \in Nat
          OBVIOUS
      <4>2. 0 \in 0 .. Failures + 1 /\ 0 \in 0 .. Timeouts + 1 /\ 0 \in 0 .. MaxWakes /\ 0 <= Timeouts
          BY <4>1
      <4> QED
          BY <3>1, <3>2, <4>2
    <3>4. expect' = 0 => Len(buffer') < 2
        BY <2>2
    <3>5. ~(expect' > 0)
        BY <2>2
    <3>6. newServer' # Unresolved /\ previous' # Unresolved
        BY <3>1
    <3> QED
        BY <2>1, <2>3, <3>1, <3>3, <3>4, <3>5, <3>6 DEF LinkTypes, TypeOK
<1>4. CASE Recv
    BY <1>4, RecvKeeps
<1>5. CASE RecvFails \/ LeaveForNew
    BY <1>5 DEF RecvFails, LeaveForNew, Leave, LinkTypes, TypeOK, FrameInv, netVars, runVars
<1>6. CASE Wake
  <2>1. FrameInv'
      BY <1>6, FrameStays DEF Wake
  <2> QED
      BY <1>6, <2>1 DEF Wake, LinkTypes, TypeOK, netVars, linkVars
<1>7. CASE Wait
  <2>1. pc = "run" /\ pc' \in {pc, "connect"} /\ timeouts' \in 0 .. Timeouts + 1 /\ (pc' = "run" => timeouts' <= Timeouts)
      BY <1>7 DEF Wait, Silence, Running, Leave, LinkTypes, TypeOK
  <2>2. FrameInv'
      BY <1>7, <2>1, FrameStays DEF Wait
  <2>3. previous' \in Servers \cup {NoServer} /\ reconnect' \in BOOLEAN
      BY <1>7 DEF Wait, Leave, LinkTypes, TypeOK
  <2> QED
      BY <1>7, <2>1, <2>2, <2>3 DEF Wait, LinkTypes, TypeOK, netVars
<1>8. CASE Send
  <2>1. FrameInv'
      BY <1>8, SendFrames
  <2>2. sentPkts' \in Seq(Packet) /\ wire' \in Seq(Bytes)
    <3>1. PICK p \in Packet : /\ sentPkts' = Append(sentPkts, p)
                              /\ wire' = wire \o [i \in 1 .. 2 + p.size |-> <<Len(sentPkts) + 1, i>>]
        BY <1>8 DEF Send
    <3>2. PICK b : b = [i \in 1 .. 2 + p.size |-> <<Len(sentPkts) + 1, i>>]
        OBVIOUS
    <3>3. 2 + p.size \in Nat /\ Len(sentPkts) + 1 \in Nat
      <4>1. p.size \in Nat
          BY DEF Packet
      <4>2. Len(sentPkts) \in Nat
          BY DEF LinkTypes
      <4> QED
          BY <4>1, <4>2
    <3>4. b \in Seq(Bytes)
        BY <3>2, <3>3, PacketBytes
    <3>5. wire' = wire \o b /\ wire \in Seq(Bytes)
        BY <3>1, <3>2 DEF LinkTypes
    <3>6. wire' \in Seq(Bytes)
        BY <3>4, <3>5, Joined
    <3> QED
        BY <3>1, <3>6 DEF LinkTypes
  <2> QED
      BY <1>8, <2>1, <2>2 DEF Send, LinkTypes, TypeOK, netVars, linkVars
<1>9. CASE Lose
  <2>1. FrameInv'
      BY <1>9, FrameStays DEF Lose
  <2> QED
      BY <1>9, <2>1 DEF Lose, LinkTypes, TypeOK, netVars, linkVars
<1>10. CASE Change
  <2>1. changes' \in 0 .. MaxChanges
    <3>1. changes \in 0 .. MaxChanges /\ changes < MaxChanges /\ changes' = changes + 1
        BY <1>10 DEF Change, LinkTypes, TypeOK
    <3>2. MaxChanges \in Nat
        OBVIOUS
    <3> QED
        BY <3>1, <3>2
  <2>2. down' \subseteq Servers
      BY <1>10 DEF Change
  <2> QED
      BY <1>10, <2>1, <2>2 DEF Change, LinkTypes, TypeOK, FrameInv, linkVars, runVars
<1>11. CASE UNCHANGED vars
  <2>1. FrameInv'
      BY <1>11, FrameStays DEF vars, runVars
  <2> QED
      BY <1>11, <2>1 DEF vars, LinkTypes, TypeOK, netVars, linkVars, runVars
<1> QED
    BY <1>1, <1>2, <1>3, <1>4, <1>5, <1>6, <1>7, <1>8, <1>9, <1>10, <1>11 DEF Next

\* Only recv executes a packet, and a new connection starts the count again.
LEMMA DoneWhole ==
    ASSUME LinkTypes, FrameInv, [Next]_vars
    PROVE  [done' # done /\ done'.n > 0 =>
               \E p \in DOMAIN sentPkts :
                  /\ done'.bytes = Body(p)
                  /\ done'.n = Cardinality({q \in 1 .. p : sentPkts[q].size > 0})]_vars
<1> SUFFICES ASSUME done' # done, done'.n > 0
             PROVE  \E p \in DOMAIN sentPkts :
                       /\ done'.bytes = Body(p)
                       /\ done'.n = Cardinality({q \in 1 .. p : sentPkts[q].size > 0})
    OBVIOUS
<1>1. Connect \/ Recv
    BY DEF Next, vars, runVars, Switch, ConnectFails, RecvFails, LeaveForNew, Wake, Wait, Send, Lose, Change
<1>2. ~Connect
    BY DEF Connect, Fresh
<1>3. PICK p \in DOMAIN sentPkts : done'.bytes = Body(p) /\ done'.n = Cardinality(Whole(p))
    BY <1>1, <1>2, RecvKeeps
<1> QED
    BY <1>3 DEF Whole, Size

LEMMA LinkStarts == ASSUME Init PROVE LinkTypes /\ FrameInv
<1>1. FrameInv
    BY DEF Init, FrameInv
<1>2. changes \in 0 .. MaxChanges /\ failed \in 0 .. Failures + 1 /\ timeouts \in 0 .. Timeouts + 1 /\ wakes \in 0 .. MaxWakes
    BY LinkAssumption DEF Init, LinkAssumption
<1>3. sentPkts \in Seq(Packet) /\ wire \in Seq(Bytes) /\ buffer \in Seq(Bytes) /\ done \in [n : Nat, bytes : Seq(Bytes)]
    BY DEF Init
<1>4. server \in Servers /\ newServer # Unresolved /\ previous # Unresolved
    BY LinkAssumption DEF Init, LinkAssumption
<1> QED
    BY <1>1, <1>2, <1>3, <1>4 DEF Init, LinkTypes, TypeOK

LEMMA LinkAlways == Spec => [](LinkTypes /\ FrameInv)
<1>1. Init => LinkTypes /\ FrameInv
    BY LinkStarts
<1>2. (LinkTypes /\ FrameInv) /\ [Next]_vars => (LinkTypes /\ FrameInv)'
    BY LinkKeeps
<1> QED
    BY <1>1, <1>2, PTL DEF Spec

\* The types of the link, and that slimproto_run never has more in buffer than it holds:
\* the announced length is checked before a byte of the body is read into it.
THEOREM LinkTyped == Spec => []TypeOK
<1>1. LinkTypes => TypeOK
    BY DEF LinkTypes
<1> QED
    BY <1>1, LinkAlways, PTL

\* However recv cuts the stream of bytes, slimproto_run gives process() the packets that
\* were sent on the connection, each whole, in order, none twice and none left out but
\* those without a body.
THEOREM PacketsWhole == Spec => WholePackets
<1>1. (LinkTypes /\ FrameInv) /\ [Next]_vars =>
          [done' # done /\ done'.n > 0 =>
              \E p \in DOMAIN sentPkts :
                 /\ done'.bytes = Body(p)
                 /\ done'.n = Cardinality({q \in 1 .. p : sentPkts[q].size > 0})]_vars
    BY DoneWhole
<1> QED
    BY <1>1, LinkAlways, PTL DEF Spec, WholePackets
=============================================================================
