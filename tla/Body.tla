-------------------------------- MODULE Body --------------------------------
(***************************************************************************)
(* stream.c at the level of bytes: what stream_thread makes of what the    *)
(* server answers.  The response headers are read byte by byte up to four  *)
(* line ends in a row; what follows goes to streambuf, except for the      *)
(* blocks of icy metadata that come after every meta_interval bytes; an    *)
(* ogg stream is looked through for its comments on the way.  All of them, *)
(* and the request before them, use the one buffer stream.header, which    *)
(* the controller's tick copies when it is told to.                        *)
(*                                                                         *)
(* A byte is a tuple: <<"h", i>> of the headers, <<"n", i>> a line end,    *)
(* <<"len", k>> the length of a metadata block of k * Unit bytes,          *)
(* <<"m", b, j>> in block b, <<"a", i>> audio; the bytes of an ogg page are*)
(* in PageBytes.  recv returns any number of the bytes that are left.      *)
(*                                                                         *)
(* Left out: files, and what poll saw of another connection (StreamThread),*)
(* USE_LIBOGG, and which of the comments are picked and fit.               *)
(***************************************************************************)
EXTENDS Integers, Sequences, SequencesExt, FiniteSetsExt

CONSTANTS Answers,     \* what servers answer: records as in the run's module
          Request,     \* the bytes of the request
          HeaderMax,   \* MAX_HEADER, 4096
          Unit,        \* 16
          Pattern,     \* "OggS"
          Size,        \* bytes in streambuf
          Threshold,   \* stream.threshold
          Faults,      \* of {"send", "reset", "connect"}
          MaxStreams,  \* bound: 's' commands
          MaxReads     \* bound: bytes the decoder takes at once

ASSUME BodyAssumption ==
    /\ HeaderMax > Len(Request) /\ Unit \in Nat \ {0} /\ Len(Pattern) > 0
    /\ Size \in Nat \ {0, 1} /\ Threshold \in Nat /\ MaxStreams \in Nat
    /\ MaxReads \in Nat \ {0} /\ Faults \subseteq {"send", "reset", "connect"}

VARIABLES
    answer,   \* what the server answers to this stream's request
    stream,   \* struct streamstate, with the memory of stream.header
    net,      \* fd (open or not), ssl, the bytes received, header_mlen and endtok
    buf,      \* streambuf: writep, the bytes in it, and all that was written (history)
    ogg,      \* struct ogg
    cont,     \* the server still owes a cont
    seen,     \* history: the request, RESP, METAs and DSCO the server got; late: what
              \* stream.header held for a tick was overwritten; gave: how the
              \* stream ended without a DSCO
    streams   \* bound: streams started

vars == <<answer, stream, net, buf, ogg, cont, seen, streams>>

------------------------------------------------------------------------------
(* What the server sends *)

PageBytes(p) ==
    Pattern \o << <<"page", p>> >> \o [j \in DOMAIN p.segs |-> <<"lace", p.segs[j]>>]
            \o [j \in 1 .. SumFunction(p.segs) |-> <<p.kind, p.id, j>>]

Audio(a) == IF a.ogg THEN FlattenSeq([i \in DOMAIN a.pages |-> PageBytes(a.pages[i])])
                     ELSE [i \in 1 .. a.audio |-> <<"a", i>>]

Block(a, b) == [j \in 1 .. Unit * a.blocks[b] |-> <<"m", b, j>>]

\* After every interval bytes of audio comes a metadata block, possibly empty; the
\* last ones are missing when the server closes first.
WithBlocks(a) ==
    LET s == Audio(a)
        Piece(b) == SubSeq(s, (b - 1) * a.interval + 1, Min({b * a.interval, Len(s)}))
        n == (Len(s) + a.interval - 1) \div a.interval
    IN  FlattenSeq([b \in 1 .. n |->
            Piece(b) \o IF b \in DOMAIN a.blocks
                        THEN << <<"len", a.blocks[b]>> >> \o Block(a, b) ELSE << >>])

Wire(a) == a.head \o IF a.interval > 0 THEN WithBlocks(a) ELSE Audio(a)

WireOf == [a \in Answers |-> Wire(a)]

\* What is left of it: a server that speaks TLS only, or that got something else than
\* the request, closes the connection.
Left == IF seen.asked = Request /\ net.ssl = answer.tls
        THEN SubSeq(WireOf[answer], net.got + 1, Len(WireOf[answer])) ELSE << >>

------------------------------------------------------------------------------
(* stream.header and streambuf *)

NoOgg == [state |-> "OFF", want |-> 0, miss |-> 0, match |-> 0, data |-> << >>,
          serial |-> "none", page |-> << >>, flac |-> FALSE, missed |-> FALSE]

Header == SubSeq(stream.header, 1, stream.header_len)

Put(s, at) == [i \in DOMAIN stream.header |->
                  IF i \in at + 1 .. at + Len(s) THEN s[i - at] ELSE stream.header[i]]

\* min(_buf_space, _buf_cont_write)
Room == Min({Size - buf.used - 1, Size - buf.writep})

Init == /\ answer \in Answers
        /\ stream = [state |-> "STOPPED", disconnect |-> "none",
                     header |-> [i \in 1 .. HeaderMax |-> <<"?">>], header_len |-> 0,
                     meta_interval |-> 0, meta_next |-> 0, meta_left |-> 0,
                     meta_send |-> FALSE, sent_headers |-> FALSE, cont_wait |-> FALSE]
        /\ net = [fd |-> FALSE, ssl |-> FALSE, got |-> 0, header_mlen |-> 0, endtok |-> 0]
        /\ buf = [writep |-> 0, used |-> 0, all |-> << >>]
        /\ ogg = NoOgg
        /\ cont = FALSE
        /\ seen = [asked |-> << >>, resp |-> << >>, metas |-> << >>, told |-> "none",
                   late |-> FALSE, gave |-> "none"]
        /\ streams = 0

------------------------------------------------------------------------------
(* stream_ogg *)

\* memfind: the n bytes of s from p on, the match so far carried over.
Matched(o, s, p) ==
    LET m[i \in 0 .. Len(s) - p] ==
            IF i = 0 THEN o.match
            ELSE IF m[i - 1] = Len(Pattern) THEN m[i - 1]
            ELSE IF s[p + i] = Pattern[m[i - 1] + 1] THEN m[i - 1] + 1 ELSE 0
    IN  m

Sync(o) == [o EXCEPT !.state = "SYNC", !.data = << >>]

\* A whole page of the serial looked for: with OggFlac the comments are in the page
\* after the first, otherwise where the tag is.
Comment(o) == IF o.flac THEN <<Head(o.data)>>
              ELSE SelectSeq(o.data, LAMBDA b : b[1] = "comment" /\ b[3] = 1)

\* What was wanted is there.  An overshot serial is given up; o.missed is history.
Parsed(o) ==
    CASE o.state = "HEADER" ->
            IF SubSeq(o.data, 1, Len(Pattern)) = Pattern
            THEN LET page == Last(o.data)[2]
                 IN  [o EXCEPT !.state = "SEGMENTS", !.page = page, !.data = << >>,
                               !.want = Len(page.segs), !.miss = Len(page.segs)]
            ELSE [Sync(o) EXCEPT !.missed = TRUE]
      [] o.state = "SEGMENTS" ->
            LET size   == SumFunction([j \in DOMAIN o.data |-> o.data[j][2]])
                first  == IF o.serial = "none" /\ o.page.bos THEN o.page.serial ELSE o.serial
                serial == IF first = o.page.serial /\ o.page.granule THEN "none" ELSE first
                next   == [o EXCEPT !.want = size, !.miss = size, !.serial = serial]
            IN  IF serial = o.page.serial
                THEN [next EXCEPT !.state = "PAGE", !.data = << >>] ELSE Sync(next)
      [] o.state = "PAGE" ->
            IF Comment(o) # << >>
            THEN [Sync(o) EXCEPT !.flac = FALSE, !.serial = "none"]
            ELSE [Sync(o) EXCEPT !.flac = Head(o.data)[1] = "flacid"]

\* The loop over the bytes of s from p on; found is what was put into stream.header.
RECURSIVE Scan(_, _, _, _)
Scan(o, s, p, found) ==
    LET consumed == Min({o.miss, Len(s) - p})
        m == Matched(o, s, p)
        hits == {i \in DOMAIN m : m[i] = Len(Pattern)}
        filled == [o EXCEPT !.miss = @ - consumed,
                            !.data = @ \o SubSeq(s, p + 1, p + consumed)]
    IN  IF p >= Len(s) THEN [ogg |-> o, found |-> found]
        ELSE IF o.state = "SYNC" /\ consumed > 0
        THEN Scan([o EXCEPT !.miss = @ - consumed], s, p + consumed, found)
        ELSE IF o.state = "SYNC" /\ hits = {}
        THEN [ogg |-> [o EXCEPT !.match = m[Len(s) - p]], found |-> found]
        ELSE IF o.state = "SYNC"
        THEN Scan([o EXCEPT !.state = "HEADER", !.match = 0, !.data = << >>,
                            !.want = Len(Pattern) + 1, !.miss = Len(Pattern) + 1],
                  s, p + Min(hits) - Len(Pattern), found)
        ELSE IF filled.miss > 0 THEN [ogg |-> filled, found |-> found]
        ELSE Scan(Parsed(filled), s, p + consumed,
                  IF o.state = "PAGE" /\ Comment(filled) # << >>
                  THEN Append(found, Comment(filled)) ELSE found)

\* The bytes before writep, as far as the memory of streambuf goes.
Before == [i \in 1 .. Len(Pattern) |->
              LET back == Len(Pattern) + 1 - i
              IN  IF back > buf.writep \/ back > Len(buf.all) THEN <<"?">>
                  ELSE buf.all[Len(buf.all) + 1 - back]]

stream_ogg(s) == IF ogg.state = "OFF" THEN [ogg |-> ogg, found |-> << >>]
                 ELSE Scan(ogg, Before \o s, Len(Pattern), << >>)

------------------------------------------------------------------------------
(* stream_thread: one pass with S held, after a poll *)

\* The thread looks at the socket: it is open, there is room, and something is to come.
Polls(state) == net.fd /\ Room > 0 /\ stream.state = state

_disconnect(state, code) ==
    /\ stream' = [stream EXCEPT !.state = state, !.disconnect = code]
    /\ net' = [net EXCEPT !.fd = FALSE, !.ssl = FALSE]

send_header ==
    /\ Polls("SEND_HEADERS")
    /\ \/ /\ seen' = [seen EXCEPT !.asked = Header]
          /\ stream' = [stream EXCEPT !.state = "RECV_HEADERS", !.header_len = 0]
       \/ /\ "send" \in Faults
          /\ stream' = [stream EXCEPT !.state = "DISCONNECT", !.header_len = 0,
                                      !.disconnect = "LOCAL_DISCONNECT"]
          /\ UNCHANGED seen
    /\ net' = [net EXCEPT !.header_mlen = stream.header_len]
    /\ UNCHANGED <<answer, buf, ogg, cont, streams>>

IsLineEnd(c) == c[1] = "n"

\* Line ends in a row; the first byte of the headers does not count.
EndTok(c) == IF stream.header_len > 0 /\ IsLineEnd(c) THEN net.endtok + 1 ELSE 0

\* Headers that fill stream.header close the connection, even if they end there.
RecvHeader ==
    /\ Polls("RECV_HEADERS") /\ Left # << >>
    /\ LET c    == Head(Left)
           long == stream.header_len + 1 > HeaderMax - 1
           next == [stream EXCEPT !.header = Put(<<c>>, stream.header_len), !.header_len = @ + 1,
                                  !.disconnect = IF long THEN "LOCAL_DISCONNECT" ELSE @]
       IN  /\ net' = [net EXCEPT !.got = @ + 1, !.endtok = EndTok(c), !.fd = ~long,
                                 !.ssl = @ /\ ~long]
           /\ stream' = [next EXCEPT !.state =
                  IF EndTok(c) = 4
                  THEN IF stream.cont_wait THEN "STREAMING_WAIT" ELSE "STREAMING_BUFFERING"
                  ELSE IF long THEN "DISCONNECT" ELSE @]
    /\ UNCHANGED <<answer, buf, ogg, cont, seen, streams>>

\* No answer at all: the server may want SSL.
RetriesSsl == ~net.ssl /\ stream.header_len = 0

\* recv of the headers fails, or the server has closed: the request, which is still in
\* stream.header, is sent once more over SSL.  A connection that fails, as it does in
\* a build without SSL, ends the stream.
RecvHeaderFails ==
    /\ Polls("RECV_HEADERS")
    /\ Left = << >> \/ "reset" \in Faults
    /\ \/ /\ RetriesSsl /\ answer.tls
          /\ stream' = [stream EXCEPT !.state = "SEND_HEADERS", !.header_len = net.header_mlen]
          /\ net' = [net EXCEPT !.ssl = TRUE, !.got = 0]
          /\ UNCHANGED seen
       \/ /\ RetriesSsl => ~answer.tls \/ "connect" \in Faults
          /\ _disconnect("STOPPED", "LOCAL_DISCONNECT")
          /\ seen' = [seen EXCEPT !.gave = "headers"]
    /\ UNCHANGED <<answer, buf, ogg, cont, streams>>

Streaming == Polls("STREAMING_BUFFERING") \/ Polls("STREAMING_HTTP")

MetaDue == stream.meta_interval > 0 /\ stream.meta_next = 0

\* Mutant: the block is added to what is in stream.header.
MetaLengthAdds(left) == [stream EXCEPT !.meta_left = left]

MetaLength(left) == [stream EXCEPT !.meta_left = left, !.header_len = 0]

\* The byte with the length; an empty block is over at once.  The block itself may
\* not be there yet, so it is another step.
RecvMetaLength ==
    /\ Streaming /\ MetaDue /\ stream.meta_left = 0 /\ Left # << >>
    /\ LET c == Head(Left)
           left == IF c[1] = "len" THEN Unit * c[2] ELSE Unit
       IN  stream' = [MetaLength(left) EXCEPT
                          !.meta_next = IF left = 0 THEN stream.meta_interval ELSE 0]
    /\ net' = [net EXCEPT !.got = @ + 1]
    /\ seen' = [seen EXCEPT !.late = @ \/ stream.meta_send]
    /\ UNCHANGED <<answer, buf, ogg, cont, streams>>

RecvMeta(n) ==
    /\ Streaming /\ MetaDue /\ n \in 1 .. Min({stream.meta_left, Len(Left)})
    /\ LET next == [stream EXCEPT !.header = Put(SubSeq(Left, 1, n), stream.header_len),
                                  !.header_len = @ + n, !.meta_left = @ - n]
       IN  stream' = IF next.meta_left > 0 THEN next
                     ELSE [next EXCEPT !.meta_send = TRUE, !.meta_next = stream.meta_interval]
    /\ net' = [net EXCEPT !.got = @ + n]
    /\ UNCHANGED <<answer, buf, ogg, cont, seen, streams>>

RecvMetaFails ==
    /\ Streaming /\ MetaDue
    /\ Left = << >> \/ "reset" \in Faults
    /\ _disconnect("STOPPED", "LOCAL_DISCONNECT")
    /\ seen' = [seen EXCEPT !.gave = "metadata"]
    /\ UNCHANGED <<answer, buf, ogg, cont, streams>>

\* Never beyond the next metadata.
Space == IF stream.meta_interval > 0 THEN Min({Room, stream.meta_next}) ELSE Room

RecvBody(n) ==
    /\ Streaming /\ ~MetaDue /\ n \in 1 .. Min({Space, Len(Left)})
    /\ LET s == SubSeq(Left, 1, n)
           o == stream_ogg(s)
           next == [stream EXCEPT
                       !.meta_next = IF stream.meta_interval > 0 THEN @ - n ELSE @,
                       !.state = IF Len(buf.all) + n > Threshold THEN "STREAMING_HTTP" ELSE @]
       IN  /\ buf' = [writep |-> (buf.writep + n) % Size, used |-> buf.used + n,
                      all |-> buf.all \o s]
           /\ ogg' = o.ogg
           /\ IF o.found = << >> THEN stream' = next /\ UNCHANGED seen
              ELSE /\ stream' = [next EXCEPT !.header = Put(Last(o.found), 0), !.meta_send = TRUE,
                                             !.header_len = Len(Last(o.found))]
                   /\ seen' = [seen EXCEPT !.late = @ \/ stream.meta_send
                                  \/ ~stream.sent_headers \/ Len(o.found) > 1]
    /\ net' = [net EXCEPT !.got = @ + n]
    /\ UNCHANGED <<answer, cont, streams>>

\* Mutant: as after a failed read of metadata.
BodyStops == _disconnect("STOPPED", "DISCONNECT_OK")

BodyEnds == _disconnect("DISCONNECT", "DISCONNECT_OK")

RecvBodyEnds ==
    /\ Streaming /\ ~MetaDue
    /\ \/ Left = << >> /\ BodyEnds
       \/ "reset" \in Faults /\ _disconnect("DISCONNECT", "REMOTE_DISCONNECT")
    /\ UNCHANGED <<answer, buf, ogg, cont, seen, streams>>

StreamThread ==
    \/ send_header \/ RecvHeader \/ RecvHeaderFails
    \/ RecvMetaLength \/ RecvMetaFails \/ RecvBodyEnds
    \/ \E n \in 1 .. Size : RecvMeta(n) \/ RecvBody(n)

------------------------------------------------------------------------------
(* The others, each with S held *)

\* stream_sock with the connection made, over SSL if the server asked for that.
stream_sock(a, ssl) ==
    /\ stream.state = "STOPPED" /\ streams < MaxStreams
    /\ ssl => a.tls
    /\ answer' = a
    /\ stream' = [stream EXCEPT !.state = "SEND_HEADERS", !.cont_wait = a.cont,
                     !.meta_interval = 0, !.meta_next = 0, !.meta_left = 0, !.meta_send = FALSE,
                     !.header = Put(Request, 0), !.header_len = Len(Request),
                     !.sent_headers = FALSE]
    /\ net' = [net EXCEPT !.fd = TRUE, !.ssl = ssl, !.got = 0]
    /\ buf' = [writep |-> 0, used |-> 0, all |-> << >>]
    /\ ogg' = [NoOgg EXCEPT !.state = IF a.ogg THEN "SYNC" ELSE "OFF"]
    /\ cont' = a.cont
    /\ seen' = [asked |-> << >>, resp |-> << >>, metas |-> << >>, told |-> "none",
                late |-> FALSE, gave |-> "none"]
    /\ streams' = streams + 1

stream_disconnect ==
    /\ stream.state # "STOPPED"
    /\ stream' = [stream EXCEPT !.state = "STOPPED"]
    /\ net' = [net EXCEPT !.fd = FALSE, !.ssl = FALSE]
    /\ seen' = [seen EXCEPT !.gave = "stopped"]
    /\ UNCHANGED <<answer, buf, ogg, cont, streams>>

\* The S region of the periodic tick; what it copies is sent after it: DSCO, then RESP
\* and META with the same bytes if both are due.
Tick ==
    LET dsco == stream.state = "DISCONNECT"
        resp == ~stream.sent_headers /\
                stream.state \in {"STREAMING_HTTP", "STREAMING_WAIT", "STREAMING_BUFFERING"}
    IN  /\ dsco \/ resp \/ stream.meta_send
        /\ stream' = [stream EXCEPT !.state = IF dsco THEN "STOPPED" ELSE @,
                                    !.sent_headers = @ \/ resp, !.meta_send = FALSE]
        /\ seen' = [seen EXCEPT !.told = IF dsco THEN stream.disconnect ELSE @,
                                !.resp = IF resp THEN Header ELSE @,
                                !.metas = IF stream.meta_send THEN Append(@, Header) ELSE @]
        /\ UNCHANGED <<answer, net, buf, ogg, cont, streams>>

\* The server answers RESP with cont, which says how often metadata comes.
process_cont ==
    /\ cont /\ seen.resp # << >>
    /\ cont' = FALSE
    /\ stream' = IF stream.state = "STREAMING_WAIT"
                 THEN [stream EXCEPT !.state = "STREAMING_BUFFERING",
                           !.meta_interval = answer.interval, !.meta_next = answer.interval]
                 ELSE stream
    /\ UNCHANGED <<answer, net, buf, ogg, seen, streams>>

\* A codec takes n bytes.
Decode(n) ==
    /\ n <= buf.used
    /\ buf' = [buf EXCEPT !.used = @ - n]
    /\ UNCHANGED <<answer, stream, net, ogg, cont, seen, streams>>

Next == \/ StreamThread \/ stream_disconnect \/ Tick \/ process_cont
        \/ \E n \in 1 .. MaxReads : Decode(n)
        \/ \E a \in Answers, ssl \in BOOLEAN : stream_sock(a, ssl)

\* The stream thread and the ticks run, the server sends what is left and its cont, and
\* the decoder goes on.
Spec == /\ Init /\ [][Next]_vars
        /\ WF_vars(StreamThread) /\ WF_vars(Tick) /\ WF_vars(process_cont)
        /\ WF_vars(\E n \in 1 .. MaxReads : Decode(n))

------------------------------------------------------------------------------
(* Properties *)

\* The metadata of a stream, whole: its blocks, or the comments of its pages.
Metadata == IF answer.ogg
            THEN LET pages == SelectSeq(answer.pages, LAMBDA p : p.kind = "comment")
                 IN  [i \in DOMAIN pages |-> << <<"comment", pages[i].id, 1>> >>]
            ELSE SelectSeq([b \in DOMAIN answer.blocks |-> Block(answer, b)],
                           LAMBDA s : s # << >>)

\* What gets into streambuf is the audio from its first byte on, however the bytes
\* arrive: none of the headers, none of the metadata, nothing twice and nothing left
\* out; and when the server is told that the stream ended well, it is all there.
\* Excepted are answers whose line ends are not in pairs, which have no end to find.
\* What passes through stream.header passes unchanged: the request, also when it is
\* sent again over SSL, the headers in RESP, and in METAs every metadata block and
\* ogg comment once and in order, none missing at the end.  Excepted is what came
\* while a tick was due (late): the buffer then holds the next block, or a part of
\* it, but never bytes of two; and the comments of a page whose first bytes were
\* the last before the wrap of streambuf (missed).
Verbatim ==
    LET all == Metadata
    IN  /\ IsPrefix(buf.all, Audio(answer))
        /\ seen.told = "DISCONNECT_OK" => buf.all = Audio(answer)
        /\ seen.asked \in {<< >>, Request}
        /\ \/ seen.resp \in {<< >>, answer.head}
           \/ seen.late /\ seen.resp \in Range(all)
        /\ \A m \in Range(seen.metas) : \E d \in Range(all) : IsPrefix(m, d)
        /\ seen.late \/ ogg.missed
           \/ /\ IsPrefix(seen.metas, all)
              /\ seen.told = "DISCONNECT_OK" => seen.metas = all

\* Every stream comes to its end and the server is told, unless it stopped the
\* stream.  Excepted are a failed read of headers or of metadata, which leaves
\* STOPPED, and headers that end with the last byte of stream.header, after which
\* the closed connection is waited for.
Ends == stream.state = "SEND_HEADERS"
        ~> \/ seen.told # "none" \/ seen.gave # "none"
           \/ ~net.fd /\ stream.header_len = HeaderMax
=============================================================================
