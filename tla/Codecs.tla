------------------------------- MODULE Codecs -------------------------------
(****************************************************************************)
(* One stream, from its first byte to the end of its decoding, through each   *)
(* of the codecs: the stream thread of Codec and the codec of file.kind.      *)
(****************************************************************************)
EXTENDS Pcm, Mp4, Dsd, LibCodecs

Statics == CASE file.kind = "pcm"    -> PcmInit(file.stale)
             [] file.kind \in Mp4Kinds -> Mp4Init(file.stale)
             [] file.kind \in DsdKinds -> DsdInit(file.stale)
             [] file.kind \in LibKinds -> LibInit

Init == /\ file \in Files
        /\ arrived = 0 /\ ended = FALSE
        /\ pos = 0 /\ rd = 0
        /\ state = "RUNNING" /\ new_stream = TRUE /\ pc = "idle"
        /\ c = Statics
        /\ out = 0 /\ seen = 0 /\ lost = {}

\* The decoder has reported its result: a tick takes it and the stream is over.
Over == state # "RUNNING" /\ UNCHANGED vars

Decode == pcm_decode \/ Mp4Step \/ DsdStep \/ LibStep

Next == Deliver \/ End \/ Decode \/ Over

\* decode_thread runs; the network delivers or the connection ends, and the stream
\* thread gets S, which decode_thread gives up after every call, in the end.
Spec == Init /\ [][Next]_vars /\ SF_vars(Deliver \/ End) /\ WF_vars(Decode)

------------------------------------------------------------------------------
(* Properties *)

Pcs == {"idle", "header", "samples", "flac", "open", "read", "none", "ff"}

\* The counters stay within the stream, streambuf never holds more than its size
\* and readp stays inside it.
TypeOK == /\ file \in Files
          /\ pos \in 0 .. arrived /\ arrived \in 0 .. file.len
          /\ Used < Size /\ rd \in 0 .. Size - 1
          /\ state \in {"RUNNING", "COMPLETE", "ERROR", "CRASHED"}
          /\ new_stream \in BOOLEAN /\ ended \in BOOLEAN /\ pc \in Pcs
          /\ out \in Nat /\ seen \in 0 .. Size /\ lost \subseteq STRING

\* Where the unit after the last one that was decoded starts.
NextUnit == CASE file.kind = "pcm" -> PcmNext
              [] file.kind \in Mp4Kinds -> Mp4Next
              [] file.kind \in DsdKinds -> DsdNext

\* A codec that frames its input itself is, between two calls, exactly at the
\* first byte of the next frame, block or sample, or knows how far it is to it:
\* whatever the pieces in which the bytes came and however they wrap, nothing is
\* decoded twice, left out, or read from the middle.
InStep == pc = "idle" /\ state = "RUNNING" /\ ~new_stream /\ lost = {}
          /\ file.kind \notin LibKinds
          => pos + (IF file.kind = "pcm" THEN 0 ELSE c.consume) = NextUnit

\* What streambuf had received when the codec last looked at it.
Received == pos + seen

\* Units that had been received in full.
Playable ==
    CASE file.kind = "pcm" ->
            (Least(Received, PcmEnd) - file.head) \div file.bpf
      [] file.kind \in DsdKinds -> file.units
      [] OTHER -> Cardinality({k \in DOMAIN file.samples :
                         file.samples[k].at + file.samples[k].size <= Received})

\* DECODE_COMPLETE makes the server start the next stream, which empties
\* streambuf: a codec that says it has decoded every unit it was sent.
NothingLeft ==
    state = "COMPLETE" /\ ~file.bad /\ lost = {} /\ arrived = file.len /\ ~PcmLosesTail
    => out = Playable

\* A good stream that is not cut is not given up: DECODE_ERROR is reported as
\* STMn, on which a server skips or stops.
NoFalseError ==
    state = "ERROR" =>
        \/ file.bad \/ lost # {} \/ (ended /\ arrived < file.len)
        \/ Blind \/ PastBlocks \/ DsdMissed \/ DsdHeaderLong

\* The streams whose decoding never ends by itself.
Stuck == CASE file.kind = "pcm" -> PcmStuck
           [] file.kind \in Mp4Kinds -> Mp4Stuck
           [] file.kind \in DsdKinds -> DsdStuck
           [] OTHER -> ended /\ arrived < file.len

\* decode() gives D back, for which the controller waits, when the network delivers or
\* fails: the codecs that wait for bytes with D held included. And every stream but
\* those is decoded to its end, or given up.
DecodeEnds == /\ pc # "idle" ~> pc = "idle"
              /\ <>(state # "RUNNING") \/ <>[]Stuck

------------------------------------------------------------------------------
(* What comments of the code say, and runs that expect a violation refute *)

\* alac.c:290, faad.c:299: "consume rest of box if it has been parsed (all in the
\* buffer) or is not one we want to parse".
Parsed == lost = {}

\* dsd.c:175: "come back later", with 0 for a header that is not there
\* in full yet.
ComesBack == file.kind \in DsdKinds /\ state = "ERROR" => ended
=============================================================================
