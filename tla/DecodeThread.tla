---------------------------- MODULE DecodeThread ----------------------------
(***************************************************************************)
(* decode.c: decode_thread, with a codec that works as mad.c does, and the *)
(* functions the controller calls on the decoder.                          *)
(*                                                                         *)
(* decode_thread looks at streambuf under S and at outputbuf under O, and  *)
(* only then takes D and decides with what it saw.  The codec takes input  *)
(* under S, sets the track start and writes its output under O, and keeps  *)
(* D throughout.  Left out: processing (resampling) and fades.             *)
(***************************************************************************)
EXTENDS Pipeline

CONSTANT CodecFails   \* whether a codec may give up on the stream

ASSUME CodecAssumption == CodecFails \in BOOLEAN

------------------------------------------------------------------------------
(* decode_thread *)

LookStream ==
    /\ dpc = "stream"
    /\ look' = [look EXCEPT !.data = sbuf # << >>, !.toend = Ended(sstate)]
    /\ dpc' = "output"
    /\ UNCHANGED <<streamVars, outputVars, dstate, newStream, codec, held, eos>>

LookOutput ==
    /\ dpc = "output"
    /\ look' = [look EXCEPT !.room = Space > 0]
    /\ dpc' = "lock"
    /\ UNCHANGED <<streamVars, outputVars, dstate, newStream, codec, held, eos>>

\* Mutant: the room in outputbuf is not looked at.
MayDecodeWithoutRoom ==
    /\ dstate = "DECODE_RUNNING" /\ codec
    /\ look.data \/ look.toend

\* The decoder decides with what it saw.
MayDecode == /\ dstate = "DECODE_RUNNING" /\ codec
             /\ look.room
             /\ look.data \/ look.toend

NotRan ==
    /\ dpc = "lock" /\ ~MayDecode
    /\ dpc' = "stream"
    /\ look' = NoLook
    /\ UNCHANGED <<streamVars, outputVars, dstate, newStream, codec, held, eos>>

EndOfStream == Ended(sstate) /\ sbuf' = << >>

\* The codec's S region: take a unit of input, if there is one, and see the end
\* of the stream only when nothing is left.
CodecInput ==
    /\ dpc = "lock" /\ MayDecode
    /\ held' = IF sbuf = << >> THEN NoUnit ELSE Head(sbuf)
    /\ sbuf' = IF sbuf = << >> THEN << >> ELSE Tail(sbuf)
    /\ eos' = EndOfStream
    /\ dpc' = IF newStream /\ sbuf # << >> THEN "start" ELSE "write"
    /\ look' = NoLook
    /\ UNCHANGED <<sstate, disconnect, fd, isFile, bytes, sentHeaders, contWait,
                   spc, why, got, outputVars, dstate, newStream, codec>>

\* The first unit of a stream marks where its track starts.
CodecTrackStart ==
    /\ dpc = "start"
    /\ trackStart' = writep
    /\ newStream' = FALSE
    /\ dpc' = "write"
    /\ UNCHANGED <<streamVars, dstate, codec, look, held, eos,
                   ostate, mem, readp, writep, trackStarted, due, played, started>>

\* Write what was decoded, dropping what does not fit, and let D go.  A codec
\* that gives up says that the stream is complete or that it is in error.
CodecWrite ==
    /\ dpc = "write"
    /\ IF held # NoUnit /\ Space > 0
       THEN /\ mem' = [mem EXCEPT ![writep] = held]
            /\ writep' = Ahead(writep, 1)
       ELSE UNCHANGED <<mem, writep>>
    /\ dstate' \in {IF eos THEN "DECODE_COMPLETE" ELSE "DECODE_RUNNING"}
                   \cup (IF CodecFails THEN {"DECODE_COMPLETE", "DECODE_ERROR"} ELSE {})
    /\ held' = NoUnit
    /\ eos' = FALSE
    /\ dpc' = "stream"
    /\ UNCHANGED <<streamVars, newStream, codec, look,
                   ostate, readp, trackStart, trackStarted, due, played, started>>

DecodeStep == \/ LookStream \/ LookOutput \/ NotRan
              \/ CodecInput \/ CodecTrackStart \/ CodecWrite

------------------------------------------------------------------------------
(* Called by the controller; each is one D region *)

\* Mutant: D is not taken.
decode_flush_unlocked ==
    /\ dstate' = "DECODE_STOPPED"
    /\ UNCHANGED <<newStream, codec, dpc, look, held, eos>>

decode_flush ==
    /\ ~HoldsD
    /\ dstate' = "DECODE_STOPPED"
    /\ UNCHANGED <<newStream, codec, dpc, look, held, eos>>

\* An unknown format leaves the decoder stopped, with the codec it had.
codec_open(known) ==
    /\ ~HoldsD
    /\ newStream' = TRUE
    /\ dstate' = IF known THEN "DECODE_READY" ELSE "DECODE_STOPPED"
    /\ codec' = (codec \/ known)
    /\ UNCHANGED <<dpc, look, held, eos>>
=============================================================================
