------------------------------- MODULE Fades -------------------------------
(****************************************************************************)
(* output.c between outputbuf and the device: track starts, the delay at a    *)
(* change of rate, fades, crossfades and replay gains. OutputThread has the    *)
(* same function for whole units; here outputbuf is memory, pointers are       *)
(* offsets in it, and a period is taken apart into the steps of its loop.      *)
(*                                                                            *)
(* A frame is two samples, a sample <<k, j>> is the j-th of track k. The rate  *)
(* of a track is rates[k], its replay gain k. O is held from the start of a    *)
(* period to its end and is one step of the others.                            *)
(****************************************************************************)
EXTENDS Integers, Sequences, FiniteSets

CONSTANTS Slots,        \* frames in outputbuf, OUTPUTBUF_SIZE
          CrossSlots,   \* OUTPUTBUF_SIZE_CROSSFADE
          Rest,         \* samples a crossfade leaves of outputbuf, its last 10%
          Tracks,       \* tracks played one after the other
          Lengths,      \* their frames
          Rates, DefaultRate,
          FadeModes,    \* transitions the server asks for
          FadeFrames,   \* fade_secs in frames
          Delay,        \* half of rate_delay in frames, or 0
          Period,       \* frames the device takes at once
          Android,      \* the build's pointers into outputbuf wrap in time
          Ops           \* "flush": 'f' is sent; "process": samples may be resampled

BPF  == 2
NULL == -1
Modes == {"NONE", "CROSSFADE", "IN", "OUT", "INOUT"}

ASSUME FadesAssumption ==
    /\ Slots \in Nat \ {0, 1} /\ CrossSlots \in Nat /\ CrossSlots >= Slots
    /\ Rest \in 1 .. BPF * Slots - 1 /\ Tracks \in Nat \ {0}
    /\ Lengths \subseteq Nat \ {0} /\ FadeModes \subseteq Modes
    /\ DefaultRate \in Rates /\ Android \in BOOLEAN
    /\ FadeFrames \in Nat /\ Delay \in Nat /\ Period \in Nat \ {0}
    /\ Ops \subseteq {"flush", "process"}

VARIABLES mem, readp, writep, slots,                            \* outputbuf
          state, track_start, rate, next_rate, replay_gain,     \* output
          next_replay_gain, delay_active, pause_frames,
          fade, fade_mode, fade_dir, fade_start, fade_end,
          pc, size, cont, mixp, gain,                           \* _output_frames
          track, phase, left,                                   \* the decoder
          rates, len,           \* history: rate and samples of each track
          heard,                \* history: the last sample that was played
          mixed,                \* history: samples of the next track mixed in
          told,                 \* history: starts reported and not yet heard
          odd                   \* history: what the properties except, see Odd

buffer  == <<mem, readp, writep, slots>>
starts  == <<state, track_start, rate, replay_gain, delay_active, pause_frames>>
wanted  == <<next_rate, next_replay_gain, fade_mode>>
fades   == <<fade, fade_dir, fade_start, fade_end>>
period  == <<pc, size, cont, mixp, gain>>
decoder == <<track, phase, left, rates, len>>
history == <<heard, mixed, told>>
vars    == <<buffer, starts, wanted, fades, period, decoder, history, odd>>

Least(a, b) == IF a < b THEN a ELSE b

Size      == BPF * slots
Used      == IF writep >= readp THEN writep - readp ELSE Size - (readp - writep)
ContFrom(p) == IF writep >= p THEN writep - p ELSE Size - p
ContRead  == ContFrom(readp)
ContWrite == IF writep >= readp THEN Size - writep ELSE readp - writep

Wrapped(p)   == IF p >= Size THEN p - Size ELSE p
Unwrapped(p) == IF p < 0 THEN p + Size ELSE p

\* What lies at an offset; after the end of outputbuf is foreign memory.
Foreign == <<0, 0>>
At(p)   == IF p < Size THEN mem[p] ELSE Foreign

\* Ways in which the code loses its place:
\* "abandoned": a crossfade ended early, with too little left to mix in
\* "overrun":   after a crossfade cont_frames or size goes beyond what is left
\* "changed":   's' arrives before a crossfade is complete, or changes the mode of a fade
\* "resized":   the memory of track_start was given back
\* "flushed":   a flush of a track that a fade was due for
\* "dropped":   process.c found no room in outputbuf for a while (see Process)
Odd(what, occurs) == odd' = IF occurs THEN odd \cup {what} ELSE odd

Init ==
    /\ slots = Slots /\ mem = [p \in 0 .. BPF * Slots - 1 |-> Foreign]
    /\ readp = 0 /\ writep = 0
    /\ state = "BUFFER" /\ track_start = NULL
    /\ rates \in [1 .. Tracks -> Rates]
    /\ rate = DefaultRate /\ next_rate = DefaultRate
    /\ replay_gain = 0 /\ next_replay_gain = 0
    /\ delay_active = FALSE /\ pause_frames = 0
    /\ fade = "INACTIVE" /\ fade_mode = "NONE" /\ fade_dir = "UP"
    /\ fade_start = NULL /\ fade_end = NULL
    /\ pc = "idle" /\ size = 0 /\ cont = 0 /\ mixp = NULL /\ gain = 0
    /\ track = 0 /\ phase = "ended" /\ left = 0
    /\ len = [k \in 1 .. Tracks |-> 0]
    /\ heard = Foreign /\ mixed = 0
    /\ told = 0 /\ odd = {}

------------------------------------------------------------------------------
(* _checkfade *)

Due(dir, from, to) == /\ fade' = "DUE" /\ fade_dir' = dir
                      /\ fade_start' = from /\ fade_end' = to

FadeIn ==
    LET n == Least((IF fade_mode = "INOUT" THEN FadeFrames \div 2 ELSE FadeFrames) * BPF,
                   Size - BPF)
    IN  Due("UP", writep, Wrapped(writep + n))

FadeOut ==
    LET n == Least(Used, (IF fade_mode = "INOUT" THEN FadeFrames \div 2 ELSE FadeFrames) * BPF)
    IN  Due("DOWN", Unwrapped(writep - n), writep)

\* Mutant: what a crossfade leaves is not a multiple of a frame.
OverlapUnaligned == Least(Least(FadeFrames * BPF, Used), Rest + 1)
\* At most what is left of the old track, and 90% of the buffer.
Overlap == Least(Least(FadeFrames * BPF, Used), Size - Rest)

\* The new memory may lie where the old did.
Resize == /\ slots' = CrossSlots
          /\ mem' = [p \in 0 .. BPF * CrossSlots - 1 |-> Foreign]
          /\ readp' = 0 /\ writep' = 0

------------------------------------------------------------------------------
(* The decoder and the commands *)

\* 's' for the next track, once the one before has started to play.
StrmStart ==
    /\ pc = "idle" /\ phase = "ended" /\ track < Tracks /\ track_start = NULL
    /\ track' = track + 1 /\ phase' = "opened"
    /\ left' \in Lengths
    /\ next_replay_gain' = track'
    /\ fade_mode' \in FadeModes
    /\ Odd("changed", fade # "INACTIVE" /\ (fade_dir = "CROSS" \/ fade_mode' # fade_mode))
    /\ UNCHANGED <<buffer, starts, next_rate, fades, period, rates, len, history>>

\* A codec that sets track_start before decode_newstream, which gives up O while
\* the resampler is made.
EarlyTrackStart ==
    /\ "process" \in Ops
    /\ pc = "idle" /\ phase = "opened"
    /\ track_start' = writep
    /\ phase' = "processing"
    /\ UNCHANGED <<buffer, state, rate, replay_gain, delay_active, pause_frames, wanted,
                   fades, period, track, left, rates, len, history, odd>>

\* next_sample_rate, the track start, and _checkfade(true).
NewTrack ==
    /\ pc = "idle" /\ phase \in {"opened", "processing"}
    /\ phase' = "running"
    /\ next_rate' = rates[track]
    /\ LET start == IF phase = "opened" THEN writep ELSE track_start
           in     == fade_mode = "IN" \/ (fade_mode = "INOUT" /\ Used = 0)
           cross  == fade_mode = "CROSSFADE" /\ Used # 0 /\ next_rate' = rate
           grow   == fade_mode = "CROSSFADE" /\ Used = 0 /\ slots = Slots /\ readp = 0
       IN  \/ /\ in /\ FadeIn
              /\ track_start' = start
              /\ UNCHANGED <<buffer, odd>>
           \/ /\ cross /\ Due("CROSS", Unwrapped(writep - Overlap), writep)
              /\ track_start' = fade_start'
              /\ UNCHANGED <<buffer, odd>>
           \/ /\ grow /\ Resize
              /\ \E elsewhere \in BOOLEAN :
                    /\ track_start' = IF elsewhere THEN BPF * CrossSlots ELSE start
                    /\ Odd("resized", elsewhere)
              /\ UNCHANGED fades
           \/ /\ ~in /\ ~cross /\ ~grow
              /\ track_start' = start
              /\ UNCHANGED <<buffer, fades, odd>>
    /\ UNCHANGED <<state, rate, replay_gain, delay_active, pause_frames, next_replay_gain,
                   fade_mode, period, track, left, rates, len, history>>

Write ==
    /\ pc = "idle" /\ phase = "running" /\ left > 0
    /\ \E n \in 1 .. Least(left, Least(Size - Used - 1, ContWrite) \div BPF) :
          /\ mem' = [p \in DOMAIN mem |-> IF p \in writep .. writep + BPF * n - 1
                                          THEN <<track, len[track] + p - writep>> ELSE mem[p]]
          /\ writep' = Wrapped(writep + BPF * n)
          /\ len' = [len EXCEPT ![track] = @ + BPF * n]
          /\ left' = left - n
    /\ UNCHANGED <<readp, slots, starts, wanted, fades, period, track, phase, rates, history, odd>>

\* decode_thread, at the end of the track: _checkfade(false).
EndTrack ==
    /\ pc = "idle" /\ phase = "running" /\ left = 0
    /\ phase' = "ended"
    /\ IF fade_mode \in {"OUT", "INOUT"} THEN FadeOut ELSE UNCHANGED fades
    /\ UNCHANGED <<buffer, starts, wanted, period, track, left, rates, len, history, odd>>

\* 'f': decode_flush and output_flush_streaming, which cuts off what has not
\* started. In decode_newstream the decoder holds D.
FlushStreaming ==
    /\ "flush" \in Ops
    /\ pc = "idle"
    /\ phase \in {"opened", "running"} \/ (phase = "ended" /\ track_start # NULL)
    /\ phase' = "ended" /\ left' = 0
    /\ IF track_start = NULL THEN UNCHANGED <<writep, track_start, len>>
       ELSE /\ writep' = track_start
            /\ track_start' = NULL
            /\ len' = [len EXCEPT ![track] = 0]
    /\ Odd("flushed", fade # "INACTIVE" /\ phase # "opened")
    /\ UNCHANGED <<mem, readp, slots, state, rate, replay_gain, delay_active, pause_frames,
                   wanted, fades, period, track, rates, history>>

------------------------------------------------------------------------------
(* _output_frames *)

\* The state at the start of a period; periods of silence change nothing else.
PeriodBegins ==
    /\ pc = "idle"
    /\ LET frames == Used \div BPF
           waits  == state = "PAUSE_FRAMES" /\ pause_frames > 0
           plays  == ~waits /\ frames > 0
       IN  /\ state' = IF ~waits /\ (state = "PAUSE_FRAMES" \/ frames > 0)
                       THEN "RUNNING" ELSE state
           /\ pause_frames' = IF waits THEN pause_frames - Least(Period, pause_frames)
                              ELSE pause_frames
           /\ gain' = replay_gain
           /\ IF plays THEN pc' = "start" /\ size' \in {Least(frames, avail) : avail \in 1 .. Period}
              ELSE UNCHANGED <<pc, size>>
    /\ UNCHANGED <<buffer, track_start, rate, replay_gain, delay_active, wanted, fades, cont,
                   mixp, decoder, history, odd>>

Pauses(active) == /\ state' = "PAUSE_FRAMES"
                  /\ pause_frames' = Delay
                  /\ delay_active' = active

\* The frames before the track start are played first.
UpTo(p, n) == IF p > readp THEN Least(n, (p - readp) \div BPF) ELSE n

\* The period ends; its locals are gone.
Ends == pc' = "idle" /\ size' = 0 /\ cont' = 0 /\ mixp' = NULL /\ gain' = 0

\* Mutant: a chunk goes on over a track start.
BeforeTrackStartWhole ==
    /\ pc = "start" /\ track_start # readp
    /\ cont' = ContRead \div BPF
    /\ pc' = "fade"
    /\ UNCHANGED <<buffer, starts, wanted, fades, size, mixp, gain, decoder, history, odd>>
BeforeTrackStart ==
    /\ pc = "start" /\ track_start # readp
    /\ cont' = IF track_start = NULL THEN ContRead \div BPF
               ELSE UpTo(track_start, ContRead \div BPF)
    /\ pc' = "fade"
    /\ UNCHANGED <<buffer, starts, wanted, fades, size, mixp, gain, decoder, history, odd>>

\* Half of the delay in front of the new rate; the start comes after it.
DelayStarts ==
    /\ pc = "start" /\ track_start = readp
    /\ rate # next_rate /\ Delay > 0 /\ ~delay_active
    /\ Pauses(TRUE)
    /\ Ends
    /\ UNCHANGED <<buffer, track_start, rate, replay_gain, wanted, fades, decoder, history, odd>>

TrackStarts ==
    /\ pc = "start" /\ track_start = readp
    /\ IF rate # next_rate /\ Delay > 0
       THEN delay_active /\ Pauses(FALSE)
       ELSE UNCHANGED <<state, pause_frames, delay_active>>
    /\ rate' = next_rate
    /\ replay_gain' = IF fade = "INACTIVE" \/ fade_mode # "CROSSFADE"
                      THEN next_replay_gain ELSE replay_gain
    /\ track_start' = NULL
    /\ told' = told + 1
    /\ Ends
    /\ UNCHANGED <<buffer, wanted, fades, decoder, heard, mixed, odd>>

\* Position in the fade and its length, in frames.
Position == Unwrapped(readp - fade_start) \div BPF
Duration == Unwrapped(fade_end - fade_start) \div BPF

Reached == fade = "ACTIVE" \/ (fade = "DUE" /\ fade_start = readp)

\* No fade, or one that starts later.
NoFadeYet ==
    /\ pc = "fade" /\ ~Reached
    /\ cont' = IF fade = "DUE" THEN UpTo(fade_start, cont) ELSE cont
    /\ mixp' = NULL
    /\ pc' = "write"
    /\ UNCHANGED <<buffer, starts, wanted, fades, size, gain, decoder, history, odd>>

\* In a fade the volume is changed, up to its end.
FadeGoesOn ==
    /\ pc = "fade" /\ Reached /\ Position < Duration /\ fade_dir # "CROSS"
    /\ fade' = "ACTIVE"
    /\ cont' = UpTo(fade_end, cont)
    /\ mixp' = NULL
    /\ pc' = "write"
    /\ UNCHANGED <<buffer, starts, wanted, fade_dir, fade_start, fade_end, size, gain,
                   decoder, history, odd>>

\* Mutant: every chunk of a crossfade is mixed with the first frames.
MixFromEnd == fade_end
\* What is mixed in lies as far behind the end of the fade as readp behind its start.
MixFrom == LET p == fade_end + Position * BPF IN IF Android THEN Wrapped(p) ELSE p

\* In a crossfade the start of the new track is added, if enough of it is there.
CrossGoesOn ==
    /\ pc = "fade" /\ Reached /\ Position < Duration /\ fade_dir = "CROSS"
    /\ cont' = UpTo(fade_end, cont)
    /\ IF Used \div BPF > Duration + size
       THEN /\ fade' = "ACTIVE"
            /\ mixp' = MixFrom
            /\ gain' = 0
            /\ UNCHANGED odd
       ELSE /\ fade' = "INACTIVE"
            /\ mixp' = NULL
            /\ Odd("abandoned", TRUE)
            /\ UNCHANGED gain
    /\ pc' = "write"
    /\ UNCHANGED <<buffer, starts, wanted, fade_dir, fade_start, fade_end, size,
                   decoder, history>>

\* Down is complete, and up again as long.
FadeTurns ==
    /\ pc = "fade" /\ Reached /\ Position >= Duration
    /\ fade_mode = "INOUT" /\ fade_dir = "DOWN"
    /\ fade' = "ACTIVE" /\ fade_dir' = "UP"
    /\ fade_start' = readp
    /\ fade_end' = Wrapped(readp + Duration * BPF)
    /\ cont' = UpTo(fade_end', cont)
    /\ mixp' = NULL
    /\ pc' = "write"
    /\ UNCHANGED <<buffer, starts, wanted, size, gain, decoder, history, odd>>

\* The frames that were mixed in are passed over. `cont' and `size' are from
\* before: they may go beyond what is left.
CrossCompletes ==
    /\ pc = "fade" /\ Reached /\ Position >= Duration
    /\ fade_mode = "CROSSFADE"
    /\ fade' = "INACTIVE"
    /\ replay_gain' = next_replay_gain
    /\ mixp' = NULL
    /\ pc' = "write"
    /\ IF Used >= Duration * BPF
       THEN /\ readp' = Wrapped(readp + Duration * BPF)
            /\ Odd("overrun", Least(size, cont) * BPF > ContFrom(readp'))
       ELSE UNCHANGED <<readp, odd>>
    /\ UNCHANGED <<mem, writep, slots, state, track_start, rate, delay_active, pause_frames,
                   wanted, fade_dir, fade_start, fade_end, size, cont, gain, decoder, history>>

FadeCompletes ==
    /\ pc = "fade" /\ Reached /\ Position >= Duration
    /\ fade_mode # "CROSSFADE" /\ ~(fade_mode = "INOUT" /\ fade_dir = "DOWN")
    /\ fade' = "INACTIVE"
    /\ mixp' = NULL
    /\ pc' = "write"
    /\ UNCHANGED <<buffer, starts, wanted, fade_dir, fade_start, fade_end, size, cont, gain,
                   decoder, history, odd>>

\* _apply_cross: but for Android the pointer to what is mixed in wraps one sample
\* late.
Late(p)  == p = Size /\ ~Android
MixAt(p) == IF Late(p) THEN Foreign ELSE At(Wrapped(p))

\* n samples for the device, and those that are mixed in.
Main(n) == [i \in 1 .. n |-> At(readp + i - 1)]
Mix(n)  == IF mixp = NULL THEN << >> ELSE [i \in 1 .. n |-> MixAt(mixp + i - 1)]

\* The first chunk with samples of another track, played or mixed in.
Begins == mixed = 0 /\ (At(readp)[1] # heard[1] \/ mixp # NULL)

\* write_cb takes a chunk or a part of it, and readp follows.
WriteChunk ==
    /\ pc = "write"
    /\ LET out == Least(size, cont)
       IN  \/ /\ out = 0
              /\ Ends
              /\ UNCHANGED <<readp, history>>
           \/ \E w \in {1, out} :
              /\ out > 0
              /\ heard' = At(readp + w * BPF - 1)
              /\ mixed' = IF mixp # NULL THEN mixed + w * BPF
                          ELSE IF heard'[1] # heard[1] THEN 0 ELSE mixed
              /\ told' = IF Begins /\ told > 0 THEN told - 1 ELSE told
              /\ readp' = Wrapped(readp + w * BPF)
              /\ IF size = w THEN Ends
                 ELSE /\ pc' = "start" /\ size' = size - w /\ cont' = 0
                      /\ UNCHANGED <<mixp, gain>>
    /\ UNCHANGED <<mem, writep, slots, starts, wanted, fades, decoder, odd>>

OutputStep == \/ PeriodBegins
              \/ BeforeTrackStart \/ DelayStarts \/ TrackStarts
              \/ NoFadeYet \/ FadeGoesOn \/ CrossGoesOn
              \/ FadeTurns \/ CrossCompletes \/ FadeCompletes
              \/ WriteChunk

\* writep in memory that was freed: nothing more can be said.
Lost == writep >= Size

------------------------------------------------------------------------------
(* Properties *)

Offsets == 0 .. Size - 1

\* Pointers are inside outputbuf, counts within a period.
TypeOK ==
    /\ readp \in Offsets /\ (writep \in Offsets \/ Lost)
    /\ DOMAIN mem = Offsets
    /\ track_start \in Offsets \cup {NULL, BPF * CrossSlots}
    /\ fade = "INACTIVE" \/ (fade_start \in Offsets /\ fade_end \in Offsets)
    /\ size \in 0 .. Period /\ cont \in 0 .. CrossSlots /\ pause_frames \in 0 .. Delay

Plays == pc = "write" /\ readp' # readp
Count == BPF * (size - size')

Excepted(these) == odd' \cap these # {}

\* Track k comes next after j: those in between were flushed.
NextTrack(j, k) == j < k /\ \A i \in j + 1 .. k - 1 : len[i] = 0

\* t is the sample after s: the next one of the track, or after its last one the
\* first one of the next track that was not mixed in.
Follows(s, t) ==
    \/ t = <<s[1], s[2] + 1>>
    \/ /\ NextTrack(s[1], t[1]) /\ t[2] = mixed
       /\ s = Foreign \/ s[2] = len[s[1]] - 1

\* _output_frames plays every sample of a track once and in order, then those of
\* the next track, less what was mixed in: no chunk goes beyond the end of a track
\* or of a fade, into unread memory, or twice over the same frames.  What a crossfade
\* mixes in is the start of the next track, each sample once and in order, except
\* the one where _apply_cross wraps late.
PlayedInOrder ==
    [][Plays => LET run == <<heard>> \o Main(Count)
                    mix == Mix(Count)
                IN  \/ Excepted({"abandoned", "changed", "flushed", "dropped"})
                    \/ /\ \/ \A i \in 1 .. Len(run) - 1 : Follows(run[i], run[i + 1])
                          \/ Excepted({"overrun"})
                       /\ \A i \in DOMAIN mix :
                             \/ NextTrack(At(readp)[1], mix[i][1]) /\ mix[i][2] = mixed + i - 1
                             \/ Late(mixp + i - 1)]_vars

\* Before the first sample of a track is heard its start was reported, and every
\* sample is played while output.current_sample_rate is the rate of its track,
\* though decode_newstream gives O up after some codecs set track_start. When no
\* crossfade is under way, a period starts with the replay gain of the track that it
\* plays ("retaining old value until crossfade completes").
StartReported ==
    [][\/ Excepted({"abandoned", "overrun", "changed", "flushed", "resized"})
       \/ /\ Plays => /\ Begins => told > 0
                       /\ \A i \in 1 .. Count : rate = rates[Main(Count)[i][1]]
          /\ PeriodBegins /\ pc' = "start" /\ fade = "INACTIVE" /\ track_start # readp
                => gain' = At(readp)[1]]_vars
=============================================================================
