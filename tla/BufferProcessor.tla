--------------------------- MODULE BufferProcessor ---------------------------
(****************************************************************************)
(* pa_process.c: what PortAudio on Android puts between the buffers of the    *)
(* host and the callback (or Pa_WriteStream) of the player. It converts the    *)
(* format, changes the layout, and cuts the host's buffers, of whatever size,  *)
(* into the buffers the user asked for.                                        *)
(*                                                                            *)
(* Buffers are memory: functions from addresses to samples. Sample <<t, f, x>>  *)
(* is channel x of frame f in format t, f = 0 is silence. Frames are numbered   *)
(* in the order in which the host records and the user makes them. A loop of    *)
(* the code is taken apart into its iterations.                                *)
(****************************************************************************)
EXTENDS Converters, FiniteSets

CONSTANTS Configs,      \* streams: see Config
          Unknown,      \* PA_FRAMES_PER_TEMP_BUFFER_WHEN_HOST_BUFFER_SIZE_IS_UNKNOWN_
          MaxHost       \* frames of the largest host buffer without a bound

\* Channels in and out, frames per user and per host buffer, the host's buffer size
\* mode, the layouts, the user's format, those the host has and the flags, channels of
\* the host that the user does not have, and a callback or blocking calls. Bounds of the exploration: the
\* host stops to ask after so many frames, and starts the stream again so many times.
Config == [cin : Nat, cout : Nat, user : Nat, host : Nat \ {0},
           mode : {"fixed", "bounded", "unknown", "partial"},
           userInter : BOOLEAN, hostInter : BOOLEAN,
           format : Format, available : SUBSET Format \ {{}}, flags : Flags,
           wider : Nat, callback : BOOLEAN, frames : Nat, resets : Nat]

ASSUME ConfigsAssumption ==
    /\ Configs \subseteq Config
    /\ \A s \in Configs : s.cin + s.cout > 0
    /\ Unknown \in Nat \ {0} /\ MaxHost \in Nat

VARIABLES c,                    \* the configuration
          tin, inT,             \* tempInputBuffer, framesInTempInputBuffer
          tout, outT,           \* tempOutputBuffer, framesInTempOutputBuffer
          hin, hout,            \* hostInputChannels, hostInputFrameCount: two sets
          noInput,              \* PaUtil_SetNoInput
          result,               \* streamCallbackResult
          adc, dac,             \* timeInfo, in frames of the stream
          pc, in, out, go, done,\* where EndBufferProcessing is
          ub,                   \* the user's buffer of a blocking call
          seen,                 \* history: what the last callback was given
          taken, made,          \* history: frames given to and made by the user
          base, zeroed,         \* history: frames the host did before this buffer
          resets

temps   == <<tin, inT, tout, outT>>
hosts   == <<hin, hout, noInput>>
times   == <<adc, dac>>
loop    == <<pc, in, out, go, done>>
history == <<seen, taken, made, base, zeroed, resets>>
vars    == <<c, temps, hosts, result, times, loop, ub, history>>

Least(a, b) == IF a < b THEN a ELSE b
Chans(n) == 0 .. n - 1

Duplex == c.cin > 0 /\ c.cout > 0
HostFormat == c.hostFormat
UserFormat == c.format
Junk == <<"junk", 0, 0>>
Silence(t) == <<t, 0, 0>>
NoData == [count |-> 0, size |-> 0, mem |-> <<>>, ptr |-> <<>>]
NoBuffer == [kind |-> "none", count |-> 0]
Nothing == [frames |-> <<>>]

-----------------------------------------------------------------------------
(* PaUtil_InitializeBufferProcessor *)

NonAdapting(s) == IF s.user = 0 THEN TRUE ELSE s.mode = "fixed" /\ s.host % s.user = 0

TempFrames(s) == IF s.user # 0 THEN s.user
                 ELSE IF s.mode \in {"fixed", "bounded"} THEN s.host ELSE Unknown

LCM(m, n) == CHOOSE l \in 1 .. m * n :
                /\ l % m = 0 /\ l % n = 0
                /\ \A k \in 1 .. l - 1 : k % m # 0 \/ k % n # 0

\* Mutant: one host buffer's worth.
FrameShiftOfOne(m, n) == m % n

CalculateFrameShift(m, n) ==
    LET shifts == {0} \cup {(i * m) % n : i \in 1 .. (LCM(m, n) \div m) - 1}
    IN  CHOOSE r \in shifts : \A k \in shifts : k <= r

\* Frames of silence in the temporary buffers at the start.
Adapts(s) == ~NonAdapting(s) /\ s.cin > 0 /\ s.cout > 0
InitialIn(s) ==
    IF Adapts(s) /\ s.mode = "fixed" /\ s.user > s.host
    THEN CalculateFrameShift(s.host, s.user) ELSE 0
InitialOut(s) ==
    IF ~Adapts(s) \/ (s.mode = "fixed" /\ s.user > s.host) THEN 0
    ELSE IF s.mode = "fixed" THEN CalculateFrameShift(s.host, s.user) ELSE s.user

\* The memory is zero, which is silence in every format but UInt8.
TempBuffer(s, chans) == [a \in 0 .. TempFrames(s) * chans - 1 |-> Silence(s.format)]

\* Dither is turned off for input that is only padded.
InputFlags == IF HostFormat = "Int32" /\ UserFormat = "Int24"
              THEN c.flags \cup {"paDitherOff"} ELSE c.flags

\* A host API opens the stream with the format it has that is closest.
Opened(s) ==
    [f \in DOMAIN s \cup {"hostFormat"} |->
        IF f = "hostFormat" THEN SelectClosestAvailableFormat(s.available, s.format) ELSE s[f]]

Init ==
    /\ \E s \in Configs : c = Opened(s)
    /\ tin = TempBuffer(c, c.cin) /\ inT = InitialIn(c)
    /\ tout = TempBuffer(c, c.cout) /\ outT = InitialOut(c)
    /\ hin = <<NoData, NoData>> /\ hout = <<NoData, NoData>> /\ noInput = FALSE
    /\ result = "continue" /\ adc = 0 /\ dac = 0
    /\ pc = "idle" /\ in = 1 /\ out = 1 /\ go = 0 /\ done = 0
    /\ ub = NoBuffer
    /\ seen = Nothing /\ taken = 0 /\ made = 0 /\ base = 0 /\ zeroed = FALSE
    /\ resets = 0

-----------------------------------------------------------------------------
(* Memory: pointers per channel, a stride, and the converters and zeroers *)

Ptrs(inter, chans, frames, skip) ==
    [x \in Chans(chans) |-> IF inter THEN skip * chans + x ELSE x * frames + skip]
Stride(inter, chans) == IF inter THEN chans ELSE 1

UserPtrs(chans, frames, skip) == Ptrs(c.userInter, chans, frames, skip)
UserStride(chans) == Stride(c.userInter, chans)
HostStride(chans) == Stride(c.hostInter, chans + c.wider)

Advanced(ptr, n, stride) == [x \in DOMAIN ptr |-> ptr[x] + n * stride]

\* dst with n frames written at dp; Value(k, x) is the sample of frame k.
Written(dst, dp, stride, n, Value(_, _)) ==
    LET at == {<<k, x>> : k \in 0 .. n - 1, x \in DOMAIN dp}
        address(p) == dp[p[2]] + p[1] * stride
        hit == {address(p) : p \in at}
    IN  [a \in DOMAIN dst \cup hit |->
            IF a \in hit THEN LET p == CHOOSE q \in at : address(q) = a IN Value(p[1], p[2])
            ELSE dst[a]]

Converted(t, dst, dp, ds, src, sp, ss, n) ==
    LET value(k, x) == LET s == src[sp[x] + k * ss] IN <<t, s[2], s[3]>>
    IN  Written(dst, dp, ds, n, value)
Zeroed(t, dst, dp, ds, n) ==
    LET value(k, x) == Silence(t) IN Written(dst, dp, ds, n, value)

-----------------------------------------------------------------------------
(* The user: the callback, which may end or abort the stream *)

Frames(mem, ptr, stride, n) ==
    [k \in 1 .. n |-> [x \in DOMAIN ptr |-> mem[ptr[x] + (k - 1) * stride]]]

Makes(dst, dp, stride, n) ==
    LET value(k, x) == <<UserFormat, made + k + 1, x>>
    IN  Written(dst, dp, stride, n, value)

Callback(frames, n, r) ==
    /\ result = "continue"
    /\ seen' = [frames |-> frames, at |-> taken, made |-> made, adc |-> adc, dac |-> dac,
                blank |-> noInput]
    /\ taken' = taken + n
    /\ made' = IF r = "abort" THEN made ELSE made + n
    /\ result' = r

-----------------------------------------------------------------------------
(* The host hands its buffers over: PaUtil_BeginBufferProcessing, PaUtil_Set*   *)
(* and PaUtil_EndBufferProcessing up to its first loop                          *)

HostFrames ==
    CASE c.mode = "fixed"   -> {c.host}
      [] c.mode = "bounded" -> 1 .. c.host
      [] OTHER              -> 1 .. MaxHost

HostArea(chans, n) == 0 .. n * (IF c.hostInter THEN chans + c.wider ELSE chans) - 1

\* n frames from frame `first` on, as PaUtil_SetInterleaved*Channels and
\* PaUtil_SetNonInterleaved*Channel describe them.
HostSet(chans, n, first, filled) ==
    LET wide == chans + c.wider
        sample(a) == LET x == IF c.hostInter THEN a % wide ELSE a \div n
                         k == IF c.hostInter THEN a \div wide ELSE a % n
                     IN  IF x < chans THEN <<HostFormat, first + k, x>> ELSE Junk
    IN  [count |-> n, size |-> n, ptr |-> Ptrs(c.hostInter, chans, n, 0),
         mem |-> [a \in HostArea(chans, n) |-> IF filled THEN sample(a) ELSE Junk]]

Sets(chans, n, split, filled) ==
    IF chans = 0 THEN <<NoData, NoData>>
    ELSE << HostSet(chans, split, base + 1, filled),
            IF split = n THEN NoData ELSE HostSet(chans, n - split, base + split + 1, filled) >>

Begin ==
    /\ pc = "idle" /\ c.callback /\ base < c.frames
    /\ \E n \in HostFrames : \E i, o \in 1 .. n, none \in BOOLEAN :
          /\ c.cin = 0 => i = n
          /\ c.cout = 0 => o = n
          /\ c.mode = "fixed" => i = n /\ o = n
          /\ none => Duplex /\ NonAdapting(c) /\ i = n
          /\ hin' = Sets(c.cin, n, i, TRUE) /\ hout' = Sets(c.cout, n, o, FALSE)
          /\ noInput' = none
          /\ go' = IF ~NonAdapting(c) /\ Duplex THEN n ELSE 0
    /\ adc' = base - inT /\ dac' = base + outT
    /\ pc' = IF ~NonAdapting(c) /\ Duplex THEN "copy" ELSE "splice"
    /\ done' = 0 /\ seen' = Nothing /\ zeroed' = FALSE
    /\ UNCHANGED <<c, temps, result, in, out, ub, taken, made, base, resets>>

Ends == pc' = "idle" /\ base' = base + done

\* The next pair of buffers, as long as the shorter of them: both of the duplex loop,
\* or the first and then the second of the one direction there is.
Set(h) == IF h[1].count # 0 THEN 1 ELSE 2

Splice ==
    /\ pc = "splice"
    /\ LET i == Set(hin)
           o == Set(hout)
           hasIn == c.cin > 0 /\ ~noInput
           n == IF ~hasIn THEN hout[o].count
                ELSE IF c.cout = 0 THEN hin[i].count
                ELSE Least(hin[i].count, hout[o].count)
       IN  /\ in' = i /\ out' = o /\ go' = n /\ done' = done + n
           /\ hin' = IF hasIn THEN [hin EXCEPT ![i].count = @ - n] ELSE hin
           /\ hout' = IF c.cout > 0 THEN [hout EXCEPT ![o].count = @ - n] ELSE hout
           /\ IF n = 0 THEN Ends
              ELSE /\ pc' = IF NonAdapting(c) THEN IF result = "continue" THEN "block" ELSE "rest"
                            ELSE IF c.cin > 0 THEN "input" ELSE "output"
                   /\ UNCHANGED base
    /\ UNCHANGED <<c, temps, noInput, result, times, ub, seen, taken, made, zeroed, resets>>

-----------------------------------------------------------------------------
(* NonAdaptingProcess *)

\* The user works in the host's memory when format and layout agree.
Direct(chans) ==
    /\ UserFormat = HostFormat
    /\ IF c.userInter THEN c.hostInter /\ chans = HostStride(chans) ELSE ~c.hostInter

UserInput(n) ==
    LET h == hin[in]
        dp == UserPtrs(c.cin, n, 0)
        ds == UserStride(c.cin)
    IN  IF noInput
        THEN [mem |-> Zeroed(UserFormat, tin, dp, ds, n), ptr |-> dp, stride |-> ds]
        ELSE IF Direct(c.cin)
        THEN [mem |-> h.mem, ptr |-> h.ptr, stride |-> HostStride(c.cin)]
        ELSE [mem |-> Converted(UserFormat, tin, dp, ds, h.mem, h.ptr, HostStride(c.cin), n),
              ptr |-> dp, stride |-> ds]

\* What the user made goes to the host, unless it is there already.
Delivers(n, r) ==
    LET h == hout[out]
        hp == h.ptr
        hs == HostStride(c.cout)
        up == UserPtrs(c.cout, n, 0)
        us == UserStride(c.cout)
        moved == Advanced(h.ptr, n, hs)
    IN  IF Direct(c.cout)
        THEN /\ hout' = [hout EXCEPT ![out].mem = Makes(@, hp, hs, n),
                                     ![out].ptr = IF r = "abort" THEN @ ELSE moved]
             /\ UNCHANGED tout
        ELSE /\ tout' = Makes(tout, up, us, n)
             /\ hout' = IF r = "abort" THEN hout
                        ELSE [hout EXCEPT
                                ![out].mem = Converted(HostFormat, @, hp, hs, tout', up, us, n),
                                ![out].ptr = moved]

NonAdaptingBlock(r) ==
    /\ pc = "block"
    /\ LET n == Least(TempFrames(c), go)
           u == UserInput(n)
       IN  /\ IF c.cin = 0
              THEN Callback(<<>>, n, r) /\ UNCHANGED <<tin, hin>>
              ELSE /\ Callback(Frames(u.mem, u.ptr, u.stride, n), n, r)
                   /\ tin' = IF ~noInput /\ Direct(c.cin) THEN tin ELSE u.mem
                   /\ hin' = IF noInput THEN hin
                             ELSE [hin EXCEPT ![in].ptr = Advanced(@, n, HostStride(c.cin))]
           /\ IF c.cout = 0 THEN UNCHANGED <<tout, hout>> ELSE Delivers(n, r)
           /\ IF r = "abort" THEN UNCHANGED <<go, times>>
              ELSE go' = go - n /\ adc' = adc + n /\ dac' = dac + n
    /\ pc' = IF go' = 0 THEN "splice" ELSE IF r = "continue" THEN "block" ELSE "rest"
    /\ UNCHANGED <<c, inT, outT, noInput, in, out, done, ub, base, zeroed, resets>>

ZeroRest ==
    /\ pc = "rest"
    /\ hout' = IF c.cout = 0 THEN hout
               ELSE [hout EXCEPT
                       ![out].mem = Zeroed(HostFormat, @, hout[out].ptr, HostStride(c.cout), go),
                       ![out].ptr = Advanced(@, go, HostStride(c.cout))]
    /\ pc' = "splice" /\ go' = 0
    /\ UNCHANGED <<c, temps, hin, noInput, result, times, in, out, done, ub, history>>

-----------------------------------------------------------------------------
(* AdaptingInputOnlyProcess and AdaptingOutputOnlyProcess *)

\* n frames of a host input set behind what is in tempInputBuffer.
Gathers(h, n) ==
    Converted(UserFormat, tin, UserPtrs(c.cin, c.user, inT), UserStride(c.cin),
              h.mem, h.ptr, HostStride(c.cin), n)

InputFull(r) ==
    /\ Callback(Frames(tin', UserPtrs(c.cin, c.user, 0), UserStride(c.cin), c.user), c.user, r)
    /\ adc' = adc + c.user /\ dac' = 0

AdaptingInput(r) ==
    /\ pc = "input"
    /\ LET n == IF inT + go > c.user THEN c.user - inT ELSE go
       IN  /\ tin' = Gathers(hin[in], n)
           /\ hin' = [hin EXCEPT ![in].ptr = Advanced(@, n, HostStride(c.cin))]
           /\ inT' = (inT + n) % c.user
           /\ go' = go - n
    /\ IF inT' = 0 /\ result = "continue" THEN InputFull(r)
       ELSE r = result /\ UNCHANGED <<seen, taken, made, result, times>>
    /\ pc' = IF go' = 0 THEN "splice" ELSE "input"
    /\ UNCHANGED <<c, tout, outT, hout, noInput, in, out, done, ub, base, zeroed, resets>>

\* A full buffer of the user.
OutputMade(r) ==
    /\ Callback(<<>>, c.user, r)
    /\ tout' = Makes(tout, UserPtrs(c.cout, c.user, 0), UserStride(c.cout), c.user)

\* n of the last `held` frames of tempOutputBuffer to a host output set.
Spends(t, h, held, n) ==
    [h EXCEPT !.mem = Converted(HostFormat, @, h.ptr, HostStride(c.cout), t,
                                UserPtrs(c.cout, c.user, c.user - held), UserStride(c.cout), n),
              !.ptr = Advanced(@, n, HostStride(c.cout))]

Silences(h, n) ==
    [h EXCEPT !.mem = Zeroed(HostFormat, @, h.ptr, HostStride(c.cout), n),
              !.ptr = Advanced(@, n, HostStride(c.cout))]

AdaptingOutput(r) ==
    /\ pc = "output"
    /\ IF outT = 0 /\ result = "continue"
       THEN OutputMade(r) /\ dac' = IF r = "abort" THEN dac ELSE dac + c.user
       ELSE r = result /\ UNCHANGED <<seen, taken, made, result, tout, dac>>
    /\ LET held == IF outT = 0 /\ result = "continue" /\ r # "abort" THEN c.user ELSE outT
           n == IF held > 0 THEN Least(held, go) ELSE go
       IN  /\ hout' = [hout EXCEPT ![out] = IF held > 0 THEN Spends(tout', @, held, n)
                                            ELSE Silences(@, n)]
           /\ outT' = IF held > 0 THEN held - n ELSE 0
           /\ go' = go - n
    /\ adc' = IF outT = 0 /\ result = "continue" THEN 0 ELSE adc
    /\ pc' = IF go' = 0 THEN "splice" ELSE "output"
    /\ UNCHANGED <<c, tin, inT, hin, noInput, in, out, done, ub, base, zeroed, resets>>

-----------------------------------------------------------------------------
(* AdaptingProcess *)

Count(h) == h[1].count + h[2].count
MustCopy == outT > 0 /\ Count(hout) > 0
MustFill == inT < c.user /\ Count(hin) > 0

CopyTempOutputBuffersToHostOutputBuffers ==
    /\ pc = "copy" /\ MustCopy
    /\ LET w == Set(hout)
           n == Least(hout[w].count, outT)
       IN  /\ hout' = [hout EXCEPT ![w] = [Spends(tout, hout[w], outT, n) EXCEPT
                                         !.count = hout[w].count - n]]
           /\ outT' = outT - n
    /\ UNCHANGED <<c, tin, inT, tout, hin, noInput, result, times, loop, ub, history>>

\* Partial user buffers are left to the host where it allows it.
EndProcessingMinFrameCount == IF c.mode = "partial" THEN c.user - 1 ELSE 0

\* Another user buffer. When the callback will not be called any more, what remains of
\* the host's output is silent.
AdaptingMore ==
    /\ pc = "copy" /\ ~MustCopy /\ go > EndProcessingMinFrameCount
    /\ hout' = IF outT # 0 \/ result = "continue" THEN hout
               ELSE [w \in 1 .. 2 |->
                        IF hout[w].count = 0 THEN hout[w]
                        ELSE [Silences(hout[w], hout[w].count) EXCEPT !.count = 0]]
    /\ pc' = "fill"
    /\ UNCHANGED <<c, temps, hin, noInput, result, times, in, out, go, done, ub, history>>

FillTempInputBuffer ==
    /\ pc = "fill" /\ MustFill
    /\ LET w == Set(hin)
           n == Least(hin[w].count, c.user - inT)
       IN  /\ tin' = Gathers(hin[w], n)
           /\ hin' = [hin EXCEPT ![w].count = @ - n,
                                 ![w].ptr = Advanced(@, n, HostStride(c.cin))]
           /\ inT' = inT + n /\ go' = go - n /\ done' = done + n
    /\ UNCHANGED <<c, tout, outT, hout, noInput, result, times, pc, in, out, ub, history>>

\* Mutant: the times of the host buffer for all its callbacks.
AdaptingCallsAtOnce(r) ==
    /\ Callback(Frames(tin, UserPtrs(c.cin, c.user, 0), UserStride(c.cin), c.user), c.user, r)
    /\ tout' = Makes(tout, UserPtrs(c.cout, c.user, 0), UserStride(c.cout), c.user)
    /\ outT' = IF r = "abort" THEN 0 ELSE c.user
    /\ UNCHANGED times

AdaptingCalls(r) ==
    /\ Callback(Frames(tin, UserPtrs(c.cin, c.user, 0), UserStride(c.cin), c.user), c.user, r)
    /\ tout' = Makes(tout, UserPtrs(c.cout, c.user, 0), UserStride(c.cout), c.user)
    /\ outT' = IF r = "abort" THEN 0 ELSE c.user
    /\ adc' = adc + c.user /\ dac' = dac + c.user

\* Mutant: input nobody will take stays.
InputTakenWhileRunning == inT = c.user /\ outT = 0 /\ result = "continue"

\* A full input buffer is given to the callback, or dropped when it will not be called.
InputTaken == inT = c.user /\ outT = 0

AdaptingCallback(r) ==
    /\ pc = "fill" /\ ~MustFill
    /\ inT' = IF InputTaken THEN 0 ELSE inT
    /\ IF inT = c.user /\ outT = 0 /\ result = "continue" THEN AdaptingCalls(r)
       ELSE r = result /\ UNCHANGED <<seen, taken, made, result, tout, outT, times>>
    /\ pc' = "copy"
    /\ UNCHANGED <<c, tin, hosts, in, out, go, done, ub, base, zeroed, resets>>

AdaptingDone ==
    /\ pc = "copy" /\ ~MustCopy /\ go <= EndProcessingMinFrameCount
    /\ Ends /\ go' = 0
    /\ UNCHANGED <<c, temps, hosts, result, times, in, out, done, ub,
                   seen, taken, made, zeroed, resets>>

-----------------------------------------------------------------------------
(* PaUtil_CopyOutput, PaUtil_ZeroOutput and PaUtil_CopyInput, each after         *)
(* PaUtil_Set*FrameCount, as pa_process.h asks for: blocking streams             *)

UserBuffer(kind, chans, n, first) ==
    LET sample(a) == LET x == IF c.userInter THEN a % chans ELSE a \div n
                         k == IF c.userInter THEN a \div chans ELSE a % n
                     IN  <<UserFormat, first + k, x>>
    IN  [kind |-> kind, count |-> n, size |-> n, ptr |-> UserPtrs(chans, n, 0),
         mem |-> [a \in 0 .. n * chans - 1 |-> IF kind = "write" THEN sample(a) ELSE Junk]]

Blocks ==
    /\ pc = "idle" /\ ~c.callback /\ ub.count = 0 /\ base + taken < c.frames
    /\ \E n \in 1 .. MaxHost :
          \/ c.cout > 0 /\ ub' = UserBuffer("write", c.cout, n, made + 1)
          \/ c.cin > 0 /\ ub' = UserBuffer("read", c.cin, n, 0)
    /\ done' = 0 /\ seen' = Nothing
    /\ UNCHANGED <<c, temps, hosts, result, times, pc, in, out, go, taken, made, base, zeroed, resets>>

Spent(n, chans) ==
    [ub EXCEPT !.count = @ - n, !.ptr = Advanced(@, n, UserStride(chans))]

PaUtil_CopyOutput(k) ==
    /\ pc = "idle" /\ ub.kind = "write" /\ ub.count > 0
    /\ LET n == Least(k, ub.count)
           h == HostSet(c.cout, k, 0, FALSE)
       IN  /\ hout' = << [h EXCEPT !.mem = Converted(HostFormat, @, h.ptr, HostStride(c.cout),
                                                     ub.mem, ub.ptr, UserStride(c.cout), n),
                                   !.ptr = Advanced(@, n, HostStride(c.cout)),
                                   !.count = @ + n],
                         NoData >>
           /\ ub' = Spent(n, c.cout)
           /\ done' = n /\ base' = base + n /\ made' = made + n /\ zeroed' = FALSE
    /\ UNCHANGED <<c, temps, hin, noInput, result, times, pc, in, out, go, seen, taken, resets>>

PaUtil_ZeroOutput(k) ==
    /\ pc = "idle" /\ ~c.callback /\ c.cout > 0 /\ ~zeroed
    /\ hout' = << [Silences(HostSet(c.cout, k, 0, FALSE), k) EXCEPT !.count = @ + k], NoData >>
    /\ done' = k /\ zeroed' = TRUE
    /\ UNCHANGED <<c, temps, hin, noInput, result, times, pc, in, out, go, ub,
                   seen, taken, made, base, resets>>

PaUtil_CopyInput(k) ==
    /\ pc = "idle" /\ ub.kind = "read" /\ ub.count > 0
    /\ LET n == Least(k, ub.count)
           h == HostSet(c.cin, k, taken + 1, TRUE)
           filled == Converted(UserFormat, ub.mem, ub.ptr, UserStride(c.cin),
                               h.mem, h.ptr, HostStride(c.cin), n)
       IN  /\ hin' = << [h EXCEPT !.ptr = Advanced(@, n, HostStride(c.cin)), !.count = @ - n],
                        NoData >>
           /\ ub' = [Spent(n, c.cin) EXCEPT !.mem = filled]
           /\ taken' = taken + n
           /\ seen' = IF n < ub.count THEN seen
                      ELSE [frames |-> Frames(filled, UserPtrs(c.cin, ub.size, 0),
                                              UserStride(c.cin), ub.size),
                            at |-> taken' - ub.size, made |-> made, adc |-> 0, dac |-> 0,
                            blank |-> FALSE]
    /\ UNCHANGED <<c, temps, hout, noInput, result, times, loop, made, base, zeroed, resets>>

-----------------------------------------------------------------------------

\* Pa_StopStream and Pa_StartStream.
PaUtil_ResetBufferProcessor ==
    /\ pc = "idle" /\ ub.count = 0 /\ resets < c.resets
    /\ inT' = InitialIn(c) /\ outT' = InitialOut(c)
    /\ tin' = IF inT' > 0 THEN TempBuffer(c, c.cin) ELSE tin
    /\ tout' = IF outT' > 0 THEN TempBuffer(c, c.cout) ELSE tout
    /\ result' = "continue" /\ resets' = resets + 1
    /\ hin' = <<NoData, NoData>> /\ hout' = <<NoData, NoData>> /\ ub' = NoBuffer
    /\ done' = 0 /\ seen' = Nothing /\ taken' = 0 /\ made' = 0 /\ base' = 0 /\ zeroed' = FALSE
    /\ UNCHANGED <<c, noInput, times, pc, in, out, go>>

Results == {"continue", "complete", "abort"}

EndBufferProcessing ==
    \/ Splice \/ ZeroRest
    \/ CopyTempOutputBuffersToHostOutputBuffers \/ FillTempInputBuffer
    \/ AdaptingMore \/ AdaptingDone
    \/ \E r \in Results : \/ NonAdaptingBlock(r) \/ AdaptingCallback(r)
                          \/ AdaptingInput(r) \/ AdaptingOutput(r)

Blocking ==
    \/ Blocks
    \/ \E k \in 1 .. MaxHost : PaUtil_CopyOutput(k) \/ PaUtil_ZeroOutput(k) \/ PaUtil_CopyInput(k)

Next == Begin \/ EndBufferProcessing \/ Blocking \/ PaUtil_ResetBufferProcessor

Spec == Init /\ [][Next]_vars /\ WF_vars(EndBufferProcessing)

-----------------------------------------------------------------------------
(* Properties *)

HostSample(h, k, x) ==
    h.mem[IF c.hostInter THEN k * HostStride(c.cout) + x ELSE x * h.size + k]

\* In full duplex the buffer in which the callback aborts is not silenced to its end.
Excepted(f) == result = "abort" /\ Adapts(c) /\ f > made

\* The user gets the frames the host recorded, each once, in order, whole and in its own
\* format, after the silence of the latency, and always as many as it asked for, however
\* the host cuts its buffers; nothing else is ever among them. And the host gets what the
\* user made, all of it, each frame once, in order and in its own format, after the silence
\* of the latency; a buffer is filled to its end, with silence only when the user ended the
\* stream, and not written past its end.
FramesInOrder ==
    /\ c.cin > 0 /\ seen # Nothing =>
        /\ c.callback /\ c.user > 0 => DOMAIN seen.frames = 1 .. c.user
        /\ \A k \in DOMAIN seen.frames, x \in Chans(c.cin) :
              LET f == seen.at + k - IF c.callback THEN InitialIn(c) ELSE 0
              IN  seen.frames[k][x] = IF f <= 0 \/ seen.blank THEN Silence(UserFormat)
                                      ELSE <<UserFormat, f, x>>
    /\ pc = "idle" /\ c.cout > 0 =>
        /\ \A w \in 1 .. 2 : hout[w].size > 0 => DOMAIN hout[w].mem = HostArea(c.cout, hout[w].size)
        /\ \A q \in 1 .. done, x \in Chans(c.cout) :
              LET first == q <= hout[1].size
                  s == IF first THEN HostSample(hout[1], q - 1, x)
                       ELSE HostSample(hout[2], q - 1 - hout[1].size, x)
                  f == base - done + q - IF c.callback THEN InitialOut(c) ELSE 0
              IN  IF zeroed \/ f <= 0 THEN s = Silence(HostFormat)
                  ELSE IF f <= made THEN s = <<HostFormat, f, x>>
                  ELSE Excepted(f) \/ (result # "continue" /\ s = Silence(HostFormat))

\* The times the callback is told are those at which the first frame it gets was recorded
\* and the first it makes will be played.
TimesAreTrue ==
    c.callback /\ seen # Nothing =>
        /\ c.cin > 0 => seen.adc = seen.at - InitialIn(c)
        /\ c.cout > 0 => seen.dac = seen.made + InitialOut(c)

\* Both ways the samples of a stream mean the same in the other format, and the zeroers
\* write silence. The host's format is the user's if it has it, and else no worse than
\* need be. Excepted: dithered output of Int32 as Int24, which is not implemented.
FormatsKept ==
    pc = "idle" /\ base = 0 /\ resets = 0 =>
        /\ Faithful(HostFormat, UserFormat, InputFlags)
        /\ \/ UserFormat = "Int32" /\ HostFormat = "Int24" /\ "paDitherOff" \notin c.flags
           \/ Faithful(UserFormat, HostFormat, c.flags)
        /\ UserFormat \in c.available => HostFormat = UserFormat
        /\ \A t \in c.available : Bytes(t) >= Bytes(UserFormat) => Bytes(HostFormat) >= Bytes(UserFormat)

\* However the buffers lie, a host buffer is done with after a while.
Returns == pc # "idle" ~> pc = "idle"
=============================================================================
