---------------------------- MODULE DevicesProofs ----------------------------
(***************************************************************************)
(* The outputs: a frame is played by an open device at the rate of its     *)
(* track, and no thread uses a handle that another step has closed.        *)
(*                                                                         *)
(* Both rest on what is common to all outputs, the order of rates in       *)
(* outputbuf (QueueInv): up to the track start frames are of tracks with   *)
(* current_sample_rate, behind it of one with next_sample_rate.  AlsaInv,  *)
(* PulseInv and PaInv are about the devices.                               *)
(***************************************************************************)
EXTENDS Devices, SequenceTheorems, TLAPS

USE DeviceAssumption, AlsaAssumption, PortAudioAssumption
    DEF DeviceAssumption, AlsaAssumption, PortAudioAssumption

------------------------------------------------------------------------------
(* outputbuf, the decoder and the controller *)

States == {"OFF", "STOPPED", "BUFFER", "RUNNING"}

\* The rate at which a frame at place i was decoded, when output is as in o.
RateAt(o, i) == IF o.start = 0 \/ i < o.start THEN o.rate ELSE next_sample_rate

\* outputbuf, and the track that is still being decoded behind it.
InOrder(o) ==
    /\ o.state \in States /\ o.rate \in Rates
    /\ o.buf \in Seq(1 .. Tracks) /\ o.start \in 0 .. Len(o.buf)
    /\ \A i \in 1 .. Len(o.buf) : rates[o.buf[i]] = RateAt(o, i)
    /\ left \in 1 .. Frames - 1 => rates[track] = RateAt(o, o.start)
    /\ (autostart \/ left = Frames) => o.start = 0

DecoderTypes ==
    /\ rates \in [1 .. Tracks -> Rates] /\ next_sample_rate \in Rates
    /\ track \in 0 .. Tracks /\ left \in 0 .. Frames
    /\ (left > 0 \/ autostart) => track > 0
    /\ autostart => left = 0

QueueInv == InOrder(Now) /\ DecoderTypes

LEMMA QueueInit == DeviceInit => QueueInv
<1> SUFFICES ASSUME DeviceInit PROVE QueueInv
    OBVIOUS
<1>1. /\ rates \in [1 .. Tracks -> Rates] /\ state \in States /\ buf = << >> /\ track_start = 0
      /\ current_sample_rate = DefaultRate /\ next_sample_rate = DefaultRate
      /\ track = 0 /\ left = 0 /\ ~autostart
    BY DEF DeviceInit, States
<1>2. InOrder(Now)
    BY <1>1 DEF InOrder, Now, RateAt, States
<1> QED
    BY <1>1, <1>2 DEF QueueInv, DecoderTypes

\* One call of _output_frames: what it takes from outputbuf is at most what lies before
\* the track start, and the order of rates is kept.
LEMMA OutputKeepsOrder ==
    ASSUME NEW o, InOrder(o), NEW avail \in Nat, DecoderTypes
    PROVE  LET r == OutputFrames(o, avail)
           IN  /\ InOrder(r) /\ r.wrote \in 0 .. avail
               /\ Len(r.buf) <= Len(o.buf)
               /\ r.state = "RUNNING" \/ r.buf = o.buf
               /\ \A i \in 1 .. Len(o.buf) - Len(r.buf) : o.start = 0 \/ i < o.start
               /\ r.rate \in {o.rate, next_sample_rate}
               /\ r.rate # o.rate => o.start # 0
<1> DEFINE s == IF o.state = "BUFFER" /\ o.buf # << >> THEN "RUNNING" ELSE o.state
           n == Least(Len(o.buf), avail)
           m == IF o.start = 0 THEN n ELSE Least(n, o.start - 1)
           begins == o.start # 0 /\ m < n
           r == OutputFrames(o, avail)
<1>1. /\ o.buf \in Seq(1 .. Tracks) /\ Len(o.buf) \in Nat /\ o.start \in 0 .. Len(o.buf)
      /\ o.state \in States /\ o.rate \in Rates /\ s \in States
    BY DEF InOrder, States
<1>2. /\ n \in 0 .. avail /\ n <= Len(o.buf) /\ m \in 0 .. n
      /\ o.start = 0 \/ m < o.start
      /\ o.start # 0 /\ m < n => m = o.start - 1
    BY <1>1 DEF Least
<1> HIDE DEF n, m
<1>3. CASE s # "RUNNING" \/ n = 0
  <2>1. r = [o EXCEPT !.state = s, !.wrote = avail]
      BY <1>3 DEF OutputFrames, n
  <2> QED
      BY <2>1, <1>1 DEF InOrder, RateAt
<1>4. CASE s = "RUNNING" /\ n # 0
  <2> DEFINE rest == SubSeq(o.buf, m + 1, Len(o.buf))
  <2>1. r = [state |-> s, buf |-> rest,
             start |-> IF begins \/ o.start = 0 THEN 0 ELSE o.start - m,
             rate |-> IF begins THEN next_sample_rate ELSE o.rate, wrote |-> m]
      BY <1>4 DEF OutputFrames, n, m
  <2>2. /\ rest \in Seq(1 .. Tracks) /\ Len(rest) = Len(o.buf) - m
        /\ \A i \in 1 .. Len(rest) : rest[i] = o.buf[i + m]
      BY <1>1, <1>2, SMT
  <2> HIDE DEF rest
  <2>3. ASSUME NEW i \in 1 .. Len(rest)
        PROVE  i + m \in 1 .. Len(o.buf) /\ rates[rest[i]] = RateAt(o, i + m)
    <3>1. i + m \in 1 .. Len(o.buf)
        BY <2>2, <1>1, <1>2
    <3>2. rates[o.buf[i + m]] = RateAt(o, i + m)
        BY <3>1 DEF InOrder
    <3> QED
        BY <3>1, <3>2, <2>2
  <2>a. /\ m \in Nat /\ o.start \in Nat /\ Len(o.buf) \in Nat /\ o.start <= Len(o.buf)
        /\ m <= Len(o.buf) /\ Len(rest) \in Nat
      BY <1>1, <1>2, <2>2
  <2>b. o.start = 0 \/ m < o.start
      BY <1>2
  <2>c. Len(rest) = Len(o.buf) - m
      BY <2>2
  <2>d. r.buf = rest /\ r.wrote = m /\ r.state = "RUNNING"
      BY <2>1, <1>4
  <2>e. /\ \A i \in 1 .. Len(o.buf) - Len(r.buf) : o.start = 0 \/ i < o.start
        /\ Len(r.buf) <= Len(o.buf) /\ r.wrote \in 0 .. avail
    <3> HIDE DEF r
    <3>1. m \in 0 .. avail
        BY <1>2
    <3> QED
        BY <3>1, <2>a, <2>b, <2>c, <2>d
  <2>f. ASSUME r.start \in 0 .. Len(rest), r.rate \in {o.rate, next_sample_rate},
               r.rate # o.rate => o.start # 0, o.start = 0 => r.start = 0,
               \A i \in 1 .. Len(rest) : RateAt(o, i + m) = RateAt(r, i),
               RateAt(r, r.start) = RateAt(o, o.start)
        PROVE  /\ InOrder(r) /\ r.rate \in {o.rate, next_sample_rate}
               /\ r.rate # o.rate => o.start # 0
    <3> HIDE DEF r
    <3>1. \A i \in 1 .. Len(r.buf) : rates[r.buf[i]] = RateAt(r, i)
        BY <2>f, <2>3, <2>d
    <3>2. r.state \in States /\ r.rate \in Rates /\ r.buf \in Seq(1 .. Tracks) /\ r.start \in 0 .. Len(r.buf)
        BY <2>f, <2>d, <2>2, <1>1 DEF DecoderTypes, States
    <3>3. /\ left \in 1 .. Frames - 1 => rates[track] = RateAt(r, r.start)
          /\ (autostart \/ left = Frames) => r.start = 0
        BY <2>f DEF InOrder
    <3> QED
        BY <3>1, <3>2, <3>3, <2>f DEF InOrder
  <2>4. CASE begins
    <3>1. r.start = 0 /\ r.rate = next_sample_rate
        BY <2>1, <2>4
    <3>2. o.start = m + 1
        BY <2>4, <1>2, <2>a
    <3> HIDE DEF r
    <3>3. \A i \in 1 .. Len(rest) : RateAt(o, i + m) = RateAt(r, i)
        BY <3>1, <3>2, <2>a DEF RateAt
    <3>4. RateAt(r, r.start) = RateAt(o, o.start)
        BY <3>1, <3>2, <2>a DEF RateAt
    <3>5. r.start \in 0 .. Len(rest) /\ o.start # 0
        BY <3>1, <3>2, <2>a
    <3> QED
        BY <3>1, <3>3, <3>4, <3>5, <2>f, <2>d, <2>e DEF r
  <2>5. CASE ~begins
    <3>1. r.start = (IF o.start = 0 THEN 0 ELSE o.start - m) /\ r.rate = o.rate
        BY <2>1, <2>5
    <3> HIDE DEF r
    <3>2. ASSUME NEW i \in 1 .. Len(rest) PROVE RateAt(o, i + m) = RateAt(r, i)
        BY <3>1, <2>a, <2>b DEF RateAt
    <3>3. r.start \in 0 .. Len(rest) /\ (o.start = 0 => r.start = 0)
        BY <3>1, <2>a, <2>b, <2>c
    <3>4. RateAt(r, r.start) = RateAt(o, o.start)
        BY <3>1, <2>a, <2>b DEF RateAt
    <3> QED
        BY <3>1, <3>2, <3>3, <3>4, <2>f, <2>d, <2>e DEF r
  <2> QED
      BY <2>4, <2>5
<1> QED
    BY <1>1, <1>3, <1>4 DEF States

\* The calls of PortAudio's callback.
LEMMA CallbackKeepsOrder ==
    ASSUME QueueInv
    PROVE  LET r == CallbackFrames(Now, Block)
           IN  InOrder(r) /\ Len(r.buf) <= Len(buf)
<1> DEFINE first  == OutputFrames(Now, Block)
           rest   == Block - first.wrote
           second == OutputFrames(first, rest)
           third  == OutputFrames(second, rest - second.wrote)
<1> HIDE DEF first, second, third
<1>1. InOrder(first) /\ rest \in Nat /\ Len(first.buf) <= Len(buf)
    BY OutputKeepsOrder DEF QueueInv, first, Now
<1>2. InOrder(second) /\ rest - second.wrote \in Nat /\ Len(second.buf) <= Len(first.buf)
    BY <1>1, OutputKeepsOrder DEF QueueInv, second
<1>3. InOrder(third) /\ Len(third.buf) <= Len(second.buf)
    BY <1>2, OutputKeepsOrder DEF QueueInv, third
<1>4. Len(first.buf) \in Nat /\ Len(second.buf) \in Nat /\ Len(third.buf) \in Nat /\ Len(buf) \in Nat
    BY <1>1, <1>2, <1>3 DEF InOrder, QueueInv, Now
<1>5. CallbackFrames(Now, Block) \in {first, second, third}
    BY DEF CallbackFrames, first, second, third
<1> QED
    BY <1>1, <1>2, <1>3, <1>4, <1>5

(* The steps *)

Unchanged == UNCHANGED <<next_sample_rate, left, autostart, track, rates>>

LEMMA BecomesInOrder ==
    ASSUME NEW o, InOrder(o), Becomes(o), Unchanged
    PROVE  InOrder(Now)'
BY DEF InOrder, Now, Becomes, Unchanged, RateAt

LEMMA WriteInOrder == ASSUME QueueInv, WriteFrame PROVE QueueInv'
<1>1. /\ left \in 1 .. Frames /\ track \in 1 .. Tracks /\ left' = left - 1 /\ buf' = Append(buf, track)
      /\ buf \in Seq(1 .. Tracks) /\ track_start \in 0 .. Len(buf) /\ rates[track] \in Rates
      /\ ~autostart /\ UNCHANGED <<state, current_sample_rate, autostart, track, rates>>
    BY DEF QueueInv, DecoderTypes, WriteFrame, InOrder, Now, fixed, decoder
<1>2. /\ buf' \in Seq(1 .. Tracks) /\ Len(buf') = Len(buf) + 1 /\ Len(buf) \in Nat
      /\ buf'[Len(buf) + 1] = track /\ \A i \in 1 .. Len(buf) : buf'[i] = buf[i]
    BY <1>1
<1>3. \A i \in 1 .. Len(buf) : rates[buf[i]] = RateAt(Now, i)
    BY DEF QueueInv, InOrder, Now
<1>4. CASE left = Frames
  <2>1. track_start = 0 /\ track_start' = Len(buf) + 1 /\ next_sample_rate' = rates[track]
      BY <1>4 DEF QueueInv, InOrder, Now, WriteFrame
  <2>2. \A i \in 1 .. Len(buf') : rates'[buf'[i]] = RateAt(Now, i)'
      BY <2>1, <1>1, <1>2, <1>3 DEF RateAt, Now
  <2> QED
      BY <2>1, <2>2, <1>1, <1>2 DEF QueueInv, DecoderTypes, InOrder, Now, RateAt
<1>5. CASE left # Frames
  <2>1. UNCHANGED <<track_start, next_sample_rate>> /\ left \in 1 .. Frames - 1
      BY <1>5, <1>1 DEF WriteFrame
  <2>2. rates[track] = RateAt(Now, track_start)
      BY <2>1 DEF QueueInv, InOrder, Now
  <2>3. \A i \in 1 .. Len(buf') : rates'[buf'[i]] = RateAt(Now, i)'
      BY <2>1, <2>2, <1>1, <1>2, <1>3 DEF RateAt, Now
  <2> QED
      BY <2>1, <2>2, <2>3, <1>1, <1>2 DEF QueueInv, DecoderTypes, InOrder, Now, RateAt
<1> QED
    BY <1>4, <1>5

LEMMA TickInOrder ==
    ASSUME QueueInv, TickEnds, UNCHANGED <<current_sample_rate, next_sample_rate, track_start, buf,
                                           track, rates>>
    PROVE  QueueInv'
<1>1. state' \in States
    BY DEF TickEnds, TickStates, QueueInv, InOrder, Now, States
<1>2. left' \in {left, Frames} /\ ~autostart' /\ (left' # left => autostart /\ left' = Frames)
    BY DEF TickEnds, QueueInv, DecoderTypes
<1> QED
    BY <1>1, <1>2 DEF QueueInv, InOrder, Now, RateAt, DecoderTypes, TickEnds

LEMMA CommandInOrder == ASSUME QueueInv, StrmStart \/ Flush \/ Aude PROVE QueueInv'
<1>1. CASE StrmStart
    BY <1>1 DEF StrmStart, QueueInv, InOrder, Now, RateAt, DecoderTypes, output, fixed
<1>2. CASE Flush
  <2>1. buf' = << >> /\ track_start' = 0 /\ left' = 0 /\ ~autostart' /\ state' \in States
        /\ current_sample_rate' \in Rates
      BY <1>2 DEF Flush, QueueInv, InOrder, Now, States
  <2> QED
      BY <1>2, <2>1 DEF Flush, QueueInv, InOrder, Now, RateAt, DecoderTypes, fixed
<1>3. CASE Aude
    BY <1>3 DEF Aude, QueueInv, InOrder, Now, RateAt, DecoderTypes, fixed, decoder, States
<1> QED
    BY <1>1, <1>2, <1>3

\* What leaves outputbuf and the decoder alone.
LEMMA OthersInOrder ==
    ASSUME QueueInv, state' \in States,
           UNCHANGED <<buf, track_start, current_sample_rate, next_sample_rate, decoder, rates>>
    PROVE  QueueInv'
BY DEF QueueInv, InOrder, Now, RateAt, DecoderTypes, decoder

LEMMA QuietInOrder == QueueInv /\ Quiet => QueueInv'
<1> SUFFICES ASSUME QueueInv, Quiet PROVE QueueInv'
    OBVIOUS
<1>1. state' \in States
    BY DEF QueueInv, InOrder, Now, Quiet, deviceVars, output
<1> QED
    BY <1>1, OthersInOrder DEF Quiet, deviceVars, output, fixed

LEMMA PlaysInOrder ==
    ASSUME QueueInv, NEW avail \in Nat, Becomes(OutputFrames(Now, avail)),
           UNCHANGED <<next_sample_rate, decoder, rates>>
    PROVE  /\ QueueInv'
           /\ \A i \in 1 .. Played : i \in 1 .. Len(buf) /\ rates[buf[i]] = current_sample_rate
           /\ current_sample_rate' \in {current_sample_rate, next_sample_rate}
<1> DEFINE r == OutputFrames(Now, avail)
<1>1. /\ InOrder(r) /\ Len(r.buf) <= Len(buf) /\ r.rate \in {current_sample_rate, next_sample_rate}
      /\ \A i \in 1 .. Len(buf) - Len(r.buf) : track_start = 0 \/ i < track_start
    BY OutputKeepsOrder DEF QueueInv, Now
<1>2. QueueInv'
  <2>1. InOrder(Now)'
      BY <1>1, BecomesInOrder DEF Unchanged, decoder
  <2>2. DecoderTypes'
      BY DEF QueueInv, DecoderTypes, decoder
  <2> QED
      BY <2>1, <2>2 DEF QueueInv
<1>3. r.buf = buf' /\ r.rate = current_sample_rate'
    BY DEF Becomes
<1> HIDE DEF r
<1>4. /\ Len(buf) \in Nat /\ Len(buf') \in Nat
      /\ \A i \in 1 .. Len(buf) : rates[buf[i]] = RateAt(Now, i)
    BY <1>1, <1>3 DEF QueueInv, InOrder, Now
<1>5. ASSUME NEW i \in 1 .. Played
      PROVE  i \in 1 .. Len(buf) /\ rates[buf[i]] = current_sample_rate
  <2>1. i \in 1 .. Len(buf) - Len(buf') /\ i \in 1 .. Len(buf)
      BY <1>4 DEF Played
  <2> QED
      BY <2>1, <1>1, <1>3, <1>4 DEF RateAt, Now
<1> QED
    BY <1>1, <1>2, <1>3, <1>5

------------------------------------------------------------------------------
(* ALSA: a pcm is read and written only while it is open at current_sample_rate. A rate  *)
(* of 0 stands for a pcm that failed to open; only the flush of an output that failed to *)
(* open changes the rate under the thread.                                              *)

AtWork == apc \in {"query", "avail", "play"}

AlsaInv ==
    /\ pcmp \in {"null", "open", "closed"} /\ (pcmp = "closed" => arate = 0)
    /\ AtWork => pcmp = "open" /\ arate # 0
    /\ kind = "alsa" => /\ arate # 0 => ~error_opening
                        /\ AtWork => arate = current_sample_rate

LEMMA TopNotAtWork == ASSUME Goto(Top) PROVE ~AtWork'
BY DEF Goto, Top, AtWork

LEMMA AlsaKept ==
    ASSUME AlsaInv, UNCHANGED <<apc, pcmp, arate, kind>>,
           kind = "alsa" => UNCHANGED error_opening /\
                            (current_sample_rate' = current_sample_rate \/ error_opening)
    PROVE  AlsaInv'
BY DEF AlsaInv, AtWork

LEMMA AlsaStepKeeps ==
    ASSUME QueueInv, AlsaInv, AlsaStep, kind = "alsa", UNCHANGED kind
    PROVE  QueueInv' /\ AlsaInv'
<1> USE DEF AlsaInv
<1>1. current_sample_rate # 0 /\ state \in States
    BY DEF QueueInv, InOrder, Now
<1>2. CASE AlsaOff \/ AlsaProbe
    BY <1>2, QuietInOrder, TopNotAtWork
       DEF AlsaOff, AlsaProbe, Quiet, deviceVars, output, Goto, AtWork
<1>3. CASE AlsaCheck
    BY <1>3, <1>1, QuietInOrder DEF AlsaCheck, Quiet, deviceVars, output, Goto, AtWork
<1>4. CASE AlsaOpens
  <2>1. QueueInv'
      BY <1>4, <1>1, OthersInOrder DEF AlsaOpens, decoder, fixed
  <2> QED
      BY <2>1, <1>4, <1>1 DEF AlsaOpens, Goto, AtWork
<1>5. CASE AlsaOpenFails
  <2>1. QueueInv'
      BY <1>5, <1>1, OthersInOrder DEF AlsaOpenFails, decoder, fixed
  <2> QED
      BY <2>1, <1>5, TopNotAtWork DEF AlsaOpenFails
<1>6. CASE AlsaClosesTwice \/ AlsaQuery \/ AlsaGone \/ AlsaAvail \/ AlsaStart \/ AlsaWait
  <2>1. Quiet
      BY <1>6 DEF AlsaClosesTwice, AlsaQuery, AlsaGone, AlsaAvail, AlsaStart, AlsaWait
  <2>2. QueueInv' /\ UNCHANGED <<current_sample_rate, error_opening>>
      BY <2>1, QuietInOrder DEF Quiet, deviceVars, output
  <2>3. CASE AlsaClosesTwice
      BY <2>3, <2>2 DEF AlsaClosesTwice, Goto, AtWork
  <2>4. CASE AlsaQuery \/ AlsaAvail
      BY <2>4, <2>2, TopNotAtWork DEF AlsaQuery, AlsaAvail, Goto, AtWork
  <2>5. CASE AlsaGone \/ AlsaStart \/ AlsaWait
      BY <2>5, <2>2, TopNotAtWork DEF AlsaGone, AlsaStart, AlsaWait, Closed, AtWork
  <2> QED
      BY <1>6, <2>3, <2>4, <2>5
<1>7. CASE AlsaTurnsOff
    BY <1>7, QuietInOrder, TopNotAtWork
       DEF AlsaTurnsOff, Closed, Quiet, deviceVars, output, AtWork
<1>8. CASE AlsaPlays
  <2>1. QueueInv'
      BY <1>8, PlaysInOrder DEF AlsaPlays, fixed
  <2> QED
      BY <1>8, <2>1, TopNotAtWork DEF AlsaPlays
<1>9. CASE AlsaDelayFails
    BY <1>9, QuietInOrder, TopNotAtWork DEF AlsaDelayFails, Quiet, deviceVars, output
<1>10. CASE AlsaWriteFails
  <2>1. state' \in States
      BY <1>10, OutputKeepsOrder DEF AlsaWriteFails, QueueInv, InOrder
  <2>2. QueueInv'
      BY <2>1, <1>10, OthersInOrder DEF AlsaWriteFails, decoder, fixed
  <2> QED
      BY <1>10, <2>2, TopNotAtWork DEF AlsaWriteFails, AtWork
<1> QED
    BY <1>2, <1>3, <1>4, <1>5, <1>6, <1>7, <1>8, <1>9, <1>10 DEF AlsaStep

LEMMA ExternalKeeps == QueueInv /\ (PcmPlays \/ PcmXrun) => QueueInv'
<1>1. QueueInv /\ PcmPlays => QueueInv'
    BY QuietInOrder DEF PcmPlays
<1>2. QueueInv /\ PcmXrun => QueueInv'
    BY OthersInOrder DEF PcmXrun, QueueInv, InOrder, Now, output, fixed
<1> QED
    BY <1>1, <1>2

------------------------------------------------------------------------------
(* PulseAudio: the rate of a stream follows current_sample_rate, which only the flush of *)
(* an output that failed to open changes otherwise.                                     *)

PulseInv == pstream = "ready" /\ ~error_opening => urate = current_sample_rate

LEMMA PulseStepKeeps ==
    ASSUME QueueInv, PulseInv, PulseStep \/ PulseFails
    PROVE  QueueInv' /\ PulseInv'
<1> USE DEF PulseInv
<1>1. state \in States
    BY DEF QueueInv, InOrder, Now
<1>2. CASE PulseExits \/ PulseOff \/ PulseCreates \/ PulseHas \/ PulseIterates \/ PulseFails
  <2>1. Quiet
      BY <1>2 DEF PulseExits, PulseOff, PulseCreates, PulseHas, PulseIterates, PulseFails
  <2>2. QueueInv' /\ UNCHANGED <<current_sample_rate, error_opening>>
      BY <2>1, QuietInOrder DEF Quiet, deviceVars, output
  <2> QED
      BY <2>2, <1>2 DEF PulseExits, PulseOff, PulseCreates, PulseHas, PulseIterates, PulseFails
<1>3. CASE PulseRefused
  <2>1. QueueInv'
      BY <1>3, <1>1, OthersInOrder DEF PulseRefused, decoder, fixed
  <2> QED
      BY <2>1, <1>3 DEF PulseRefused
<1>4. CASE PulsePlays
  <2>1. QueueInv' /\ current_sample_rate' \in {current_sample_rate, next_sample_rate}
      BY <1>4, PlaysInOrder DEF PulsePlays, fixed
  <2> QED
      BY <1>4, <2>1 DEF PulsePlays
<1>5. CASE PulseLoses
  <2>1. QueueInv'
      BY <1>5, PlaysInOrder DEF PulseLoses, fixed
  <2> QED
      BY <1>5, <2>1 DEF PulseLoses
<1> QED
    BY <1>2, <1>3, <1>4, <1>5 DEF PulseStep

LEMMA StdoutKeeps == QueueInv /\ StdoutStep => QueueInv'
<1>1. QueueInv /\ StdoutPlays => QueueInv'
    BY PlaysInOrder DEF StdoutPlays, fixed
<1>2. QueueInv /\ (StdoutWrites \/ PulseExits) => QueueInv'
    BY QuietInOrder DEF StdoutWrites, PulseExits
<1> QED
    BY <1>1, <1>2 DEF StdoutStep

------------------------------------------------------------------------------
(* PortAudio: a failure creates a monitor, and from the failure on, while it is watched *)
(* and until the monitor has started a stream again, no stream runs that could finish   *)
(* and send the controller into _pa_open as well. So of all threads that may be in it,  *)
(* only one has a stream to open, and those that are late have one that runs.           *)

StatusOf == {"closed", "opened", "active", "calling", "complete", "finishing", "finished"}
AtOpen == {"idle", "called", "closing", "closed", "starting", "started"}

PaTypes ==
    /\ stream \in Streams \cup {0} /\ status \in [Streams -> StatusOf]
    /\ srate \in [Streams -> Rates \cup {0}]
    /\ ppc \in [Openers -> AtOpen] /\ old \in [Openers -> Streams \cup {0}]
    /\ err \in [Openers -> BOOLEAN]
    /\ monitors \in 0 .. 1 /\ monitor \in {"none", "runs"}

Still == \A s \in Streams : status[s] \in {"closed", "opened"}
Failed(t) == ppc[t] = "started" /\ err[t]
Unstarted(t) == ppc[t] = "starting" \/ Failed(t)
Watched == monitors = 1 \/ monitor = "runs" \/ \E t \in Monitors : Unstarted(t)
Closing == ppc["controller"] \in {"closing", "closed"}
MainOpens == ppc["main"] \in {"called", "starting"} \/ Failed("main")

\* Where each thread can be, and what it knows of the stream that it closes or starts.
Calls ==
    /\ ppc["main"] \in {"idle", "called", "starting", "started"} /\ ppc["controller"] # "called"
    /\ \A t \in Monitors : ppc[t] \in {"idle", "starting", "started"}
    /\ old["main"] = 0 /\ \A t \in Monitors : old[t] = 0
    /\ IF Closing THEN old["controller"] # 0 /\ stream = 0 ELSE old["controller"] = 0
    /\ ppc["controller"] = "closed" => status[old["controller"]] = "closed"
    /\ ppc["main"] = "called" => stream = 0
    /\ \A t \in Openers : ppc[t] = "starting" => stream # 0

\* One of them opens at a time.
OneOpens ==
    /\ ppc["main"] # "idle" => /\ ~Watched /\ ppc["controller"] = "idle" /\ running
                               /\ \A t \in Monitors : ppc[t] = "idle"
    /\ ppc["controller"] # "idle" => ~Watched /\ running
    /\ \A t, u \in Monitors : Unstarted(t) /\ Unstarted(u) => t = u
    /\ (\E t \in Monitors : Unstarted(t)) => monitors = 0 /\ monitor = "none"
    /\ monitors = 1 => monitor = "none"

\* Which streams run.
OneRuns ==
    /\ Watched \/ MainOpens => ~pa_reopen
    /\ (\/ Watched \/ MainOpens
        \/ ppc["controller"] \in {"closed", "starting"} \/ Failed("controller")) => Still
    /\ \A s \in Streams : \/ status[s] \in {"closed", "opened"}
                          \/ s \in {stream, old["controller"]}
    /\ running => /\ stream # 0 => status[stream] # "closed"
                  /\ \A t \in Openers : ppc[t] = "starting" => status[stream] = "opened"

OpenInv == PaTypes /\ Calls /\ OneOpens /\ OneRuns

\* Nothing in outputbuf is from before the track start.
Fresh == (buf = << >> /\ left \in {0, Frames}) \/ track_start = 1

\* A stream runs at current_sample_rate, or a flush in between has reset that.
SameRate == prate = current_sample_rate \/ Fresh
RateInv ==
    /\ \A s \in Streams : status[s] \in {"active", "calling"} => srate[s] = prate /\ SameRate
    /\ \A t \in Openers : ppc[t] = "starting" => srate[stream] = prate /\ SameRate

PaInv == OpenInv /\ RateInv
PaIdle == stream = 0 /\ (\A s \in Streams : status[s] = "closed")
          /\ \A t \in Openers : ppc[t] # "starting"

LEMMA NamesDiffer ==
    /\ "main" \in Openers /\ "controller" \in Openers
    /\ \A m \in Monitors : m \in Openers /\ m # "main" /\ m # "controller"
    /\ \A t \in Openers : t = "main" \/ t = "controller" \/ t \in Monitors
BY DEF Openers

LEMMA NoStream == 0 \notin Streams
OBVIOUS

\* Whichever thread is in Pa_StartStream, no stream runs; and only one ever does.
LEMMA StillAtStart == ASSUME OpenInv, NEW t \in Openers, Unstarted(t) PROVE Still
BY NamesDiffer DEF OpenInv, OneRuns, Unstarted, Watched, MainOpens

LEMMA OneRunner ==
    ASSUME OpenInv, NEW s \in Streams, NEW r \in Streams,
           status[s] \notin {"closed", "opened"}, status[r] \notin {"closed", "opened"}
    PROVE  s = r
BY NoStream DEF OpenInv, OneRuns, Calls

\* What the shared steps keep.
LEMMA OpenKept == OpenInv /\ UNCHANGED <<paVars, running>> => OpenInv'
BY DEF OpenInv, PaTypes, Calls, OneOpens, OneRuns, Unstarted, Failed, Watched, Closing, MainOpens,
       Still, paVars, opener, watch

LEMMA RateKept ==
    ASSUME RateInv, SameRate => SameRate', UNCHANGED <<srate, prate>>,
           \A s \in Streams : status'[s] \in {"active", "calling"} => status[s] \in {"active", "calling"},
           \A t \in Openers : ppc'[t] = "starting" => ppc[t] = "starting" /\ stream' = stream
    PROVE  RateInv'
BY DEF RateInv

LEMMA SameKept ==
    ASSUME SameRate, UNCHANGED <<buf, left, track_start, current_sample_rate, prate>>
    PROVE  SameRate'
BY DEF SameRate, Fresh

LEMMA QuietSame == ASSUME SameRate, Quiet, UNCHANGED prate PROVE SameRate'
BY SameKept DEF Quiet, deviceVars, output, decoder

LEMMA TickSame ==
    ASSUME SameRate, TickEnds, UNCHANGED <<buf, track_start, current_sample_rate, prate>>
    PROVE  SameRate'
BY DEF SameRate, Fresh, TickEnds

LEMMA CommandSame ==
    ASSUME SameRate, StrmStart \/ Flush \/ Aude, UNCHANGED prate PROVE SameRate'
BY DEF SameRate, Fresh, StrmStart, Flush, Aude, output, decoder

LEMMA WriteSame == ASSUME QueueInv, SameRate, WriteFrame, UNCHANGED prate PROVE SameRate'
<1>1. CASE prate = current_sample_rate
    BY <1>1 DEF SameRate, WriteFrame
<1>2. CASE track_start = 1
  <2>1. left # Frames
      BY <1>2 DEF QueueInv, InOrder, Now
  <2> QED
      BY <2>1, <1>2 DEF SameRate, Fresh, WriteFrame
<1>3. CASE buf = << >> /\ left \in {0, Frames}
  <2>1. left = Frames /\ Len(buf) = 0
      BY <1>3 DEF WriteFrame
  <2> QED
      BY <2>1 DEF SameRate, Fresh, WriteFrame
<1> QED
    BY <1>1, <1>2, <1>3 DEF SameRate, Fresh

LEMMA SharedKeepsPa ==
    ASSUME QueueInv, PaInv, Shared, UNCHANGED paVars PROVE PaInv'
<1>1. UNCHANGED running
    BY DEF Shared, Tick, Commands, StrmStart, Flush, Aude, WriteFrame, Unplug, Plug
<1>2. SameRate => SameRate'
  <2>1. UNCHANGED prate
      BY DEF paVars
  <2>2. CASE Unplug \/ Plug
      BY <2>1, <2>2, SameKept DEF Unplug, Plug, output, decoder
  <2> QED
      BY <2>1, <2>2, TickSame, CommandSame, WriteSame DEF Shared, Tick, Commands
<1>3. OpenInv'
    BY <1>1, OpenKept DEF PaInv
<1> QED
    BY <1>2, <1>3, RateKept DEF PaInv, paVars, opener

(* The callbacks *)

LEMMA CallbackKeepsOpen ==
    ASSUME OpenInv, NEW s \in Streams, status[s] \notin {"closed", "opened"},
           NEW new \in StatusOf \ {"closed", "opened"}, Status(s, new),
           UNCHANGED <<stream, srate, opener, watch, running>>, pa_reopen' \in {pa_reopen, TRUE}
    PROVE  OpenInv'
<1>1. status' = [status EXCEPT ![s] = new] /\ status \in [Streams -> StatusOf]
    BY DEF Status, OpenInv, PaTypes
<1>2. ~Still
    BY DEF Still
<1>3. /\ ~Watched /\ ~MainOpens /\ ppc["controller"] \notin {"closed", "starting"}
      /\ ~Failed("controller")
    BY <1>2 DEF OpenInv, OneRuns
<1>4. UNCHANGED <<Watched, MainOpens, Closing>> /\ \A t \in Openers : UNCHANGED <<Unstarted(t), Failed(t)>>
    BY DEF Watched, MainOpens, Closing, Unstarted, Failed, opener, watch
<1>5. PaTypes'
    BY <1>1 DEF OpenInv, PaTypes, opener, watch, StatusOf
<1>6. Calls'
    BY <1>3 DEF OpenInv, Calls, Closing, opener
<1>7. OneOpens'
    BY <1>3 DEF OpenInv, OneOpens, Watched, Unstarted, Failed, opener, watch
<1>8. OneRuns'
  <2>1. \A t \in Openers : ppc[t] # "starting"
      BY <1>2, StillAtStart DEF Unstarted
  <2>2. \A r \in Streams : status'[r] = status[r] \/ r = s
      BY <1>1
  <2>3. status'[s] = new
      BY <1>1
  <2>4. /\ ~Watched' /\ ~MainOpens' /\ ppc'["controller"] \notin {"closed", "starting"}
        /\ ~Failed("controller")'
      BY <1>3 DEF Watched, MainOpens, Unstarted, Failed, opener, watch
  <2>5. \A r \in Streams : \/ status'[r] \in {"closed", "opened"}
                           \/ r \in {stream', old'["controller"]}
      BY <2>2 DEF OpenInv, OneRuns, opener
  <2>6. running' => /\ stream' # 0 => status'[stream'] # "closed"
                    /\ \A t \in Openers : ppc'[t] = "starting" => status'[stream'] = "opened"
      BY <2>1, <2>2, <2>3 DEF OpenInv, OneRuns, PaTypes, opener
  <2> QED
      BY <2>4, <2>5, <2>6 DEF OneRuns
<1> QED
    BY <1>5, <1>6, <1>7, <1>8 DEF OpenInv

LEMMA CallbacksKeepPa ==
    ASSUME QueueInv, PaInv, PaCallbacks PROVE QueueInv' /\ PaInv'
<1> USE DEF PaInv
<1>1. CASE PaCalls
  <2>1. PICK s \in Streams : status[s] = "active" /\ Status(s, "calling")
      BY <1>1 DEF PaCalls
  <2>2. Quiet /\ UNCHANGED <<stream, prate, srate, opener, pa_reopen, watch, lost>> /\ QueueInv'
      BY <1>1, QuietInOrder DEF PaCalls
  <2>3. OpenInv'
      BY <2>1, <2>2, CallbackKeepsOpen DEF StatusOf, Quiet, deviceVars
  <2>4. \A r \in Streams : status'[r] = status[r] \/ status[r] = "active"
      BY <2>1 DEF Status, OpenInv, PaTypes
  <2>5. RateInv'
      BY <2>2, <2>4, QuietSame, RateKept DEF opener
  <2> QED
      BY <2>2, <2>3, <2>5
<1>2. CASE PaCallback
  <2> DEFINE r == CallbackFrames(Now, Block)
  <2>1. PICK s \in Streams : /\ status[s] = "calling" 
                             /\ Status(s, IF state' = "OFF" \/ prate # current_sample_rate'
                                          THEN "complete" ELSE "active")
      BY <1>2 DEF PaCallback
  <2>2. /\ Becomes(r)
        /\ UNCHANGED <<next_sample_rate, decoder, running, fixed, stream, prate, srate, opener,
                       pa_reopen, watch>>
      BY <1>2 DEF PaCallback
  <2>3. InOrder(r)
      BY CallbackKeepsOrder
  <2>4. QueueInv'
    <3>1. InOrder(Now)'
        BY <2>2, <2>3, BecomesInOrder DEF Unchanged, decoder, fixed
    <3>2. DecoderTypes'
        BY <2>2 DEF QueueInv, DecoderTypes, decoder, fixed
    <3> QED
        BY <3>1, <3>2 DEF QueueInv
  <2>5. OpenInv'
    <3>1. CASE state' = "OFF" \/ prate # current_sample_rate'
        BY <3>1, <2>1, <2>2, CallbackKeepsOpen DEF StatusOf
    <3>2. CASE ~(state' = "OFF" \/ prate # current_sample_rate')
        BY <3>2, <2>1, <2>2, CallbackKeepsOpen DEF StatusOf
    <3> QED
        BY <3>1, <3>2
  <2>6. \A q \in Streams : q # s => status[q] \in {"closed", "opened"} /\ status'[q] = status[q]
      BY <2>1, OneRunner DEF Status, OpenInv, PaTypes
  <2>7. status'[s] \in {"active", "calling"} => SameRate' /\ srate[s] = prate
      BY <2>1, <2>2 DEF Status, OpenInv, PaTypes, SameRate, RateInv
  <2>8. \A t \in Openers : ppc[t] # "starting"
      BY <2>1, StillAtStart DEF Unstarted, Still
  <2> QED
      BY <2>2, <2>4, <2>5, <2>6, <2>7, <2>8 DEF RateInv, opener
<1>3. CASE PaFinishes
  <2>1. PICK s \in Streams : /\ status[s] = "complete"
                             /\ Status(s, IF running THEN "finishing" ELSE "finished")
      BY <1>3 DEF PaFinishes
  <2>2. Quiet /\ UNCHANGED <<stream, prate, srate, opener, pa_reopen, watch, lost>> /\ QueueInv'
      BY <1>3, QuietInOrder DEF PaFinishes
  <2>3. OpenInv'
    <3>1. CASE running
        BY <3>1, <2>1, <2>2, CallbackKeepsOpen DEF StatusOf, Quiet, deviceVars
    <3>2. CASE ~running
        BY <3>2, <2>1, <2>2, CallbackKeepsOpen DEF StatusOf, Quiet, deviceVars
    <3> QED
        BY <3>1, <3>2
  <2>4. \A r \in Streams : status'[r] = status[r] \/ status'[r] \in {"finishing", "finished"}
      BY <2>1 DEF Status, OpenInv, PaTypes
  <2>5. RateInv'
      BY <2>2, <2>4, QuietSame, RateKept DEF opener
  <2> QED
      BY <2>2, <2>3, <2>5
<1>4. CASE pa_stream_finished
  <2>1. PICK s \in Streams : status[s] = "finishing" /\ Status(s, "finished")
      BY <1>4 DEF pa_stream_finished
  <2>2. Quiet /\ UNCHANGED <<stream, prate, srate, opener, watch, lost>> /\ pa_reopen' = TRUE /\ QueueInv'
      BY <1>4, QuietInOrder DEF pa_stream_finished
  <2>3. OpenInv'
      BY <2>1, <2>2, CallbackKeepsOpen DEF StatusOf, Quiet, deviceVars
  <2>4. \A r \in Streams : status'[r] = status[r] \/ status'[r] = "finished"
      BY <2>1 DEF Status, OpenInv, PaTypes
  <2>5. RateInv'
      BY <2>2, <2>4, QuietSame, RateKept DEF opener
  <2> QED
      BY <2>2, <2>3, <2>5
<1> QED
    BY <1>1, <1>2, <1>3, <1>4 DEF PaCallbacks

(* A thread that may open: it is the only one that is in _pa_open with a stream to open. *)

MayOpen(t) ==
    /\ running /\ monitors = 0
    /\ t # "main" => ppc["main"] = "idle"
    /\ t # "controller" => ppc["controller"] = "idle"
    /\ \A m \in Monitors \ {t} : ~Unstarted(m)
    /\ t = "main" => \A m \in Monitors : ppc[m] = "idle"
    /\ t # "controller" => ~pa_reopen

LEMMA OpensInOrder ==
    ASSUME QueueInv, NEW t, NEW st, NEW watched, Opens(t, st, watched), OpensOnly
    PROVE  QueueInv'
<1>1. state' = state => state' \in States
    BY DEF QueueInv, InOrder, Now
<1>2. CASE TickEnds
    BY <1>2, TickInOrder DEF OpensOnly, fixed
<1>3. CASE UNCHANGED <<state, left, autostart>>
    BY <1>1, <1>3, OthersInOrder DEF OpensOnly, fixed, decoder
<1> QED
    BY <1>2, <1>3 DEF Opens, Returns

LEMMA OpensKeeps ==
    ASSUME QueueInv, OpenInv, NEW t \in Openers, MayOpen(t),
           NEW st \in [Streams -> {"closed", "opened"}], Opens(t, st, FALSE), OpensOnly,
           UNCHANGED err, monitor' = "none", old' \in [Openers -> Streams \cup {0}],
           \A u \in Openers : old'[u] = 0
    PROVE  OpenInv' /\ RateInv'
<1>1. /\ running' /\ UNCHANGED <<current_sample_rate, err>>
      /\ \A u \in Openers \ {t} : ppc'[u] = ppc[u]
      /\ ppc'[t] \in {"idle", "starting"} /\ ppc' \in [Openers -> AtOpen]
    BY DEF OpensOnly, MayOpen, Opens, Returns, OpenInv, PaTypes, AtOpen
<1>2. /\ \A u \in Openers : ppc[u] = "starting" => u = t
      /\ \A u \in Openers \ {t} : ~Unstarted(u)
    BY NamesDiffer DEF MayOpen, Unstarted, Failed
<1>3. \A u \in Openers \ {t} : ~Unstarted(u)'
    BY <1>1, <1>2 DEF Unstarted, Failed
<1>4. ~Failed(t)'
    BY <1>1 DEF Failed
<1>5. current_sample_rate \in Rates
    BY DEF QueueInv, InOrder, Now
<1>6. CASE ppc'[t] = "starting"
  <2>1. PICK s \in Streams : stream' = s /\ status' = [st EXCEPT ![s] = "opened"]
                             /\ srate' = [srate EXCEPT ![s] = current_sample_rate]
      BY <1>6, <1>1 DEF Opens, Returns, OpenInv, PaTypes
  <2>2. prate' = current_sample_rate /\ UNCHANGED <<monitors, pa_reopen>>
      BY <1>6, <1>1 DEF Opens, Returns, OpenInv, PaTypes
  <2>3. \A r \in Streams : status'[r] \in {"closed", "opened"}
      BY <2>1
  <2>4. status'[stream'] = "opened" /\ srate'[stream'] = prate' /\ stream' \in Streams
      BY <2>1, <2>2 DEF OpenInv, PaTypes
  <2>5. PaTypes'
      BY <1>1, <1>5, <2>1, <2>2 DEF OpenInv, PaTypes, StatusOf, MayOpen
  <2>6. Calls'
    <3>1. ~Closing' /\ ppc'["controller"] \notin {"called", "closed"}
          /\ ppc'["main"] \in {"idle", "starting"}
        BY <1>1, <1>6, NamesDiffer DEF Closing, MayOpen
    <3>2. \A m \in Monitors : ppc'[m] \in {"idle", "starting", "started"}
        BY <1>1, <1>6, NamesDiffer DEF OpenInv, Calls
    <3> QED
        BY <3>1, <3>2, <2>4, NoStream, NamesDiffer DEF Calls
  <2>a. ASSUME t \notin Monitors PROVE ~Watched'
    <3>1. \A m \in Monitors : ~Unstarted(m)'
        BY <2>a, <1>3, NamesDiffer
    <3>2. monitors' = 0
        BY <2>2 DEF MayOpen
    <3> QED
        BY <3>1, <3>2 DEF Watched
  <2>7. OneOpens'
    <3>1. t = "controller" => ~Watched'
        BY <2>a, NamesDiffer
    <3>2. t = "main" => ~Watched' /\ \A m \in Monitors : ppc'[m] = "idle"
        BY <2>a, <1>1, NamesDiffer DEF MayOpen
    <3>3. \A m \in Monitors : Unstarted(m)' => m = t
        BY <1>3, NamesDiffer
    <3>4. /\ ppc'["main"] # "idle" => t = "main" /\ ppc'["controller"] = "idle"
          /\ ppc'["controller"] # "idle" => t = "controller"
        BY <1>1, NamesDiffer DEF MayOpen
    <3> QED
        BY <1>1, <3>1, <3>2, <3>3, <3>4, <2>2 DEF OneOpens, MayOpen
  <2>8. OneRuns'
    <3>1. t = "controller" => ~Watched' /\ ~MainOpens'
        BY <2>a, <1>1, NamesDiffer DEF MainOpens, MayOpen, Failed
    <3>2. t # "controller" => ~pa_reopen'
        BY <2>2 DEF MayOpen
    <3>3. Still'
        BY <2>3 DEF Still
    <3>4. \A u \in Openers : ppc'[u] = "starting" => status'[stream'] = "opened"
        BY <2>4
    <3> QED
        BY <3>1, <3>2, <3>3, <3>4, <2>3, <2>4 DEF OneRuns
  <2>9. RateInv'
      BY <2>3, <2>2, <2>4, <1>1 DEF RateInv, SameRate
  <2> QED
      BY <2>5, <2>6, <2>7, <2>8, <2>9 DEF OpenInv
<1>7. CASE ppc'[t] = "idle"
  <2>1. /\ monitors' = 1 /\ stream' = 0 /\ status' = st /\ UNCHANGED srate
        /\ IF t = "controller" THEN pa_reopen' = FALSE ELSE UNCHANGED pa_reopen
      BY <1>7, <1>1 DEF Opens, Returns, Fails, MayOpen, OpenInv, PaTypes
  <2>2. Still' /\ ~pa_reopen'
      BY <2>1 DEF Still, MayOpen
  <2>3. \A u \in Openers : ppc'[u] # "starting"
      BY <1>1, <1>2, <1>7
  <2>4. ppc'["main"] = "idle" /\ ppc'["controller"] = "idle"
      BY <1>1, <1>7, NamesDiffer DEF MayOpen
  <2>5. PaTypes'
      BY <1>1, <2>1 DEF OpenInv, PaTypes, StatusOf
  <2>6. Calls'
    <3>1. \A m \in Monitors : ppc'[m] \in {"idle", "starting", "started"}
        BY <1>1, <1>7, NamesDiffer DEF OpenInv, Calls
    <3> QED
        BY <3>1, <2>1, <2>3, <2>4, NamesDiffer DEF Calls, Closing
  <2>7. OneOpens'
    <3>1. \A m \in Monitors : ~Unstarted(m)'
        BY <1>3, <1>7, <1>4, NamesDiffer DEF Unstarted
    <3> QED
        BY <3>1, <2>4 DEF OneOpens
  <2>8. OneRuns'
      BY <2>1, <2>2, <2>3 DEF OneRuns, Still
  <2>9. RateInv'
      BY <2>2, <2>3 DEF RateInv, Still
  <2> QED
      BY <2>5, <2>6, <2>7, <2>8, <2>9 DEF OpenInv
<1> QED
    BY <1>1, <1>6, <1>7

\* A thread that closes, has a stream to open or starts one is the only such thread.
LEMMA OpenerKnows ==
    ASSUME OpenInv, NEW t \in Openers
    PROVE  /\ ppc[t] \in {"closing", "closed"} => t = "controller" /\ Closing
           /\ ppc[t] = "called" => t = "main" /\ stream = 0
           /\ Unstarted(t) => /\ Still /\ monitors = 0 /\ monitor = "none"
                              /\ t # "controller" => ~pa_reopen
                              /\ t \notin Monitors => ~Watched
                              /\ t # "controller" => ppc["controller"] = "idle"
                              /\ t # "main" => ppc["main"] = "idle"
                              /\ \A u \in Openers \ {t} : ~Unstarted(u)
<1>1. /\ ppc[t] \in {"closing", "closed"} => t = "controller" /\ Closing
      /\ ppc[t] = "called" => t = "main" /\ stream = 0
    BY NamesDiffer DEF OpenInv, Calls, Closing
<1>2. ASSUME Unstarted(t)
      PROVE  /\ Still /\ monitors = 0 /\ monitor = "none"
             /\ t # "controller" => ~pa_reopen
             /\ t \notin Monitors => ~Watched
             /\ t # "controller" => ppc["controller"] = "idle"
             /\ t # "main" => ppc["main"] = "idle"
             /\ \A u \in Openers \ {t} : ~Unstarted(u)
  <2>1. ppc[t] # "idle"
      BY <1>2 DEF Unstarted, Failed
  <2>2. t \notin Monitors => ~Watched
      BY <2>1, NamesDiffer DEF OpenInv, OneOpens
  <2>3. t \in Monitors => Watched /\ ppc["main"] = "idle" /\ ppc["controller"] = "idle"
      BY <1>2, <2>1 DEF OpenInv, OneOpens, Watched
  <2>4. monitors = 0 /\ monitor = "none"
      BY <1>2, <2>2, <2>3 DEF OpenInv, OneOpens, Watched, PaTypes
  <2>5. t = "main" => MainOpens /\ ppc["controller"] = "idle"
      BY <1>2, <2>1 DEF OpenInv, OneOpens, MainOpens, Unstarted
  <2>6. t # "controller" => ~pa_reopen
      BY <2>3, <2>5, NamesDiffer DEF OpenInv, OneRuns
  <2>7. \A m \in Monitors \ {t} : ~Unstarted(m)
      BY <1>2, <2>2, <2>3 DEF OpenInv, OneOpens, Watched
  <2>8. t = "controller" => ppc["main"] = "idle"
      BY <2>1 DEF OpenInv, OneOpens
  <2>9. \A u \in Openers \ {t} : ~Unstarted(u)
      BY <2>3, <2>5, <2>7, <2>8, NamesDiffer DEF Unstarted, Failed
  <2>10. /\ t # "controller" => ppc["controller"] = "idle"
         /\ t # "main" => ppc["main"] = "idle"
      BY <2>3, <2>5, <2>8, NamesDiffer
  <2> QED
      BY <1>2, <2>2, <2>4, <2>6, <2>9, <2>10, StillAtStart
<1> QED
    BY <1>1, <1>2

LEMMA PaOpenKeeps ==
    ASSUME QueueInv, PaInv, NEW t \in Openers, PaOpen(t) PROVE QueueInv' /\ PaInv'
<1> USE DEF PaInv
<1>1. \/ t = "main" /\ ppc[t] = "called" /\ stream = 0
      \/ /\ t = "controller" /\ ppc[t] = "idle" /\ ppc["main"] = "idle" /\ running /\ pa_reopen
    BY OpenerKnows DEF PaOpen
<1>2. /\ t = "main" => /\ ~pa_reopen /\ Still /\ ppc["controller"] = "idle"
                       /\ \A m \in Monitors : ppc[m] = "idle"
      /\ ~Watched /\ running
    BY <1>1, NamesDiffer DEF OpenInv, OneOpens, OneRuns, MainOpens
<1>3. MayOpen(t) /\ monitor = "none"
    BY <1>1, <1>2, NamesDiffer DEF MayOpen, Watched, OpenInv, PaTypes
<1>4. ~Closing /\ \A u \in Openers : old[u] = 0
    BY <1>1, <1>2, NamesDiffer DEF Closing, OpenInv, Calls
<1>5. CASE stream = 0
  <2>1. Opens(t, status, FALSE) /\ OpensOnly /\ UNCHANGED <<old, err, monitor>>
      BY <1>3, <1>5 DEF PaOpen
  <2>2. status \in [Streams -> {"closed", "opened"}]
      BY <1>4, <1>5, NoStream, NamesDiffer DEF OpenInv, OneRuns, PaTypes
  <2>3. OpenInv' /\ RateInv'
      BY <1>3, <1>4, <2>1, <2>2, OpensKeeps DEF OpenInv, PaTypes
  <2> QED
      BY <2>1, <2>3, OpensInOrder
<1>6. CASE stream # 0
  <2>1. /\ t = "controller" /\ ppc["main"] = "idle" /\ pa_reopen
        /\ old' = [old EXCEPT !["controller"] = stream] /\ stream' = 0
        /\ ppc' = [ppc EXCEPT !["controller"] = "closing"]
        /\ Quiet /\ UNCHANGED <<prate, status, srate, err, pa_reopen, watch, lost>>
      BY <1>1, <1>6 DEF PaOpen
  <2>2. /\ old'["controller"] = stream /\ ppc'["controller"] = "closing"
        /\ \A u \in Openers : u # "controller" => old'[u] = old[u] /\ ppc'[u] = ppc[u]
      BY <2>1, NamesDiffer DEF OpenInv, PaTypes
  <2>3. /\ \A u \in Openers : u # "controller" => Unstarted(u)' = Unstarted(u) /\ Failed(u)' = Failed(u)
        /\ running' = running
      BY <2>1, <2>2 DEF Unstarted, Failed, Quiet, deviceVars
  <2>4. ~Watched' /\ ~MainOpens'
      BY <1>2, <2>1, <2>2, <2>3, NamesDiffer DEF Watched, MainOpens, Failed, watch
  <2>5. PaTypes'
      BY <2>1 DEF OpenInv, PaTypes, AtOpen, watch
  <2>6. \A u \in Openers : ppc'[u] # "starting"
      BY <1>2, <2>1, <2>2, NamesDiffer DEF Watched, Unstarted
  <2>7. Calls'
      BY <1>4, <1>6, <2>1, <2>2, <2>6, NamesDiffer DEF OpenInv, Calls, Closing
  <2>8. OneOpens'
      BY <1>2, <2>1, <2>2, <2>3, <2>4, NamesDiffer DEF OneOpens, Watched
  <2>9. OneRuns'
    <3>1. ~Failed("controller")'
        BY <2>2 DEF Failed
    <3>2. \A s \in Streams : status'[s] \in {"closed", "opened"} \/ s = stream
        BY <1>4, <2>1, NoStream, NamesDiffer DEF OpenInv, OneRuns
    <3> QED
        BY <2>1, <2>2, <2>4, <2>6, <3>1, <3>2 DEF OneRuns
  <2>10. RateInv'
      BY <2>1, <2>6, QuietSame, RateKept DEF watch
  <2> QED
      BY <2>1, <2>5, <2>7, <2>8, <2>9, <2>10, QuietInOrder DEF OpenInv
<1> QED
    BY <1>5, <1>6

LEMMA PaClosesKeeps ==
    ASSUME QueueInv, PaInv, NEW t \in Openers, PaCloses(t) PROVE QueueInv' /\ PaInv'
<1> USE DEF PaInv
<1> DEFINE c == old["controller"]
<1>1. t = "controller" /\ Closing /\ ppc[t] = "closing" /\ c \in Streams /\ stream = 0
    BY OpenerKnows, NamesDiffer DEF PaCloses, OpenInv, Calls, PaTypes
<1>2. /\ status' = [status EXCEPT ![c] = "closed"]
      /\ ppc' = [ppc EXCEPT !["controller"] = "closed"]
      /\ Quiet /\ UNCHANGED <<stream, prate, srate, old, err, pa_reopen, watch, lost>>
    BY <1>1 DEF PaCloses, Status
<1>3. ~Watched /\ ppc["main"] = "idle" /\ running /\ running' = running
    BY <1>1, <1>2, NamesDiffer DEF OpenInv, OneOpens, Quiet, deviceVars
<1>4. /\ ppc'["controller"] = "closed"
      /\ \A u \in Openers : u # "controller" => ppc'[u] = ppc[u]
    BY <1>2, NamesDiffer DEF OpenInv, PaTypes
<1>5. \A u \in Openers : ~Unstarted(u)'
    BY <1>2, <1>3, <1>4, NamesDiffer DEF Watched, Unstarted, Failed
<1>6. ~Watched' /\ ~MainOpens'
    BY <1>2, <1>3, <1>4, <1>5, NamesDiffer DEF Watched, MainOpens, Failed, watch
<1>7. Still' /\ status'[c] = "closed"
    BY <1>1, <1>2, NoStream DEF Still, OpenInv, OneRuns, PaTypes
<1>8. PaTypes'
    BY <1>1, <1>2 DEF OpenInv, PaTypes, AtOpen, StatusOf, watch
<1>9. Calls'
    BY <1>1, <1>2, <1>4, <1>5, <1>7, NamesDiffer DEF OpenInv, Calls, Closing, Unstarted
<1>10. OneOpens'
    BY <1>3, <1>4, <1>5, <1>6, NamesDiffer DEF OneOpens, Watched
<1>11. OneRuns'
    BY <1>1, <1>2, <1>4, <1>5, <1>6, <1>7 DEF OneRuns, Still, Unstarted
<1>12. RateInv'
    BY <1>5, <1>7 DEF RateInv, Still, Unstarted
<1> QED
    BY <1>2, <1>8, <1>9, <1>10, <1>11, <1>12, QuietInOrder DEF OpenInv

LEMMA PaReopensKeeps ==
    ASSUME QueueInv, PaInv, NEW t \in Openers, PaReopens(t) PROVE QueueInv' /\ PaInv'
<1> USE DEF PaInv
<1>1. t = "controller" /\ ppc["controller"] = "closed"
    BY OpenerKnows DEF PaReopens
<1>2. ~Watched /\ running /\ ppc["main"] = "idle" /\ Still
    BY <1>1, NamesDiffer DEF OpenInv, OneOpens, OneRuns
<1>3. MayOpen(t) /\ monitor = "none"
    BY <1>1, <1>2, NamesDiffer DEF MayOpen, Watched, OpenInv, PaTypes
<1>4. /\ Opens(t, status, FALSE) /\ OpensOnly /\ UNCHANGED <<err, monitor>>
      /\ old' = [old EXCEPT !["controller"] = 0]
    BY <1>1, <1>3 DEF PaReopens
<1>5. old' \in [Openers -> Streams \cup {0}] /\ \A u \in Openers : old'[u] = 0
    BY <1>4, NamesDiffer DEF OpenInv, PaTypes, Calls
<1>6. status \in [Streams -> {"closed", "opened"}]
    BY <1>2 DEF Still, OpenInv, PaTypes
<1>7. OpenInv' /\ RateInv'
    BY <1>3, <1>4, <1>5, <1>6, OpensKeeps
<1> QED
    BY <1>4, <1>7, OpensInOrder

LEMMA PaStartsKeeps ==
    ASSUME QueueInv, PaInv, NEW t \in Openers, PaStarts(t) PROVE QueueInv' /\ PaInv'
<1> USE DEF PaInv
<1>1. ppc[t] = "starting" /\ Unstarted(t) /\ stream \in Streams
    BY DEF PaStarts, Unstarted, OpenInv, Calls, PaTypes
<1>2. /\ ppc' = [ppc EXCEPT ![t] = "started"]
      /\ UNCHANGED <<output, buf, decoder, running, fixed, stream, prate, srate, old, pa_reopen, watch>>
    BY DEF PaStarts
<1>3. \/ status' = [status EXCEPT ![stream] = "active"] /\ err' = [err EXCEPT ![t] = FALSE]
      \/ status' = status /\ err' = [err EXCEPT ![t] = TRUE]
    BY DEF PaStarts, Status
<1>4. /\ monitors = 0 /\ monitor = "none" /\ (t # "controller" => ~pa_reopen)
      /\ t # "controller" => ppc["controller"] = "idle"
      /\ t # "main" => ppc["main"] = "idle"
    BY <1>1, OpenerKnows
<1>s. \A s \in Streams : status[s] \in {"closed", "opened"}
    BY <1>1, OpenerKnows DEF Still
<1>u. \A u \in Openers \ {t} : ~Unstarted(u)
    BY <1>1, OpenerKnows
<1>w. t \notin Monitors => ~Watched
    BY <1>1, OpenerKnows
<1>5. ppc'[t] = "started" /\ \A u \in Openers \ {t} : ppc'[u] = ppc[u] /\ err'[u] = err[u]
    BY <1>2, <1>3 DEF OpenInv, PaTypes
<1>6. \A u \in Openers \ {t} : ~Unstarted(u)' /\ ~Failed(u)'
    BY <1>u, <1>5 DEF Unstarted, Failed
<1>7. \A u \in Openers : ppc'[u] # "starting"
    BY <1>5, <1>6 DEF Unstarted
<1>8. PaTypes'
    BY <1>1, <1>2, <1>3 DEF OpenInv, PaTypes, AtOpen, StatusOf, watch
<1>9. ~Closing /\ ~Closing'
    BY <1>1, <1>4, <1>5, NamesDiffer DEF Closing
<1>10. Calls'
  <2>1. ppc'["main"] # "called" /\ ppc'["controller"] \notin {"called", "closed"}
      BY <1>1, <1>4, <1>5, <1>9, NamesDiffer
  <2>2. ppc'["main"] \in {"idle", "starting", "started"}
        /\ \A m \in Monitors : ppc'[m] \in {"idle", "starting", "started"}
      BY <2>1, <1>5, NamesDiffer DEF OpenInv, Calls
  <2> QED
      BY <2>1, <2>2, <1>2, <1>7, <1>9, NamesDiffer DEF OpenInv, Calls
<1>11. QueueInv' /\ (SameRate => SameRate')
  <2>1. state' \in States
      BY <1>2 DEF QueueInv, InOrder, Now, output
  <2> QED
      BY <2>1, <1>2, OthersInOrder, SameKept DEF output, decoder, fixed
<1>12. /\ ppc'["main"] # "idle" => /\ t \notin Monitors /\ ppc'["controller"] = "idle" /\ running
                                   /\ \A m \in Monitors : ppc'[m] = "idle"
       /\ ppc'["controller"] # "idle" => t \notin Monitors /\ running
    BY <1>1, <1>4, <1>5, NamesDiffer DEF OpenInv, OneOpens
<1>13. ASSUME t \notin Monitors PROVE ~Watched'
  <2>1. \A m \in Monitors : ~Unstarted(m)'
      BY <1>13, <1>6, NamesDiffer
  <2> QED
      BY <2>1, <1>2, <1>4 DEF Watched, watch
<1>14. OneOpens'
  <2>1. running' = running /\ monitors' = 0 /\ monitor' = "none"
      BY <1>2, <1>4 DEF watch
  <2>2. \A m \in Monitors : Unstarted(m)' => m = t
      BY <1>6, NamesDiffer
  <2> QED
      BY <2>1, <2>2, <1>12, <1>13 DEF OneOpens
<1>15. CASE status' = [status EXCEPT ![stream] = "active"] /\ err' = [err EXCEPT ![t] = FALSE]
  <2>0. err'[t] = FALSE
      BY <1>15 DEF OpenInv, PaTypes
  <2>1. ~Failed(t)' /\ ~Unstarted(t)'
      BY <1>5, <2>0 DEF Failed, Unstarted
  <2>2. \A u \in Openers : ~Unstarted(u)' /\ ~Failed(u)'
      BY <1>6, <2>1
  <2>a. ~Watched' /\ ~MainOpens' /\ ~Failed("controller")'
    <3>1. monitors' = 0 /\ monitor' = "none"
        BY <1>2, <1>4 DEF watch
    <3>2. ppc'["main"] # "called"
        BY <1>1, <1>4, <1>5, NamesDiffer
    <3> QED
        BY <3>1, <3>2, <1>7, <2>2, NamesDiffer DEF Watched, MainOpens
  <2>3. \A s \in Streams : s # stream => status'[s] \in {"closed", "opened"}
      BY <1>15, <1>s DEF OpenInv, PaTypes
  <2>4. status'[stream] = "active" /\ stream' = stream
      BY <1>1, <1>2, <1>15 DEF OpenInv, PaTypes
  <2>5. OneRuns'
    <3>1. ppc'["controller"] \notin {"closed", "starting"}
        BY <1>7, <1>9, NamesDiffer DEF Closing
    <3> QED
        BY <3>1, <1>7, <2>a, <2>3, <2>4 DEF OneRuns
  <2>6. RateInv'
    <3>1. srate[stream] = prate /\ SameRate
        BY <1>1 DEF RateInv
    <3> QED
        BY <3>1, <1>2, <1>7, <1>11, <2>3, <2>4 DEF RateInv
  <2> QED
      BY <1>8, <1>10, <1>11, <1>14, <2>5, <2>6 DEF OpenInv
<1>16. CASE status' = status /\ err' = [err EXCEPT ![t] = TRUE]
  <2>0. status' = status
      BY <1>16
  <2>1. Still'
      BY <2>0, <1>s DEF Still
  <2>2. t = "controller" => ~Watched' /\ ~MainOpens'
    <3>1. t = "controller" => ppc'["main"] = "idle"
        BY <1>4, <1>5, NamesDiffer
    <3> QED
        BY <3>1, <1>13, NamesDiffer DEF MainOpens, Failed
  <2>3. OneRuns'
    <3>1. t # "controller" => ~pa_reopen'
        BY <1>2, <1>4
    <3>2. running' => (stream' # 0 => status'[stream'] # "closed")
        BY <1>2, <2>0 DEF OpenInv, OneRuns
    <3>3. \A s \in Streams : status'[s] \in {"closed", "opened"}
        BY <2>0, <1>s
    <3> QED
        BY <3>1, <3>2, <3>3, <1>7, <2>1, <2>2 DEF OneRuns
  <2>4. RateInv'
      BY <1>s, <1>7, <2>0 DEF RateInv
  <2> QED
      BY <1>8, <1>10, <1>11, <1>14, <2>3, <2>4 DEF OpenInv
<1> QED
    BY <1>3, <1>15, <1>16

LEMMA PaStartedKeeps ==
    ASSUME QueueInv, PaInv, NEW t \in Openers, PaStarted(t) PROVE QueueInv' /\ PaInv'
<1> USE DEF PaInv
<1>1. /\ ppc[t] = "started" /\ ppc' = [ppc EXCEPT ![t] = "idle"] /\ err' = [err EXCEPT ![t] = FALSE]
      /\ monitors' = (IF err[t] /\ monitor = "none" THEN monitors + 1 ELSE monitors)
      /\ OpensOnly /\ UNCHANGED <<stream, status, prate, srate, old, monitor>>
      /\ IF t = "controller" THEN pa_reopen' = FALSE /\ TickEnds
         ELSE UNCHANGED <<pa_reopen, state, left, autostart>>
    BY DEF PaStarted, Returns, Fails
<1>2. QueueInv'
  <2>1. state' = state => state' \in States
      BY DEF QueueInv, InOrder, Now
  <2> QED
      BY <1>1, <2>1, TickInOrder, OthersInOrder DEF OpensOnly, fixed, decoder
<1>3. SameRate => SameRate'
    BY <1>1, TickSame, SameKept DEF OpensOnly
<1>4. running' = running
    BY <1>1 DEF OpensOnly
<1>5. ppc'[t] = "idle" /\ \A u \in Openers \ {t} : ppc'[u] = ppc[u] /\ err'[u] = err[u]
    BY <1>1 DEF OpenInv, PaTypes
<1>6. /\ ~Unstarted(t)' /\ ~Failed(t)'
      /\ \A u \in Openers \ {t} : Unstarted(u)' = Unstarted(u) /\ Failed(u)' = Failed(u)
    BY <1>5 DEF Unstarted, Failed
<1>7. Closing' <=> Closing
    BY <1>1, <1>5, NamesDiffer DEF Closing
<1>8. monitors' \in 0 .. 1
  <2>1. err[t] /\ monitor = "none" => monitors = 0
      BY <1>1, OpenerKnows DEF Unstarted, Failed
  <2> QED
      BY <1>1, <2>1 DEF OpenInv, PaTypes
<1>9. PaTypes'
    BY <1>1, <1>8 DEF OpenInv, PaTypes, AtOpen
<1>10. \A u \in Openers : ppc'[u] = "starting" => ppc[u] = "starting"
    BY <1>5
<1>11. Calls'
  <2>1. /\ ppc'["main"] \in {"idle", "called", "starting", "started"} /\ ppc'["controller"] # "called"
        /\ \A m \in Monitors : ppc'[m] \in {"idle", "starting", "started"}
      BY <1>5, NamesDiffer DEF OpenInv, Calls
  <2>2. /\ ppc'["controller"] = "closed" => ppc["controller"] = "closed"
        /\ ppc'["main"] = "called" => ppc["main"] = "called"
      BY <1>5, NamesDiffer
  <2>3. UNCHANGED <<stream, status, old>>
      BY <1>1
  <2>4. IF Closing' THEN old["controller"] # 0 /\ stream = 0 ELSE old["controller"] = 0
      BY <1>7 DEF OpenInv, Calls
  <2> QED
      BY <1>10, <2>1, <2>2, <2>3, <2>4 DEF OpenInv, Calls
<1>12. RateInv'
    BY <1>1, <1>3, <1>10, RateKept
<1>13. CASE err[t]
  <2>1. Unstarted(t)
      BY <1>1, <1>13 DEF Unstarted, Failed
  <2>2. /\ monitors = 0 /\ monitor = "none" /\ (t # "controller" => ~pa_reopen)
        /\ t # "controller" => ppc["controller"] = "idle"
        /\ t # "main" => ppc["main"] = "idle"
      BY <2>1, OpenerKnows
  <2>3. \A u \in Openers \ {t} : ~Unstarted(u)
      BY <2>1, OpenerKnows
  <2>4. \A s \in Streams : status'[s] \in {"closed", "opened"}
      BY <2>1, <1>1, OpenerKnows DEF Still
  <2>5. ~pa_reopen' /\ ppc'["main"] = "idle" /\ ppc'["controller"] = "idle"
      BY <1>1, <1>5, <2>2, NamesDiffer
  <2>6. \A u \in Openers : ~Unstarted(u)'
      BY <1>6, <2>3
  <2>7. OneOpens'
      BY <1>1, <2>2, <2>5, <2>6, NamesDiffer DEF OneOpens
  <2>8. running' => (stream' # 0 => status'[stream'] # "closed")
      BY <1>1, <1>4 DEF OpenInv, OneRuns
  <2>9. OneRuns'
      BY <2>4, <2>5, <2>6, <2>8 DEF OneRuns, Still, Unstarted
  <2> QED
      BY <1>2, <1>9, <1>11, <1>12, <2>7, <2>9 DEF OpenInv
<1>14. CASE ~err[t]
  <2>1. ~Unstarted(t) /\ ~Failed(t)
      BY <1>1, <1>14 DEF Unstarted, Failed
  <2>2. \A u \in Openers : (Unstarted(u)' => Unstarted(u)) /\ (Failed(u)' => Failed(u))
      BY <1>6
  <2>3. UNCHANGED <<monitors, monitor, stream, status, old>>
      BY <1>1, <1>14
  <2>4. Watched' => Watched
      BY <2>2, <2>3, NamesDiffer DEF Watched
  <2>5. MainOpens' => MainOpens
      BY <1>5, <2>2, NamesDiffer DEF MainOpens
  <2>6. OneOpens'
    <3>1. ppc'["main"] # "idle" => ppc["main"] # "idle"
        BY <1>5, NamesDiffer
    <3>2. ppc'["controller"] # "idle" => ppc["controller"] # "idle"
        BY <1>5, NamesDiffer
    <3>3. \A m \in Monitors : ppc[m] = "idle" => ppc'[m] = "idle"
        BY <1>5, NamesDiffer
    <3>4. ppc["controller"] = "idle" => ppc'["controller"] = "idle"
        BY <1>5, NamesDiffer
    <3> QED
        BY <1>4, <2>2, <2>3, <2>4, <3>1, <3>2, <3>3, <3>4, NamesDiffer DEF OpenInv, OneOpens
  <2>7. OneRuns'
    <3>1. pa_reopen' => pa_reopen
        BY <1>1
    <3>2. ppc'["controller"] \in {"closed", "starting"} => ppc["controller"] \in {"closed", "starting"}
        BY <1>5, NamesDiffer
    <3>3. Failed("controller")' => Failed("controller")
        BY <2>2, NamesDiffer
    <3>4. Still' = Still
        BY <2>3 DEF Still
    <3>5. Watched \/ MainOpens => ~pa_reopen
        BY DEF OpenInv, OneRuns
    <3>6. (\/ Watched \/ MainOpens
           \/ ppc["controller"] \in {"closed", "starting"} \/ Failed("controller")) => Still
        BY DEF OpenInv, OneRuns
    <3>7. /\ \A s \in Streams : \/ status'[s] \in {"closed", "opened"}
                                \/ s \in {stream', old'["controller"]}
          /\ running' => /\ stream' # 0 => status'[stream'] # "closed"
                         /\ \A u \in Openers : ppc'[u] = "starting" => status'[stream'] = "opened"
        BY <1>4, <1>10, <2>3 DEF OpenInv, OneRuns
    <3> QED
        BY <2>4, <2>5, <3>1, <3>2, <3>3, <3>4, <3>5, <3>6, <3>7 DEF OneRuns
  <2> QED
      BY <1>2, <1>9, <1>11, <1>12, <2>6, <2>7 DEF OpenInv
<1> QED
    BY <1>13, <1>14

(* The monitor threads *)

\* While it is watched, no thread has a stream to open or to close, apart from the monitor.
LEMMA WatchedKnows ==
    ASSUME OpenInv, Watched
    PROVE  /\ ppc["main"] = "idle" /\ ppc["controller"] = "idle" /\ ~Closing /\ ~pa_reopen /\ Still
           /\ monitors = 1 \/ monitor = "runs" => \A t \in Openers : ~Unstarted(t)
           /\ monitors = 0 \/ monitor = "none"
<1>1. /\ ppc["main"] = "idle" /\ ppc["controller"] = "idle" /\ ~pa_reopen /\ Still
      /\ monitors = 0 \/ monitor = "none"
    BY DEF OpenInv, OneOpens, OneRuns, PaTypes
<1>2. monitors = 1 \/ monitor = "runs" => \A t \in Monitors : ~Unstarted(t)
    BY DEF OpenInv, OneOpens
<1> QED
    BY <1>1, <1>2, NamesDiffer DEF Unstarted, Failed, Closing

LEMMA MonitorKeeps == ASSUME QueueInv, PaInv, PaMonitor PROVE QueueInv' /\ PaInv'
<1> USE DEF PaInv
<1>1. CASE MonitorStarts
  <2>1. /\ monitors > 0 /\ monitors' = monitors - 1
        /\ Quiet /\ UNCHANGED <<stream, prate, status, srate, opener, pa_reopen, lost>>
      BY <1>1 DEF MonitorStarts
  <2>2. monitors = 1 /\ monitor = "none" /\ Watched /\ monitors' = 0
      BY <2>1 DEF OpenInv, OneOpens, PaTypes, Watched
  <2>3. monitor' = "runs"
      BY <1>1, <2>2 DEF MonitorStarts
  <2>4. /\ ppc["main"] = "idle" /\ ppc["controller"] = "idle" /\ ~Closing /\ ~pa_reopen /\ Still
      BY <2>2, WatchedKnows
  <2>5. \A t \in Openers : ~Unstarted(t)
      BY <2>2, WatchedKnows
  <2>6. /\ UNCHANGED <<ppc, err, old, running, stream, status, srate, prate, pa_reopen>>
        /\ \A t \in Openers : ~Unstarted(t)' 
      BY <2>1, <2>5 DEF opener, Quiet, deviceVars, Unstarted, Failed
  <2>7. PaTypes'
      BY <2>2, <2>3, <2>6 DEF OpenInv, PaTypes
  <2>8. Calls'
      BY <2>6 DEF OpenInv, Calls, Closing
  <2>9. OneOpens'
      BY <2>2, <2>3, <2>4, <2>6, NamesDiffer DEF OneOpens
  <2>10. OneRuns'
      BY <2>4, <2>6 DEF OpenInv, OneRuns, Still
  <2>11. RateInv'
      BY <2>1, <2>6, QuietSame, RateKept
  <2> QED
      BY <2>1, <2>7, <2>8, <2>9, <2>10, <2>11, QuietInOrder DEF OpenInv
<1>2. CASE MonitorWaits
  <2>1. /\ monitor = "runs" /\ Watched /\ stream' = 0
        /\ \A s \in Streams : status'[s] = "closed"
        /\ status' \in [Streams -> StatusOf]
        /\ Quiet /\ UNCHANGED <<prate, srate, opener, pa_reopen, watch, lost>>
      BY <1>2 DEF MonitorWaits, Terminates, Watched, StatusOf
  <2>2. ppc["main"] = "idle" /\ ppc["controller"] = "idle" /\ ~Closing /\ ~pa_reopen
      BY <2>1, WatchedKnows
  <2>3. \A t \in Openers : ~Unstarted(t)
      BY <2>1, WatchedKnows
  <2>4. UNCHANGED <<ppc, err, old, running, srate, prate, pa_reopen, monitors, monitor>>
      BY <2>1 DEF opener, watch, Quiet, deviceVars
  <2>5. \A t \in Openers : ~Unstarted(t)' /\ ppc'[t] # "starting"
      BY <2>3, <2>4 DEF Unstarted, Failed
  <2>6. PaTypes'
      BY <2>1, <2>4 DEF OpenInv, PaTypes
  <2>7. Calls'
      BY <2>1, <2>2, <2>4, <2>5 DEF OpenInv, Calls, Closing
  <2>8. OneOpens'
      BY <2>2, <2>4, <2>5, NamesDiffer DEF OpenInv, OneOpens
  <2>9. OneRuns'
      BY <2>1, <2>2, <2>4, <2>5 DEF OneRuns, Still
  <2>10. RateInv'
      BY <2>1, <2>5 DEF RateInv
  <2> QED
      BY <2>1, <2>6, <2>7, <2>8, <2>9, <2>10, QuietInOrder DEF OpenInv
<1>3. CASE MonitorEnds
  <2> DEFINE t == CHOOSE m \in Monitors : ppc[m] = "idle"
  <2>1. t \in Monitors /\ t \in Openers
      BY <1>3, NamesDiffer DEF MonitorEnds
  <2>2. /\ monitor = "runs" /\ Watched /\ running /\ monitor' = "none" /\ OpensOnly
        /\ UNCHANGED <<old, err>>
      BY <1>3 DEF MonitorEnds, Watched
  <2>3. PICK st \in [Streams -> {"closed"}] \cup {status} : Opens(t, st, FALSE)
      BY <1>3 DEF MonitorEnds
  <2> HIDE DEF t
  <2>4. ppc["main"] = "idle" /\ ppc["controller"] = "idle" /\ ~Closing /\ ~pa_reopen
      BY <2>2, WatchedKnows
  <2>5. \A u \in Openers : ~Unstarted(u)
      BY <2>2, WatchedKnows
  <2>6. monitors = 0
      BY <2>2, WatchedKnows DEF OpenInv, OneOpens, PaTypes
  <2>7. MayOpen(t)
      BY <2>1, <2>2, <2>4, <2>5, <2>6, NamesDiffer DEF MayOpen
  <2>8. st \in [Streams -> {"closed", "opened"}]
      BY <2>2, WatchedKnows DEF Still, OpenInv, PaTypes
  <2>9. old' \in [Openers -> Streams \cup {0}] /\ \A u \in Openers : old'[u] = 0
      BY <2>2, <2>4, NamesDiffer DEF OpenInv, PaTypes, Calls
  <2>10. OpenInv' /\ RateInv'
      BY <2>1, <2>2, <2>3, <2>7, <2>8, <2>9, OpensKeeps
  <2> QED
      BY <2>2, <2>3, <2>10, OpensInOrder
<1> QED
    BY <1>1, <1>2, <1>3 DEF PaMonitor

(* output_close_pa *)

LEMMA PaCloseKeeps == ASSUME QueueInv, PaInv, PaClose PROVE QueueInv' /\ PaInv'
<1> USE DEF PaInv
<1>1. /\ ppc["main"] = "idle" /\ ppc["controller"] = "idle" /\ running' = FALSE
      /\ monitor' = "none"
      /\ UNCHANGED <<output, buf, decoder, fixed, stream, prate, status, srate, opener, pa_reopen,
                     monitors>>
    BY DEF PaClose
<1>2. QueueInv' /\ (SameRate => SameRate')
  <2>1. state' \in States
      BY <1>1 DEF QueueInv, InOrder, Now, output
  <2> QED
      BY <2>1, <1>1, OthersInOrder, SameKept DEF output, decoder, fixed
<1>3. UNCHANGED <<ppc, old, err>> /\ \A t \in Openers : Unstarted(t)' = Unstarted(t)
    BY <1>1 DEF opener, Unstarted, Failed
<1>4. Watched' => Watched
    BY <1>1, <1>3, NamesDiffer DEF Watched
<1>5. PaTypes'
    BY <1>1, <1>3 DEF OpenInv, PaTypes
<1>6. Calls'
    BY <1>1, <1>3 DEF OpenInv, Calls, Closing
<1>7. OneOpens'
    BY <1>1, <1>3, NamesDiffer DEF OpenInv, OneOpens
<1>8. OneRuns'
    BY <1>1, <1>3, <1>4 DEF OpenInv, OneRuns, MainOpens, Failed, Still
<1>9. RateInv'
    BY <1>1, <1>2, <1>3, RateKept
<1> QED
    BY <1>2, <1>5, <1>6, <1>7, <1>8, <1>9 DEF OpenInv

LEMMA PaAbortsKeeps == ASSUME QueueInv, PaInv, ~running, PaAborts PROVE QueueInv' /\ PaInv'
<1> USE DEF PaInv
<1>1. /\ \A s \in Streams : status'[s] = "closed"
      /\ status' \in [Streams -> StatusOf]
      /\ UNCHANGED <<output, buf, decoder, running, fixed, stream, prate, srate, opener, pa_reopen,
                     watch>>
    BY DEF PaAborts, Terminates, StatusOf
<1>2. QueueInv' /\ (SameRate => SameRate')
  <2>1. state' \in States
      BY <1>1 DEF QueueInv, InOrder, Now, output
  <2> QED
      BY <2>1, <1>1, OthersInOrder, SameKept DEF output, decoder, fixed
<1>3. UNCHANGED <<ppc, old, err, monitors, monitor>>
    BY <1>1 DEF opener, watch
<1>4. ppc["main"] = "idle" /\ ppc["controller"] = "idle"
    BY DEF OpenInv, OneOpens
<1>5. PaTypes'
    BY <1>1, <1>3 DEF OpenInv, PaTypes
<1>6. Calls'
    BY <1>1, <1>3, <1>4 DEF OpenInv, Calls, Closing
<1>7. OneOpens'
    BY <1>1, <1>3 DEF OpenInv, OneOpens, Watched, Unstarted, Failed
<1>8. OneRuns'
    BY <1>1, <1>3 DEF OpenInv, OneRuns, Watched, MainOpens, Unstarted, Failed, Still
<1>9. RateInv'
    BY <1>1, <1>2, <1>3, RateKept
<1> QED
    BY <1>2, <1>5, <1>6, <1>7, <1>8, <1>9 DEF OpenInv

LEMMA OpenerKeeps == ASSUME QueueInv, PaInv, PaOpener PROVE QueueInv' /\ PaInv'
BY PaOpenKeeps, PaClosesKeeps, PaReopensKeeps, PaStartsKeeps, PaStartedKeeps DEF PaOpener

LEMMA IdleKept == PaIdle /\ UNCHANGED paVars => PaIdle'
BY DEF PaIdle, paVars, opener

------------------------------------------------------------------------------
(* All outputs *)

Inv == /\ QueueInv /\ AlsaInv /\ (held => ~running)
       /\ kind = "pulse" => PulseInv
       /\ IF kind = "pa" THEN PaInv ELSE PaIdle

LEMMA InitInv == Init => Inv
<1> SUFFICES ASSUME Init PROVE Inv
    OBVIOUS
<1>1. QueueInv /\ ~held
    BY QueueInit DEF Init, DeviceInit
<1>2. AlsaInv /\ PulseInv
    BY DEF Init, DeviceInit, AlsaInit, PulseInit, AlsaInv, AtWork, PulseInv
<1>3. PaIdle
    BY DEF Init, PaInit, PaIdle
<1>4. PaInv
  <2>1. PaTypes
      BY NamesDiffer DEF Init, PaInit, PaTypes, AtOpen, StatusOf
  <2>2. /\ ppc["main"] = "called" /\ ppc["controller"] = "idle" /\ \A m \in Monitors : ppc[m] = "idle"
        /\ \A t \in Openers : ppc[t] \in {"called", "idle"} /\ old[t] = 0
        /\ stream = 0 /\ ~pa_reopen /\ monitors = 0 /\ monitor = "none" /\ running
        /\ \A s \in Streams : status[s] = "closed"
      BY NamesDiffer DEF Init, PaInit, DeviceInit
  <2>3. \A t \in Openers : ~Unstarted(t)
      BY <2>2 DEF Unstarted, Failed
  <2>4. Calls
      BY <2>2, NamesDiffer DEF Calls, Closing
  <2>5. OneOpens
      BY <2>2, <2>3, NamesDiffer DEF OneOpens, Watched
  <2>6. OneRuns
      BY <2>2 DEF OneRuns, Still
  <2>7. RateInv
      BY <2>2 DEF RateInv
  <2> QED
      BY <2>1, <2>4, <2>5, <2>6, <2>7 DEF PaInv, OpenInv
<1> QED
    BY <1>1, <1>2, <1>3, <1>4 DEF Inv

\* The steps that all outputs share.
LEMMA SharedKeeps == ASSUME Inv, Shared, Others, UNCHANGED kind PROVE Inv'
<1>1. QueueInv'
  <2>1. CASE Tick
      BY <2>1, TickInOrder DEF Tick, Inv, fixed
  <2>2. CASE Unplug \/ Plug
    <3>1. state' \in States
        BY <2>2 DEF Unplug, Plug, Inv, QueueInv, InOrder, Now, output
    <3> QED
        BY <2>2, <3>1, OthersInOrder DEF Unplug, Plug, Inv, output, fixed
  <2> QED
      BY <2>1, <2>2, WriteInOrder, CommandInOrder DEF Shared, Commands, Inv
<1>2. /\ UNCHANGED <<running, held, error_opening>>
      /\ current_sample_rate' = current_sample_rate \/ error_opening
    BY DEF Shared, Tick, Commands, StrmStart, Flush, Aude, WriteFrame, Unplug, Plug, output
<1>3. AlsaInv'
    BY <1>2, AlsaKept DEF Inv, Others, alsaVars
<1>4. kind = "pulse" => PulseInv'
    BY <1>2 DEF Inv, PulseInv, Others, pulseVars
<1>5. IF kind = "pa" THEN PaInv' ELSE PaIdle'
    BY SharedKeepsPa, IdleKept DEF Inv, Others
<1> QED
    BY <1>1, <1>2, <1>3, <1>4, <1>5 DEF Inv

\* output_close_*.
LEMMA CloseKeeps == ASSUME Inv, Close, UNCHANGED kind PROVE Inv'
<1>1. CASE kind = "pa"
  <2>1. PaClose /\ UNCHANGED <<alsaVars, pulseVars>>
      BY <1>1 DEF Close
  <2>2. QueueInv' /\ PaInv'
      BY <1>1, <2>1, PaCloseKeeps DEF Inv
  <2>3. AlsaInv'
      BY <1>1, <2>1, AlsaKept DEF Inv, alsaVars
  <2> QED
      BY <1>1, <2>1, <2>2, <2>3 DEF Inv, PaClose
<1>2. CASE kind # "pa"
  <2>1. /\ UNCHANGED <<output, buf, decoder, held, fixed, alsaVars, paVars, pulseVars>> /\ ~running'
      BY <1>2 DEF Close, AlsaClose, PulseClose
  <2>2. QueueInv'
    <3>1. state' \in States
        BY <2>1 DEF Inv, QueueInv, InOrder, Now, output
    <3> QED
        BY <2>1, <3>1, OthersInOrder DEF Inv, output, fixed
  <2>3. AlsaInv'
      BY <2>1, AlsaKept DEF Inv, alsaVars, output
  <2>4. kind = "pulse" => PulseInv'
      BY <2>1 DEF Inv, PulseInv, pulseVars, output
  <2>5. PaIdle'
      BY <1>2, <2>1, IdleKept DEF Inv
  <2> QED
      BY <1>2, <2>1, <2>2, <2>3, <2>4, <2>5 DEF Inv
<1> QED
    BY <1>1, <1>2

LEMMA OutputKeeps == ASSUME Inv, Output, UNCHANGED kind PROVE Inv'
<1>1. CASE kind = "alsa"
  <2>1. AlsaStep /\ UNCHANGED <<paVars, pulseVars>>
      BY <1>1 DEF Output
  <2>2. QueueInv' /\ AlsaInv'
      BY <1>1, <2>1, AlsaStepKeeps DEF Inv
  <2>3. UNCHANGED <<running, held>>
      BY <2>1 DEF AlsaStep, AlsaOff, AlsaProbe, AlsaCheck, AlsaOpens, AlsaOpenFails,
                  AlsaClosesTwice, AlsaQuery, AlsaGone, AlsaAvail, AlsaStart, AlsaWait,
                  AlsaTurnsOff, AlsaPlays, AlsaDelayFails, AlsaWriteFails, Quiet, deviceVars
  <2>4. PaIdle'
      BY <1>1, <2>1, IdleKept DEF Inv
  <2> QED
      BY <1>1, <2>2, <2>3, <2>4 DEF Inv
<1>2. CASE kind = "pa"
  <2>1. (PaStep \/ PaAborts) /\ UNCHANGED <<alsaVars, pulseVars>>
      BY <1>2 DEF Output
  <2>2. QueueInv' /\ PaInv'
    <3>1. PaAborts => ~running
        BY DEF Inv, PaAborts
    <3> QED
        BY <1>2, <2>1, <3>1, CallbacksKeepPa, OpenerKeeps, MonitorKeeps, PaAbortsKeeps DEF Inv, PaStep
  <2>3. UNCHANGED running /\ (held' => held)
    <3>1. CASE PaCallbacks
        BY <3>1 DEF PaCallbacks, PaCalls, PaCallback, PaFinishes, pa_stream_finished, Quiet, deviceVars
    <3>2. CASE PaOpener
        BY <3>2 DEF PaOpener, PaOpen, PaCloses, PaReopens, PaStarts, PaStarted, OpensOnly, Quiet, deviceVars
    <3>3. CASE PaMonitor
      <4>1. CASE MonitorEnds
        <5>1. OpensOnly
            BY <4>1 DEF MonitorEnds
        <5> QED
            BY <5>1 DEF OpensOnly
      <4> QED
          BY <3>3, <4>1 DEF PaMonitor, MonitorStarts, MonitorWaits, Quiet, deviceVars
    <3>4. CASE PaAborts
        BY <3>4 DEF PaAborts
    <3> QED
        BY <2>1, <3>1, <3>2, <3>3, <3>4 DEF PaStep
  <2>4. AlsaInv'
      BY <1>2, <2>1, AlsaKept DEF Inv, alsaVars
  <2> QED
      BY <1>2, <2>2, <2>3, <2>4 DEF Inv
<1>3. CASE kind \in {"pulse", "stdout"}
  <2>1. UNCHANGED <<alsaVars, paVars>>
      BY <1>3 DEF Output
  <2>2. QueueInv' /\ (kind = "pulse" => PulseInv')
      BY <1>3, PulseStepKeeps, StdoutKeeps DEF Inv, Output
  <2>3. UNCHANGED <<running, held>>
      BY <1>3 DEF Output, PulseStep, PulseExits, PulseOff, PulseCreates, PulseHas, PulseIterates,
                  PulseRefused, PulsePlays, PulseLoses, StdoutStep, StdoutPlays, StdoutWrites,
                  Quiet, deviceVars
  <2>4. AlsaInv'
      BY <1>3, <2>1, AlsaKept DEF Inv, alsaVars
  <2>5. PaIdle'
      BY <1>3, <2>1, IdleKept DEF Inv
  <2> QED
      BY <1>3, <2>2, <2>3, <2>4, <2>5 DEF Inv
<1> QED
    BY <1>1, <1>2, <1>3 DEF Output

LEMMA ExternalKeepsInv == ASSUME Inv, External, UNCHANGED kind PROVE Inv'
<1>1. CASE kind = "alsa"
  <2>1. (PcmPlays \/ PcmXrun) /\ UNCHANGED <<paVars, pulseVars>>
      BY <1>1 DEF External
  <2>2. QueueInv'
      BY <2>1, ExternalKeeps DEF Inv
  <2>3. UNCHANGED <<apc, pcmp, arate, running, held, error_opening, current_sample_rate>>
      BY <2>1 DEF PcmPlays, PcmXrun, Quiet, deviceVars, output
  <2>4. AlsaInv' /\ PaIdle'
      BY <1>1, <2>1, <2>3, AlsaKept, IdleKept DEF Inv
  <2> QED
      BY <1>1, <2>2, <2>3, <2>4 DEF Inv
<1>2. CASE kind = "pulse"
  <2>1. PulseFails /\ UNCHANGED <<alsaVars, paVars>>
      BY <1>2 DEF External
  <2>2. QueueInv' /\ PulseInv'
      BY <1>2, <2>1, PulseStepKeeps DEF Inv
  <2>3. UNCHANGED <<running, held>>
      BY <2>1 DEF PulseFails, Quiet, deviceVars
  <2>4. AlsaInv' /\ PaIdle'
      BY <1>2, <2>1, AlsaKept, IdleKept DEF Inv, alsaVars
  <2> QED
      BY <1>2, <2>2, <2>3, <2>4 DEF Inv
<1> QED
    BY <1>1, <1>2 DEF External

LEMMA StepInv == Inv /\ [Next]_vars => Inv'
<1> SUFFICES ASSUME Inv, [Next]_vars PROVE Inv'
    OBVIOUS
<1>1. CASE Next
    BY <1>1, SharedKeeps, CloseKeeps, OutputKeeps, ExternalKeepsInv DEF Next
<1>2. CASE UNCHANGED vars
  <2>1. Quiet /\ UNCHANGED <<kind, alsaVars, paVars, pulseVars>>
      BY <1>2 DEF vars, Quiet
  <2>2. QueueInv' /\ UNCHANGED <<running, held>>
      BY <2>1, QuietInOrder DEF Inv, Quiet, deviceVars
  <2>3. AlsaInv'
      BY <2>1, AlsaKept DEF Inv, alsaVars, Quiet, deviceVars, output
  <2>4. kind = "pulse" => PulseInv'
      BY <2>1 DEF Inv, PulseInv, pulseVars, Quiet, deviceVars, output
  <2>5. IF kind = "pa" THEN PaInv' ELSE PaIdle'
    <3>1. SameRate => SameRate'
        BY <2>1, QuietSame DEF paVars
    <3> QED
        BY <2>1, <2>2, <3>1, OpenKept, RateKept, IdleKept DEF Inv, PaInv, paVars, opener
  <2> QED
      BY <2>1, <2>2, <2>3, <2>4, <2>5 DEF Inv
<1> QED
    BY <1>1, <1>2

LEMMA InvHolds == Spec => []Inv
<1>1. Init => Inv
    BY InitInv
<1>2. Inv /\ [Next]_vars => Inv'
    BY StepInv
<1> QED
    BY <1>1, <1>2, PTL DEF Spec

\* No thread uses a pcm or a stream that another step has closed, and no second stream is
\* opened beside one that still is (the output threads, _pa_open and the monitor thread).
THEOREM NoHandleUsedAfterClose == Spec => []HandleLive
<1>1. Inv => HandleLive
  <2> SUFFICES ASSUME Inv PROVE HandleLive
      OBVIOUS
  <2>1. apc \in {"query", "avail", "play"} => pcmp = "open"
      BY DEF Inv, AlsaInv, AtWork
  <2>2. CASE kind = "pa"
    <3>1. OpenInv
        BY <2>2 DEF Inv, PaInv
    <3>2. running => \A t \in Openers : ppc[t] = "starting" => stream # 0 /\ status[stream] = "opened"
        BY <3>1 DEF OpenInv, Calls, OneRuns
    <3>3. ASSUME NEW s \in Streams, IsOpen(s)
          PROVE  \/ s = stream \/ \E t \in Openers : old[t] = s
                 \/ status[s] = "opened"
        BY <3>1, <3>3, NamesDiffer DEF IsOpen, OpenInv, OneRuns
    <3>4. stream # 0 => IsOpen(stream) \/ ~running
        BY <3>1 DEF IsOpen, OpenInv, OneRuns
    <3> QED
        BY <2>1, <3>2, <3>3, <3>4 DEF HandleLive
  <2>3. CASE kind # "pa"
      BY <2>1, <2>3 DEF Inv, PaIdle, HandleLive, IsOpen
  <2> QED
      BY <2>2, <2>3
<1> QED
    BY <1>1, InvHolds, PTL

------------------------------------------------------------------------------
(* What is played: only the steps that call _output_frames take frames from outputbuf. *)

LEMMA NothingPlayed == ASSUME QueueInv, buf' = buf \/ state' # "RUNNING" PROVE Played = 0
<1>1. Len(buf) \in Nat
    BY DEF QueueInv, InOrder, Now
<1> QED
    BY <1>1 DEF Played

\* A frame that is played, and the rate of its track.
LEMMA RateOfPlayed ==
    ASSUME QueueInv, QueueInv', NEW i \in 1 .. Played
    PROVE  i \in 1 .. Len(buf) /\ rates[buf[i]] = RateAt(Now, i)
<1>1. Len(buf) \in Nat /\ \A j \in 1 .. Len(buf) : rates[buf[j]] = RateAt(Now, j)
    BY DEF QueueInv, InOrder, Now
<1>2. Len(buf') \in Nat
    BY DEF QueueInv, InOrder, Now
<1>3. i \in 1 .. Len(buf)
    BY <1>1, <1>2 DEF Played
<1> QED
    BY <1>1, <1>3

Matches(i) ==
    LET rate == rates[buf[i]]
    IN  \/ kind = "alsa" /\ pcmp = "open" /\ arate = rate
        \/ kind = "pa" /\ (srate[PlayedBy] = rate \/ (track_start # 0 /\ i >= track_start))
        \/ kind = "pulse" /\ (urate = rate \/ error_opening \/ pstream = "failed")
        \/ kind = "stdout"

LEMMA NoneMatches == ASSUME Played = 0 PROVE \A i \in 1 .. Played : Matches(i)
OBVIOUS

LEMMA SharedMatches ==
    ASSUME Inv, Inv', Shared \/ Close PROVE \A i \in 1 .. Played : Matches(i)
<1>1. CASE WriteFrame
  <2>1. Len(buf') = Len(buf) + 1 /\ Len(buf) \in Nat
    <3>1. buf \in Seq(1 .. Tracks) /\ buf' = Append(buf, track)
        BY <1>1 DEF Inv, QueueInv, InOrder, Now, WriteFrame
    <3> QED
        BY <3>1
  <2> QED
      BY <2>1, NoneMatches DEF Played
<1>2. CASE Flush
  <2>1. state' # "RUNNING"
      BY <1>2 DEF Flush
  <2> QED
      BY <2>1, NothingPlayed, NoneMatches DEF Inv
<1>3. CASE Tick \/ StrmStart \/ Aude \/ Unplug \/ Plug \/ Close
  <2>1. buf' = buf
      BY <1>3 DEF Tick, StrmStart, Aude, Unplug, Plug, Close, AlsaClose, PaClose, PulseClose
  <2> QED
      BY <2>1, NothingPlayed, NoneMatches DEF Inv
<1> QED
    BY <1>1, <1>2, <1>3 DEF Shared, Commands

LEMMA AlsaMatches ==
    ASSUME Inv, kind = "alsa", AlsaStep PROVE \A i \in 1 .. Played : Matches(i)
<1>1. CASE AlsaPlays
  <2>1. pcmp = "open" /\ arate = current_sample_rate
      BY <1>1 DEF AlsaPlays, Inv, AlsaInv, AtWork
  <2>2. \A i \in 1 .. Played : rates[buf[i]] = current_sample_rate
      BY <1>1, PlaysInOrder DEF AlsaPlays, Inv, fixed
  <2> QED
      BY <2>1, <2>2 DEF Matches
<1>2. CASE ~AlsaPlays
  <2>1. buf' = buf
      BY <1>2 DEF AlsaStep, AlsaOff, AlsaProbe, AlsaCheck, AlsaOpens, AlsaOpenFails,
                  AlsaClosesTwice, AlsaQuery, AlsaGone, AlsaAvail, AlsaStart, AlsaWait,
                  AlsaTurnsOff, AlsaDelayFails, AlsaWriteFails, Quiet, deviceVars
  <2> QED
      BY <2>1, NothingPlayed, NoneMatches DEF Inv
<1> QED
    BY <1>1, <1>2

LEMMA PaMatches ==
    ASSUME Inv, Inv', kind = "pa", PaStep \/ PaAborts PROVE \A i \in 1 .. Played : Matches(i)
<1>1. CASE PaCallback
  <2>1. PICK s \in Streams : /\ status[s] = "calling" 
                             /\ Status(s, IF state' = "OFF" \/ prate # current_sample_rate'
                                          THEN "complete" ELSE "active")
      BY <1>1 DEF PaCallback
  <2>2. /\ status'[s] # "calling"
        /\ \A q \in Streams : q # s => status'[q] = status[q]
      BY <2>1 DEF Status, Inv, PaInv, OpenInv, PaTypes
  <2>3. PlayedBy = s
      BY <2>1, <2>2 DEF PlayedBy
  <2>4. srate[s] = prate /\ SameRate
      BY <2>1 DEF Inv, PaInv, RateInv
  <2>5. ASSUME NEW i \in 1 .. Played
        PROVE  srate[s] = rates[buf[i]] \/ (track_start # 0 /\ i >= track_start)
    <3>1. i \in 1 .. Len(buf) /\ rates[buf[i]] = RateAt(Now, i)
        BY RateOfPlayed DEF Inv
    <3>2. track_start \in Nat /\ buf \in Seq(1 .. Tracks)
        BY DEF Inv, QueueInv, InOrder, Now
    <3>3. buf # << >> /\ i >= 1
        BY <3>1, <3>2
    <3> QED
        BY <2>4, <3>1, <3>2, <3>3 DEF SameRate, Fresh, RateAt, Now
  <2> QED
      BY <2>3, <2>5 DEF Matches
<1>2. CASE ~PaCallback
  <2>1. buf' = buf
    <3>1. CASE PaCallbacks
        BY <1>2, <3>1 DEF PaCallbacks, PaCalls, PaFinishes, pa_stream_finished, Quiet, deviceVars
    <3>2. CASE PaOpener
        BY <3>2 DEF PaOpener, PaOpen, PaCloses, PaReopens, PaStarts, PaStarted, OpensOnly, Quiet, deviceVars
    <3>3. CASE PaMonitor
        BY <3>3 DEF PaMonitor, MonitorStarts, MonitorWaits, MonitorEnds, OpensOnly, Quiet, deviceVars
    <3>4. CASE PaAborts
        BY <3>4 DEF PaAborts
    <3> QED
        BY <3>1, <3>2, <3>3, <3>4 DEF PaStep
  <2> QED
      BY <2>1, NothingPlayed, NoneMatches DEF Inv
<1> QED
    BY <1>1, <1>2

LEMMA PulseMatches ==
    ASSUME Inv, kind = "pulse", PulseStep PROVE \A i \in 1 .. Played : Matches(i)
<1>1. CASE PulsePlays
  <2>1. urate = current_sample_rate \/ error_opening
      BY <1>1 DEF PulsePlays, Inv, PulseInv
  <2>2. \A i \in 1 .. Played : rates[buf[i]] = current_sample_rate
      BY <1>1, PlaysInOrder DEF PulsePlays, Inv, fixed
  <2> QED
      BY <2>1, <2>2 DEF Matches
<1>2. CASE PulseLoses
    BY <1>2 DEF PulseLoses, Matches
<1>3. CASE ~PulsePlays /\ ~PulseLoses
  <2>1. buf' = buf
      BY <1>3 DEF PulseStep, PulseExits, PulseOff, PulseCreates, PulseHas, PulseIterates,
                  PulseRefused, Quiet, deviceVars
  <2> QED
      BY <2>1, NothingPlayed, NoneMatches DEF Inv
<1> QED
    BY <1>1, <1>2, <1>3

LEMMA StepMatches ==
    ASSUME Inv, Inv', Next \/ UNCHANGED vars PROVE \A i \in 1 .. Played : Matches(i)
<1>1. CASE Output
  <2>1. kind = "stdout" => \A i \in 1 .. Played : Matches(i)
      BY DEF Matches
  <2> QED
      BY <1>1, <2>1, AlsaMatches, PaMatches, PulseMatches DEF Output
<1>2. CASE External \/ UNCHANGED vars
  <2>1. buf' = buf
      BY <1>2 DEF External, PcmPlays, PcmXrun, PulseFails, Quiet, vars, deviceVars
  <2> QED
      BY <2>1, NothingPlayed, NoneMatches DEF Inv
<1> QED
    BY <1>1, <1>2, SharedMatches DEF Next

\* A frame is played by an open device at the rate of its track, with the exceptions that
\* RateMatches names (the output threads and PortAudio's callback after _output_frames).
THEOREM PlayedAtItsRate == Spec => RateMatches
<1>1. Inv /\ Inv' /\ [Next]_vars => [\A i \in 1 .. Played : Matches(i)]_vars
    BY StepMatches
<1>2. [][\A i \in 1 .. Played : Matches(i)]_vars => RateMatches
    BY DEF RateMatches, Matches
<1> QED
    BY <1>1, <1>2, InvHolds, PTL DEF Spec
=============================================================================
