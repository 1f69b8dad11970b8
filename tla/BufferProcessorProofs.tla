------------------------ MODULE BufferProcessorProofs ------------------------
(***************************************************************************)
(* What is proved of BufferProcessor, for any sizes of buffers, formats    *)
(* and layouts: the times a callback is told are those of the frames it is *)
(* given and makes, and the frames pass through in order, unharmed.        *)
(*                                                                         *)
(* The times are a matter of counting (Accounts): what the user took and   *)
(* what lies in tempInputBuffer is what the host gave, and what the user   *)
(* made lies in tempOutputBuffer or is with the host, both apart from the  *)
(* silence at the start.  In full duplex the output has to be filled when  *)
(* the input is used up.  It is, because that silence is the most that a   *)
(* number of host buffers leaves of the user's (ShiftIsMost), which is     *)
(* what CalculateFrameShift is for.                                        *)
(*                                                                         *)
(* The order is a matter of where the frames lie.  A layout (IsLayout)     *)
(* gives frame k of channel x a place of its own, so that what a converter *)
(* writes is n frames and leaves the others alone (Wrote, Moved).  Then    *)
(* InInv says which frames the host's input and tempInputBuffer hold, and  *)
(* OutInv the same of the output (Filled, TempOut), on top of the counts.  *)
(* Streams without a callback have an invariant of their own (BlockInv).   *)
(***************************************************************************)
EXTENDS BufferProcessor, WellFoundedInduction, TLAPS

------------------------------------------------------------------------------
(* Arithmetic *)

LEMMA Division ==
    ASSUME NEW x \in Nat, NEW n \in Nat \ {0}
    PROVE  x = n * (x \div n) + (x % n) /\ x % n \in 0 .. n - 1 /\ x \div n \in Nat
<1>1. x = n * (x \div n) + (x % n)
    BY Z3T(30)
<1>2. x % n \in 0 .. n - 1
    OBVIOUS
<1>3. x \div n \in Nat
    OBVIOUS
<1> QED
    BY <1>1, <1>2, <1>3

LEMMA Divides ==
    ASSUME NEW x \in Nat, NEW n \in Nat \ {0}, x % n = 0
    PROVE  \E k \in Nat : x = n * k
<1> DEFINE k == x \div n
<1>1. x = n * k + (x % n) /\ k \in Nat
    BY Division
<1> HIDE DEF k
<1>2. n * k \in Int
    BY <1>1
<1>3. x = n * k
    BY <1>1, <1>2
<1> QED
    BY <1>1, <1>3

LEMMA Remainder ==
    ASSUME NEW q \in Int, NEW n \in Nat \ {0}, NEW r \in 0 .. n - 1
    PROVE  (n * q + r) % n = r
OBVIOUS

LEMMA Regroup ==
    ASSUME NEW x \in Int, NEW y \in Int, NEW a \in Int, NEW b \in Int, NEW ab \in Int, NEW r \in Int,
           x = a + y, y = b + r, ab = a + b
    PROVE  x = ab + r
OBVIOUS

LEMMA AnotherMultiple ==
    ASSUME NEW x \in Nat, NEW n \in Nat \ {0}, x % n = 0 PROVE (x + n) % n = 0
<1>1. PICK k \in Nat : x = n * k
    BY Divides
<1>2. x + n = n * (k + 1) + 0
    BY <1>1
<1>3. k + 1 \in Int /\ 0 \in 0 .. n - 1
    OBVIOUS
<1>4. (n * (k + 1) + 0) % n = 0
    BY <1>3, Remainder
<1> QED
    BY <1>2, <1>4

LEMMA HasLeast ==
    ASSUME NEW I \in SUBSET Nat, I # {}
    PROVE  \E x \in I : \A y \in I : x <= y
<1>1. PICK x \in I : \A y \in I : ~(<<y, x>> \in OpToRel(<, Nat))
    BY NatLessThanWellFounded, WFMin
<1>2. ASSUME NEW y \in I PROVE x <= y
  <2>1. x \in Nat /\ y \in Nat
      OBVIOUS
  <2>2. y < x => <<y, x>> \in OpToRel(<, Nat)
      BY <2>1 DEF OpToRel
  <2>3. ~(y < x)
      BY <1>1, <2>2
  <2> QED
      BY <2>1, <2>3
<1> QED
    BY <1>2

LEMMA HasMost ==
    ASSUME NEW n \in Nat, NEW I \in SUBSET (0 .. n), I # {}
    PROVE  \E x \in I : \A y \in I : y <= x
<1> DEFINE J == {n - x : x \in I}
<1>1. J \in SUBSET Nat /\ J # {}
  <2>1. \A x \in I : x \in 0 .. n /\ n - x \in Nat
      OBVIOUS
  <2> QED
      BY <2>1
<1>2. PICK j \in J : \A y \in J : j <= y
    BY <1>1, HasLeast
<1>3. PICK x \in I : j = n - x
    OBVIOUS
<1>4. ASSUME NEW y \in I PROVE y <= x
  <2>1. n - y \in J
      OBVIOUS
  <2>2. n - x <= n - y /\ x \in 0 .. n /\ y \in 0 .. n
      BY <1>2, <1>3, <2>1
  <2> QED
      BY <2>2
<1> QED
    BY <1>4

LEMMA CommonMultiple ==
    ASSUME NEW m \in Nat \ {0}, NEW n \in Nat \ {0}
    PROVE  LCM(m, n) \in Nat \ {0} /\ LCM(m, n) % m = 0 /\ LCM(m, n) % n = 0
<1> DEFINE I == {l \in 1 .. m * n : l % m = 0 /\ l % n = 0}
<1>1. m * n \in Nat \ {0} /\ (m * n) % m = 0 /\ (m * n) % n = 0
  <2>1. (n * m + 0) % n = 0 /\ (m * n + 0) % m = 0
      BY Remainder
  <2>2. m * n \in Nat \ {0} /\ m * n = n * m
      OBVIOUS
  <2> QED
      BY <2>1, <2>2
<1>2. m * n \in I /\ I \in SUBSET Nat
    BY <1>1
<1>3. PICK l \in I : \A k \in I : l <= k
    BY <1>2, HasLeast
<1>4. \A k \in 1 .. l - 1 : k % m # 0 \/ k % n # 0
  <2> SUFFICES ASSUME NEW k \in 1 .. l - 1, k % m = 0, k % n = 0 PROVE FALSE
      OBVIOUS
  <2>1. k \in I
      BY <1>1, <1>2
  <2>2. k \in Nat /\ l \in Nat /\ k < l /\ l <= k
      BY <1>2, <1>3, <2>1
  <2> QED
      BY <2>2
<1>5. \E x \in 1 .. m * n : /\ x % m = 0 /\ x % n = 0
                            /\ \A k \in 1 .. x - 1 : k % m # 0 \/ k % n # 0
    BY <1>3, <1>4
<1> HIDE DEF I
<1>6. LCM(m, n) \in 1 .. m * n /\ LCM(m, n) % m = 0 /\ LCM(m, n) % n = 0
    BY <1>5 DEF LCM
<1> QED
    BY <1>1, <1>6

\* CalculateFrameShift is what some number of buffers of m frames leaves of one of n, and
\* none leaves more.
LEMMA ShiftIsMost ==
    ASSUME NEW m \in Nat \ {0}, NEW n \in Nat \ {0}
    PROVE  /\ CalculateFrameShift(m, n) \in 0 .. n - 1
           /\ \E i \in Nat : CalculateFrameShift(m, n) = (i * m) % n
           /\ \A i \in Nat : (i * m) % n <= CalculateFrameShift(m, n)
<1> DEFINE l == LCM(m, n)
           p == l \div m
           left(i) == (i * m) % n
           shifts == {0} \cup {left(i) : i \in 1 .. p - 1}
           shift == CalculateFrameShift(m, n)
<1>1. l \in Nat \ {0} /\ l % m = 0 /\ l % n = 0
    BY CommonMultiple
<1> HIDE DEF l
<1>2. p \in Nat \ {0} /\ l = m * p
  <2>1. l = m * p + 0 /\ p \in Nat
      BY <1>1, Division
  <2>2. p # 0
      BY <1>1, <2>1
  <2> QED
      BY <2>1, <2>2
<1>3. PICK e \in Nat : l = n * e
  <2>1. l = n * (l \div n) + 0 /\ l \div n \in Nat
      BY <1>1, Division
  <2> QED
      BY <2>1
<1> HIDE DEF p
<1>4. \A i \in Nat : i * m \in Nat /\ left(i) \in 0 .. n - 1
  <2> TAKE i \in Nat
  <2>1. i * m \in Nat
      OBVIOUS
  <2> QED
      BY <2>1, Division
<1>5. left(0) = 0
  <2>1. 0 * m = n * 0 + 0
      OBVIOUS
  <2> QED
      BY <2>1, Remainder
<1>6. shifts \in SUBSET (0 .. n - 1) /\ shifts # {}
    BY <1>2, <1>4
<1>7. \E r \in shifts : \A k \in shifts : k <= r
  <2> HIDE DEF shifts
  <2>1. n - 1 \in Nat
      OBVIOUS
  <2> QED
      BY <1>6, <2>1, HasMost
<1>8. shift \in shifts /\ \A k \in shifts : k <= shift
  <2>1. shift = CHOOSE r \in shifts : \A k \in shifts : k <= r
      BY DEF CalculateFrameShift, l, p
  <2> HIDE DEF shift, shifts
  <2> QED
      BY <1>7, <2>1
<1>9. \E i \in Nat : shift = left(i)
  <2>1. shift = left(0) \/ \E i \in 1 .. p - 1 : shift = left(i)
      BY <1>5, <1>8
  <2> HIDE DEF left, shift
  <2> QED
      BY <1>2, <2>1
<1>10. ASSUME NEW i \in Nat PROVE left(i) <= shift
  <2> DEFINE q == i \div p
             j == i % p
  <2>1. i = p * q + j /\ j \in 0 .. p - 1 /\ q \in Nat
      BY <1>2, Division
  <2> HIDE DEF q, j
  <2>2. i * m = n * (e * q) + j * m
    <3>1. i * m = (m * p) * q + j * m
        BY <2>1, <1>2
    <3>2. (m * p) * q = n * (e * q)
        BY <1>2, <1>3, <2>1
    <3> QED
        BY <3>1, <3>2
  <2>3. j * m \in Nat /\ j * m = n * ((j * m) \div n) + left(j) /\ (j * m) \div n \in Nat
        /\ left(j) \in 0 .. n - 1
    <3>1. j * m \in Nat
        BY <2>1
    <3> QED
        BY <3>1, Division
  <2>4. left(i) = left(j)
    <3> DEFINE d == (j * m) \div n
    <3>0. n * (e * q + d) = n * (e * q) + n * d
        BY <1>3, <2>1, <2>3
    <3>1. i * m = n * (e * q + d) + left(j)
      <4>1. /\ i * m \in Int /\ j * m \in Int /\ n * (e * q) \in Int /\ n * d \in Int
            /\ n * (e * q + d) \in Int /\ left(j) \in Int
          BY <1>3, <2>1, <2>3
      <4> HIDE DEF d, left
      <4>2. j * m = n * d + left(j)
          BY <2>3 DEF d
      <4> QED
          BY <2>2, <3>0, <4>1, <4>2, Regroup
    <3>2. e * q + d \in Int
        BY <2>1, <2>3
    <3> QED
        BY <2>3, <3>1, <3>2, Remainder
  <2>5. left(j) \in shifts
      BY <2>1, <1>5
  <2> QED
      BY <1>8, <2>4, <2>5
<1>11. shift \in 0 .. n - 1
    BY <1>6, <1>8
<1> QED
    BY <1>9, <1>10, <1>11

------------------------------------------------------------------------------
(* The streams.  One whose host takes partial buffers is excepted: its condition in the *)
(* code is the wrong way round, and no host API asks for it.                            *)

NoPartial == \A s \in Configs : s.mode # "partial"
Streams == {Opened(s) : s \in Configs}

LEMMA StreamFacts ==
    ASSUME ConfigsAssumption, NoPartial, c \in Streams
    PROVE  /\ c.cin \in Nat /\ c.cout \in Nat /\ c.cin + c.cout > 0
           /\ c.user \in Nat /\ c.host \in Nat \ {0} /\ c.mode \in {"fixed", "bounded", "unknown"}
           /\ ~NonAdapting(c) => c.user # 0
<1>1. PICK s \in Configs : c = Opened(s)
    BY DEF Streams
<1>2. s \in Config /\ s.cin + s.cout > 0 /\ s.mode # "partial"
    BY DEF ConfigsAssumption, NoPartial
<1>3. /\ s.cin \in Nat /\ s.cout \in Nat /\ s.user \in Nat /\ s.host \in Nat \ {0}
      /\ s.mode \in {"fixed", "bounded", "unknown", "partial"}
    BY <1>2 DEF Config
<1>4. {"cin", "cout", "user", "host", "mode"} \subseteq DOMAIN s
    BY <1>2 DEF Config
<1>5. c.cin = s.cin /\ c.cout = s.cout /\ c.user = s.user /\ c.host = s.host /\ c.mode = s.mode
    BY <1>1, <1>4 DEF Opened
<1> QED
    BY <1>2, <1>3, <1>5 DEF NonAdapting

\* The silence at the start: none unless it is in full duplex and adapts.
LEMMA Initials ==
    ASSUME ConfigsAssumption, NoPartial, c \in Streams
    PROVE  /\ InitialIn(c) \in Nat /\ InitialOut(c) \in Nat
           /\ NonAdapting(c) \/ ~Duplex => InitialIn(c) = 0 /\ InitialOut(c) = 0
           /\ ~NonAdapting(c) /\ Duplex =>
                 /\ InitialIn(c) <= c.user
                 /\ c.mode # "fixed" => InitialIn(c) = 0 /\ InitialOut(c) = c.user
                 /\ c.mode = "fixed" =>
                       LET most == CalculateFrameShift(c.host, c.user)
                       IN  InitialIn(c) + InitialOut(c) = most /\ InitialIn(c) \in {0, most}
<1> USE StreamFacts
<1>1. CASE NonAdapting(c) \/ ~Duplex
  <2>1. ~Adapts(c)
      BY <1>1 DEF Adapts, Duplex
  <2> QED
      BY <1>1, <2>1 DEF InitialIn, InitialOut
<1>2. CASE ~NonAdapting(c) /\ Duplex
  <2>1. Adapts(c) /\ c.user \in Nat \ {0}
      BY <1>2 DEF Adapts, Duplex
  <2>2. CalculateFrameShift(c.host, c.user) \in 0 .. c.user - 1
      BY <2>1, ShiftIsMost
  <2> QED
      BY <1>2, <2>1, <2>2 DEF InitialIn, InitialOut
<1> QED
    BY <1>1, <1>2

------------------------------------------------------------------------------
(* The invariant *)

Counts(h) == /\ DOMAIN h = {1, 2}
             /\ \A w \in {1, 2} : "count" \in DOMAIN h[w] /\ h[w].count \in Nat

Types == /\ inT \in Nat /\ outT \in Nat /\ taken \in Nat /\ made \in Nat
         /\ base \in Nat /\ done \in Nat /\ go \in Nat /\ adc \in Int /\ dac \in Int
         /\ Counts(hin) /\ Counts(hout)

\* Where EndBufferProcessing can be, by kind of stream.
Phases == IF NonAdapting(c) THEN {"splice", "block", "rest"}
          ELSE IF Duplex THEN {"copy", "fill"}
          ELSE IF c.cin > 0 THEN {"splice", "input"} ELSE {"splice", "output"}

Places == /\ pc \in Phases \cup {"idle"}
          /\ pc = "rest" => result # "continue"
          /\ pc = "splice" => go = 0
          /\ pc \in {"input", "output"} => go > 0
          /\ NonAdapting(c) => inT = 0 /\ outT = 0
          /\ ~NonAdapting(c) => inT <= c.user
          /\ ~NonAdapting(c) /\ ~Duplex /\ c.cin > 0 => inT < c.user

\* Frames that were taken from the host, and given to it.
Took == IF pc = "idle" THEN base
        ELSE IF pc \in {"copy", "fill"} THEN base + done ELSE base + done - go
Put == IF pc = "idle" THEN base
       ELSE IF pc \in {"copy", "fill"} THEN base + done + go - Count(hout)
       ELSE base + done - go

\* As long as the user goes on.
Accounts == result = "continue" =>
    /\ c.cin > 0 => /\ taken + inT = InitialIn(c) + Took
                    /\ pc # "idle" => adc = taken - InitialIn(c)
    /\ c.cout > 0 => /\ made + InitialOut(c) = outT + Put
                     /\ pc # "idle" => dac = made + InitialOut(c)

\* In full duplex: nothing is left to do only where the host's buffer is full, or
\* where part of one of the user is missing.
Total == IF pc = "idle" THEN base ELSE base + done + go
Meets == Duplex /\ ~NonAdapting(c) =>
    /\ pc # "idle" => Count(hin) = go
    /\ result = "continue" =>
        /\ taken = made /\ taken % c.user = 0
        /\ c.mode = "fixed" => Total % c.host = 0
        /\ pc = "fill" => outT = 0 \/ Count(hout) = 0
        /\ pc = "copy" /\ go = 0 => inT < c.user \/ Count(hout) = 0

Counted == Types /\ Places /\ Accounts /\ Meets

BInv == /\ c \in Streams
        /\ c.callback => ub.kind = "none" /\ Counted /\ TimesAreTrue

\* What the host gave and was given decides whether its output is full.
LEMMA InputUsedUp ==
    ASSUME ConfigsAssumption, NoPartial, c \in Streams, Duplex, ~NonAdapting(c),
           NEW total \in Nat, NEW took \in Nat, NEW rest \in Nat,
           took % c.user = 0, took + rest = InitialIn(c) + total, rest <= c.user,
           c.mode = "fixed" => total % c.host = 0 /\ rest < c.user
    PROVE  rest <= InitialIn(c) + InitialOut(c)
<1>1. c.user \in Nat \ {0} /\ c.host \in Nat \ {0}
    BY StreamFacts
<1>2. CASE c.mode # "fixed"
    BY <1>1, <1>2, Initials
<1>3. CASE c.mode = "fixed"
  <2> DEFINE most == CalculateFrameShift(c.host, c.user)
             m == c.host
             n == c.user
  <2>1. /\ InitialIn(c) + InitialOut(c) = most /\ InitialIn(c) \in {0, most}
        /\ InitialIn(c) \in Nat /\ InitialOut(c) \in Nat
      BY <1>3, Initials
  <2>2. PICK i \in Nat : most = (i * m) % n
      BY <1>1, ShiftIsMost
  <2>3. \A k \in Nat : (k * m) % n <= most
      BY <1>1, ShiftIsMost
  <2> HIDE DEF most, m, n
  <2>4. m \in Nat \ {0} /\ n \in Nat \ {0} /\ rest \in 0 .. n - 1 /\ total % m = 0 /\ took % n = 0
      BY <1>1, <1>3 DEF m, n
  <2>5. PICK k \in Nat : total = m * k
      BY <2>4, Divides
  <2>6. PICK j \in Nat : took = n * j
      BY <2>4, Divides
  <2>7. \E q \in Nat : rest = (q * m) % n
    <3>1. CASE InitialIn(c) = 0
      <4>1. k * m = n * j + rest
          BY <2>4, <2>5, <2>6, <3>1
      <4>2. (k * m) % n = rest
          BY <2>4, <4>1, Remainder
      <4> QED
          BY <4>2
    <3>2. CASE InitialIn(c) = most
      <4>1. PICK e \in Nat : i * m = n * e + most
        <5>1. i * m \in Nat
            BY <2>4
        <5> QED
            BY <2>2, <2>4, <5>1, Division
      <4>2. n * j + rest = most + m * k
          BY <2>5, <2>6, <3>2
      <4>3. (i + k) * m = i * m + m * k
          BY <2>4
      <4>4. n * (e + j) = n * e + n * j
          BY <2>4, <4>1
      <4>5. (i + k) * m = n * (e + j) + rest
        <5>1. /\ i * m \in Int /\ m * k \in Int /\ n * e \in Int /\ n * j \in Int /\ rest \in Int
              /\ most \in Int /\ n * (e + j) \in Int /\ (i + k) * m \in Int
            BY <2>1, <2>4, <4>1, <3>2
        <5>2. (i + k) * m = n * e + (most + m * k)
            BY <4>1, <4>3, <5>1, Regroup
        <5>3. (i + k) * m = n * e + (n * j + rest)
            BY <4>2, <5>2
        <5>4. n * j + rest \in Int
            BY <5>1
        <5> QED
            BY <5>1, <5>3, <5>4, <4>4, Regroup
      <4>6. e + j \in Int /\ i + k \in Nat
          BY <4>1
      <4>7. ((i + k) * m) % n = rest
          BY <2>4, <4>5, <4>6, Remainder
      <4> QED
          BY <4>6, <4>7
    <3> QED
        BY <2>1, <3>1, <3>2
  <2> QED
      BY <2>1, <2>3, <2>7
<1> QED
    BY <1>2, <1>3

------------------------------------------------------------------------------
(* The steps.  A callback is told the times that the counts give. *)

LEMMA CallbackTimes ==
    ASSUME Accounts, pc # "idle", NEW frames, NEW n, NEW r, Callback(frames, n, r), c' = c
    PROVE  TimesAreTrue'
BY DEF Accounts, Callback, TimesAreTrue, InitialIn, InitialOut, Adapts

LEMMA SeenTimes ==
    ASSUME TimesAreTrue, UNCHANGED <<c, seen>> PROVE TimesAreTrue'
BY DEF TimesAreTrue

LEMMA NothingSeen == seen = Nothing => TimesAreTrue
BY DEF TimesAreTrue

\* Frames copied from or to a set are counted down.
LEMMA SetSpent ==
    ASSUME NEW h, Counts(h), NEW w \in {1, 2}, NEW n \in Nat, n <= h[w].count,
           NEW k, DOMAIN k = {1, 2}, "count" \in DOMAIN k[w], k[w].count = h[w].count - n,
           \A v \in {1, 2} : v # w => k[v] = h[v]
    PROVE  Counts(k) /\ Count(k) = Count(h) - n
<1>1. h[w].count - n \in Nat /\ h[1].count \in Nat /\ h[2].count \in Nat
    BY DEF Counts
<1>2. CASE w = 1
    BY <1>1, <1>2 DEF Counts, Count
<1>3. CASE w = 2
    BY <1>1, <1>3 DEF Counts, Count
<1> QED
    BY <1>2, <1>3

LEMMA SetsCount ==
    ASSUME NEW chans \in Nat \ {0}, NEW n \in Nat \ {0}, NEW split \in 1 .. n, NEW filled \in BOOLEAN
    PROVE  Counts(Sets(chans, n, split, filled)) /\ Count(Sets(chans, n, split, filled)) = n
<1>1. chans # 0
    OBVIOUS
<1>2. \A k, first : /\ "count" \in DOMAIN HostSet(chans, k, first, filled)
                    /\ HostSet(chans, k, first, filled).count = k
    BY DEF HostSet
<1>3. "count" \in DOMAIN NoData /\ NoData.count = 0
    BY DEF NoData
<1>4. CASE split = n
    BY <1>1, <1>2, <1>3, <1>4 DEF Sets, Counts, Count
<1>5. CASE split # n
    BY <1>1, <1>2, <1>5 DEF Sets, Counts, Count
<1> QED
    BY <1>4, <1>5

LEMMA NoneCount == Counts(<<NoData, NoData>>) /\ Count(<<NoData, NoData>>) = 0
BY DEF Counts, Count, NoData

LEMMA SameStream ==
    ASSUME c' = c
    PROVE  /\ InitialIn(c)' = InitialIn(c) /\ InitialOut(c)' = InitialOut(c)
           /\ Duplex' = Duplex /\ NonAdapting(c)' = NonAdapting(c) /\ Phases' = Phases
BY DEF Duplex, Phases

LEMMA InitKeeps == ASSUME ConfigsAssumption, NoPartial, Init PROVE BInv
<1>1. c \in Streams
    BY DEF Init, Streams
<1> USE StreamFacts, Initials
<1>2. Types
    BY <1>1, NoneCount DEF Init, Types
<1>3. Places
    BY <1>1 DEF Init, Places
<1>4. Accounts
    BY <1>1 DEF Init, Accounts, Took, Put
<1>5. Meets
  <2>1. Duplex /\ ~NonAdapting(c) => 0 % c.user = 0 /\ 0 % c.host = 0
      BY <1>1
  <2> QED
      BY <2>1 DEF Init, Meets, Total
<1> QED
    BY <1>1, <1>2, <1>3, <1>4, <1>5, NothingSeen DEF Init, BInv, Counted, NoBuffer

LEMMA BeginKeeps ==
    ASSUME ConfigsAssumption, NoPartial, c \in Streams, Counted, Begin
    PROVE  Counted' /\ TimesAreTrue'
<1>0. TimesAreTrue'
    BY DEF Begin, TimesAreTrue
<1>1. PICK n \in HostFrames : \E i, o \in 1 .. n :
          /\ c.cin = 0 => i = n
          /\ c.cout = 0 => o = n
          /\ hin' = Sets(c.cin, n, i, TRUE) /\ hout' = Sets(c.cout, n, o, FALSE)
          /\ go' = IF ~NonAdapting(c) /\ Duplex THEN n ELSE 0
    BY DEF Begin
<1>i. PICK i \in 1 .. n, o \in 1 .. n :
          /\ hin' = Sets(c.cin, n, i, TRUE) /\ hout' = Sets(c.cout, n, o, FALSE)
    BY <1>1
<1>2. n \in Nat \ {0} /\ (c.mode = "fixed" => n = c.host)
    BY StreamFacts, ConfigsAssumption DEF HostFrames, ConfigsAssumption
<1>3. /\ Counts(hin)' /\ Counts(hout)'
      /\ c.cin > 0 => Count(hin)' = n
      /\ c.cout > 0 => Count(hout)' = n
  <2>1. c.cin = 0 => Counts(hin)'
      BY <1>i, NoneCount DEF Sets
  <2>2. c.cout = 0 => Counts(hout)'
      BY <1>i, NoneCount DEF Sets
  <2>3. ASSUME c.cin # 0 PROVE Counts(hin)' /\ Count(hin)' = n
    <3>1. c.cin \in Nat \ {0} /\ TRUE \in BOOLEAN
        BY <2>3, StreamFacts
    <3>2. Counts(Sets(c.cin, n, i, TRUE)) /\ Count(Sets(c.cin, n, i, TRUE)) = n
        BY <1>2, <3>1, SetsCount
    <3> QED
        BY <1>i, <3>2
  <2>4. ASSUME c.cout # 0 PROVE Counts(hout)' /\ Count(hout)' = n
    <3>1. c.cout \in Nat \ {0} /\ FALSE \in BOOLEAN
        BY <2>4, StreamFacts
    <3>2. Counts(Sets(c.cout, n, o, FALSE)) /\ Count(Sets(c.cout, n, o, FALSE)) = n
        BY <1>2, <3>1, SetsCount
    <3> QED
        BY <1>i, <3>2
  <2> QED
      BY <2>1, <2>2, <2>3, <2>4, StreamFacts
<1>4. /\ pc = "idle" /\ pc' = (IF ~NonAdapting(c) /\ Duplex THEN "copy" ELSE "splice")
      /\ adc' = base - inT /\ dac' = base + outT /\ done' = 0
      /\ UNCHANGED <<c, inT, outT, result, taken, made, base>>
    BY DEF Begin, temps
<1>5. Types'
  <2>1. go' \in Nat
      BY <1>1, <1>2
  <2> QED
      BY <2>1, <1>3, <1>4 DEF Counted, Types
<1>6. Places'
    BY <1>1, <1>4, SameStream DEF Counted, Places, Phases
<1>7. Accounts'
  <2>1. Took' = base /\ (c.cout > 0 => Put' = base)
    <3>1. base' = base /\ done' = 0 /\ base \in Nat /\ n \in Nat
        BY <1>2, <1>4 DEF Counted, Types
    <3>2. CASE ~NonAdapting(c) /\ Duplex
      <4>1. pc' = "copy" /\ go' = n /\ Count(hout)' = n
          BY <1>1, <1>3, <1>4, <3>2 DEF Duplex
      <4> QED
          BY <3>1, <4>1 DEF Took, Put
    <3>3. CASE ~(~NonAdapting(c) /\ Duplex)
      <4>1. pc' = "splice" /\ go' = 0
          BY <1>1, <1>4, <3>3
      <4> QED
          BY <3>1, <4>1 DEF Took, Put
    <3> QED
        BY <3>2, <3>3
  <2>2. /\ c.cin > 0 /\ result = "continue" => taken + inT = InitialIn(c) + base
        /\ c.cout > 0 /\ result = "continue" => made + InitialOut(c) = outT + base
      BY <1>4 DEF Counted, Accounts, Took, Put
  <2>3. inT \in Nat /\ outT \in Nat /\ base \in Nat /\ taken \in Nat /\ made \in Nat
        /\ InitialIn(c) \in Nat /\ InitialOut(c) \in Nat
      BY Initials DEF Counted, Types
  <2> QED
      BY <1>4, <2>1, <2>2, <2>3, SameStream DEF Accounts
<1>8. Meets'
  <2> SUFFICES ASSUME Duplex, ~NonAdapting(c) PROVE Meets'
      BY <1>4, SameStream DEF Meets
  <2>1. pc' = "copy" /\ go' = n /\ Count(hin)' = go' /\ Total' = base + n /\ Total = base
    <3>1. pc = "idle" /\ pc' = "copy" /\ go' = n /\ done' = 0 /\ base' = base /\ base \in Nat
        BY <1>1, <1>4 DEF Counted, Types
    <3>2. Count(hin)' = n
        BY <1>3 DEF Duplex
    <3> QED
        BY <1>2, <3>1, <3>2 DEF Total
  <2>2. result = "continue" /\ c.mode = "fixed" => Total' % c.host = 0
    <3> SUFFICES ASSUME result = "continue", c.mode = "fixed" PROVE (base + c.host) % c.host = 0
        BY <1>2, <2>1
    <3>1. base \in Nat /\ c.host \in Nat \ {0} /\ base % c.host = 0
        BY <2>1, StreamFacts DEF Counted, Types, Meets
    <3> QED
        BY <3>1, AnotherMultiple
  <2> QED
      BY <1>2, <1>4, <2>1, <2>2, SameStream DEF Counted, Meets
<1> QED
    BY <1>0, <1>5, <1>6, <1>7, <1>8 DEF Counted

\* Meets says nothing of the streams that splice.
LEMMA NotMeeting ==
    ASSUME Places, pc \notin {"idle", "copy", "fill"}, c' = c
    PROVE  ~(Duplex /\ ~NonAdapting(c)) /\ Meets'
<1>1. ~(Duplex /\ ~NonAdapting(c))
    BY DEF Places, Phases
<1> QED
    BY <1>1, SameStream DEF Meets

LEMMA Spliced ==
    ASSUME NEW h, Counts(h), NEW w \in {1, 2}, NEW n \in Nat, n <= h[w].count
    PROVE  Counts([h EXCEPT ![w].count = @ - n])
<1>1. h[w].count - n \in Nat
    BY DEF Counts
<1> QED
    BY <1>1 DEF Counts

LEMMA SpliceKeeps ==
    ASSUME ConfigsAssumption, NoPartial, c \in Streams, Counted, TimesAreTrue, Splice
    PROVE  Counted' /\ TimesAreTrue'
<1>0. TimesAreTrue'
    BY SeenTimes DEF Splice
<1> DEFINE i == Set(hin)
           o == Set(hout)
           hasIn == c.cin > 0 /\ ~noInput
           n == IF ~hasIn THEN hout[o].count
                ELSE IF c.cout = 0 THEN hin[i].count
                ELSE Least(hin[i].count, hout[o].count)
<1>1. /\ pc = "splice" /\ go' = n /\ done' = done + n
      /\ hin' = IF hasIn THEN [hin EXCEPT ![i].count = @ - n] ELSE hin
      /\ hout' = IF c.cout > 0 THEN [hout EXCEPT ![o].count = @ - n] ELSE hout
      /\ n = 0 => Ends
      /\ n # 0 => /\ pc' = IF NonAdapting(c) THEN IF result = "continue" THEN "block" ELSE "rest"
                           ELSE IF c.cin > 0 THEN "input" ELSE "output"
                  /\ base' = base
    BY DEF Splice
<1>2. UNCHANGED <<c, inT, outT, result, taken, made, adc, dac>>
    BY DEF Splice, temps, times
<1>3. Counts(hin) /\ Counts(hout) /\ i \in {1, 2} /\ o \in {1, 2}
    BY DEF Counted, Types, Set
<1>4. hin[i].count \in Nat /\ hout[o].count \in Nat
    BY <1>3 DEF Counts
<1>5. n \in Nat /\ (hasIn => n <= hin[i].count) /\ (c.cout > 0 => n <= hout[o].count)
    BY <1>4, StreamFacts DEF Least
<1> HIDE DEF n, i, o
<1>6. Counts(hin)' /\ Counts(hout)'
  <2>1. CASE hasIn
      BY <1>1, <1>3, <1>5, <2>1, Spliced
  <2>2. hasIn \/ Counts(hin)'
      BY <1>1, <1>3
  <2>3. CASE c.cout > 0
      BY <1>1, <1>3, <1>5, <2>3, Spliced
  <2> QED
      BY <1>1, <1>3, <1>5, <2>1, <2>2, <2>3, Spliced
<1>7. Types'
    BY <1>1, <1>2, <1>5, <1>6 DEF Counted, Types, Ends
<1>8. go = 0 /\ base \in Nat /\ done \in Nat /\ ~(Duplex /\ ~NonAdapting(c)) /\ Meets'
    BY <1>1, <1>2, NotMeeting DEF Counted, Places, Types
<1>9. Places'
  <2>1. CASE n = 0
      BY <1>1, <1>2, <1>5, <2>1, SameStream DEF Counted, Places, Ends
  <2>2. CASE n # 0
      BY <1>1, <1>2, <1>5, <1>8, <2>2, SameStream DEF Counted, Places, Phases, Duplex
  <2> QED
      BY <2>1, <2>2
<1>10. Took' = Took /\ Put' = Put
  <2>1. Took = base + done /\ Put = base + done
      BY <1>1, <1>8 DEF Took, Put
  <2>2. CASE n = 0
    <3>1. pc' = "idle" /\ base' = base + done
        BY <1>1, <2>2 DEF Ends
    <3> QED
        BY <2>1, <3>1 DEF Took, Put
  <2>3. CASE n # 0
    <3>1. pc' \in {"block", "rest", "input", "output"} /\ base' = base
        BY <1>1, <2>3
    <3> QED
        BY <1>1, <1>5, <1>8, <2>1, <3>1 DEF Took, Put
  <2> QED
      BY <2>2, <2>3
<1>11. Accounts'
    BY <1>1, <1>2, <1>10, SameStream DEF Counted, Accounts
<1> QED
    BY <1>0, <1>7, <1>8, <1>9, <1>11 DEF Counted

LEMMA BlockKeeps ==
    ASSUME ConfigsAssumption, NoPartial, c \in Streams, Counted, TimesAreTrue, NEW r, NonAdaptingBlock(r)
    PROVE  Counted' /\ TimesAreTrue'
<1> DEFINE n == Least(TempFrames(c), go)
           u == UserInput(n)
<1>1. PICK frames : Callback(frames, n, r)
    BY DEF NonAdaptingBlock
<1>2. /\ pc = "block"
      /\ IF r = "abort" THEN UNCHANGED <<go, times>>
         ELSE go' = go - n /\ adc' = adc + n /\ dac' = dac + n
      /\ pc' = IF go' = 0 THEN "splice" ELSE IF r = "continue" THEN "block" ELSE "rest"
      /\ UNCHANGED <<c, inT, outT, done, base>>
    BY DEF NonAdaptingBlock
<1>3. TimesAreTrue'
    BY <1>1, <1>2, CallbackTimes DEF Counted
<1>4. n \in Nat /\ n <= go
  <2>1. go \in Nat /\ TempFrames(c) \in Nat
      BY StreamFacts DEF Counted, Types, TempFrames, ConfigsAssumption
  <2> QED
      BY <2>1 DEF Least
<1>5. Counts(hin)'
  <2>1. \/ hin' = hin
        \/ hin' = [hin EXCEPT ![in].ptr = Advanced(hin[in].ptr, n, HostStride(c.cin))]
      BY DEF NonAdaptingBlock
  <2>2. Counts(hin)
      BY DEF Counted, Types
  <2> QED
      BY <2>1, <2>2 DEF Counts
<1>6. Counts(hout)'
  <2>1. hout' = hout \/ Delivers(n, r)
      BY DEF NonAdaptingBlock
  <2>2. ASSUME Delivers(n, r)
        PROVE  hout' = hout \/ \E mem, ptr : hout' = [hout EXCEPT ![out].mem = mem, ![out].ptr = ptr]
    <3> HIDE DEF n, u
    <3> QED
        BY <2>2 DEF Delivers
  <2>3. Counts(hout)
      BY DEF Counted, Types
  <2> QED
      BY <2>1, <2>2, <2>3 DEF Counts
<1>7. /\ result = "continue" /\ result' = r /\ taken' = taken + n
      /\ made' = (IF r = "abort" THEN made ELSE made + n)
    BY <1>1 DEF Callback
<1> HIDE DEF n, u
<1>8. Types'
    BY <1>2, <1>4, <1>5, <1>6, <1>7 DEF Counted, Types, times
<1>9. NonAdapting(c) /\ Meets'
    BY <1>2, NotMeeting DEF Counted, Places, Phases
<1>10. Places'
    BY <1>2, <1>7, <1>9, SameStream DEF Counted, Places, Phases
<1>11. Accounts'
  <2> SUFFICES ASSUME r = "continue" PROVE Accounts'
      BY <1>7 DEF Accounts
  <2>1. /\ go' = go - n /\ adc' = adc + n /\ dac' = dac + n /\ taken' = taken + n /\ made' = made + n
        /\ pc' \in {"splice", "block"}
      BY <1>2, <1>7
  <2>2. /\ c.cin > 0 => taken + inT = InitialIn(c) + base + done - go /\ adc = taken - InitialIn(c)
        /\ c.cout > 0 => made + InitialOut(c) = outT + base + done - go /\ dac = made + InitialOut(c)
    <3>1. Took = base + done - go /\ Put = base + done - go
        BY <1>2 DEF Took, Put
    <3>2. InitialIn(c) \in Nat /\ base \in Nat /\ done \in Nat /\ go \in Nat /\ outT \in Nat
        BY Initials DEF Counted, Types
    <3> QED
        BY <1>2, <1>7, <3>1, <3>2 DEF Counted, Accounts
  <2>3. Took' = base + done - (go - n) /\ Put' = base + done - (go - n)
    <3>1. base' = base /\ done' = done
        BY <1>2
    <3> QED
        BY <2>1, <3>1 DEF Took, Put
  <2>4. /\ inT \in Nat /\ outT \in Nat /\ taken \in Nat /\ made \in Nat /\ base \in Nat /\ done \in Nat
        /\ go \in Nat /\ InitialIn(c) \in Nat /\ InitialOut(c) \in Nat
      BY Initials DEF Counted, Types
  <2> QED
      BY <1>2, <1>4, <2>1, <2>2, <2>3, <2>4, SameStream DEF Accounts
<1> QED
    BY <1>3, <1>8, <1>9, <1>10, <1>11 DEF Counted

LEMMA RestKeeps ==
    ASSUME ConfigsAssumption, NoPartial, c \in Streams, Counted, TimesAreTrue, ZeroRest
    PROVE  Counted' /\ TimesAreTrue'
<1>1. /\ pc = "rest" /\ pc' = "splice" /\ go' = 0
      /\ UNCHANGED <<c, inT, outT, hin, result, adc, dac, done, seen, taken, made, base>>
    BY DEF ZeroRest, temps, times, history
<1>2. TimesAreTrue'
    BY <1>1, SeenTimes
<1>3. Counts(hout)'
  <2>1. hout' = hout \/ \E mem, ptr : hout' = [hout EXCEPT ![out].mem = mem, ![out].ptr = ptr]
      BY DEF ZeroRest
  <2>2. Counts(hout)
      BY DEF Counted, Types
  <2> QED
      BY <2>1, <2>2 DEF Counts
<1>4. Types'
    BY <1>1, <1>3 DEF Counted, Types
<1>5. NonAdapting(c) /\ Meets' /\ result # "continue"
    BY <1>1, NotMeeting DEF Counted, Places, Phases
<1>6. Places'
    BY <1>1, <1>5, SameStream DEF Counted, Places, Phases
<1>7. Accounts'
    BY <1>1, <1>5 DEF Accounts
<1> QED
    BY <1>2, <1>4, <1>5, <1>6, <1>7 DEF Counted

LEMMA InputKeeps ==
    ASSUME ConfigsAssumption, NoPartial, c \in Streams, Counted, TimesAreTrue, NEW r, AdaptingInput(r)
    PROVE  Counted' /\ TimesAreTrue'
<1> DEFINE n == IF inT + go > c.user THEN c.user - inT ELSE go
<1>1. /\ pc = "input"
      /\ hin' = [hin EXCEPT ![in].ptr = Advanced(hin[in].ptr, n, HostStride(c.cin))]
      /\ inT' = (inT + n) % c.user
      /\ go' = go - n
      /\ IF inT' = 0 /\ result = "continue" THEN InputFull(r)
         ELSE UNCHANGED <<seen, taken, made, result, times>>
      /\ pc' = IF go' = 0 THEN "splice" ELSE "input"
      /\ UNCHANGED <<c, outT, hout, done, base>>
    BY DEF AdaptingInput
<1>2. ~NonAdapting(c) /\ c.cin > 0 /\ c.cout = 0 /\ ~Duplex
    BY <1>1, StreamFacts DEF Counted, Places, Phases, Duplex
<1>3. /\ inT \in Nat /\ c.user \in Nat \ {0} /\ go \in Nat /\ inT < c.user /\ go > 0
      /\ InitialIn(c) = 0
    BY <1>1, <1>2, StreamFacts, Initials DEF Counted, Types, Places
<1>4. n \in Nat /\ n > 0 /\ n <= go /\ inT + n <= c.user
    BY <1>3
<1> HIDE DEF n
<1>5. inT' \in Nat /\ IF inT + n = c.user THEN inT' = 0 ELSE inT' = inT + n /\ inT' # 0
  <2>1. CASE inT + n = c.user
    <3>1. inT + n = c.user * 1 + 0
        BY <1>3, <2>1
    <3>2. (c.user * 1 + 0) % c.user = 0
        BY <1>3, Remainder
    <3> QED
        BY <1>1, <2>1, <3>1, <3>2
  <2>2. CASE inT + n < c.user
    <3>1. inT + n = c.user * 0 + (inT + n) /\ inT + n \in 0 .. c.user - 1
        BY <1>3, <1>4, <2>2
    <3>2. (c.user * 0 + (inT + n)) % c.user = inT + n
        BY <1>3, <3>1, Remainder
    <3>3. inT' = inT + n
        BY <1>1, <3>1, <3>2
    <3> QED
        BY <1>3, <1>4, <2>2, <3>3
  <2> QED
      BY <1>3, <1>4, <2>1, <2>2
<1>6. Counts(hin)'
  <2>1. Counts(hin)
      BY DEF Counted, Types
  <2> QED
      BY <1>1, <2>1 DEF Counts
<1>7. Took = base + done - go /\ Took' = base + done - go'
    BY <1>1 DEF Took
<1>8. Meets'
    BY <1>1, NotMeeting DEF Counted
<1>9. CASE inT' = 0 /\ result = "continue"
  <2>1. PICK frames : Callback(frames, c.user, r)
      BY <1>1, <1>9 DEF InputFull
  <2>2. adc' = adc + c.user /\ dac' = 0
      BY <1>1, <1>9 DEF InputFull
  <2>3. /\ result' = r /\ taken' = taken + c.user
        /\ made' = (IF r = "abort" THEN made ELSE made + c.user)
      BY <2>1 DEF Callback
  <2>4. TimesAreTrue'
      BY <1>1, <2>1, CallbackTimes DEF Counted
  <2>5. Types'
      BY <1>1, <1>3, <1>4, <1>5, <1>6, <2>2, <2>3 DEF Counted, Types
  <2>6. Places'
      BY <1>1, <1>2, <1>3, <1>4, <1>9, SameStream DEF Counted, Places, Phases
  <2>7. Accounts'
    <3>1. inT + n = c.user /\ inT' = 0
        BY <1>5, <1>9
    <3>2. taken + inT = 0 + Took /\ adc = taken - 0
        BY <1>1, <1>2, <1>3, <1>9 DEF Counted, Accounts
    <3>3. base \in Nat /\ done \in Nat /\ taken \in Nat /\ adc \in Int
        BY DEF Counted, Types
    <3>4. taken' = taken + c.user /\ adc' = adc + c.user /\ go' = go - n
        BY <1>1, <2>2, <2>3
    <3>5. taken' + inT' = 0 + Took' /\ adc' = taken' - 0
        BY <1>3, <1>4, <1>7, <3>1, <3>2, <3>3, <3>4
    <3> QED
        BY <1>1, <1>2, <1>3, <3>5, SameStream DEF Accounts
  <2> QED
      BY <1>8, <2>4, <2>5, <2>6, <2>7 DEF Counted
<1>10. CASE ~(inT' = 0 /\ result = "continue")
  <2>1. UNCHANGED <<seen, taken, made, result, adc, dac>>
      BY <1>1, <1>10 DEF times
  <2>2. TimesAreTrue'
      BY <1>1, <2>1, SeenTimes
  <2>3. Types'
      BY <1>1, <1>3, <1>4, <1>5, <1>6, <2>1 DEF Counted, Types
  <2>4. Places'
    <3>1. inT' < c.user
        BY <1>3, <1>4, <1>5
    <3> QED
        BY <1>1, <1>2, <1>3, <1>4, <3>1, SameStream DEF Counted, Places, Phases
  <2>5. Accounts'
    <3> SUFFICES ASSUME result = "continue" PROVE Accounts'
        BY <2>1 DEF Accounts
    <3>1. inT' = inT + n
        BY <1>5, <1>10
    <3>2. taken + inT = 0 + Took /\ adc = taken - 0
        BY <1>1, <1>2, <1>3 DEF Counted, Accounts
    <3>3. base \in Nat /\ done \in Nat /\ taken \in Nat /\ adc \in Int
        BY DEF Counted, Types
    <3>4. taken' + inT' = 0 + Took' /\ adc' = taken' - 0
        BY <1>1, <1>3, <1>4, <1>7, <2>1, <3>1, <3>2, <3>3
    <3> QED
        BY <1>1, <1>2, <1>3, <3>4, SameStream DEF Accounts
  <2> QED
      BY <1>8, <2>2, <2>3, <2>4, <2>5 DEF Counted
<1> QED
    BY <1>9, <1>10

LEMMA OutputKeeps ==
    ASSUME ConfigsAssumption, NoPartial, c \in Streams, Counted, TimesAreTrue, NEW r, AdaptingOutput(r)
    PROVE  Counted' /\ TimesAreTrue'
<1> DEFINE called == outT = 0 /\ result = "continue"
           held == IF outT = 0 /\ result = "continue" /\ r # "abort" THEN c.user ELSE outT
           n == IF held > 0 THEN Least(held, go) ELSE go
<1>1. /\ pc = "output"
      /\ IF called THEN OutputMade(r) /\ dac' = IF r = "abort" THEN dac ELSE dac + c.user
         ELSE UNCHANGED <<seen, taken, made, result, tout, dac>>
      /\ outT' = IF held > 0 THEN held - n ELSE 0
      /\ go' = go - n
      /\ adc' = IF called THEN 0 ELSE adc
      /\ pc' = IF go' = 0 THEN "splice" ELSE "output"
      /\ UNCHANGED <<c, inT, hin, done, base>>
    BY DEF AdaptingOutput
<1>2. ~NonAdapting(c) /\ c.cin = 0 /\ c.cout > 0 /\ ~Duplex
    BY <1>1, StreamFacts DEF Counted, Places, Phases, Duplex
<1>3. /\ outT \in Nat /\ c.user \in Nat \ {0} /\ go \in Nat /\ go > 0 /\ InitialOut(c) = 0
    BY <1>1, <1>2, StreamFacts, Initials DEF Counted, Types, Places
<1>4. held \in Nat /\ n \in Nat /\ n <= go /\ (held > 0 => n <= held)
    BY <1>3 DEF Least
<1>5. Counts(hout)'
  <2>1. \E mem, ptr : hout' = [hout EXCEPT ![out] = [hout[out] EXCEPT !.mem = mem, !.ptr = ptr]]
    <3> HIDE DEF held, n
    <3>1. hout' = [hout EXCEPT ![out] = IF held > 0 THEN Spends(tout', hout[out], held, n)
                                        ELSE Silences(hout[out], n)]
        BY DEF AdaptingOutput, held, n
    <3>2. CASE held > 0
        BY <3>1, <3>2 DEF Spends
    <3>3. CASE ~(held > 0)
        BY <3>1, <3>3 DEF Silences
    <3> QED
        BY <3>2, <3>3
  <2>2. Counts(hout)
      BY DEF Counted, Types
  <2> QED
      BY <2>1, <2>2 DEF Counts
<1>6. Put = base + done - go /\ Put' = base + done - go'
    BY <1>1 DEF Put
<1>7. Meets'
    BY <1>1, NotMeeting DEF Counted
<1>8. Places'
    BY <1>1, <1>2, <1>3, <1>4, SameStream DEF Counted, Places, Phases
<1> HIDE DEF n
<1>9. CASE called
  <2>1. PICK frames : Callback(frames, c.user, r)
      BY <1>1, <1>9 DEF OutputMade
  <2>2. dac' = (IF r = "abort" THEN dac ELSE dac + c.user) /\ adc' = 0
      BY <1>1, <1>9
  <2>3. /\ result' = r /\ taken' = taken + c.user
        /\ made' = (IF r = "abort" THEN made ELSE made + c.user)
      BY <2>1 DEF Callback
  <2>4. TimesAreTrue'
      BY <1>1, <2>1, CallbackTimes DEF Counted
  <2>5. Types'
      BY <1>1, <1>3, <1>4, <1>5, <2>2, <2>3 DEF Counted, Types
  <2>6. Accounts'
    <3> SUFFICES ASSUME r = "continue" PROVE Accounts'
        BY <2>3 DEF Accounts
    <3>1. made + 0 = outT + Put /\ dac = made + 0 /\ outT = 0
        BY <1>1, <1>2, <1>3, <1>9 DEF Counted, Accounts
    <3>2. base \in Nat /\ done \in Nat /\ made \in Nat /\ dac \in Int
        BY DEF Counted, Types
    <3>3. outT' = c.user - n
        BY <1>1, <1>3, <1>9
    <3>4. made' + 0 = outT' + Put' /\ dac' = made' + 0
        BY <1>1, <1>3, <1>4, <1>6, <2>2, <2>3, <3>1, <3>2, <3>3
    <3> QED
        BY <1>1, <1>2, <1>3, <3>4, SameStream DEF Accounts
  <2> QED
      BY <1>7, <1>8, <2>4, <2>5, <2>6 DEF Counted
<1>10. CASE ~called
  <2>1. UNCHANGED <<seen, taken, made, result, adc, dac>>
      BY <1>1, <1>10
  <2>2. TimesAreTrue'
      BY <1>1, <2>1, SeenTimes
  <2>3. Types'
      BY <1>1, <1>3, <1>4, <1>5, <2>1 DEF Counted, Types
  <2>4. Accounts'
    <3> SUFFICES ASSUME result = "continue" PROVE Accounts'
        BY <2>1 DEF Accounts
    <3>1. made + 0 = outT + Put /\ dac = made + 0 /\ outT > 0
        BY <1>1, <1>2, <1>3, <1>10 DEF Counted, Accounts
    <3>2. base \in Nat /\ done \in Nat /\ made \in Nat /\ dac \in Int
        BY DEF Counted, Types
    <3>3. outT' = outT - n
        BY <1>1, <1>3, <1>10, <3>1
    <3>4. made' + 0 = outT' + Put' /\ dac' = made' + 0
        BY <1>1, <1>3, <1>4, <1>6, <2>1, <3>1, <3>2, <3>3
    <3> QED
        BY <1>1, <1>2, <1>3, <3>4, SameStream DEF Accounts
  <2> QED
      BY <1>7, <1>8, <2>2, <2>3, <2>4 DEF Counted
<1> QED
    BY <1>9, <1>10

LEMMA InDuplex ==
    ASSUME ConfigsAssumption, NoPartial, c \in Streams, Counted, pc \in {"copy", "fill"}
    PROVE  /\ ~NonAdapting(c) /\ Duplex /\ c.cin > 0 /\ c.cout > 0
           /\ c.user \in Nat \ {0} /\ inT <= c.user /\ Count(hin) = go
           /\ Took = base + done /\ Put = base + done + go - Count(hout) /\ Total = base + done + go
<1>1. ~NonAdapting(c) /\ Duplex
    BY DEF Counted, Places, Phases
<1>2. c.cin > 0 /\ c.cout > 0 /\ c.user \in Nat \ {0} /\ inT <= c.user
    BY <1>1, StreamFacts DEF Duplex, Counted, Places
<1>3. Count(hin) = go
    BY <1>1 DEF Counted, Meets
<1> QED
    BY <1>1, <1>2, <1>3 DEF Took, Put, Total

LEMMA CopyKeeps ==
    ASSUME ConfigsAssumption, NoPartial, c \in Streams, Counted, TimesAreTrue,
           CopyTempOutputBuffersToHostOutputBuffers
    PROVE  Counted' /\ TimesAreTrue'
<1> DEFINE w == Set(hout)
           n == Least(hout[w].count, outT)
<1>0. hout' = [hout EXCEPT ![w] = [Spends(tout, hout[w], outT, n) EXCEPT !.count = hout[w].count - n]]
    BY DEF CopyTempOutputBuffersToHostOutputBuffers
<1>1. /\ pc = "copy" /\ MustCopy
      /\ outT' = outT - n
      /\ UNCHANGED <<c, inT, hin, result, adc, dac, pc, go, done, seen, taken, made, base>>
    BY DEF CopyTempOutputBuffersToHostOutputBuffers, times, loop, history
<1>2. TimesAreTrue'
    BY <1>1, SeenTimes
<1>3. Counts(hout) /\ w \in {1, 2}
    BY DEF Counted, Types, Set
<1>4. n \in Nat /\ n <= hout[w].count /\ n <= outT /\ outT \in Nat
    BY <1>3 DEF Counted, Types, Counts, Least
<1> HIDE DEF w, n
<1>5. Counts(hout)' /\ Count(hout)' = Count(hout) - n
  <2>1. "count" \in DOMAIN Spends(tout, hout[w], outT, n)
      BY <1>3 DEF Spends, Counts
  <2>2. /\ DOMAIN hout' = {1, 2} /\ "count" \in DOMAIN hout'[w] /\ hout'[w].count = hout[w].count - n
        /\ \A v \in {1, 2} : v # w => hout'[v] = hout[v]
      BY <1>0, <1>3, <2>1 DEF Counts
  <2> QED
      BY <1>3, <1>4, <2>2, SetSpent
<1>6. Count(hout) \in Nat
    BY <1>3 DEF Counts, Count
<1>7. Types'
    BY <1>1, <1>4, <1>5 DEF Counted, Types
<1>8. Places'
  <2>1. ~NonAdapting(c)
      BY <1>1, InDuplex
  <2> QED
      BY <1>1, <1>4, <2>1, SameStream DEF Counted, Places
<1>9. Accounts'
  <2> SUFFICES ASSUME result = "continue" PROVE Accounts'
      BY <1>1 DEF Accounts
  <2>1. /\ taken + inT = InitialIn(c) + Took /\ adc = taken - InitialIn(c)
        /\ made + InitialOut(c) = outT + Put /\ dac = made + InitialOut(c)
      BY <1>1, InDuplex DEF Counted, Accounts
  <2>2. Took' = Took /\ Put = base + done + go - Count(hout) /\ Put' = base + done + go - Count(hout)'
      BY <1>1 DEF Took, Put
  <2>3. base \in Nat /\ done \in Nat /\ go \in Nat
      BY DEF Counted, Types
  <2>4. outT' + Put' = outT + Put
      BY <1>1, <1>4, <1>5, <1>6, <2>2, <2>3
  <2> QED
      BY <1>1, <2>1, <2>2, <2>4, SameStream DEF Accounts
<1>10. Meets'
  <2>1. go = 0 /\ result = "continue" => inT < c.user \/ Count(hout)' = 0
    <3>1. go = 0 /\ result = "continue" => inT < c.user \/ Count(hout) = 0
        BY <1>1, InDuplex DEF Counted, Meets
    <3>2. Count(hout)' \in Nat
        BY <1>5 DEF Counts, Count
    <3> QED
        BY <1>4, <1>5, <1>6, <3>1, <3>2
  <2>2. Total' = Total /\ Count(hin)' = Count(hin)
      BY <1>1 DEF Total, Count
  <2> QED
      BY <1>1, <2>1, <2>2, SameStream DEF Counted, Meets
<1> QED
    BY <1>2, <1>7, <1>8, <1>9, <1>10 DEF Counted

LEMMA MoreKeeps ==
    ASSUME ConfigsAssumption, NoPartial, c \in Streams, Counted, TimesAreTrue, AdaptingMore
    PROVE  Counted' /\ TimesAreTrue'
<1>1. /\ pc = "copy" /\ ~MustCopy
      /\ result = "continue" => hout' = hout
      /\ pc' = "fill"
      /\ UNCHANGED <<c, inT, outT, hin, result, adc, dac, go, done, seen, taken, made, base>>
    BY DEF AdaptingMore, temps, times, history
<1>2. TimesAreTrue'
    BY <1>1, SeenTimes
<1>3. Counts(hout)'
  <2>1. Counts(hout)
      BY DEF Counted, Types
  <2>2. CASE hout' = hout
      BY <2>1, <2>2
  <2>3. CASE hout' = [w \in 1 .. 2 |->
                        IF hout[w].count = 0 THEN hout[w]
                        ELSE [Silences(hout[w], hout[w].count) EXCEPT !.count = 0]]
    <3>1. DOMAIN hout' = {1, 2}
        BY <2>3
    <3>2. ASSUME NEW w \in {1, 2} PROVE "count" \in DOMAIN hout'[w] /\ hout'[w].count \in Nat
      <4>1. "count" \in DOMAIN hout[w] /\ hout[w].count \in Nat
          BY <2>1 DEF Counts
      <4>2. CASE hout[w].count = 0
          BY <2>3, <4>1, <4>2
      <4>3. CASE hout[w].count # 0
        <5>1. hout'[w] = [Silences(hout[w], hout[w].count) EXCEPT !.count = 0]
            BY <2>3, <4>3
        <5>2. "count" \in DOMAIN Silences(hout[w], hout[w].count)
            BY <4>1 DEF Silences
        <5> QED
            BY <5>1, <5>2
      <4> QED
          BY <4>2, <4>3
    <3> QED
        BY <3>1, <3>2 DEF Counts
  <2> QED
      BY <2>2, <2>3 DEF AdaptingMore
<1>4. Types'
    BY <1>1, <1>3 DEF Counted, Types
<1>5. ~NonAdapting(c) /\ Duplex
    BY <1>1, InDuplex
<1>6. Places'
    BY <1>1, <1>5, SameStream DEF Counted, Places, Phases
<1>7. Accounts'
  <2> SUFFICES ASSUME result = "continue" PROVE Accounts'
      BY <1>1 DEF Accounts
  <2>1. Took' = Took /\ Put' = Put
      BY <1>1 DEF Took, Put
  <2> QED
      BY <1>1, <2>1, SameStream DEF Counted, Accounts
<1>8. Meets'
  <2>1. result = "continue" => outT = 0 \/ Count(hout)' = 0
    <3>1. outT \in Nat /\ Count(hout) \in Nat
        BY DEF Counted, Types, Counts, Count
    <3>2. outT = 0 \/ Count(hout) = 0
        BY <1>1, <3>1 DEF MustCopy
    <3> QED
        BY <1>1, <3>2
  <2>2. Total' = Total /\ Count(hin)' = Count(hin)
      BY <1>1 DEF Total, Count
  <2> QED
      BY <1>1, <2>1, <2>2, SameStream DEF Counted, Meets
<1> QED
    BY <1>2, <1>4, <1>6, <1>7, <1>8 DEF Counted

LEMMA FillKeeps ==
    ASSUME ConfigsAssumption, NoPartial, c \in Streams, Counted, TimesAreTrue, FillTempInputBuffer
    PROVE  Counted' /\ TimesAreTrue'
<1> DEFINE w == Set(hin)
           n == Least(hin[w].count, c.user - inT)
<1>1. /\ pc = "fill" /\ MustFill
      /\ inT' = inT + n /\ go' = go - n /\ done' = done + n
      /\ UNCHANGED <<c, outT, hout, result, adc, dac, pc, seen, taken, made, base>>
    BY DEF FillTempInputBuffer, times, history
<1>2. TimesAreTrue'
    BY <1>1, SeenTimes
<1>3. Counts(hin) /\ w \in {1, 2}
    BY DEF Counted, Types, Set
<1>4. /\ hin[1].count \in Nat /\ hin[2].count \in Nat /\ hin[w].count \in Nat
      /\ inT \in Nat /\ inT <= c.user /\ c.user \in Nat \ {0}
    BY <1>1, <1>3, InDuplex DEF Counted, Types, Counts
<1>5. n \in Nat /\ n <= hin[w].count /\ n <= c.user - inT
    BY <1>4 DEF Least
<1>6. hin' = [hin EXCEPT ![w].count = hin[w].count - n,
                         ![w].ptr = Advanced(hin[w].ptr, n, HostStride(c.cin))]
    BY DEF FillTempInputBuffer
<1> HIDE DEF w, n
<1>7. Counts(hin)' /\ Count(hin)' = Count(hin) - n
  <2>1. /\ DOMAIN hin' = {1, 2} /\ "count" \in DOMAIN hin'[w] /\ hin'[w].count = hin[w].count - n
        /\ \A v \in {1, 2} : v # w => hin'[v] = hin[v]
      BY <1>3, <1>6 DEF Counts
  <2> QED
      BY <1>3, <1>5, <2>1, SetSpent
<1>8. Count(hin) = go /\ n <= go /\ go \in Nat
  <2>1. Count(hin) = hin[1].count + hin[2].count /\ Count(hin) = go
      BY <1>1, InDuplex DEF Count
  <2> QED
      BY <1>3, <1>4, <1>5, <2>1
<1>9. base \in Nat /\ done \in Nat /\ Count(hout) \in Nat /\ taken \in Nat
    BY DEF Counted, Types, Counts, Count
<1>10. Types'
    BY <1>1, <1>4, <1>5, <1>7, <1>8 DEF Counted, Types
<1>11. Places'
  <2>1. ~NonAdapting(c) /\ Duplex /\ inT' <= c.user
      BY <1>1, <1>4, <1>5, InDuplex
  <2> QED
      BY <1>1, <2>1, SameStream DEF Counted, Places
<1>12. Accounts'
  <2> SUFFICES ASSUME result = "continue" PROVE Accounts'
      BY <1>1 DEF Accounts
  <2>1. /\ taken + inT = InitialIn(c) + Took /\ adc = taken - InitialIn(c)
        /\ made + InitialOut(c) = outT + Put /\ dac = made + InitialOut(c)
      BY <1>1, InDuplex DEF Counted, Accounts
  <2>2. /\ Took = base + done /\ Took' = base + done'
        /\ Put = base + done + go - Count(hout) /\ Put' = base + done' + go' - Count(hout)
      BY <1>1 DEF Took, Put, Count
  <2>3. taken + inT' = InitialIn(c) + Took' /\ Put' = Put
      BY <1>1, <1>4, <1>5, <1>8, <1>9, <2>1, <2>2, Initials
  <2> QED
      BY <1>1, <2>1, <2>3, SameStream DEF Accounts
<1>13. Meets'
  <2>1. Total' = Total /\ Count(hout)' = Count(hout) /\ Count(hin)' = go'
    <3>1. Total = base + done + go /\ Total' = base + done' + go'
        BY <1>1 DEF Total
    <3> QED
        BY <1>1, <1>5, <1>7, <1>8, <1>9, <3>1 DEF Count
  <2> QED
      BY <1>1, <2>1, SameStream DEF Counted, Meets
<1> QED
    BY <1>2, <1>10, <1>11, <1>12, <1>13 DEF Counted

LEMMA CallbackKeeps ==
    ASSUME ConfigsAssumption, NoPartial, c \in Streams, Counted, TimesAreTrue, NEW r, AdaptingCallback(r)
    PROVE  Counted' /\ TimesAreTrue'
<1>1. /\ pc = "fill" /\ ~MustFill /\ pc' = "copy"
      /\ inT' = (IF InputTaken THEN 0 ELSE inT)
      /\ UNCHANGED <<c, hin, hout, go, done, base>>
    BY DEF AdaptingCallback, hosts
<1>2. IF InputTaken /\ result = "continue" THEN AdaptingCalls(r)
      ELSE UNCHANGED <<seen, taken, made, result, outT, adc, dac>>
    BY DEF AdaptingCallback, InputTaken, times
<1>3. /\ ~NonAdapting(c) /\ Duplex /\ c.cin > 0 /\ c.cout > 0
      /\ c.user \in Nat \ {0} /\ inT <= c.user
    BY <1>1, InDuplex
<1>4. /\ inT \in Nat /\ outT \in Nat /\ taken \in Nat /\ made \in Nat /\ adc \in Int /\ dac \in Int
      /\ base \in Nat /\ done \in Nat /\ go \in Nat /\ Count(hout) \in Nat
      /\ InitialIn(c) \in Nat /\ InitialOut(c) \in Nat
    BY Initials DEF Counted, Types, Counts, Count
<1>5. inT' \in Nat /\ inT' <= c.user
    BY <1>1, <1>3, <1>4
<1>6. Places'
    BY <1>1, <1>3, <1>5, SameStream DEF Places, Phases
<1>7. /\ Took' = Took /\ Total' = Total /\ Put' = Put /\ Count(hin)' = Count(hin)
      /\ Count(hout)' = Count(hout)
    BY <1>1 DEF Took, Put, Total, Count
<1>8. CASE InputTaken /\ result = "continue"
  <2>1. PICK frames : Callback(frames, c.user, r)
      BY <1>2, <1>8 DEF AdaptingCalls
  <2>2. /\ outT' = (IF r = "abort" THEN 0 ELSE c.user)
        /\ adc' = adc + c.user /\ dac' = dac + c.user
      BY <1>2, <1>8 DEF AdaptingCalls
  <2>3. /\ result' = r /\ taken' = taken + c.user
        /\ made' = (IF r = "abort" THEN made ELSE made + c.user)
      BY <2>1 DEF Callback
  <2>4. TimesAreTrue'
      BY <1>1, <2>1, CallbackTimes DEF Counted
  <2>5. Types'
    <3>1. Counts(hin)' /\ Counts(hout)'
        BY <1>1 DEF Counted, Types
    <3> QED
        BY <1>1, <1>3, <1>4, <1>5, <2>2, <2>3, <3>1 DEF Types
  <2>6. inT = c.user /\ outT = 0 /\ inT' = 0
      BY <1>1, <1>8 DEF InputTaken
  <2>7. Accounts'
    <3> SUFFICES ASSUME r = "continue" PROVE Accounts'
        BY <2>3 DEF Accounts
    <3>1. /\ taken + inT = InitialIn(c) + Took /\ adc = taken - InitialIn(c)
          /\ made + InitialOut(c) = outT + Put /\ dac = made + InitialOut(c)
        BY <1>1, <1>3, <1>8 DEF Counted, Accounts
    <3>2. outT' = c.user /\ made' = made + c.user
        BY <2>2, <2>3
    <3>3. Took = base + done /\ Put = base + done + go - Count(hout)
        BY <1>1 DEF Took, Put
    <3>4. /\ taken' + inT' = InitialIn(c) + Took /\ adc' = taken' - InitialIn(c)
          /\ made' + InitialOut(c) = outT' + Put /\ dac' = made' + InitialOut(c)
        BY <1>3, <1>4, <2>2, <2>3, <2>6, <3>1, <3>2, <3>3
    <3> QED
        BY <1>1, <1>7, <3>4, SameStream DEF Accounts
  <2>8. Meets'
    <3>1. taken = made /\ taken % c.user = 0 /\ (c.mode = "fixed" => Total % c.host = 0)
        BY <1>3, <1>8 DEF Counted, Meets
    <3>2. (taken + c.user) % c.user = 0
        BY <1>3, <1>4, <3>1, AnotherMultiple
    <3>3. Count(hin)' = go'
        BY <1>1, <1>7, InDuplex
    <3>4. inT' < c.user
        BY <1>3, <2>6
    <3>5. r = "continue" => taken' = made' /\ taken' % c.user = 0
        BY <2>3, <3>1, <3>2
    <3> QED
        BY <1>1, <1>7, <2>3, <3>1, <3>3, <3>4, <3>5, SameStream DEF Meets
  <2> QED
      BY <1>6, <2>4, <2>5, <2>7, <2>8 DEF Counted
<1>9. CASE ~(InputTaken /\ result = "continue")
  <2>1. UNCHANGED <<seen, taken, made, result, outT, adc, dac>>
      BY <1>2, <1>9
  <2>2. TimesAreTrue'
      BY <1>1, <2>1, SeenTimes
  <2>3. Types'
      BY <1>1, <1>5, <2>1 DEF Counted, Types
  <2>4. Accounts'
    <3> SUFFICES ASSUME result = "continue" PROVE Accounts'
        BY <2>1 DEF Accounts
    <3>1. inT' = inT
        BY <1>1, <1>9
    <3> QED
        BY <1>1, <1>7, <2>1, <3>1, SameStream DEF Counted, Accounts
  <2>5. Meets'
    <3>1. result = "continue" => inT' < c.user \/ Count(hout) = 0
      <4> SUFFICES ASSUME result = "continue" PROVE inT' < c.user \/ Count(hout) = 0
          OBVIOUS
      <4>1. inT' = inT /\ ~(inT = c.user /\ outT = 0)
          BY <1>1, <1>9 DEF InputTaken
      <4>2. outT = 0 \/ Count(hout) = 0
          BY <1>1, <1>3 DEF Counted, Meets
      <4> QED
          BY <1>3, <1>4, <4>1, <4>2
    <3>2. Count(hin)' = go'
        BY <1>1, <1>7, InDuplex
    <3> QED
        BY <1>1, <1>7, <2>1, <3>1, <3>2, SameStream DEF Counted, Meets
  <2> QED
      BY <1>6, <2>2, <2>3, <2>4, <2>5 DEF Counted
<1> QED
    BY <1>8, <1>9

LEMMA DoneKeeps ==
    ASSUME ConfigsAssumption, NoPartial, c \in Streams, Counted, TimesAreTrue, AdaptingDone
    PROVE  Counted' /\ TimesAreTrue'
<1>1. /\ pc = "copy" /\ ~MustCopy /\ go <= EndProcessingMinFrameCount
      /\ pc' = "idle" /\ base' = base + done /\ go' = 0
      /\ UNCHANGED <<c, inT, outT, hin, hout, result, adc, dac, done, seen, taken, made>>
    BY DEF AdaptingDone, Ends, temps, hosts, times
<1>2. TimesAreTrue'
    BY <1>1, SeenTimes
<1>3. ~NonAdapting(c) /\ Duplex /\ c.cin > 0 /\ c.cout > 0 /\ c.user \in Nat \ {0} /\ inT <= c.user
    BY <1>1, InDuplex
<1>4. /\ inT \in Nat /\ outT \in Nat /\ taken \in Nat /\ made \in Nat
      /\ base \in Nat /\ done \in Nat /\ go \in Nat /\ Count(hout) \in Nat
      /\ InitialIn(c) \in Nat /\ InitialOut(c) \in Nat
    BY Initials DEF Counted, Types, Counts, Count
<1>5. go = 0
  <2>1. EndProcessingMinFrameCount = 0
      BY StreamFacts DEF EndProcessingMinFrameCount
  <2> QED
      BY <1>1, <1>4, <2>1
<1>6. Types'
    BY <1>1, <1>4 DEF Counted, Types
<1>7. Places'
    BY <1>1, <1>3, SameStream DEF Counted, Places
<1>8. /\ Took = base + done /\ Put = base + done - Count(hout) /\ Total = base + done
      /\ Took' = base + done /\ Put' = base + done /\ Total' = base + done
  <2>1. Put = base + done + go - Count(hout) /\ Total = base + done + go
      BY <1>1 DEF Put, Total
  <2> QED
      BY <1>1, <1>4, <1>5, <2>1 DEF Took, Put, Total
<1>9. result = "continue" => Count(hout) = 0
  <2> SUFFICES ASSUME result = "continue", Count(hout) # 0 PROVE FALSE
      OBVIOUS
  <2>1. outT = 0
      BY <1>1, <1>4 DEF MustCopy
  <2>2. inT < c.user
      BY <1>1, <1>3, <1>5 DEF Counted, Meets
  <2>3. taken = made /\ taken % c.user = 0 /\ (c.mode = "fixed" => Total % c.host = 0)
      BY <1>3 DEF Counted, Meets
  <2>4. taken + inT = InitialIn(c) + (base + done) /\ made + InitialOut(c) = outT + Put
      BY <1>1, <1>3, <1>8 DEF Counted, Accounts
  <2>5. base + done \in Nat /\ (c.mode = "fixed" => (base + done) % c.host = 0)
      BY <1>4, <1>8, <2>3
  <2>6. inT <= InitialIn(c) + InitialOut(c)
      BY <1>3, <1>4, <2>2, <2>3, <2>4, <2>5, InputUsedUp
  <2> QED
      BY <1>4, <1>8, <2>1, <2>3, <2>4, <2>6
<1>10. Accounts'
  <2> SUFFICES ASSUME result = "continue" PROVE Accounts'
      BY <1>1 DEF Accounts
  <2>1. taken + inT = InitialIn(c) + Took' /\ made + InitialOut(c) = outT + Put'
      BY <1>1, <1>3, <1>4, <1>8, <1>9 DEF Counted, Accounts
  <2> QED
      BY <1>1, <2>1, SameStream DEF Accounts
<1>11. Meets'
    BY <1>1, <1>8, SameStream DEF Counted, Meets
<1> QED
    BY <1>2, <1>6, <1>7, <1>10, <1>11 DEF Counted

LEMMA ResetKeeps ==
    ASSUME ConfigsAssumption, NoPartial, c \in Streams, Counted, PaUtil_ResetBufferProcessor
    PROVE  Counted' /\ TimesAreTrue' /\ ub' = NoBuffer
<1>1. /\ pc = "idle" /\ inT' = InitialIn(c) /\ outT' = InitialOut(c) /\ result' = "continue"
      /\ hin' = <<NoData, NoData>> /\ hout' = <<NoData, NoData>> /\ ub' = NoBuffer
      /\ done' = 0 /\ seen' = Nothing /\ taken' = 0 /\ made' = 0 /\ base' = 0
      /\ UNCHANGED <<c, adc, dac, pc, go>>
    BY DEF PaUtil_ResetBufferProcessor, times
<1>2. TimesAreTrue'
    BY <1>1 DEF TimesAreTrue
<1>3. Types'
    BY <1>1, NoneCount, Initials DEF Counted, Types
<1>4. Places'
    BY <1>1, Initials, StreamFacts, SameStream DEF Counted, Places
<1>5. Accounts'
    BY <1>1, Initials, SameStream DEF Accounts, Took, Put
<1>6. Meets'
  <2>1. Duplex /\ ~NonAdapting(c) => 0 % c.user = 0 /\ 0 % c.host = 0
      BY StreamFacts
  <2> QED
      BY <1>1, <2>1, SameStream DEF Meets, Total
<1> QED
    BY <1>1, <1>2, <1>3, <1>4, <1>5, <1>6 DEF Counted

LEMMA StreamStays == ASSUME Next PROVE c' = c
BY DEF Next, Begin, EndBufferProcessing, Splice, ZeroRest, CopyTempOutputBuffersToHostOutputBuffers,
       FillTempInputBuffer, AdaptingMore, AdaptingDone, NonAdaptingBlock, AdaptingCallback,
       AdaptingInput, AdaptingOutput, Blocking, Blocks, PaUtil_CopyOutput, PaUtil_ZeroOutput,
       PaUtil_CopyInput, PaUtil_ResetBufferProcessor

\* A stream with a callback is not blocked on.
LEMMA NotBlocking ==
    ASSUME c.callback, ub.kind = "none", Next
    PROVE  /\ ~Blocking
           /\ Begin \/ EndBufferProcessing => ub' = ub
<1>1. ~Blocking
    BY DEF Blocking, Blocks, PaUtil_CopyOutput, PaUtil_ZeroOutput, PaUtil_CopyInput
<1>2. Begin \/ EndBufferProcessing => ub' = ub
    BY DEF Begin, EndBufferProcessing, Splice, ZeroRest, CopyTempOutputBuffersToHostOutputBuffers,
           FillTempInputBuffer, AdaptingMore, AdaptingDone, NonAdaptingBlock, AdaptingCallback,
           AdaptingInput, AdaptingOutput
<1> QED
    BY <1>1, <1>2

LEMMA StepKeeps ==
    ASSUME ConfigsAssumption, NoPartial, BInv, [Next]_vars PROVE BInv'
<1>1. CASE UNCHANGED vars
    BY <1>1 DEF vars, temps, hosts, times, loop, history, BInv, Counted, Types, Places, Phases, Accounts,
                Took, Put, Meets, Total, Count, Duplex, TimesAreTrue
<1>2. CASE Next
  <2>1. c' = c /\ c \in Streams
      BY <1>2, StreamStays DEF BInv
  <2> SUFFICES ASSUME c.callback PROVE ub'.kind = "none" /\ Counted' /\ TimesAreTrue'
      BY <2>1 DEF BInv
  <2>2. ub.kind = "none" /\ Counted /\ TimesAreTrue
      BY DEF BInv
  <2>3. CASE Begin
      BY <1>2, <2>1, <2>2, <2>3, BeginKeeps, NotBlocking
  <2>4. CASE EndBufferProcessing
    <3>1. ub'.kind = "none"
        BY <1>2, <2>2, <2>4, NotBlocking
    <3>2. CASE Splice
        BY <2>1, <2>2, <3>1, <3>2, SpliceKeeps
    <3>3. CASE ZeroRest
        BY <2>1, <2>2, <3>1, <3>3, RestKeeps
    <3>4. CASE CopyTempOutputBuffersToHostOutputBuffers
        BY <2>1, <2>2, <3>1, <3>4, CopyKeeps
    <3>5. CASE FillTempInputBuffer
        BY <2>1, <2>2, <3>1, <3>5, FillKeeps
    <3>6. CASE AdaptingMore
        BY <2>1, <2>2, <3>1, <3>6, MoreKeeps
    <3>7. CASE AdaptingDone
        BY <2>1, <2>2, <3>1, <3>7, DoneKeeps
    <3>8. ASSUME NEW r \in Results, NonAdaptingBlock(r) PROVE Counted' /\ TimesAreTrue'
        BY <2>1, <2>2, <3>8, BlockKeeps
    <3>9. ASSUME NEW r \in Results, AdaptingCallback(r) PROVE Counted' /\ TimesAreTrue'
        BY <2>1, <2>2, <3>9, CallbackKeeps
    <3>10. ASSUME NEW r \in Results, AdaptingInput(r) PROVE Counted' /\ TimesAreTrue'
        BY <2>1, <2>2, <3>10, InputKeeps
    <3>11. ASSUME NEW r \in Results, AdaptingOutput(r) PROVE Counted' /\ TimesAreTrue'
        BY <2>1, <2>2, <3>11, OutputKeeps
    <3> QED
        BY <2>4, <3>1, <3>2, <3>3, <3>4, <3>5, <3>6, <3>7, <3>8, <3>9, <3>10, <3>11 DEF EndBufferProcessing
  <2>5. CASE PaUtil_ResetBufferProcessor
      BY <2>1, <2>2, <2>5, ResetKeeps DEF NoBuffer
  <2> QED
      BY <1>2, <2>2, <2>3, <2>4, <2>5, NotBlocking DEF Next
<1> QED
    BY <1>1, <1>2

------------------------------------------------------------------------------
(* The theorem *)

\* The times that PortAudio on Android tells the callback are those at which the first frame
\* it is given was recorded and the first it makes will be played (AdaptingProcess,
\* NonAdaptingProcess and the two of one direction in pa_process.c), whatever the sizes of
\* the host's and the user's buffers and however often the stream is started again. A host
\* that takes partial buffers is excepted.
THEOREM TimesToldAreTrue == NoPartial => (Spec => []TimesAreTrue)
<1>1. ASSUME NoPartial PROVE Spec => []TimesAreTrue
  <2>1. ASSUME BInv PROVE TimesAreTrue
      BY <2>1 DEF BInv, TimesAreTrue
  <2>2. Init => BInv
      BY <1>1, ConfigsAssumption, InitKeeps
  <2>3. BInv /\ [Next]_vars => BInv'
      BY <1>1, ConfigsAssumption, StepKeeps
  <2> QED
      BY <2>1, <2>2, <2>3, PTL DEF Spec
<1> QED
    BY <1>1

------------------------------------------------------------------------------
(* Memory.  A layout says where sample x of frame k is: in a buffer of `size' frames, with *)
(* all samples of a frame beside each other or all frames of a channel.                     *)

IsLayout(l) == /\ l.wide \in Nat /\ l.chans \in Nat /\ l.size \in Nat
               /\ l.chans <= l.wide

Place(l, k, x) == IF l.inter THEN k * l.wide + x ELSE x * l.size + k
Pointers(l, k) == [x \in Chans(l.chans) |-> Place(l, k, x)]
Step(l) == IF l.inter THEN l.wide ELSE 1
Area(l) == 0 .. l.size * (IF l.inter THEN l.wide ELSE l.chans) - 1

Sample(t, f, x) == IF f <= 0 THEN Silence(t) ELSE <<t, f, x>>

\* Frames `from' up to `to' of a buffer are those that follow each other from number `first' on,
\* which is that of the buffer's frame 0.
Lies(mem, t, l, from, to, first) ==
    \A k \in from .. to - 1, x \in Chans(l.chans) : mem[Place(l, k, x)] = Sample(t, first + k, x)

LEMMA OneWay ==
    ASSUME NEW n \in Nat, NEW a \in Nat, NEW b \in Nat, NEW r \in 0 .. n - 1, NEW s \in 0 .. n - 1,
           a * n + r = b * n + s
    PROVE  a = b /\ r = s
<1>1. n \in Nat \ {0} /\ a * n = n * a /\ b * n = n * b
    OBVIOUS
<1>2. (n * a + r) % n = r /\ (n * b + s) % n = s
    BY <1>1, Remainder
<1>3. r = s
    BY <1>1, <1>2
<1>4. n * a = n * b
    BY <1>1, <1>3
<1>5. a = b
    BY <1>1, <1>4
<1> QED
    BY <1>3, <1>5

LEMMA LessTimes ==
    ASSUME NEW n \in Nat, NEW a \in Nat, NEW m \in Nat, a < m, NEW r \in 0 .. n - 1
    PROVE  a * n + r \in 0 .. m * n - 1
<1>1. (a + 1) * n <= m * n
    BY a + 1 <= m
<1>2. (a + 1) * n = a * n + n
    OBVIOUS
<1>3. a * n \in Nat /\ m * n \in Nat
    OBVIOUS
<1> QED
    BY <1>1, <1>2, <1>3

LEMMA PlaceUnique ==
    ASSUME NEW l, IsLayout(l), NEW k \in 0 .. l.size - 1, NEW j \in 0 .. l.size - 1,
           NEW x \in Chans(l.chans), NEW y \in Chans(l.chans), Place(l, k, x) = Place(l, j, y)
    PROVE  k = j /\ x = y
<1>1. /\ k \in Nat /\ j \in Nat /\ x \in Nat /\ y \in Nat
      /\ x \in 0 .. l.wide - 1 /\ y \in 0 .. l.wide - 1 /\ l.wide \in Nat /\ l.size \in Nat
    BY DEF IsLayout, Chans
<1>2. CASE l.inter
    BY <1>1, <1>2, OneWay DEF Place
<1>3. CASE ~l.inter
    BY <1>1, <1>3, OneWay DEF Place
<1> QED
    BY <1>2, <1>3

LEMMA PlaceInside ==
    ASSUME NEW l, IsLayout(l), NEW k \in 0 .. l.size - 1, NEW x \in Chans(l.chans)
    PROVE  Place(l, k, x) \in Area(l)
<1>1. /\ k \in Nat /\ x \in Nat /\ k < l.size /\ x < l.chans
      /\ x \in 0 .. l.wide - 1 /\ l.wide \in Nat /\ l.size \in Nat /\ l.chans \in Nat
    BY DEF IsLayout, Chans
<1>2. CASE l.inter
    BY <1>1, <1>2, LessTimes DEF Place, Area
<1>3. CASE ~l.inter
  <2>1. x * l.size + k \in 0 .. l.chans * l.size - 1
      BY <1>1, LessTimes
  <2>2. l.chans * l.size = l.size * l.chans
      BY <1>1
  <2> QED
      BY <1>3, <2>1, <2>2 DEF Place, Area
<1> QED
    BY <1>2, <1>3

LEMMA PlaceSteps ==
    ASSUME NEW l, IsLayout(l), NEW k \in Nat, NEW n \in Nat, NEW x \in Chans(l.chans)
    PROVE  Place(l, k, x) + n * Step(l) = Place(l, k + n, x) /\ Place(l, k, x) \in Int
<1>1. l.wide \in Nat /\ l.size \in Nat /\ x \in Nat
    BY DEF IsLayout, Chans
<1>2. CASE l.inter
  <2>1. (k + n) * l.wide = k * l.wide + n * l.wide
      BY <1>1
  <2>2. k * l.wide \in Int /\ n * l.wide \in Int
      BY <1>1
  <2> QED
      BY <1>1, <1>2, <2>1, <2>2 DEF Place, Step
<1>3. CASE ~l.inter
  <2>1. x * l.size \in Int
      BY <1>1
  <2> QED
      BY <1>1, <1>3, <2>1 DEF Place, Step
<1> QED
    BY <1>2, <1>3

LEMMA Advances ==
    ASSUME NEW l, IsLayout(l), NEW k \in Nat, NEW n \in Nat
    PROVE  Advanced(Pointers(l, k), n, Step(l)) = Pointers(l, k + n)
<1>1. DOMAIN Pointers(l, k) = Chans(l.chans)
    BY DEF Pointers
<1>2. \A x \in Chans(l.chans) : Pointers(l, k)[x] + n * Step(l) = Place(l, k + n, x)
    BY PlaceSteps DEF Pointers
<1> QED
    BY <1>1, <1>2 DEF Advanced, Pointers

------------------------------------------------------------------------------
(* What is written n frames from frame b on, and what is left as it was *)

Grid(l, b, n) == {Place(l, k, x) : k \in b .. b + n - 1, x \in Chans(l.chans)}

LEMMA GridInside ==
    ASSUME NEW l, IsLayout(l), NEW b \in Nat, NEW n \in Nat, b + n <= l.size
    PROVE  Grid(l, b, n) \subseteq Area(l)
<1>1. \A k \in b .. b + n - 1 : k \in 0 .. l.size - 1
    BY DEF IsLayout
<1> QED
    BY <1>1, PlaceInside DEF Grid

\* A frame before or behind them is not among them.
LEMMA GridApart ==
    ASSUME NEW l, IsLayout(l), NEW b \in Nat, NEW n \in Nat, b + n <= l.size,
           NEW k \in 0 .. l.size - 1, k < b \/ k >= b + n, NEW x \in Chans(l.chans)
    PROVE  Place(l, k, x) \notin Grid(l, b, n)
<1> SUFFICES ASSUME NEW j \in b .. b + n - 1, NEW y \in Chans(l.chans), Place(l, k, x) = Place(l, j, y)
             PROVE  FALSE
    BY DEF Grid
<1>1. j \in 0 .. l.size - 1
    BY DEF IsLayout
<1>2. k = j
    BY <1>1, PlaceUnique
<1> QED
    BY <1>2

\* The places that Written goes over, and the frame that each is of.
At(l, b, n) == {<<k, x>> : k \in 0 .. n - 1, x \in DOMAIN Pointers(l, b)}
Address(l, b, p) == Pointers(l, b)[p[2]] + p[1] * Step(l)
Hit(l, b, n) == {Address(l, b, p) : p \in At(l, b, n)}
FrameAt(l, b, n, a) == CHOOSE p \in At(l, b, n) : Address(l, b, p) = a

LEMMA AddressOf ==
    ASSUME NEW l, IsLayout(l), NEW b \in Nat, NEW n \in Nat,
           NEW k \in 0 .. n - 1, NEW x \in Chans(l.chans)
    PROVE  /\ <<k, x>> \in At(l, b, n) /\ Address(l, b, <<k, x>>) = Place(l, b + k, x)
           /\ Place(l, b + k, x) \in Grid(l, b, n)
<1>1. DOMAIN Pointers(l, b) = Chans(l.chans) /\ Pointers(l, b)[x] = Place(l, b, x)
    BY DEF Pointers
<1>2. Place(l, b, x) + k * Step(l) = Place(l, b + k, x)
    BY PlaceSteps
<1>3. b + k \in b .. b + n - 1
    OBVIOUS
<1> QED
    BY <1>1, <1>2, <1>3 DEF At, Address, Grid

LEMMA FrameOf ==
    ASSUME NEW l, IsLayout(l), NEW b \in Nat, NEW n \in Nat, b + n <= l.size,
           NEW k \in b .. b + n - 1, NEW x \in Chans(l.chans)
    PROVE  Place(l, k, x) \in Grid(l, b, n) /\ FrameAt(l, b, n, Place(l, k, x)) = <<k - b, x>>
<1>1. k - b \in 0 .. n - 1 /\ b + (k - b) = k
    OBVIOUS
<1>2. ASSUME NEW q \in At(l, b, n), Address(l, b, q) = Place(l, k, x)
      PROVE  q = <<k - b, x>>
  <2>1. PICK j \in 0 .. n - 1, y \in Chans(l.chans) : q = <<j, y>>
      BY DEF At, Pointers
  <2>2. Place(l, b + j, y) = Place(l, k, x)
      BY <1>2, <2>1, AddressOf
  <2>3. b + j \in 0 .. l.size - 1 /\ k \in 0 .. l.size - 1
      BY DEF IsLayout
  <2>4. b + j = k /\ y = x
      BY <2>2, <2>3, PlaceUnique
  <2>5. j = k - b
      BY <2>4
  <2> QED
      BY <2>1, <2>4, <2>5
<1>3. <<k - b, x>> \in At(l, b, n) /\ Address(l, b, <<k - b, x>>) = Place(l, b + (k - b), x)
    BY <1>1, AddressOf
<1>4. <<k - b, x>> \in At(l, b, n) /\ Address(l, b, <<k - b, x>>) = Place(l, k, x)
    BY <1>1, <1>3
<1> QED
    BY <1>2, <1>4 DEF FrameAt, Grid

LEMMA Addresses ==
    ASSUME NEW l, IsLayout(l), NEW b \in Nat, NEW n \in Nat, b + n <= l.size
    PROVE  Hit(l, b, n) = Grid(l, b, n)
<1>1. ASSUME NEW p \in At(l, b, n) PROVE Address(l, b, p) \in Grid(l, b, n)
  <2>1. PICK j \in 0 .. n - 1, y \in Chans(l.chans) : p = <<j, y>>
      BY DEF At, Pointers
  <2> QED
      BY <2>1, AddressOf
<1>2. ASSUME NEW a \in Grid(l, b, n) PROVE a \in Hit(l, b, n)
  <2>1. PICK k \in b .. b + n - 1, x \in Chans(l.chans) : a = Place(l, k, x)
      BY DEF Grid
  <2>2. k - b \in 0 .. n - 1 /\ b + (k - b) = k
      OBVIOUS
  <2>3. <<k - b, x>> \in At(l, b, n) /\ Address(l, b, <<k - b, x>>) = Place(l, b + (k - b), x)
      BY <2>2, AddressOf
  <2>4. Address(l, b, <<k - b, x>>) = a
      BY <2>1, <2>2, <2>3
  <2> QED
      BY <2>3, <2>4 DEF Hit
<1> QED
    BY <1>1, <1>2 DEF Hit

Wrote(m, dst, l, b, n) ==
    /\ DOMAIN m = DOMAIN dst \cup Grid(l, b, n)
    /\ \A a \in DOMAIN dst : a \notin Grid(l, b, n) => m[a] = dst[a]

LEMMA WroteConverted ==
    ASSUME NEW l, IsLayout(l), NEW b \in Nat, NEW n \in Nat, b + n <= l.size,
           NEW t, NEW dst, NEW src, NEW sp, NEW ss
    PROVE  Wrote(Converted(t, dst, Pointers(l, b), Step(l), src, sp, ss, n), dst, l, b, n)
<1> DEFINE value(p) == <<t, src[sp[p[2]] + p[1] * ss][2], src[sp[p[2]] + p[1] * ss][3]>>
           m == Converted(t, dst, Pointers(l, b), Step(l), src, sp, ss, n)
<1>1. m = [a \in DOMAIN dst \cup Grid(l, b, n) |->
             IF a \in Grid(l, b, n) THEN value(FrameAt(l, b, n, a)) ELSE dst[a]]
  <2>1. Hit(l, b, n) = Grid(l, b, n)
      BY Addresses
  <2>2. m = [a \in DOMAIN dst \cup Hit(l, b, n) |->
               IF a \in Hit(l, b, n) THEN value(FrameAt(l, b, n, a)) ELSE dst[a]]
      BY DEF Converted, Written, At, Address, FrameAt, Hit
  <2> QED
      BY <2>1, <2>2
<1> HIDE DEF m
<1> QED
    BY <1>1 DEF Wrote, m

LEMMA ConvertedAt ==
    ASSUME NEW l, IsLayout(l), NEW b \in Nat, NEW n \in Nat, b + n <= l.size,
           NEW t, NEW dst, NEW src, NEW sp, NEW ss,
           NEW k \in b .. b + n - 1, NEW x \in Chans(l.chans)
    PROVE  Converted(t, dst, Pointers(l, b), Step(l), src, sp, ss, n)[Place(l, k, x)]
              = <<t, src[sp[x] + (k - b) * ss][2], src[sp[x] + (k - b) * ss][3]>>
<1> DEFINE value(p) == <<t, src[sp[p[2]] + p[1] * ss][2], src[sp[p[2]] + p[1] * ss][3]>>
           m == Converted(t, dst, Pointers(l, b), Step(l), src, sp, ss, n)
<1>1. m = [a \in DOMAIN dst \cup Grid(l, b, n) |->
             IF a \in Grid(l, b, n) THEN value(FrameAt(l, b, n, a)) ELSE dst[a]]
  <2>1. Hit(l, b, n) = Grid(l, b, n)
      BY Addresses
  <2>2. m = [a \in DOMAIN dst \cup Hit(l, b, n) |->
               IF a \in Hit(l, b, n) THEN value(FrameAt(l, b, n, a)) ELSE dst[a]]
      BY DEF Converted, Written, At, Address, FrameAt, Hit
  <2> QED
      BY <2>1, <2>2
<1> HIDE DEF m
<1>2. Place(l, k, x) \in Grid(l, b, n) /\ FrameAt(l, b, n, Place(l, k, x)) = <<k - b, x>>
    BY FrameOf
<1>3. m[Place(l, k, x)] = value(<<k - b, x>>)
    BY <1>1, <1>2
<1> QED
    BY <1>3 DEF m

LEMMA WroteZeros ==
    ASSUME NEW l, IsLayout(l), NEW b \in Nat, NEW n \in Nat, b + n <= l.size,
           NEW t, NEW dst
    PROVE  Wrote(Zeroed(t, dst, Pointers(l, b), Step(l), n), dst, l, b, n)
<1> DEFINE value(p) == Silence(t)
           m == Zeroed(t, dst, Pointers(l, b), Step(l), n)
<1>1. m = [a \in DOMAIN dst \cup Grid(l, b, n) |->
             IF a \in Grid(l, b, n) THEN value(FrameAt(l, b, n, a)) ELSE dst[a]]
  <2>1. Hit(l, b, n) = Grid(l, b, n)
      BY Addresses
  <2>2. m = [a \in DOMAIN dst \cup Hit(l, b, n) |->
               IF a \in Hit(l, b, n) THEN value(FrameAt(l, b, n, a)) ELSE dst[a]]
      BY DEF Zeroed, Written, At, Address, FrameAt, Hit
  <2> QED
      BY <2>1, <2>2
<1> HIDE DEF m
<1> QED
    BY <1>1 DEF Wrote, m

LEMMA ZeroAt ==
    ASSUME NEW l, IsLayout(l), NEW b \in Nat, NEW n \in Nat, b + n <= l.size,
           NEW t, NEW dst,
           NEW k \in b .. b + n - 1, NEW x \in Chans(l.chans)
    PROVE  Zeroed(t, dst, Pointers(l, b), Step(l), n)[Place(l, k, x)]
              = Silence(t)
<1> DEFINE value(p) == Silence(t)
           m == Zeroed(t, dst, Pointers(l, b), Step(l), n)
<1>1. m = [a \in DOMAIN dst \cup Grid(l, b, n) |->
             IF a \in Grid(l, b, n) THEN value(FrameAt(l, b, n, a)) ELSE dst[a]]
  <2>1. Hit(l, b, n) = Grid(l, b, n)
      BY Addresses
  <2>2. m = [a \in DOMAIN dst \cup Hit(l, b, n) |->
               IF a \in Hit(l, b, n) THEN value(FrameAt(l, b, n, a)) ELSE dst[a]]
      BY DEF Zeroed, Written, At, Address, FrameAt, Hit
  <2> QED
      BY <2>1, <2>2
<1> HIDE DEF m
<1>2. Place(l, k, x) \in Grid(l, b, n) /\ FrameAt(l, b, n, Place(l, k, x)) = <<k - b, x>>
    BY FrameOf
<1>3. m[Place(l, k, x)] = value(<<k - b, x>>)
    BY <1>1, <1>2
<1> QED
    BY <1>3 DEF m

LEMMA WroteMakes ==
    ASSUME NEW l, IsLayout(l), NEW b \in Nat, NEW n \in Nat, b + n <= l.size,
           NEW dst
    PROVE  Wrote(Makes(dst, Pointers(l, b), Step(l), n), dst, l, b, n)
<1> DEFINE value(p) == <<UserFormat, made + p[1] + 1, p[2]>>
           m == Makes(dst, Pointers(l, b), Step(l), n)
<1>1. m = [a \in DOMAIN dst \cup Grid(l, b, n) |->
             IF a \in Grid(l, b, n) THEN value(FrameAt(l, b, n, a)) ELSE dst[a]]
  <2>1. Hit(l, b, n) = Grid(l, b, n)
      BY Addresses
  <2>2. m = [a \in DOMAIN dst \cup Hit(l, b, n) |->
               IF a \in Hit(l, b, n) THEN value(FrameAt(l, b, n, a)) ELSE dst[a]]
      BY DEF Makes, Written, At, Address, FrameAt, Hit
  <2> QED
      BY <2>1, <2>2
<1> HIDE DEF m
<1> QED
    BY <1>1 DEF Wrote, m

LEMMA MadeAt ==
    ASSUME NEW l, IsLayout(l), NEW b \in Nat, NEW n \in Nat, b + n <= l.size,
           NEW dst,
           NEW k \in b .. b + n - 1, NEW x \in Chans(l.chans)
    PROVE  Makes(dst, Pointers(l, b), Step(l), n)[Place(l, k, x)]
              = <<UserFormat, made + (k - b) + 1, x>>
<1> DEFINE value(p) == <<UserFormat, made + p[1] + 1, p[2]>>
           m == Makes(dst, Pointers(l, b), Step(l), n)
<1>1. m = [a \in DOMAIN dst \cup Grid(l, b, n) |->
             IF a \in Grid(l, b, n) THEN value(FrameAt(l, b, n, a)) ELSE dst[a]]
  <2>1. Hit(l, b, n) = Grid(l, b, n)
      BY Addresses
  <2>2. m = [a \in DOMAIN dst \cup Hit(l, b, n) |->
               IF a \in Hit(l, b, n) THEN value(FrameAt(l, b, n, a)) ELSE dst[a]]
      BY DEF Makes, Written, At, Address, FrameAt, Hit
  <2> QED
      BY <2>1, <2>2
<1> HIDE DEF m
<1>2. Place(l, k, x) \in Grid(l, b, n) /\ FrameAt(l, b, n, Place(l, k, x)) = <<k - b, x>>
    BY FrameOf
<1>3. m[Place(l, k, x)] = value(<<k - b, x>>)
    BY <1>1, <1>2
<1> QED
    BY <1>3 DEF m

------------------------------------------------------------------------------
(* Frames that lie in memory are moved, and others are kept *)

\* One converter after the other: frames keep their numbers.
LEMMA Moved ==
    ASSUME NEW l, IsLayout(l), NEW b \in Nat, NEW n \in Nat, b + n <= l.size,
           NEW g, IsLayout(g), g.chans = l.chans, NEW a \in Nat,
           NEW t, NEW u, NEW dst, NEW src, NEW first \in Int,
           Lies(src, u, g, a, a + n, first)
    PROVE  Lies(Converted(t, dst, Pointers(l, b), Step(l), src, Pointers(g, a), Step(g), n),
                t, l, b, b + n, first + a - b)
<1> DEFINE m == Converted(t, dst, Pointers(l, b), Step(l), src, Pointers(g, a), Step(g), n)
<1> SUFFICES ASSUME NEW k \in b .. b + n - 1, NEW x \in Chans(l.chans)
             PROVE  m[Place(l, k, x)] = Sample(t, (first + a - b) + k, x)
    BY DEF Lies
<1> DEFINE s == src[Pointers(g, a)[x] + (k - b) * Step(g)]
<1>1. m[Place(l, k, x)] = <<t, s[2], s[3]>>
    BY ConvertedAt
<1> HIDE DEF m
<1>2. k - b \in Nat /\ a + (k - b) \in a .. a + n - 1 /\ x \in Chans(g.chans)
    OBVIOUS
<1>3. Pointers(g, a)[x] = Place(g, a, x)
    BY <1>2 DEF Pointers
<1>4. Place(g, a, x) + (k - b) * Step(g) = Place(g, a + (k - b), x)
    BY <1>2, PlaceSteps
<1>5. src[Place(g, a + (k - b), x)] = Sample(u, first + (a + (k - b)), x)
    BY <1>2 DEF Lies
<1>6. s = Sample(u, first + (a + (k - b)), x)
    BY <1>3, <1>4, <1>5
<1>7. first + (a + (k - b)) = (first + a - b) + k
    OBVIOUS
<1> HIDE DEF s
<1> QED
    BY <1>1, <1>6, <1>7 DEF Sample, Silence

\* Frames before and behind those that are written.
LEMMA Kept ==
    ASSUME NEW l, IsLayout(l), NEW b \in Nat, NEW n \in Nat, b + n <= l.size,
           NEW dst, NEW m, Wrote(m, dst, l, b, n), Area(l) \subseteq DOMAIN dst,
           NEW from \in Nat, NEW to \in Int, to <= l.size, to <= b \/ from >= b + n,
           NEW t, NEW first, Lies(dst, t, l, from, to, first)
    PROVE  Lies(m, t, l, from, to, first)
<1> SUFFICES ASSUME NEW k \in from .. to - 1, NEW x \in Chans(l.chans)
             PROVE  m[Place(l, k, x)] = dst[Place(l, k, x)]
    BY DEF Lies
<1>1. k \in 0 .. l.size - 1 /\ (k < b \/ k >= b + n)
    BY DEF IsLayout
<1>2. Place(l, k, x) \notin Grid(l, b, n)
    BY <1>1, GridApart
<1>3. Place(l, k, x) \in DOMAIN dst
    BY <1>1, PlaceInside
<1> QED
    BY <1>2, <1>3 DEF Wrote

LEMMA Within ==
    ASSUME NEW m, NEW t, NEW l, NEW from \in Int, NEW to \in Int, NEW first,
           Lies(m, t, l, from, to, first), NEW a \in Int, NEW b \in Int, from <= a, b <= to
    PROVE  Lies(m, t, l, a, b, first)
<1>1. \A k \in a .. b - 1 : k \in from .. to - 1
    OBVIOUS
<1> QED
    BY <1>1 DEF Lies

LEMMA Joined ==
    ASSUME NEW m, NEW t, NEW l, NEW a \in Int, NEW b \in Int, NEW e \in Int, NEW first,
           Lies(m, t, l, a, b, first), Lies(m, t, l, b, e, first)
    PROVE  Lies(m, t, l, a, e, first)
<1> SUFFICES ASSUME NEW k \in a .. e - 1, NEW x \in Chans(l.chans)
             PROVE  m[Place(l, k, x)] = Sample(t, first + k, x)
    BY DEF Lies
<1>1. k \in a .. b - 1 \/ k \in b .. e - 1
    OBVIOUS
<1> QED
    BY <1>1 DEF Lies

\* Gathered behind what lies there from frame 0 on.
LEMMA Appended ==
    ASSUME NEW l, IsLayout(l), NEW b \in Nat, NEW n \in Nat, b + n <= l.size,
           NEW g, IsLayout(g), g.chans = l.chans, NEW a \in Nat,
           NEW t, NEW u, NEW dst, NEW src, NEW first \in Int, NEW before \in Int,
           DOMAIN dst = Area(l), Lies(dst, t, l, 0, b, before),
           Lies(src, u, g, a, a + n, first), first + a = before + b
    PROVE  Lies(Converted(t, dst, Pointers(l, b), Step(l), src, Pointers(g, a), Step(g), n),
                t, l, 0, b + n, before)
<1> DEFINE m == Converted(t, dst, Pointers(l, b), Step(l), src, Pointers(g, a), Step(g), n)
<1>1. Lies(m, t, l, b, b + n, first + a - b)
    BY Moved
<1>2. Wrote(m, dst, l, b, n)
    BY WroteConverted
<1> HIDE DEF m
<1>3. 0 \in Nat /\ b \in Int /\ b <= l.size /\ Area(l) \subseteq DOMAIN dst /\ l.size \in Nat
    BY DEF IsLayout
<1>4. Lies(m, t, l, 0, b, before)
    BY <1>2, <1>3, Kept
<1>5. first + a - b = before
    OBVIOUS
<1> QED
    BY <1>1, <1>3, <1>4, <1>5, Joined DEF m

\* What a buffer of the callback holds: n frames from number `first' on.
Shown(frames, t, chans, n, first) ==
    /\ DOMAIN frames = 1 .. n
    /\ \A k \in 1 .. n, x \in Chans(chans) : frames[k][x] = Sample(t, first + k - 1, x)

LEMMA Read ==
    ASSUME NEW l, IsLayout(l), NEW a \in Nat, NEW n \in Nat, NEW mem, NEW t, NEW first \in Int,
           Lies(mem, t, l, a, a + n, first)
    PROVE  Shown(Frames(mem, Pointers(l, a), Step(l), n), t, l.chans, n, first + a)
<1> SUFFICES ASSUME NEW k \in 1 .. n, NEW x \in Chans(l.chans)
             PROVE  mem[Pointers(l, a)[x] + (k - 1) * Step(l)] = Sample(t, first + a + k - 1, x)
    BY DEF Frames, Pointers, Shown
<1>1. k - 1 \in Nat /\ a + (k - 1) \in a .. a + n - 1 /\ first + (a + (k - 1)) = first + a + k - 1
    OBVIOUS
<1>2. Pointers(l, a)[x] = Place(l, a, x)
    BY DEF Pointers
<1>3. Place(l, a, x) + (k - 1) * Step(l) = Place(l, a + (k - 1), x)
    BY <1>1, PlaceSteps
<1>4. mem[Place(l, a + (k - 1), x)] = Sample(t, first + (a + (k - 1)), x)
    BY <1>1 DEF Lies
<1> QED
    BY <1>1, <1>2, <1>3, <1>4

\* No input: silence from the zeroer.
LEMMA ReadZeros ==
    ASSUME NEW l, NEW n, NEW t, NEW dst, NEW k, NEW x, IsLayout(l), n \in Nat, n <= l.size,
           k \in 1 .. n, x \in Chans(l.chans)
    PROVE  Frames(Zeroed(t, dst, Pointers(l, 0), Step(l), n), Pointers(l, 0), Step(l), n)[k][x] = Silence(t)
<1> DEFINE mem == Zeroed(t, dst, Pointers(l, 0), Step(l), n)
<1>1. k - 1 \in Nat /\ k - 1 \in 0 .. 0 + n - 1 /\ 0 \in Nat /\ 0 + n <= l.size /\ 0 + (k - 1) = k - 1
    BY DEF IsLayout
<1>2. mem[Place(l, k - 1, x)] = Silence(t)
    BY <1>1, ZeroAt
<1> HIDE DEF mem
<1>3. Pointers(l, 0)[x] = Place(l, 0, x)
    BY DEF Pointers
<1>4. Place(l, 0, x) + (k - 1) * Step(l) = Place(l, 0 + (k - 1), x)
    BY <1>1, PlaceSteps
<1>5. Frames(mem, Pointers(l, 0), Step(l), n)[k][x] = mem[Pointers(l, 0)[x] + (k - 1) * Step(l)]
    BY DEF Frames, Pointers
<1> QED
    BY <1>1, <1>2, <1>3, <1>4, <1>5 DEF mem

------------------------------------------------------------------------------
(* The buffers of a stream *)

UserL(s, chans, n) == [inter |-> s.userInter, wide |-> chans, chans |-> chans, size |-> n]
HostL(s, chans, n) == [inter |-> s.hostInter, wide |-> chans + s.wider, chans |-> chans, size |-> n]

LEMMA Layouts ==
    ASSUME ConfigsAssumption, c \in Streams, NEW chans \in Nat, NEW n \in Nat
    PROVE  /\ IsLayout(UserL(c, chans, n)) /\ IsLayout(HostL(c, chans, n))
           /\ UserL(c, chans, n).chans = chans /\ HostL(c, chans, n).chans = chans
           /\ UserL(c, chans, n).size = n /\ HostL(c, chans, n).size = n
<1>1. c.wider \in Nat
  <2>1. PICK s \in Configs : c = Opened(s)
      BY DEF Streams
  <2>2. s \in Config
      BY <2>1 DEF ConfigsAssumption
  <2>3. s.wider \in Nat /\ "wider" \in DOMAIN s
      BY <2>2 DEF Config
  <2> QED
      BY <2>1, <2>3 DEF Opened
<1> QED
    BY <1>1 DEF IsLayout, UserL, HostL

LEMMA Pointing ==
    ASSUME NEW chans, NEW n, NEW k
    PROVE  /\ UserPtrs(chans, n, k) = Pointers(UserL(c, chans, n), k)
           /\ UserStride(chans) = Step(UserL(c, chans, n))
           /\ HostStride(chans) = Step(HostL(c, chans, n))
BY DEF UserPtrs, Ptrs, Pointers, Place, UserStride, HostStride, Stride, Step, UserL, HostL

LEMMA HostPointing ==
    ASSUME ConfigsAssumption, c \in Streams, NEW chans \in Nat, NEW n \in Nat
    PROVE  Ptrs(c.hostInter, chans, n, 0) = Pointers(HostL(c, chans, n), 0)
<1>1. IsLayout(HostL(c, chans, n))
    BY Layouts
<1>2. /\ HostL(c, chans, n).wide \in Nat
      /\ HostL(c, chans, n).chans = chans /\ HostL(c, chans, n).size = n
      /\ HostL(c, chans, n).inter = c.hostInter
    BY <1>1 DEF IsLayout, HostL
<1>3. ASSUME NEW x \in Chans(chans)
      PROVE  (IF c.hostInter THEN 0 * chans + x ELSE x * n + 0) = Place(HostL(c, chans, n), 0, x)
  <2>1. x \in Nat /\ x * n \in Nat
      BY DEF Chans
  <2>2. 0 * chans = 0 /\ 0 * HostL(c, chans, n).wide = 0
      BY <1>2
  <2> QED
      BY <1>2, <2>1, <2>2 DEF Place
<1> HIDE DEF HostL
<1> QED
    BY <1>2, <1>3 DEF Ptrs, Pointers

------------------------------------------------------------------------------
(* The host's two sets, of which `counted' frames are spoken for and `moved' are gone *)

First(h, w) == IF w = 1 THEN 1 ELSE h[1].size + 1
Part(h, w, n) == IF w = 1 THEN Least(n, h[1].size) ELSE IF n > h[1].size THEN n - h[1].size ELSE 0

Cut(s, h, chans, counted, moved) ==
    \A w \in {1, 2} :
        /\ {"count", "size", "mem", "ptr"} \subseteq DOMAIN h[w] /\ h[w].size \in Nat
        /\ h[w].count = h[w].size - Part(h, w, counted)
        /\ h[w].size > 0 => h[w].ptr = Pointers(HostL(s, chans, h[w].size), Part(h, w, moved))

\* The n frames that follow m are all of set w.
Room(h, w, m, n) == IF w = 1 THEN m + n <= h[1].size
                    ELSE m >= h[1].size /\ m - h[1].size + n <= h[2].size

LEMMA PartRoom ==
    ASSUME NEW h, NEW w, NEW m, NEW n, h[1].size \in Nat, h[2].size \in Nat,
           w \in {1, 2}, m \in Nat, n \in Nat, Room(h, w, m, n)
    PROVE  /\ Part(h, w, m) \in Nat /\ Part(h, w, m) + n <= h[w].size
           /\ First(h, w) + Part(h, w, m) = m + 1
           /\ Part(h, w, m + n) = Part(h, w, m) + n
           /\ \A v \in {1, 2} : v # w => Part(h, v, m + n) = Part(h, v, m)
BY DEF Room, Part, First, Least

LEMMA SetMoves ==
    ASSUME NEW chans, NEW h, NEW d, NEW m, NEW w, NEW n, NEW k,
           ConfigsAssumption, c \in Streams, chans \in Nat, d \in Nat, m \in Nat, w \in {1, 2}, n \in Nat,
           Cut(c, h, chans, d, m), Room(h, w, m, n),
           {"count", "size", "mem", "ptr"} \subseteq DOMAIN k[w],
           k[w].size = h[w].size, k[w].count = h[w].count,
           k[w].ptr = Advanced(h[w].ptr, n, HostStride(chans)),
           \A v \in {1, 2} : v # w => k[v] = h[v]
    PROVE  Cut(c, k, chans, d, m + n)
<1>1. h[1].size \in Nat /\ h[2].size \in Nat /\ k[1].size = h[1].size /\ k[2].size = h[2].size
    BY DEF Cut
<1>2. /\ Part(h, w, m) \in Nat /\ Part(h, w, m + n) = Part(h, w, m) + n
      /\ \A v \in {1, 2} : v # w => Part(h, v, m + n) = Part(h, v, m)
    BY <1>1, PartRoom
<1>3. \A v \in {1, 2} : Part(k, v, m + n) = Part(h, v, m + n) /\ Part(k, v, d) = Part(h, v, d)
    BY <1>1 DEF Part
<1> SUFFICES ASSUME NEW v \in {1, 2}
             PROVE  /\ {"count", "size", "mem", "ptr"} \subseteq DOMAIN k[v] /\ k[v].size \in Nat
                    /\ k[v].count = k[v].size - Part(k, v, d)
                    /\ k[v].size > 0 =>
                          k[v].ptr = Pointers(HostL(c, chans, k[v].size), Part(k, v, m + n))
    BY DEF Cut
<1>4. CASE v # w
  <2>1. k[v] = h[v] /\ Part(k, v, m + n) = Part(h, v, m) /\ Part(k, v, d) = Part(h, v, d)
      BY <1>2, <1>3, <1>4
  <2> QED
      BY <2>1 DEF Cut
<1>5. CASE v = w
  <2>1. k[v].size \in Nat /\ k[v].count = k[v].size - Part(k, v, d)
      BY <1>1, <1>3, <1>5 DEF Cut
  <2>2. ASSUME k[v].size > 0
        PROVE  k[v].ptr = Pointers(HostL(c, chans, k[v].size), Part(k, v, m + n))
    <3> DEFINE l == HostL(c, chans, h[w].size)
    <3>1. IsLayout(l) /\ HostStride(chans) = Step(l)
        BY <1>1, <1>5, <2>1, Layouts, Pointing
    <3>2. h[w].ptr = Pointers(l, Part(h, w, m))
        BY <1>1, <1>5, <2>2 DEF Cut
    <3> HIDE DEF l
    <3>3. k[w].ptr = Pointers(l, Part(h, w, m) + n)
        BY <1>2, <3>1, <3>2, Advances
    <3> QED
        BY <1>2, <1>3, <1>5, <3>3 DEF l
  <2> QED
      BY <1>5, <2>1, <2>2
<1> QED
    BY <1>4, <1>5

LEMMA SetCounted ==
    ASSUME NEW s, NEW chans, NEW h, NEW d, NEW m, NEW w, NEW n, NEW k,
           d \in Nat, m \in Nat, w \in {1, 2}, n \in Nat,
           Cut(s, h, chans, d, m), Room(h, w, d, n),
           {"count", "size", "mem", "ptr"} \subseteq DOMAIN k[w],
           k[w].size = h[w].size, k[w].count = h[w].count - n, k[w].ptr = h[w].ptr,
           \A v \in {1, 2} : v # w => k[v] = h[v]
    PROVE  Cut(s, k, chans, d + n, m)
<1>1. h[1].size \in Nat /\ h[2].size \in Nat /\ k[1].size = h[1].size /\ k[2].size = h[2].size
    BY DEF Cut
<1>2. /\ Part(h, w, d) \in Nat /\ Part(h, w, d + n) = Part(h, w, d) + n
      /\ \A v \in {1, 2} : v # w => Part(h, v, d + n) = Part(h, v, d)
    BY <1>1, PartRoom
<1>3. \A v \in {1, 2} : Part(k, v, d + n) = Part(h, v, d + n) /\ Part(k, v, m) = Part(h, v, m)
    BY <1>1 DEF Part
<1> SUFFICES ASSUME NEW v \in {1, 2}
             PROVE  /\ {"count", "size", "mem", "ptr"} \subseteq DOMAIN k[v] /\ k[v].size \in Nat
                    /\ k[v].count = k[v].size - Part(k, v, d + n)
                    /\ k[v].size > 0 =>
                          k[v].ptr = Pointers(HostL(s, chans, k[v].size), Part(k, v, m))
    BY DEF Cut
<1>4. CASE v # w
  <2>1. k[v] = h[v] /\ Part(k, v, m) = Part(h, v, m) /\ Part(k, v, d + n) = Part(h, v, d)
      BY <1>2, <1>3, <1>4
  <2> QED
      BY <2>1 DEF Cut
<1>5. CASE v = w
  <2>1. /\ h[w].size \in Nat /\ h[w].count = h[w].size - Part(h, w, d)
        /\ h[w].size > 0 => h[w].ptr = Pointers(HostL(s, chans, h[w].size), Part(h, w, m))
      BY DEF Cut
  <2> QED
      BY <1>2, <1>3, <1>5, <2>1
<1> QED
    BY <1>4, <1>5

\* What is left of the first set that is not empty.
LEMMA FirstLeft ==
    ASSUME NEW s, NEW chans, NEW h, NEW d \in Nat, NEW m, Cut(s, h, chans, d, m), Counts(h),
           NEW n \in Nat, n <= h[Set(h)].count
    PROVE  Set(h) \in {1, 2} /\ Room(h, Set(h), d, n)
<1>1. /\ h[1].size \in Nat /\ h[2].size \in Nat /\ h[1].count \in Nat /\ h[2].count \in Nat
      /\ h[1].count = h[1].size - Part(h, 1, d) /\ h[2].count = h[2].size - Part(h, 2, d)
    BY DEF Cut, Counts
<1> QED
    BY <1>1 DEF Set, Room, Part, Least

\* The set that EndBufferProcessing is at holds the frames that it is still to do.
AtSet(h, w, d, g) == w \in {1, 2} /\ IF w = 1 THEN d <= h[1].size ELSE d - g >= h[1].size

LEMMA AtRoom ==
    ASSUME NEW s, NEW chans, NEW h, NEW w, NEW d, NEW g, NEW e, NEW m, NEW n,
           d \in Nat, g \in Nat, e \in Nat, e = d - g, AtSet(h, w, d, g),
           Cut(s, h, chans, d, m), Counts(h), n \in Nat, n <= g
    PROVE  w \in {1, 2} /\ Room(h, w, e, n)
<1>1. /\ h[1].size \in Nat /\ h[2].size \in Nat /\ h[1].count \in Nat /\ h[2].count \in Nat
      /\ h[1].count = h[1].size - Part(h, 1, d) /\ h[2].count = h[2].size - Part(h, 2, d)
    BY DEF Cut, Counts
<1> QED
    BY <1>1 DEF AtSet, Room, Part, Least

LEMMA Quotient ==
    ASSUME NEW n \in Nat, NEW q \in Nat, NEW r \in 0 .. n - 1
    PROVE  (q * n + r) % n = r /\ (q * n + r) \div n = q
<1> DEFINE a == q * n + r
           d == a \div n
<1>1. n \in Nat \ {0} /\ a \in Nat /\ q * n = n * q
    OBVIOUS
<1>2. (n * q + r) % n = r
    BY <1>1, Remainder
<1>3. a % n = r
    BY <1>1, <1>2
<1> HIDE DEF a
<1>4. a = n * d + (a % n) /\ d \in Nat
    BY <1>1, Division
<1> HIDE DEF d
<1>5. a = q * n + r /\ a = d * n + r
    BY <1>1, <1>3, <1>4 DEF a
<1>6. d = q
    BY <1>4, <1>5, OneWay
<1> QED
    BY <1>3, <1>6 DEF a, d

\* What the host recorded, as it describes it.
LEMMA SetLies ==
    ASSUME ConfigsAssumption, c \in Streams, NEW chans \in Nat, NEW n \in Nat, NEW first \in Nat \ {0}
    PROVE  Lies(HostSet(chans, n, first, TRUE).mem, c.hostFormat, HostL(c, chans, n), 0, n, first)
<1> DEFINE l == HostL(c, chans, n)
           wide == chans + c.wider
           m == HostSet(chans, n, first, TRUE).mem
<1>1. IsLayout(l) /\ l.chans = chans /\ l.size = n
    BY Layouts
<1>2. l.wide = wide /\ l.inter = c.hostInter /\ wide \in Nat
    BY <1>1 DEF HostL, IsLayout
<1>3. m = [a \in Area(l) |->
             LET x == IF l.inter THEN a % l.wide ELSE a \div n
                 k == IF l.inter THEN a \div l.wide ELSE a % n
             IN  IF x < chans THEN <<c.hostFormat, first + k, x>> ELSE Junk]
    BY DEF HostSet, HostArea, HostFormat, Area, HostL
<1> SUFFICES ASSUME NEW k \in 0 .. n - 1, NEW x \in Chans(chans)
             PROVE  m[Place(l, k, x)] = Sample(c.hostFormat, first + k, x)
    BY <1>1 DEF Lies
<1> HIDE DEF l, m
<1>4. Place(l, k, x) \in Area(l)
    BY <1>1, PlaceInside
<1>5. k \in Nat /\ x \in Nat /\ x < chans /\ x \in 0 .. l.wide - 1
    BY <1>1 DEF Chans, IsLayout
<1>6. first + k > 0
    BY <1>5
<1>7. CASE l.inter
  <2>1. Place(l, k, x) % l.wide = x /\ Place(l, k, x) \div l.wide = k
      BY <1>2, <1>5, <1>7, Quotient DEF Place
  <2> QED
      BY <1>3, <1>4, <1>5, <1>6, <1>7, <2>1 DEF Sample
<1>8. CASE ~l.inter
  <2>1. Place(l, k, x) % n = k /\ Place(l, k, x) \div n = x
      BY <1>1, <1>5, <1>8, Quotient DEF Place
  <2> QED
      BY <1>3, <1>4, <1>5, <1>6, <1>8, <2>1 DEF Sample
<1> QED
    BY <1>7, <1>8

LEMMA SetShape ==
    ASSUME ConfigsAssumption, c \in Streams, NEW chans \in Nat, NEW n \in Nat, NEW first, NEW filled
    PROVE  LET h == HostSet(chans, n, first, filled)
           IN  /\ DOMAIN h = {"count", "size", "mem", "ptr"} /\ h.count = n /\ h.size = n
               /\ h.ptr = Pointers(HostL(c, chans, n), 0) /\ DOMAIN h.mem = Area(HostL(c, chans, n))
<1>1. Ptrs(c.hostInter, chans, n, 0) = Pointers(HostL(c, chans, n), 0)
    BY HostPointing
<1>2. HostArea(chans, n) = Area(HostL(c, chans, n))
    BY DEF HostArea, Area, HostL
<1> QED
    BY <1>1, <1>2 DEF HostSet

LEMMA NoShape ==
    /\ DOMAIN NoData = {"count", "size", "mem", "ptr"} /\ NoData.count = 0 /\ NoData.size = 0
BY DEF NoData

LEMMA SetsCut ==
    ASSUME ConfigsAssumption, c \in Streams, NEW chans \in Nat \ {0}, NEW n \in Nat \ {0},
           NEW split \in 1 .. n, NEW filled
    PROVE  Cut(c, Sets(chans, n, split, filled), chans, 0, 0)
<1> DEFINE h == Sets(chans, n, split, filled)
<1>1. chans # 0 /\ split \in Nat /\ n - split \in Nat
    OBVIOUS
<1>2. h[1] = HostSet(chans, split, base + 1, filled)
    BY <1>1 DEF Sets
<1>3. h[2] = IF split = n THEN NoData ELSE HostSet(chans, n - split, base + split + 1, filled)
    BY <1>1 DEF Sets
<1> HIDE DEF h
<1>4. /\ {"count", "size", "mem", "ptr"} \subseteq DOMAIN h[1] /\ h[1].size = split /\ h[1].count = split
      /\ h[1].ptr = Pointers(HostL(c, chans, split), 0)
    BY <1>1, <1>2, SetShape
<1>5. /\ {"count", "size", "mem", "ptr"} \subseteq DOMAIN h[2]
      /\ h[2].size = n - split /\ h[2].count = n - split
      /\ h[2].size > 0 => h[2].ptr = Pointers(HostL(c, chans, h[2].size), 0)
  <2>1. CASE split = n
      BY <1>3, <2>1, NoShape
  <2>2. CASE split # n
      BY <1>1, <1>3, <2>2, SetShape
  <2> QED
      BY <2>1, <2>2
<1>6. Part(h, 1, 0) = 0 /\ Part(h, 2, 0) = 0
    BY <1>1, <1>4 DEF Part, Least
<1> QED
    BY <1>1, <1>4, <1>5, <1>6 DEF Cut, h

Recorded(s, h, at) ==
    \A w \in {1, 2} : h[w].size > 0 =>
        Lies(h[w].mem, s.hostFormat, HostL(s, s.cin, h[w].size), 0, h[w].size, at + First(h, w))

LEMMA SetsRecorded ==
    ASSUME ConfigsAssumption, c \in Streams, c.cin \in Nat \ {0}, base \in Nat,
           NEW n \in Nat \ {0}, NEW split \in 1 .. n
    PROVE  Recorded(c, Sets(c.cin, n, split, TRUE), base)
<1> DEFINE h == Sets(c.cin, n, split, TRUE)
<1>1. c.cin # 0 /\ c.cin \in Nat /\ split \in Nat /\ n - split \in Nat
    OBVIOUS
<1>2. h[1] = HostSet(c.cin, split, base + 1, TRUE)
    BY <1>1 DEF Sets
<1>3. h[2] = IF split = n THEN NoData ELSE HostSet(c.cin, n - split, base + split + 1, TRUE)
    BY <1>1 DEF Sets
<1> HIDE DEF h
<1>4. h[1].size = split
    BY <1>2 DEF HostSet
<1>5. First(h, 1) = 1 /\ First(h, 2) = split + 1
    BY <1>4 DEF First
<1>6. Lies(h[1].mem, c.hostFormat, HostL(c, c.cin, split), 0, split, base + 1)
  <2>1. base + 1 \in Nat \ {0}
      OBVIOUS
  <2> QED
      BY <1>1, <1>2, <2>1, SetLies
<1>7. h[2].size > 0 =>
        Lies(h[2].mem, c.hostFormat, HostL(c, c.cin, h[2].size), 0, h[2].size, base + split + 1)
  <2>1. CASE split = n
      BY <1>3, <2>1, NoShape
  <2>2. CASE split # n
    <3>1. h[2].size = n - split
        BY <1>3, <2>2 DEF HostSet
    <3>2. base + split + 1 \in Nat \ {0}
        BY <1>1
    <3>3. Lies(HostSet(c.cin, n - split, base + split + 1, TRUE).mem, c.hostFormat,
               HostL(c, c.cin, n - split), 0, n - split, base + split + 1)
        BY <1>1, <3>2, SetLies
    <3> QED
        BY <1>3, <2>2, <3>1, <3>3
  <2> QED
      BY <2>1, <2>2
<1>8. base + (split + 1) = base + split + 1
    BY <1>1
<1> QED
    BY <1>4, <1>5, <1>6, <1>7, <1>8 DEF Recorded, h

------------------------------------------------------------------------------
(* What the user is given.  While it goes on: the host's sets and tempInputBuffer hold the *)
(* frames that follow those it took.                                                        *)

Gone == IF pc \in {"copy", "fill"} THEN done ELSE done - go

InMemory == c.cin > 0 /\ ~noInput /\ result = "continue" /\ pc # "idle" =>
    /\ Cut(c, hin, c.cin, done, Gone)
    /\ pc \in {"block", "input"} => AtSet(hin, in, done, go)
    /\ Recorded(c, hin, base)

TempIn == ~NonAdapting(c) /\ c.cin > 0 =>
    /\ DOMAIN tin = Area(UserL(c, c.cin, c.user))
    /\ result = "continue" =>
          Lies(tin, c.format, UserL(c, c.cin, c.user), 0, inT, taken + 1 - InitialIn(c))

\* Without adapting all that there is to do is a number of the user's buffers.
Evenly ==
    /\ noInput => Duplex /\ NonAdapting(c)
    /\ pc = "block" => go > 0
    /\ pc \notin {"idle", "copy", "fill"} => go <= done
    /\ NonAdapting(c) /\ c.user > 0 /\ pc # "idle" =>
          /\ c.cin > 0 => \A w \in {1, 2} : hin[w].count \in {0, c.host}
          /\ c.cout > 0 => \A w \in {1, 2} : hout[w].count \in {0, c.host}
          /\ go % c.user = 0

Told(s, v) == s.cin > 0 /\ v # Nothing =>
    /\ s.user > 0 => DOMAIN v.frames = 1 .. s.user
    /\ \A k \in DOMAIN v.frames, x \in Chans(s.cin) :
          v.frames[k][x] = IF v.blank THEN Silence(s.format)
                           ELSE Sample(s.format, v.at + k - InitialIn(s), x)

InInv == InMemory /\ TempIn /\ Evenly /\ Told(c, seen)

LEMMA TempLies ==
    ASSUME ConfigsAssumption, NoPartial, c \in Streams, ~NonAdapting(c), NEW chans \in Nat,
           NEW from \in Nat, NEW to \in Int, to <= c.user, NEW first \in Int, first + to <= 1
    PROVE  /\ DOMAIN TempBuffer(c, chans) = Area(UserL(c, chans, c.user))
           /\ Lies(TempBuffer(c, chans), c.format, UserL(c, chans, c.user), from, to, first)
<1> DEFINE l == UserL(c, chans, c.user)
<1>1. c.user \in Nat \ {0} /\ TempFrames(c) = c.user
    BY StreamFacts DEF TempFrames
<1>2. IsLayout(l) /\ l.chans = chans /\ l.size = c.user
    BY <1>1, Layouts
<1>3. Area(l) = 0 .. TempFrames(c) * chans - 1
    BY <1>1 DEF Area, UserL
<1> HIDE DEF l
<1>4. TempBuffer(c, chans) = [a \in Area(l) |-> Silence(c.format)]
    BY <1>3 DEF TempBuffer
<1>5. ASSUME NEW k \in from .. to - 1, NEW x \in Chans(chans)
      PROVE  TempBuffer(c, chans)[Place(l, k, x)] = Sample(c.format, first + k, x)
  <2>1. k \in 0 .. l.size - 1 /\ first + k <= 0
      BY <1>1, <1>2
  <2>2. Place(l, k, x) \in Area(l)
      BY <1>2, <2>1, PlaceInside
  <2> QED
      BY <1>4, <2>1, <2>2 DEF Sample
<1> QED
    BY <1>2, <1>4, <1>5 DEF Lies, l

LEMMA InitIn == ASSUME ConfigsAssumption, NoPartial, c \in Streams, Init PROVE InInv
<1>1. /\ pc = "idle" /\ seen = Nothing /\ noInput = FALSE /\ taken = 0
      /\ tin = TempBuffer(c, c.cin) /\ inT = InitialIn(c)
    BY DEF Init
<1>2. TempIn
  <2> SUFFICES ASSUME ~NonAdapting(c), c.cin > 0 PROVE TempIn
      BY DEF TempIn
  <2>1. inT \in Nat /\ inT <= c.user /\ c.cin \in Nat
      BY <1>1, StreamFacts, Initials
  <2>2. 0 \in Nat /\ inT \in Int /\ 1 - inT \in Int /\ (1 - inT) + inT <= 1
      BY <2>1
  <2>3. /\ DOMAIN tin = Area(UserL(c, c.cin, c.user))
        /\ Lies(tin, c.format, UserL(c, c.cin, c.user), 0, inT, 1 - inT)
      BY <1>1, <2>1, <2>2, TempLies
  <2>4. taken + 1 - InitialIn(c) = 1 - inT
      BY <1>1, <2>1
  <2> QED
      BY <2>3, <2>4 DEF TempIn
<1> QED
    BY <1>1, <1>2 DEF InInv, InMemory, Evenly, Told

LEMMA BeginIn ==
    ASSUME ConfigsAssumption, NoPartial, c \in Streams, Counted, InInv, Begin PROVE InInv'
<1>0. PICK n \in HostFrames : \E i, o \in 1 .. n, none \in BOOLEAN :
          /\ c.mode = "fixed" => i = n /\ o = n
          /\ none => Duplex /\ NonAdapting(c) /\ i = n
          /\ hin' = Sets(c.cin, n, i, TRUE) /\ hout' = Sets(c.cout, n, o, FALSE)
          /\ noInput' = none
          /\ go' = IF ~NonAdapting(c) /\ Duplex THEN n ELSE 0
    BY DEF Begin
<1>1. PICK i \in 1 .. n, o \in 1 .. n, none \in BOOLEAN :
          /\ c.mode = "fixed" => i = n /\ o = n
          /\ none => Duplex /\ NonAdapting(c) /\ i = n
          /\ hin' = Sets(c.cin, n, i, TRUE) /\ hout' = Sets(c.cout, n, o, FALSE)
          /\ noInput' = none
          /\ go' = IF ~NonAdapting(c) /\ Duplex THEN n ELSE 0
    BY <1>0
<1>2. /\ pc' = (IF ~NonAdapting(c) /\ Duplex THEN "copy" ELSE "splice")
      /\ done' = 0 /\ seen' = Nothing
      /\ UNCHANGED <<c, tin, inT, result, taken, base>>
    BY DEF Begin, temps
<1>3. n \in Nat \ {0} /\ (c.mode = "fixed" => n = c.host)
    BY StreamFacts, ConfigsAssumption DEF HostFrames, ConfigsAssumption
<1>4. c.cin \in Nat /\ c.cout \in Nat /\ base \in Nat
    BY StreamFacts DEF Counted, Types
<1>5. InMemory'
  <2> SUFFICES ASSUME c.cin > 0 PROVE InMemory'
      BY <1>2 DEF InMemory
  <2>1. c.cin \in Nat \ {0}
      BY <1>4
  <2>2. Cut(c, hin', c.cin, 0, 0) /\ Recorded(c, hin', base)
      BY <1>1, <1>3, <1>4, <2>1, SetsCut, SetsRecorded
  <2>3. done' = 0 /\ Gone' = 0 /\ pc' \in {"copy", "splice"}
      BY <1>1, <1>2 DEF Gone
  <2> QED
      BY <1>2, <2>2, <2>3 DEF InMemory
<1>6. TempIn'
    BY <1>2 DEF InInv, TempIn
<1>7. Evenly'
  <2>1. noInput' => Duplex' /\ NonAdapting(c')
      BY <1>1, <1>2, SameStream
  <2>2. pc' # "block" /\ (pc' \notin {"idle", "copy", "fill"} => go' <= done')
      BY <1>1, <1>2
  <2>3. ASSUME NonAdapting(c), c.user > 0
        PROVE  /\ c.cin > 0 => \A w \in {1, 2} : hin'[w].count \in {0, c.host}
               /\ c.cout > 0 => \A w \in {1, 2} : hout'[w].count \in {0, c.host}
               /\ go' % c.user = 0
    <3>1. c.mode = "fixed" /\ c.user \in Nat \ {0}
        BY <2>3, StreamFacts DEF NonAdapting
    <3>2. i = n /\ o = n /\ n = c.host /\ go' = 0
        BY <1>1, <1>3, <2>3, <3>1
    <3>4. \A h : h[1].count = n /\ h[2].count = 0 => \A w \in {1, 2} : h[w].count \in {0, c.host}
        BY <3>2
    <3>5. c.cin > 0 => \A w \in {1, 2} : hin'[w].count \in {0, c.host}
      <4>1. c.cin > 0 => hin'[1].count = n /\ hin'[2].count = 0
          BY <1>1, <1>4, <3>2 DEF Sets, HostSet, NoData
      <4> QED
          BY <3>4, <4>1
    <3>6. c.cout > 0 => \A w \in {1, 2} : hout'[w].count \in {0, c.host}
      <4>1. c.cout > 0 => hout'[1].count = n /\ hout'[2].count = 0
          BY <1>1, <1>4, <3>2 DEF Sets, HostSet, NoData
      <4> QED
          BY <3>4, <4>1
    <3>7. 0 % c.user = 0
        BY <3>1
    <3> QED
        BY <3>2, <3>5, <3>6, <3>7
  <2> QED
      BY <1>2, <2>1, <2>2, <2>3, SameStream DEF Evenly
<1>8. Told(c, seen)'
    BY <1>2 DEF Told
<1> QED
    BY <1>5, <1>6, <1>7, <1>8 DEF InInv

LEMMA SpliceIn ==
    ASSUME ConfigsAssumption, NoPartial, c \in Streams, Counted, InInv, Splice PROVE InInv'
<1> DEFINE i == Set(hin)
           o == Set(hout)
           hasIn == c.cin > 0 /\ ~noInput
           n == IF ~hasIn THEN hout[o].count
                ELSE IF c.cout = 0 THEN hin[i].count
                ELSE Least(hin[i].count, hout[o].count)
<1>1. /\ pc = "splice" /\ in' = i /\ go' = n /\ done' = done + n
      /\ hin' = IF hasIn THEN [hin EXCEPT ![i].count = @ - n] ELSE hin
      /\ hout' = IF c.cout > 0 THEN [hout EXCEPT ![o].count = @ - n] ELSE hout
      /\ n = 0 => pc' = "idle"
      /\ n # 0 => /\ pc' = IF NonAdapting(c) THEN IF result = "continue" THEN "block" ELSE "rest"
                           ELSE IF c.cin > 0 THEN "input" ELSE "output"
                  /\ base' = base
    BY DEF Splice, Ends
<1>2. UNCHANGED <<c, tin, inT, noInput, result, seen, taken>>
    BY DEF Splice, temps
<1>3. Counts(hin) /\ Counts(hout) /\ i \in {1, 2} /\ o \in {1, 2}
    BY DEF Counted, Types, Set
<1>4. hin[i].count \in Nat /\ hout[o].count \in Nat
    BY <1>3 DEF Counts
<1>5. /\ n \in Nat /\ (hasIn => n <= hin[i].count) /\ (c.cout > 0 => n <= hout[o].count)
      /\ n \in {hin[i].count, hout[o].count}
    BY <1>4, StreamFacts DEF Least
<1>6. done \in Nat /\ go = 0 /\ c.cin \in Nat /\ c.cout \in Nat
    BY <1>1, StreamFacts DEF Counted, Types, Places
<1>w. /\ ~hasIn /\ ~(c.cout > 0) => FALSE
      /\ ~hasIn => n = hout[o].count
      /\ c.cout = 0 => n = hin[i].count
  <2>1. ~hasIn => c.cout > 0
      BY <1>6, StreamFacts DEF InInv, Evenly, Duplex
  <2> QED
      BY <1>6, <2>1
<1> HIDE DEF n, i, o
<1>7. InMemory'
  <2> SUFFICES ASSUME hasIn, result = "continue", n # 0 PROVE InMemory'
      BY <1>1, <1>2 DEF InMemory
  <2>1. Cut(c, hin, c.cin, done, done) /\ Recorded(c, hin, base)
    <3>1. Gone = done
        BY <1>1, <1>6 DEF Gone
    <3> QED
        BY <1>1, <3>1 DEF InInv, InMemory
  <2>2. Room(hin, i, done, n)
      BY <1>3, <1>5, <1>6, <2>1, FirstLeft DEF i
  <2>3. /\ {"count", "size", "mem", "ptr"} \subseteq DOMAIN hin'[i]
        /\ hin'[i].size = hin[i].size /\ hin'[i].count = hin[i].count - n /\ hin'[i].ptr = hin[i].ptr
        /\ hin'[i].mem = hin[i].mem
        /\ \A v \in {1, 2} : v # i => hin'[v] = hin[v]
    <3>1. hin' = [hin EXCEPT ![i].count = hin[i].count - n]
        BY <1>1
    <3>2. {"count", "size", "mem", "ptr"} \subseteq DOMAIN hin[i] /\ DOMAIN hin = {1, 2}
        BY <1>3, <2>1 DEF Cut, Counts
    <3> QED
        BY <1>3, <3>1, <3>2
  <2>4. Cut(c, hin', c.cin, done + n, done)
      BY <1>3, <1>5, <1>6, <2>1, <2>2, <2>3, SetCounted
  <2>5. Gone' = done /\ pc' \notin {"copy", "fill"}
    <3>1. pc' \notin {"copy", "fill"}
        BY <1>1
    <3> QED
        BY <1>1, <1>5, <1>6, <3>1 DEF Gone
  <2>6. \A v \in {1, 2} : hin'[v].size = hin[v].size /\ hin'[v].mem = hin[v].mem
      BY <2>3
  <2>7. Recorded(c, hin', base)
      BY <2>1, <2>6 DEF Recorded, First
  <2>8. AtSet(hin', i, done + n, n)
      BY <1>3, <1>5, <1>6, <2>2, <2>6 DEF AtSet, Room
  <2> QED
      BY <1>1, <1>2, <2>4, <2>5, <2>7, <2>8 DEF InMemory
<1>8. TempIn'
    BY <1>2 DEF InInv, TempIn
<1>9. Evenly'
  <2>1. noInput' => Duplex' /\ NonAdapting(c')
      BY <1>2, SameStream DEF InInv, Evenly
  <2>2. (pc' = "block" => go' > 0) /\ go' <= done'
      BY <1>1, <1>5, <1>6
  <2>3. ASSUME NonAdapting(c), c.user > 0
        PROVE  /\ c.cin > 0 => \A w \in {1, 2} : hin'[w].count \in {0, c.host}
               /\ c.cout > 0 => \A w \in {1, 2} : hout'[w].count \in {0, c.host}
               /\ go' % c.user = 0
    <3>1. /\ c.cin > 0 => \A w \in {1, 2} : hin[w].count \in {0, c.host}
          /\ c.cout > 0 => \A w \in {1, 2} : hout[w].count \in {0, c.host}
        BY <1>1, <2>3 DEF InInv, Evenly
    <3>2. c.user \in Nat \ {0} /\ c.host \in Nat \ {0} /\ c.host % c.user = 0 /\ 0 % c.user = 0
        BY <2>3, StreamFacts DEF NonAdapting
    <3>3. n \in {0, c.host}
        BY <1>3, <1>4, <1>5, <1>6, <1>w, <3>1, <3>2
    <3>4. \A w \in {1, 2} : hasIn => hin'[w].count = IF w = i THEN hin[i].count - n ELSE hin[w].count
        BY <1>1, <1>3 DEF Counts
    <3>5. \A w \in {1, 2} : c.cout > 0 => hout'[w].count = IF w = o THEN hout[o].count - n ELSE hout[w].count
        BY <1>1, <1>3 DEF Counts
    <3>6. c.cin > 0 => \A w \in {1, 2} : hin'[w].count \in {0, c.host}
      <4>1. CASE ~hasIn
          BY <1>1, <3>1, <4>1
      <4>2. CASE hasIn
        <5>1. hin[i].count - n \in {0, c.host}
            BY <1>3, <1>4, <1>5, <3>1, <3>2, <3>3, <4>2
        <5> QED
            BY <3>1, <3>4, <4>2, <5>1
      <4> QED
          BY <4>1, <4>2
    <3>7. c.cout > 0 => \A w \in {1, 2} : hout'[w].count \in {0, c.host}
      <4> SUFFICES ASSUME c.cout > 0 PROVE \A w \in {1, 2} : hout'[w].count \in {0, c.host}
          OBVIOUS
      <4>1. hout[o].count - n \in {0, c.host}
          BY <1>3, <1>4, <1>5, <3>1, <3>2, <3>3
      <4> QED
          BY <3>1, <3>5, <4>1
    <3> QED
        BY <1>1, <3>2, <3>3, <3>6, <3>7
  <2> QED
      BY <1>2, <2>1, <2>2, <2>3, SameStream DEF Evenly
<1>10. Told(c, seen)'
    BY <1>2 DEF InInv, Told
<1> QED
    BY <1>7, <1>8, <1>9, <1>10 DEF InInv

\* The n frames that follow m are those that the pointers of set w are at.
Follow(s, h, w, m, n, at) ==
    /\ h[w].ptr = Pointers(HostL(s, s.cin, h[w].size), Part(h, w, m))
    /\ Lies(h[w].mem, s.hostFormat, HostL(s, s.cin, h[w].size), Part(h, w, m),
            Part(h, w, m) + n, at + First(h, w))

LEMMA HostLies ==
    ASSUME NEW h, NEW d, NEW m, NEW at, NEW w, NEW n, ConfigsAssumption, c \in Streams,
           d \in Nat, m \in Nat, at \in Nat, w \in {1, 2}, n \in Nat, n # 0,
           Cut(c, h, c.cin, d, m), Recorded(c, h, at), Room(h, w, m, n)
    PROVE  Follow(c, h, w, m, n, at)
<1> DEFINE l == HostL(c, c.cin, h[w].size)
           a == Part(h, w, m)
<1>1. h[1].size \in Nat /\ h[2].size \in Nat /\ h[w].size \in Nat
    BY DEF Cut
<1>2. a \in Nat /\ a + n <= h[w].size
    BY <1>1, PartRoom
<1>3. h[w].size > 0
    BY <1>1, <1>2
<1>4. h[w].ptr = Pointers(l, a) /\ Lies(h[w].mem, c.hostFormat, l, 0, h[w].size, at + First(h, w))
    BY <1>3 DEF Cut, Recorded
<1> HIDE DEF l, a
<1>5. 0 \in Int /\ h[w].size \in Int /\ a \in Int /\ a + n \in Int /\ 0 <= a /\ a + n <= h[w].size
    BY <1>1, <1>2
<1>6. Lies(h[w].mem, c.hostFormat, l, a, a + n, at + First(h, w))
    BY <1>4, <1>5, Within
<1> QED
    BY <1>4, <1>6 DEF l, a, Follow

\* What the user is given of n frames at a time, without adapting.
LEMMA BlockTold ==
    ASSUME ConfigsAssumption, NoPartial, c \in Streams, Counted, InInv, NEW r, NonAdaptingBlock(r)
    PROVE  Told(c, seen')
<1> SUFFICES ASSUME c.cin > 0 PROVE Told(c, seen')
    BY DEF Told
<1>3. go \in Nat \ {0} /\ done \in Nat /\ base \in Nat /\ taken \in Nat /\ go <= done
    BY DEF NonAdaptingBlock, InInv, Evenly, Counted, Types
<1>4. TempFrames(c) \in Nat \ {0} /\ (c.user > 0 => TempFrames(c) = c.user)
    BY StreamFacts DEF TempFrames, ConfigsAssumption
<1>n. PICK n \in Nat : n = Least(TempFrames(c), go)
    BY <1>3, <1>4 DEF Least
<1>5. n # 0 /\ n <= go
    BY <1>3, <1>4, <1>n DEF Least
<1> DEFINE u == UserInput(n)
           l == UserL(c, c.cin, n)
<1>1. /\ pc = "block" /\ result = "continue"
      /\ seen'.frames = Frames(u.mem, u.ptr, u.stride, n) /\ seen'.at = taken /\ seen'.blank = noInput
    BY <1>n DEF NonAdaptingBlock, Callback
<1>2. NonAdapting(c) /\ inT = 0 /\ InitialIn(c) = 0 /\ c.cin \in Nat
    BY <1>1, StreamFacts, Initials DEF Counted, Places, Phases
<1>6. c.user > 0 => n = c.user
  <2> SUFFICES ASSUME c.user > 0 PROVE c.user <= go
      BY <1>3, <1>4, <1>n DEF Least
  <2>1. c.user \in Nat \ {0} /\ go % c.user = 0
      BY <1>1, <1>2, StreamFacts DEF InInv, Evenly
  <2>2. PICK k \in Nat : go = c.user * k
      BY <1>3, <2>1, Divides
  <2>3. k >= 1
      BY <1>3, <2>1, <2>2
  <2> QED
      BY <2>1, <2>2, <2>3
<1>7. taken = base + (done - go)
    BY <1>1, <1>2, <1>3 DEF Counted, Accounts, Took
<1>8. DOMAIN seen'.frames = 1 .. n
    BY <1>1 DEF Frames
<1>9. IsLayout(l) /\ l.chans = c.cin /\ l.size = n
    BY <1>2, <1>5, Layouts
<1>10. UserPtrs(c.cin, n, 0) = Pointers(l, 0) /\ UserStride(c.cin) = Step(l)
    BY Pointing
<1> HIDE DEF l
<1>11. CASE noInput
  <2>1. u = [mem |-> Zeroed(c.format, tin, Pointers(l, 0), Step(l), n), ptr |-> Pointers(l, 0),
             stride |-> Step(l)]
      BY <1>10, <1>11 DEF UserInput, UserFormat
  <2> HIDE DEF u
  <2>2. seen'.frames = Frames(Zeroed(c.format, tin, Pointers(l, 0), Step(l), n),
                              Pointers(l, 0), Step(l), n)
      BY <1>1, <2>1
  <2>3. ASSUME NEW k \in 1 .. n, NEW x \in Chans(c.cin)
        PROVE  seen'.frames[k][x] = Silence(c.format)
    <3>1. n \in Nat /\ n <= l.size /\ x \in Chans(l.chans)
        BY <1>5, <1>9
    <3>2. Frames(Zeroed(c.format, tin, Pointers(l, 0), Step(l), n), Pointers(l, 0), Step(l), n)[k][x]
             = Silence(c.format)
        BY <1>9, <3>1, ReadZeros
    <3> QED
        BY <2>2, <3>2
  <2> QED
      BY <1>1, <1>6, <1>8, <1>11, <2>3 DEF Told
<1>12. CASE ~noInput
  <2> DEFINE h == hin[in]
             g == HostL(c, c.cin, h.size)
             a == Part(hin, in, done - go)
             first == base + First(hin, in)
  <2>1. Cut(c, hin, c.cin, done, done - go) /\ AtSet(hin, in, done, go) /\ Recorded(c, hin, base)
    <3>1. Gone = done - go
        BY <1>1 DEF Gone
    <3> QED
        BY <1>1, <1>12, <3>1 DEF InInv, InMemory
  <2>2. done - go \in Nat /\ Counts(hin)
      BY <1>3 DEF Counted, Types
  <2>3. in \in {1, 2} /\ Room(hin, in, done - go, n)
      BY <1>3, <1>5, <2>1, <2>2, AtRoom
  <2>4. /\ IsLayout(g) /\ g.chans = c.cin /\ a \in Nat /\ h.ptr = Pointers(g, a)
        /\ HostStride(c.cin) = Step(g) /\ First(hin, in) \in Nat
        /\ Lies(h.mem, c.hostFormat, g, a, a + n, first)
        /\ first + a = base + (done - go) + 1
    <3>0. PICK m \in Nat : m = done - go
        BY <2>2
    <3>1. Cut(c, hin, c.cin, done, m) /\ Room(hin, in, m, n)
        BY <2>1, <2>3, <3>0
    <3>2. /\ IsLayout(HostL(c, c.cin, hin[in].size)) /\ HostL(c, c.cin, hin[in].size).chans = c.cin
          /\ Part(hin, in, m) \in Nat /\ First(hin, in) \in Nat
          /\ HostStride(c.cin) = Step(HostL(c, c.cin, hin[in].size))
      <4>1. hin[in].size \in Nat /\ hin[1].size \in Nat /\ hin[2].size \in Nat
          BY <2>3, <3>1 DEF Cut
      <4>2. c.cin \in Nat
          BY StreamFacts
      <4>3. Part(hin, in, m) \in Nat
          BY <1>n, <2>3, <3>0, <3>1, <4>1, PartRoom
      <4>4. First(hin, in) \in Nat
          BY <4>1 DEF First
      <4> QED
          BY <4>1, <4>2, <4>3, <4>4, Layouts, Pointing
    <3>3. Follow(c, hin, in, m, n, base)
        BY <1>n, <1>3, <1>5, <2>1, <2>3, <3>0, <3>1, HostLies
    <3>4. (base + First(hin, in)) + Part(hin, in, m) = base + m + 1
      <4>1. hin[1].size \in Nat /\ hin[2].size \in Nat
          BY <2>3, <3>1 DEF Cut
      <4>2. First(hin, in) + Part(hin, in, m) = m + 1
          BY <1>n, <2>3, <3>0, <3>1, <4>1, PartRoom
      <4> QED
          BY <1>3, <3>0, <3>2, <4>2
    <3> QED
        BY <3>0, <3>2, <3>3, <3>4 DEF Follow
  <2> HIDE DEF g, a, h
  <2>5. Shown(seen'.frames, c.format, c.cin, n, taken + 1)
    <3>1. CASE Direct(c.cin)
      <4>1. c.hostFormat = c.format
          BY <3>1 DEF Direct, UserFormat, HostFormat
      <4>2. u = [mem |-> h.mem, ptr |-> h.ptr, stride |-> HostStride(c.cin)]
          BY <1>12, <3>1 DEF UserInput, h
      <4> HIDE DEF u
      <4>3. seen'.frames = Frames(h.mem, Pointers(g, a), Step(g), n)
          BY <1>1, <2>4, <4>2
      <4>4. first \in Int
          BY <1>3, <2>4
      <4> HIDE DEF first
      <4>5. Shown(Frames(h.mem, Pointers(g, a), Step(g), n), c.format, g.chans, n, first + a)
          BY <1>5, <2>4, <4>1, <4>4, Read
      <4> QED
          BY <1>7, <2>4, <4>3, <4>5
    <3>2. CASE ~Direct(c.cin)
      <4> DEFINE m == Converted(c.format, tin, Pointers(l, 0), Step(l), h.mem, Pointers(g, a), Step(g), n)
      <4>1. u = [mem |-> m, ptr |-> Pointers(l, 0), stride |-> Step(l)]
          BY <1>10, <1>12, <2>4, <3>2 DEF UserInput, UserFormat, h
      <4>2. first \in Int /\ 0 \in Nat /\ 0 + n <= l.size /\ first + a - 0 \in Int
          BY <1>3, <1>5, <1>9, <2>4
      <4> HIDE DEF u, first
      <4>3. Lies(m, c.format, l, 0, 0 + n, first + a - 0)
          BY <1>5, <1>9, <2>4, <4>2, Moved
      <4> HIDE DEF m
      <4>4. seen'.frames = Frames(m, Pointers(l, 0), Step(l), n)
          BY <1>1, <4>1
      <4>5. Shown(Frames(m, Pointers(l, 0), Step(l), n), c.format, l.chans, n, (first + a - 0) + 0)
          BY <1>5, <1>9, <4>2, <4>3, Read
      <4>6. (first + a - 0) + 0 = taken + 1
          BY <1>7, <2>4, <4>2
      <4> QED
          BY <1>9, <4>4, <4>5, <4>6
    <3> QED
        BY <3>1, <3>2
  <2>6. ASSUME NEW k \in 1 .. n, NEW x \in Chans(c.cin)
        PROVE  seen'.frames[k][x] = Sample(c.format, taken + k - 0, x)
    <3>1. seen'.frames[k][x] = Sample(c.format, taken + 1 + k - 1, x)
        BY <2>5 DEF Shown
    <3>2. taken + 1 + k - 1 = taken + k - 0
        BY <1>3
    <3> QED
        BY <3>1, <3>2
  <2> QED
      BY <1>1, <1>2, <1>6, <1>8, <1>12, <2>6 DEF Told
<1> QED
    BY <1>11, <1>12

\* The sets of a stream whose input moves on by n frames: hin and hin' differ in a pointer.
LEMMA MovesOn ==
    ASSUME NEW h, NEW k, NEW d, NEW m, NEW w, NEW n, NEW ptr, ConfigsAssumption, c \in Streams, c.cin \in Nat,
           d \in Nat, m \in Nat, w \in {1, 2}, n \in Nat, Counts(h),
           Cut(c, h, c.cin, d, m), Recorded(c, h, base), Room(h, w, m, n),
           k = [h EXCEPT ![w].ptr = ptr], ptr = Advanced(h[w].ptr, n, HostStride(c.cin))
    PROVE  Cut(c, k, c.cin, d, m + n) /\ Recorded(c, k, base)
<1>1. DOMAIN h = {1, 2} /\ {"count", "size", "mem", "ptr"} \subseteq DOMAIN h[w]
    BY DEF Counts, Cut
<1>2. /\ {"count", "size", "mem", "ptr"} \subseteq DOMAIN k[w]
      /\ k[w].size = h[w].size /\ k[w].count = h[w].count /\ k[w].mem = h[w].mem
      /\ k[w].ptr = Advanced(h[w].ptr, n, HostStride(c.cin))
      /\ \A v \in {1, 2} : v # w => k[v] = h[v]
    BY <1>1
<1>3. Cut(c, k, c.cin, d, m + n)
    BY <1>2, SetMoves
<1>4. \A v \in {1, 2} : k[v].size = h[v].size /\ k[v].mem = h[v].mem
    BY <1>2
<1> QED
    BY <1>3, <1>4 DEF Recorded, First

LEMMA CountStays ==
    ASSUME NEW h, NEW k, NEW v, Counts(h), k = h \/ \E mem, ptr : k = [h EXCEPT ![v].mem = mem, ![v].ptr = ptr]
    PROVE  \A w \in {1, 2} : k[w].count = h[w].count
<1>1. CASE k = h
    BY <1>1
<1>2. ASSUME NEW mem, NEW ptr, k = [h EXCEPT ![v].mem = mem, ![v].ptr = ptr], NEW w \in {1, 2}
      PROVE  k[w].count = h[w].count
  <2>1. w \in DOMAIN h
      BY DEF Counts
  <2>2. k[w] = IF w = v THEN [h[v] EXCEPT !.mem = mem, !.ptr = ptr] ELSE h[w]
      BY <1>2, <2>1
  <2>3. "count" \in DOMAIN h[w] /\ "count" # "mem" /\ "count" # "ptr"
      BY DEF Counts
  <2>4. [h[v] EXCEPT !.mem = mem, !.ptr = ptr].count = h[v].count
      OBVIOUS
  <2> QED
      BY <2>2, <2>4
<1> QED
    BY <1>1, <1>2

LEMMA BlockIn ==
    ASSUME ConfigsAssumption, NoPartial, c \in Streams, Counted, InInv, NEW r, NonAdaptingBlock(r)
    PROVE  InInv'
<1>1. go \in Nat \ {0} /\ done \in Nat /\ base \in Nat /\ taken \in Nat /\ go <= done
    BY DEF NonAdaptingBlock, InInv, Evenly, Counted, Types
<1>2. TempFrames(c) \in Nat \ {0} /\ (c.user > 0 => TempFrames(c) = c.user)
    BY StreamFacts DEF TempFrames, ConfigsAssumption
<1>3. PICK n \in Nat : n = Least(TempFrames(c), go)
    BY <1>1, <1>2 DEF Least
<1>4. n # 0 /\ n <= go
    BY <1>1, <1>2, <1>3 DEF Least
<1>5. /\ pc = "block" /\ result = "continue" /\ result' = r
      /\ c.cin > 0 /\ ~noInput =>
            hin' = [hin EXCEPT ![in].ptr = Advanced(hin[in].ptr, n, HostStride(c.cin))]
      /\ c.cin = 0 \/ noInput => hin' = hin
      /\ IF r = "abort" THEN go' = go ELSE go' = go - n
      /\ pc' = IF go' = 0 THEN "splice" ELSE IF r = "continue" THEN "block" ELSE "rest"
      /\ UNCHANGED <<c, inT, noInput, in, done, base>>
    BY <1>3 DEF NonAdaptingBlock, Callback
<1>6. NonAdapting(c) /\ c.cin \in Nat
    BY <1>5, StreamFacts DEF Counted, Places, Phases
<1>7. InMemory'
  <2> SUFFICES ASSUME c.cin > 0, ~noInput, r = "continue" PROVE InMemory'
      BY <1>5 DEF InMemory
  <2>1. Cut(c, hin, c.cin, done, done - go) /\ AtSet(hin, in, done, go) /\ Recorded(c, hin, base)
    <3>1. Gone = done - go
        BY <1>5 DEF Gone
    <3> QED
        BY <1>5, <3>1 DEF InInv, InMemory
  <2>2. PICK m \in Nat : m = done - go
      BY <1>1
  <2>3. Counts(hin)
      BY DEF Counted, Types
  <2>4. in \in {1, 2} /\ Room(hin, in, m, n)
      BY <1>1, <1>3, <1>4, <2>1, <2>2, <2>3, AtRoom
  <2>5. Cut(c, hin', c.cin, done, m + n) /\ Recorded(c, hin', base)
      BY <1>1, <1>3, <1>5, <1>6, <2>1, <2>2, <2>3, <2>4, MovesOn
  <2>6. Gone' = m + n
    <3>1. pc' \notin {"copy", "fill"} /\ done' = done /\ go' = go - n
        BY <1>5
    <3>2. done - (go - n) = m + n
        BY <1>1, <1>3, <2>2
    <3> QED
        BY <3>1, <3>2 DEF Gone
  <2>7. AtSet(hin', in, done, go')
    <3>1. go' = go - n /\ hin'[1].size = hin[1].size /\ hin[1].size \in Nat
        BY <1>5, <2>1, <2>3, <2>4 DEF Cut, Counts
    <3> QED
        BY <1>1, <1>3, <1>4, <2>1, <3>1 DEF AtSet
  <2> QED
      BY <1>5, <2>5, <2>6, <2>7 DEF InMemory
<1>8. TempIn'
    BY <1>5, <1>6, SameStream DEF TempIn
<1>9. Evenly'
  <2>1. \A w \in {1, 2} : hin'[w].count = hin[w].count
    <3>1. Counts(hin)
        BY DEF Counted, Types
    <3> QED
        BY <1>5, <1>6, <3>1 DEF Counts
  <2>2. \A w \in {1, 2} : hout'[w].count = hout[w].count
    <3>1. \/ hout' = hout
          \/ \E mem, ptr : hout' = [hout EXCEPT ![out].mem = mem, ![out].ptr = ptr]
        BY DEF NonAdaptingBlock, Delivers
    <3>2. Counts(hout)
        BY DEF Counted, Types
    <3> QED
        BY <3>1, <3>2, CountStays
  <2>3. go' \in Nat /\ go' <= done
      BY <1>1, <1>3, <1>4, <1>5
  <2>4. c.user > 0 => go' % c.user = 0
    <3> SUFFICES ASSUME c.user > 0 PROVE go' % c.user = 0
        OBVIOUS
    <3>1. c.user \in Nat \ {0} /\ go % c.user = 0
        BY <1>5, <1>6, StreamFacts DEF InInv, Evenly
    <3>2. PICK k \in Nat : go = c.user * k
        BY <1>1, <3>1, Divides
    <3>3. k >= 1
        BY <1>1, <3>1, <3>2
    <3>4. c.user <= go
        BY <3>1, <3>2, <3>3
    <3>5. n = c.user
        BY <1>1, <1>2, <1>3, <3>4 DEF Least
    <3>6. go - n = c.user * (k - 1) + 0
      <4>1. c.user * (k - 1) = c.user * k - c.user /\ c.user * k \in Nat
          BY <3>1, <3>2
      <4> QED
          BY <3>1, <3>2, <3>5, <4>1
    <3>7. (c.user * (k - 1) + 0) % c.user = 0
        BY <3>1, <3>3, Remainder
    <3> QED
        BY <1>5, <3>1, <3>6, <3>7
  <2>5. pc' = "block" => go' > 0
      BY <1>5, <2>3
  <2> QED
      BY <1>5, <1>6, <2>1, <2>2, <2>3, <2>4, <2>5, SameStream DEF InInv, Evenly
<1>10. Told(c, seen)'
    BY <1>5, BlockTold
<1> QED
    BY <1>7, <1>8, <1>9, <1>10 DEF InInv

LEMMA RestIn ==
    ASSUME ConfigsAssumption, NoPartial, c \in Streams, Counted, InInv, ZeroRest PROVE InInv'
<1>1. /\ pc = "rest" /\ pc' = "splice" /\ go' = 0
      /\ UNCHANGED <<c, tin, inT, hin, noInput, result, done, seen, taken, base>>
    BY DEF ZeroRest, temps, history
<1>2. result # "continue" /\ NonAdapting(c) /\ done \in Nat
    BY <1>1 DEF Counted, Types, Places, Phases
<1>3. \A w \in {1, 2} : hout'[w].count = hout[w].count
  <2>1. hout' = hout \/ \E mem, ptr : hout' = [hout EXCEPT ![out].mem = mem, ![out].ptr = ptr]
      BY DEF ZeroRest
  <2>2. Counts(hout)
      BY DEF Counted, Types
  <2> QED
      BY <2>1, <2>2, CountStays
<1>4. Evenly'
  <2>1. c.user > 0 => 0 % c.user = 0
      BY StreamFacts
  <2> QED
      BY <1>1, <1>2, <1>3, <2>1, SameStream DEF InInv, Evenly
<1> QED
    BY <1>1, <1>2, <1>4, SameStream DEF InInv, InMemory, TempIn, Told

\* The user's buffer for input after a converter wrote n frames to it.
LEMMA GathersInside ==
    ASSUME NEW h, NEW n, ConfigsAssumption, NoPartial, c \in Streams, inT \in Nat, n \in Nat, inT + n <= c.user,
           DOMAIN tin = Area(UserL(c, c.cin, c.user))
    PROVE  DOMAIN Gathers(h, n) = Area(UserL(c, c.cin, c.user))
<1> DEFINE l == UserL(c, c.cin, c.user)
           m == Gathers(h, n)
<1>1. IsLayout(l) /\ l.size = c.user
    BY StreamFacts, Layouts
<1>2. m = Converted(c.format, tin, Pointers(l, inT), Step(l), h.mem, h.ptr, HostStride(c.cin), n)
    BY Pointing DEF Gathers, UserFormat
<1> HIDE DEF l, m
<1>3. Wrote(m, tin, l, inT, n)
    BY <1>1, <1>2, WroteConverted
<1>4. Grid(l, inT, n) \subseteq Area(l)
    BY <1>1, GridInside
<1> QED
    BY <1>3, <1>4 DEF Wrote, l, m

LEMMA Gathered ==
    ASSUME NEW d, NEW m, NEW w, NEW n, ConfigsAssumption, NoPartial, c \in Streams, c.cin > 0,
           d \in Nat, m \in Nat, base \in Nat, w \in {1, 2}, n \in Nat, n # 0, inT \in Nat, taken \in Nat,
           inT + n <= c.user, Cut(c, hin, c.cin, d, m), Recorded(c, hin, base), Room(hin, w, m, n),
           DOMAIN tin = Area(UserL(c, c.cin, c.user)),
           Lies(tin, c.format, UserL(c, c.cin, c.user), 0, inT, taken + 1 - InitialIn(c)),
           taken + inT = InitialIn(c) + base + m
    PROVE  Lies(Gathers(hin[w], n), c.format, UserL(c, c.cin, c.user), 0, inT + n, taken + 1 - InitialIn(c))
<1> DEFINE l == UserL(c, c.cin, c.user)
           g == HostL(c, c.cin, hin[w].size)
           a == Part(hin, w, m)
           first == base + First(hin, w)
           before == taken + 1 - InitialIn(c)
           h == hin[w]
<1>1. /\ IsLayout(l) /\ l.size = c.user /\ l.chans = c.cin /\ c.cin \in Nat
      /\ hin[1].size \in Nat /\ hin[2].size \in Nat /\ h.size \in Nat
    BY StreamFacts, Layouts DEF Cut
<1>2. /\ IsLayout(g) /\ g.chans = l.chans
      /\ HostStride(c.cin) = Step(g)
  <2>1. IsLayout(g) /\ g.chans = c.cin
      BY <1>1, Layouts
  <2>2. HostStride(c.cin) = Step(g)
      BY Pointing
  <2> QED
      BY <1>1, <2>1, <2>2
<1>3. /\ a \in Nat /\ First(hin, w) + a = m + 1 /\ First(hin, w) \in Nat
    BY <1>1, PartRoom DEF First
<1>4. Follow(c, hin, w, m, n, base)
    BY HostLies
<1>5. h.ptr = Pointers(g, a) /\ Lies(h.mem, c.hostFormat, g, a, a + n, first)
    BY <1>4 DEF Follow
<1>6. Gathers(h, n) = Converted(c.format, tin, Pointers(l, inT), Step(l), h.mem, Pointers(g, a), Step(g), n)
    BY <1>2, <1>5, Pointing DEF Gathers, UserFormat
<1>7. first \in Int /\ before \in Int /\ first + a = before + inT
  <2>1. InitialIn(c) \in Nat
      BY Initials
  <2> HIDE DEF a
  <2> QED
      BY <1>3, <2>1
<1> HIDE DEF l, g, a, first, before, h
<1>8. DOMAIN tin = Area(l) /\ Lies(tin, c.format, l, 0, inT, before)
    BY DEF l, before
<1>9. Lies(Converted(c.format, tin, Pointers(l, inT), Step(l), h.mem, Pointers(g, a), Step(g), n),
           c.format, l, 0, inT + n, before)
    BY <1>1, <1>2, <1>3, <1>5, <1>7, <1>8, Appended
<1> QED
    BY <1>6, <1>9 DEF l, before, h

\* A full buffer is given to the callback.
LEMMA FullTold ==
    ASSUME NEW m, ConfigsAssumption, NoPartial, c \in Streams, c.cin > 0, taken \in Nat,
           Lies(m, c.format, UserL(c, c.cin, c.user), 0, c.user, taken + 1 - InitialIn(c)),
           seen'.frames = Frames(m, UserPtrs(c.cin, c.user, 0), UserStride(c.cin), c.user),
           seen'.at = taken, ~seen'.blank
    PROVE  Told(c, seen')
<1> DEFINE l == UserL(c, c.cin, c.user)
           before == taken + 1 - InitialIn(c)
<1>1. IsLayout(l) /\ l.chans = c.cin /\ c.user \in Nat
    BY StreamFacts, Layouts
<1>2. seen'.frames = Frames(m, Pointers(l, 0), Step(l), c.user)
    BY Pointing
<1>3. before \in Int /\ 0 \in Nat /\ before + 0 = before /\ 0 + c.user = c.user
    BY <1>1, Initials
<1> HIDE DEF l, before
<1>4. Lies(m, c.format, l, 0, 0 + c.user, before)
    BY <1>3 DEF l, before
<1>5. Shown(Frames(m, Pointers(l, 0), Step(l), c.user), c.format, l.chans, c.user, before + 0)
    BY <1>1, <1>3, <1>4, Read
<1>6. Shown(seen'.frames, c.format, c.cin, c.user, before)
    BY <1>1, <1>2, <1>3, <1>5
<1>7. DOMAIN seen'.frames = 1 .. c.user
    BY <1>6 DEF Shown
<1>8. ASSUME NEW k \in 1 .. c.user, NEW x \in Chans(c.cin)
      PROVE  seen'.frames[k][x] = Sample(c.format, taken + k - InitialIn(c), x)
  <2>1. seen'.frames[k][x] = Sample(c.format, before + k - 1, x)
      BY <1>6 DEF Shown
  <2>2. before + k - 1 = taken + k - InitialIn(c)
      BY <1>1, Initials DEF before
  <2> QED
      BY <2>1, <2>2
<1> QED
    BY <1>7, <1>8 DEF Told

LEMMA Wraps ==
    ASSUME NEW n, NEW m, n \in Nat \ {0}, m \in 0 .. n
    PROVE  m % n = IF m = n THEN 0 ELSE m
<1>1. CASE m = n
  <2>1. n = n * 1 + 0 /\ (n * 1 + 0) % n = 0
      BY Remainder
  <2> QED
      BY <1>1, <2>1
<1>2. CASE m # n
  <2>1. m = n * 0 + m /\ m \in 0 .. n - 1
      BY <1>2
  <2>2. (n * 0 + m) % n = m
      BY <2>1, Remainder
  <2> QED
      BY <1>2, <2>1, <2>2
<1> QED
    BY <1>1, <1>2

LEMMA InputIn ==
    ASSUME ConfigsAssumption, NoPartial, c \in Streams, Counted, InInv, NEW r, AdaptingInput(r) PROVE InInv'
<1>1. /\ pc = "input" /\ go \in Nat \ {0} /\ done \in Nat /\ base \in Nat /\ taken \in Nat
      /\ inT \in Nat /\ go <= done /\ Counts(hin)
    BY DEF AdaptingInput, InInv, Evenly, Counted, Types, Places
<1>2. ~NonAdapting(c) /\ ~Duplex /\ c.cin > 0 /\ c.cin \in Nat
  <2>1. pc \in Phases
      BY <1>1 DEF Counted, Places
  <2> QED
      BY <1>1, <2>1, StreamFacts DEF Phases
<1>3. c.user \in Nat \ {0} /\ inT < c.user
    BY <1>2, StreamFacts DEF Counted, Places
<1>4. ~noInput /\ InitialIn(c) = 0
    BY <1>2, Initials DEF InInv, Evenly
<1>5. PICK n \in Nat : n = IF inT + go > c.user THEN c.user - inT ELSE go
    BY <1>1, <1>3
<1>6. n # 0 /\ n <= go /\ inT + n <= c.user
    BY <1>1, <1>3, <1>5
<1>7. /\ tin' = Gathers(hin[in], n)
      /\ hin' = [hin EXCEPT ![in].ptr = Advanced(hin[in].ptr, n, HostStride(c.cin))]
      /\ inT' = (inT + n) % c.user /\ go' = go - n
      /\ IF inT' = 0 /\ result = "continue" THEN InputFull(r)
         ELSE r = result /\ UNCHANGED <<seen, taken, result>>
      /\ pc' = IF go' = 0 THEN "splice" ELSE "input"
      /\ UNCHANGED <<c, noInput, in, done, base>>
    BY <1>5 DEF AdaptingInput
<1>8. /\ inT + n = c.user => inT' = 0
      /\ inT + n # c.user => inT' = inT + n
  <2>1. inT + n \in 0 .. c.user
      BY <1>1, <1>3, <1>5, <1>6
  <2>2. (inT + n) % c.user = IF inT + n = c.user THEN 0 ELSE inT + n
      BY <1>3, <2>1, Wraps
  <2> QED
      BY <1>7, <2>2
<1>9. /\ DOMAIN tin = Area(UserL(c, c.cin, c.user))
      /\ result = "continue" =>
            Lies(tin, c.format, UserL(c, c.cin, c.user), 0, inT, taken + 1 - InitialIn(c))
    BY <1>2 DEF InInv, TempIn
<1>10. DOMAIN tin' = Area(UserL(c, c.cin, c.user))
    BY <1>1, <1>5, <1>6, <1>7, <1>9, GathersInside
<1>11. Evenly'
    BY <1>1, <1>2, <1>4, <1>5, <1>6, <1>7, SameStream DEF Evenly
<1>12. CASE result # "continue"
  <2>1. result' = result /\ seen' = seen
      BY <1>7, <1>12
  <2>2. InMemory' /\ TempIn' /\ Told(c, seen)'
      BY <1>7, <1>10, <1>12, <2>1 DEF InMemory, TempIn, InInv, Told
  <2> QED
      BY <1>11, <2>2 DEF InInv
<1>13. CASE result = "continue"
  <2>1. PICK m \in Nat : m = done - go
      BY <1>1
  <2>2. Cut(c, hin, c.cin, done, m) /\ AtSet(hin, in, done, go) /\ Recorded(c, hin, base)
    <3>1. Gone = m
        BY <1>1, <2>1 DEF Gone
    <3> QED
        BY <1>1, <1>2, <1>4, <1>13, <3>1 DEF InInv, InMemory
  <2>3. in \in {1, 2} /\ Room(hin, in, m, n)
      BY <1>1, <1>5, <1>6, <2>1, <2>2, AtRoom
  <2>4. Cut(c, hin', c.cin, done, m + n) /\ Recorded(c, hin', base)
      BY <1>1, <1>2, <1>5, <1>7, <2>1, <2>2, <2>3, MovesOn
  <2>5. taken + inT = InitialIn(c) + base + m
      BY <1>1, <1>2, <1>4, <1>13, <2>1 DEF Counted, Accounts, Took
  <2>6. Lies(tin', c.format, UserL(c, c.cin, c.user), 0, inT + n, taken + 1 - InitialIn(c))
      BY <1>1, <1>2, <1>5, <1>6, <1>7, <1>9, <1>13, <2>1, <2>2, <2>3, <2>5, Gathered
  <2>7. InMemory'
    <3>1. Gone' = m + n
      <4>1. pc' \notin {"copy", "fill"} /\ done' = done /\ go' = go - n
          BY <1>7
      <4>2. done - (go - n) = m + n
          BY <1>1, <1>5, <2>1
      <4> QED
          BY <4>1, <4>2 DEF Gone
    <3>2. AtSet(hin', in, done, go')
      <4>1. hin'[1].size = hin[1].size /\ hin[1].size \in Nat
          BY <1>1, <1>7, <2>2, <2>3 DEF Cut, Counts
      <4> QED
          BY <1>1, <1>5, <1>6, <1>7, <2>2, <4>1 DEF AtSet
    <3> QED
        BY <1>7, <2>4, <3>1, <3>2 DEF InMemory
  <2>8. CASE inT + n = c.user
    <3>1. /\ inT' = 0 /\ taken' = taken + c.user
          /\ seen'.frames = Frames(tin', UserPtrs(c.cin, c.user, 0), UserStride(c.cin), c.user)
          /\ seen'.at = taken /\ seen'.blank = noInput
        BY <1>7, <1>8, <1>13, <2>8 DEF InputFull, Callback
    <3>2. Told(c, seen')
        BY <1>1, <1>2, <1>4, <2>6, <2>8, <3>1, FullTold
    <3>3. Lies(tin', c.format, UserL(c, c.cin, c.user), 0, 0, taken' + 1 - InitialIn(c))
        BY DEF Lies
    <3>4. TempIn'
        BY <1>7, <1>10, <3>1, <3>3, SameStream DEF TempIn
    <3> QED
        BY <1>7, <1>11, <2>7, <3>2, <3>4 DEF InInv
  <2>9. CASE inT + n # c.user
    <3>1. inT' = inT + n /\ taken' = taken /\ seen' = seen /\ (inT' = 0 => FALSE)
        BY <1>1, <1>5, <1>6, <1>7, <1>8, <2>9
    <3>2. TempIn'
        BY <1>7, <1>10, <2>6, <3>1, SameStream DEF TempIn
    <3> QED
        BY <1>7, <1>11, <2>7, <3>1, <3>2 DEF InInv, Told
  <2> QED
      BY <2>8, <2>9
<1> QED
    BY <1>12, <1>13

LEMMA OutputIn ==
    ASSUME ConfigsAssumption, NoPartial, c \in Streams, Counted, InInv, NEW r, AdaptingOutput(r) PROVE InInv'
<1>1. /\ pc = "output" /\ go \in Nat /\ done \in Nat /\ outT \in Nat /\ go <= done
    BY DEF AdaptingOutput, InInv, Evenly, Counted, Types
<1>2. ~NonAdapting(c) /\ ~Duplex /\ c.cin = 0
  <2>1. pc \in Phases
      BY <1>1 DEF Counted, Places
  <2> QED
      BY <1>1, <2>1, StreamFacts DEF Phases
<1>3. c.user \in Nat
    BY StreamFacts
<1>4. /\ go' <= done /\ pc' \in {"splice", "output"}
      /\ UNCHANGED <<c, noInput, done>>
    BY <1>1, <1>3 DEF AdaptingOutput, Least
<1>5. Evenly'
    BY <1>1, <1>2, <1>4, SameStream DEF InInv, Evenly
<1> QED
    BY <1>2, <1>4, <1>5 DEF InInv, InMemory, TempIn, Told

LEMMA CopyIn ==
    ASSUME c \in Streams, Counted, InInv, CopyTempOutputBuffersToHostOutputBuffers PROVE InInv'
<1>1. /\ pc = "copy" /\ pc' = pc
      /\ UNCHANGED <<c, tin, inT, hin, noInput, result, in, go, done, seen, taken, base>>
    BY DEF CopyTempOutputBuffersToHostOutputBuffers, loop, history
<1>2. ~NonAdapting(c)
    BY <1>1 DEF Counted, Places, Phases
<1> QED
    BY <1>1, <1>2, SameStream DEF InInv, InMemory, TempIn, Evenly, Told, Gone

LEMMA MoreIn ==
    ASSUME c \in Streams, Counted, InInv, AdaptingMore PROVE InInv'
<1>1. /\ pc = "copy" /\ pc' = "fill"
      /\ UNCHANGED <<c, tin, inT, hin, noInput, result, in, go, done, seen, taken, base>>
    BY DEF AdaptingMore, history, temps
<1>2. ~NonAdapting(c)
    BY <1>1 DEF Counted, Places, Phases
<1> QED
    BY <1>1, <1>2, SameStream DEF InInv, InMemory, TempIn, Evenly, Told, Gone

LEMMA DoneIn ==
    ASSUME c \in Streams, Counted, InInv, AdaptingDone PROVE InInv'
<1>1. /\ pc = "copy" /\ pc' = "idle"
      /\ UNCHANGED <<c, tin, inT, noInput, result, seen, taken>>
    BY DEF AdaptingDone, Ends, temps, hosts
<1>2. ~NonAdapting(c)
    BY <1>1 DEF Counted, Places, Phases
<1> QED
    BY <1>1, <1>2, SameStream DEF InInv, InMemory, TempIn, Evenly, Told

LEMMA CallbackIn ==
    ASSUME ConfigsAssumption, NoPartial, c \in Streams, Counted, InInv, NEW r, AdaptingCallback(r) PROVE InInv'
<1>1. /\ pc = "fill" /\ pc' = "copy" /\ taken \in Nat
      /\ inT' = IF InputTaken THEN 0 ELSE inT
      /\ IF inT = c.user /\ outT = 0 /\ result = "continue" THEN AdaptingCalls(r)
         ELSE r = result /\ UNCHANGED <<seen, taken, result>>
      /\ UNCHANGED <<c, tin, hin, noInput, in, go, done, base>>
    BY DEF AdaptingCallback, hosts, Counted, Types
<1>2. ~NonAdapting(c) /\ Duplex /\ c.cin > 0
    BY <1>1 DEF Counted, Places, Phases, Duplex
<1>3. ~noInput
    BY <1>2 DEF InInv, Evenly
<1>4. Evenly'
    BY <1>1, <1>2, <1>3, SameStream DEF Evenly
<1>5. InMemory'
    BY <1>1, <1>2, <1>3 DEF InInv, InMemory, Gone, AdaptingCalls, Callback
<1>6. /\ DOMAIN tin = Area(UserL(c, c.cin, c.user))
      /\ result = "continue" =>
            Lies(tin, c.format, UserL(c, c.cin, c.user), 0, inT, taken + 1 - InitialIn(c))
    BY <1>2 DEF InInv, TempIn
<1>7. CASE inT = c.user /\ outT = 0 /\ result = "continue"
  <2>1. /\ inT' = 0
        /\ seen'.frames = Frames(tin, UserPtrs(c.cin, c.user, 0), UserStride(c.cin), c.user)
        /\ seen'.at = taken /\ seen'.blank = noInput
      BY <1>1, <1>7 DEF AdaptingCalls, Callback, InputTaken
  <2>2. Told(c, seen')
      BY <1>1, <1>2, <1>3, <1>6, <1>7, <2>1, FullTold
  <2>3. Lies(tin', c.format, UserL(c, c.cin, c.user), 0, 0, taken' + 1 - InitialIn(c))
      BY DEF Lies
  <2>4. TempIn'
      BY <1>1, <1>6, <2>1, <2>3, SameStream DEF TempIn
  <2> QED
      BY <1>1, <1>4, <1>5, <2>2, <2>4 DEF InInv
<1>8. CASE ~(inT = c.user /\ outT = 0 /\ result = "continue")
  <2>1. /\ UNCHANGED <<seen, taken, result>>
        /\ result = "continue" => inT' = inT
      BY <1>1, <1>8 DEF InputTaken
  <2>2. TempIn'
      BY <1>1, <1>6, <2>1, SameStream DEF TempIn
  <2> QED
      BY <1>1, <1>4, <1>5, <2>1, <2>2 DEF InInv, Told
<1> QED
    BY <1>7, <1>8

LEMMA ResetIn ==
    ASSUME ConfigsAssumption, NoPartial, c \in Streams, InInv, PaUtil_ResetBufferProcessor PROVE InInv'
<1>1. /\ pc = "idle" /\ pc' = pc /\ seen' = Nothing /\ noInput' = noInput /\ taken' = 0 /\ c' = c
      /\ inT' = InitialIn(c) /\ tin' = IF inT' > 0 THEN TempBuffer(c, c.cin) ELSE tin
    BY DEF PaUtil_ResetBufferProcessor
<1>2. TempIn'
  <2> SUFFICES ASSUME ~NonAdapting(c), c.cin > 0 PROVE TempIn'
      BY <1>1, SameStream DEF TempIn
  <2>1. PICK i \in Nat : i = InitialIn(c)
      BY Initials
  <2>2. /\ i <= c.user /\ c.cin \in Nat
        /\ 0 \in Nat /\ i \in Int /\ 1 - i \in Int /\ (1 - i) + i <= 1
      BY <2>1, StreamFacts, Initials
  <2>3. /\ DOMAIN tin' = Area(UserL(c, c.cin, c.user))
        /\ Lies(tin', c.format, UserL(c, c.cin, c.user), 0, i, 1 - i)
    <3>1. CASE i > 0
        BY <1>1, <2>1, <2>2, <3>1, TempLies
    <3>2. CASE ~(i > 0)
        BY <1>1, <2>1, <3>2 DEF InInv, TempIn, Lies
    <3> QED
        BY <3>1, <3>2
  <2>4. taken' + 1 - InitialIn(c) = 1 - i /\ inT' = i
      BY <1>1, <2>1
  <2> QED
      BY <1>1, <2>3, <2>4, SameStream DEF TempIn
<1> QED
    BY <1>1, <1>2, SameStream DEF InInv, InMemory, Evenly, Told

LEMMA FillIn ==
    ASSUME ConfigsAssumption, NoPartial, c \in Streams, Counted, InInv, FillTempInputBuffer PROVE InInv'
<1> DEFINE w == Set(hin)
<1>1. /\ pc = "fill" /\ pc' = pc /\ MustFill
      /\ taken \in Nat /\ base \in Nat /\ done \in Nat /\ inT \in Nat /\ Counts(hin)
      /\ UNCHANGED <<c, noInput, result, in, seen, taken, base>>
    BY DEF FillTempInputBuffer, history, Counted, Types
<1>2. ~NonAdapting(c) /\ Duplex /\ c.cin > 0 /\ c.cin \in Nat /\ c.user \in Nat
    BY <1>1, StreamFacts DEF Counted, Places, Phases, Duplex
<1>3. ~noInput
    BY <1>2 DEF InInv, Evenly
<1>4. Evenly'
    BY <1>1, <1>2, <1>3, SameStream DEF Evenly
<1>5. w \in {1, 2} /\ hin[w].count \in Nat \ {0}
    BY <1>1 DEF MustFill, Count, Counts, Set
<1>6. PICK n \in Nat : n = Least(hin[w].count, c.user - inT)
    BY <1>1, <1>2, <1>5 DEF Least, MustFill
<1>7. n # 0 /\ n <= hin[w].count /\ inT + n <= c.user
    BY <1>1, <1>2, <1>5, <1>6 DEF Least, MustFill
<1>8. /\ tin' = Gathers(hin[w], n)
      /\ hin' = [hin EXCEPT ![w].count = @ - n, ![w].ptr = Advanced(@, n, HostStride(c.cin))]
      /\ inT' = inT + n /\ done' = done + n
    BY <1>6 DEF FillTempInputBuffer
<1> HIDE DEF w
<1>9. /\ DOMAIN tin = Area(UserL(c, c.cin, c.user))
      /\ result = "continue" =>
            Lies(tin, c.format, UserL(c, c.cin, c.user), 0, inT, taken + 1 - InitialIn(c))
    BY <1>2 DEF InInv, TempIn
<1>10. DOMAIN tin' = Area(UserL(c, c.cin, c.user))
    BY <1>1, <1>6, <1>7, <1>8, <1>9, GathersInside
<1>11. CASE result # "continue"
    BY <1>1, <1>4, <1>10, <1>11 DEF InMemory, TempIn, InInv, Told
<1>12. CASE result = "continue"
  <2>1. Cut(c, hin, c.cin, done, done) /\ Recorded(c, hin, base)
      BY <1>1, <1>2, <1>3, <1>12 DEF InInv, InMemory, Gone
  <2>2. Room(hin, w, done, n)
      BY <1>1, <1>6, <1>7, <2>1, FirstLeft DEF w
  <2>3. taken + inT = InitialIn(c) + base + done
    <3>1. taken + inT = InitialIn(c) + (base + done)
        BY <1>1, <1>2, <1>12 DEF Counted, Accounts, Took
    <3>2. InitialIn(c) \in Nat
        BY Initials
    <3> QED
        BY <1>1, <3>1, <3>2
  <2>4. Lies(tin', c.format, UserL(c, c.cin, c.user), 0, inT + n, taken + 1 - InitialIn(c))
      BY <1>1, <1>2, <1>5, <1>6, <1>7, <1>8, <1>9, <1>12, <2>1, <2>2, <2>3, Gathered
  <2>5. Cut(c, hin', c.cin, done + n, done + n) /\ Recorded(c, hin', base)
    <3>1. PICK ptr : ptr = Advanced(hin[w].ptr, n, HostStride(c.cin))
        OBVIOUS
    <3>2. PICK k : k = [hin EXCEPT ![w].ptr = ptr]
        OBVIOUS
    <3>3. Cut(c, k, c.cin, done, done + n) /\ Recorded(c, k, base)
        BY <1>1, <1>2, <1>5, <1>6, <2>1, <2>2, <3>1, <3>2, MovesOn
    <3>4. DOMAIN hin = {1, 2} /\ {"count", "size", "mem", "ptr"} \subseteq DOMAIN hin[w]
        BY <1>1, <1>5, <2>1 DEF Counts, Cut
    <3>5. /\ {"count", "size", "mem", "ptr"} \subseteq DOMAIN hin'[w]
          /\ hin'[w].size = k[w].size /\ hin'[w].count = k[w].count - n /\ hin'[w].ptr = k[w].ptr
          /\ hin'[w].mem = k[w].mem
          /\ \A v \in {1, 2} : v # w => hin'[v] = k[v]
      <4>1. hin' = [hin EXCEPT ![w].count = hin[w].count - n, ![w].ptr = ptr]
          BY <1>8, <3>1
      <4> QED
          BY <1>5, <3>2, <3>4, <4>1
    <3>6. Room(k, w, done, n)
      <4>1. \A v \in {1, 2} : k[v].size = hin[v].size
          BY <1>5, <3>2, <3>4
      <4> QED
          BY <2>2, <4>1 DEF Room
    <3>7. Cut(c, hin', c.cin, done + n, done + n)
        BY <1>1, <1>5, <1>6, <3>3, <3>5, <3>6, SetCounted
    <3>8. \A v \in {1, 2} : hin'[v].size = k[v].size /\ hin'[v].mem = k[v].mem
        BY <3>5
    <3> QED
        BY <3>3, <3>7, <3>8 DEF Recorded, First
  <2>6. InMemory'
      BY <1>1, <1>8, <2>5 DEF InMemory, Gone
  <2>7. TempIn'
      BY <1>1, <1>8, <1>10, <2>4, SameStream DEF TempIn
  <2> QED
      BY <1>1, <1>4, <2>6, <2>7 DEF InInv, Told
<1> QED
    BY <1>11, <1>12

\* Every step of a stream with a callback.
LEMMA StepIn ==
    ASSUME ConfigsAssumption, NoPartial, BInv, c.callback, InInv, [Next]_vars PROVE InInv'
<1>0. c \in Streams /\ Counted /\ ub.kind = "none"
    BY DEF BInv
<1>1. CASE UNCHANGED vars
  <2>1. /\ UNCHANGED <<c, tin, inT, hin, hout, noInput, result, pc, in, go, done>>
        /\ UNCHANGED <<seen, taken, base>>
      BY <1>1 DEF vars, temps, hosts, loop, history
  <2> QED
      BY <2>1, SameStream DEF InInv, InMemory, TempIn, Evenly, Told, Gone
<1>2. CASE Begin
    BY <1>0, <1>2, BeginIn
<1>3. CASE Splice
    BY <1>0, <1>3, SpliceIn
<1>4. CASE ZeroRest
    BY <1>0, <1>4, RestIn
<1>5. CASE CopyTempOutputBuffersToHostOutputBuffers
    BY <1>0, <1>5, CopyIn
<1>6. CASE FillTempInputBuffer
    BY <1>0, <1>6, FillIn
<1>7. CASE AdaptingMore
    BY <1>0, <1>7, MoreIn
<1>8. CASE AdaptingDone
    BY <1>0, <1>8, DoneIn
<1>9. ASSUME NEW r, NonAdaptingBlock(r) PROVE InInv'
    BY <1>0, <1>9, BlockIn
<1>10. ASSUME NEW r, AdaptingCallback(r) PROVE InInv'
    BY <1>0, <1>10, CallbackIn
<1>11. ASSUME NEW r, AdaptingInput(r) PROVE InInv'
    BY <1>0, <1>11, InputIn
<1>12. ASSUME NEW r, AdaptingOutput(r) PROVE InInv'
    BY <1>0, <1>12, OutputIn
<1>13. CASE PaUtil_ResetBufferProcessor
    BY <1>0, <1>13, ResetIn
<1>14. CASE Next
  <2>1. ~Blocking
      BY <1>0, <1>14, NotBlocking
  <2>2. EndBufferProcessing => InInv'
      BY <1>3, <1>4, <1>5, <1>6, <1>7, <1>8, <1>9, <1>10, <1>11, <1>12 DEF EndBufferProcessing
  <2> QED
      BY <1>2, <1>13, <1>14, <2>1, <2>2 DEF Next
<1> QED
    BY <1>1, <1>14

------------------------------------------------------------------------------
(* What the host is given *)

\* Frame f where the user made `top' of them: silence before and after.
Given(t, top, f, x) == IF f <= 0 \/ f > top THEN Silence(t) ELSE <<t, f, x>>
Holds(mem, t, l, from, to, first, top) ==
    \A k \in from .. to - 1, x \in Chans(l.chans) : mem[Place(l, k, x)] = Given(t, top, first + k, x)

LEMMA LiesHolds ==
    ASSUME NEW mem, NEW t, NEW l, NEW from, NEW to, NEW first, NEW top,
           from \in Int, to \in Int, first \in Int, top \in Int,
           Lies(mem, t, l, from, to, first), first + to <= top + 1
    PROVE  Holds(mem, t, l, from, to, first, top)
<1> SUFFICES ASSUME NEW k \in from .. to - 1, NEW x \in Chans(l.chans)
             PROVE  mem[Place(l, k, x)] = Given(t, top, first + k, x)
    BY DEF Holds
<1>1. mem[Place(l, k, x)] = Sample(t, first + k, x)
    BY DEF Lies
<1>2. first + k <= top
    OBVIOUS
<1> QED
    BY <1>1, <1>2 DEF Sample, Given

LEMMA HoldsMore ==
    ASSUME NEW mem, NEW t, NEW l, NEW from, NEW to, NEW first, NEW top, NEW n,
           from \in Int, to \in Int, first \in Int, top \in Int, n \in Nat,
           Holds(mem, t, l, from, to, first, top), first + to <= top + 1
    PROVE  Holds(mem, t, l, from, to, first, top + n)
<1> SUFFICES ASSUME NEW k \in from .. to - 1, NEW x \in Chans(l.chans)
             PROVE  mem[Place(l, k, x)] = Given(t, top + n, first + k, x)
    BY DEF Holds
<1>1. mem[Place(l, k, x)] = Given(t, top, first + k, x)
    BY DEF Holds
<1>2. first + k <= top /\ first + k <= top + n
    OBVIOUS
<1> QED
    BY <1>1, <1>2 DEF Given

LEMMA HoldsOn ==
    ASSUME NEW m, NEW dst, NEW t, NEW l, NEW b, NEW n, NEW first, NEW top, IsLayout(l), b \in Nat, n \in Nat,
           b + n <= l.size, Wrote(m, dst, l, b, n), DOMAIN dst = Area(l),
           Holds(dst, t, l, 0, b, first, top), Holds(m, t, l, b, b + n, first, top)
    PROVE  Holds(m, t, l, 0, b + n, first, top)
<1> SUFFICES ASSUME NEW k \in 0 .. b + n - 1, NEW x \in Chans(l.chans)
             PROVE  m[Place(l, k, x)] = Given(t, top, first + k, x)
    BY DEF Holds
<1>1. CASE k >= b
  <2>1. k \in b .. b + n - 1
      BY <1>1
  <2> QED
      BY <2>1 DEF Holds
<1>2. CASE k < b
  <2>1. k \in 0 .. l.size - 1 /\ k \in 0 .. b - 1
      BY <1>2 DEF IsLayout
  <2>2. Place(l, k, x) \notin Grid(l, b, n) /\ Place(l, k, x) \in DOMAIN dst
      BY <1>2, <2>1, GridApart, PlaceInside
  <2>3. dst[Place(l, k, x)] = Given(t, top, first + k, x)
      BY <2>1 DEF Holds
  <2> QED
      BY <2>2, <2>3 DEF Wrote
<1> QED
    BY <1>1, <1>2

\* Frames behind the last are written over.
LEMMA HoldsStill ==
    ASSUME NEW m, NEW dst, NEW t, NEW l, NEW b, NEW n, NEW first, NEW top, IsLayout(l), b \in Nat, n \in Nat,
           b + n <= l.size, Wrote(m, dst, l, b, n), DOMAIN dst = Area(l), Holds(dst, t, l, 0, b, first, top)
    PROVE  Holds(m, t, l, 0, b, first, top) /\ DOMAIN m = Area(l)
<1>1. DOMAIN m = Area(l)
    BY GridInside DEF Wrote
<1> SUFFICES ASSUME NEW k \in 0 .. b - 1, NEW x \in Chans(l.chans)
             PROVE  m[Place(l, k, x)] = Given(t, top, first + k, x)
    BY <1>1 DEF Holds
<1>2. k \in 0 .. l.size - 1 /\ k < b
    BY DEF IsLayout
<1>3. Place(l, k, x) \notin Grid(l, b, n) /\ Place(l, k, x) \in DOMAIN dst
    BY <1>2, GridApart, PlaceInside
<1>4. dst[Place(l, k, x)] = Given(t, top, first + k, x)
    BY DEF Holds
<1> QED
    BY <1>3, <1>4 DEF Wrote

LEMMA ZerosHold ==
    ASSUME NEW t, NEW l, NEW b, NEW n, NEW dst, NEW first, NEW top, IsLayout(l), b \in Nat, n \in Nat,
           b + n <= l.size, first \in Int, top \in Int, first + b > top
    PROVE  Holds(Zeroed(t, dst, Pointers(l, b), Step(l), n), t, l, b, b + n, first, top)
<1> SUFFICES ASSUME NEW k \in b .. b + n - 1, NEW x \in Chans(l.chans)
             PROVE  Zeroed(t, dst, Pointers(l, b), Step(l), n)[Place(l, k, x)] = Given(t, top, first + k, x)
    BY DEF Holds
<1>1. first + k > top
    OBVIOUS
<1> QED
    BY <1>1, ZeroAt DEF Given

\* What the user makes.
LEMMA MakesLie ==
    ASSUME NEW l, NEW b, NEW n, NEW dst, IsLayout(l), b \in Nat, n \in Nat, b + n <= l.size, made \in Nat
    PROVE  Lies(Makes(dst, Pointers(l, b), Step(l), n), c.format, l, b, b + n, made + 1 - b)
<1> SUFFICES ASSUME NEW k \in b .. b + n - 1, NEW x \in Chans(l.chans)
             PROVE  Makes(dst, Pointers(l, b), Step(l), n)[Place(l, k, x)] = Sample(c.format, (made + 1 - b) + k, x)
    BY DEF Lies
<1>1. Makes(dst, Pointers(l, b), Step(l), n)[Place(l, k, x)] = <<c.format, made + (k - b) + 1, x>>
    BY MadeAt DEF UserFormat
<1>2. (made + 1 - b) + k > 0 /\ made + (k - b) + 1 = (made + 1 - b) + k
    OBVIOUS
<1> QED
    BY <1>1, <1>2 DEF Sample

------------------------------------------------------------------------------
(* The host's output sets, of which the first n frames are put, from frame `at' of the stream *)

Filled(s, h, at, n, top) ==
    \A w \in {1, 2} : h[w].size > 0 =>
        /\ DOMAIN h[w].mem = Area(HostL(s, s.cout, h[w].size))
        /\ Holds(h[w].mem, s.hostFormat, HostL(s, s.cout, h[w].size), 0, Part(h, w, n),
                 at + First(h, w) - InitialOut(s), top)

\* The n frames that follow m are put to set w, whose memory is then mem.
Puts(s, h, w, m, n, mem, at, top) ==
    /\ Wrote(mem, h[w].mem, HostL(s, s.cout, h[w].size), Part(h, w, m), n)
    /\ Holds(mem, s.hostFormat, HostL(s, s.cout, h[w].size), Part(h, w, m), Part(h, w, m) + n,
             at + First(h, w) - InitialOut(s), top)

LEMMA SpotOf ==
    ASSUME NEW h, NEW d, NEW m, NEW w, NEW n, ConfigsAssumption, c \in Streams, c.cout \in Nat,
           d \in Nat, m \in Nat, w \in {1, 2}, n \in Nat, n # 0,
           Cut(c, h, c.cout, d, m), Room(h, w, m, n)
    PROVE  /\ IsLayout(HostL(c, c.cout, h[w].size)) /\ HostL(c, c.cout, h[w].size).chans = c.cout
           /\ HostL(c, c.cout, h[w].size).size = h[w].size
           /\ Part(h, w, m) \in Nat /\ Part(h, w, m) + n <= h[w].size
           /\ First(h, w) \in Nat /\ First(h, w) + Part(h, w, m) = m + 1
           /\ h[w].ptr = Pointers(HostL(c, c.cout, h[w].size), Part(h, w, m))
           /\ HostStride(c.cout) = Step(HostL(c, c.cout, h[w].size))
           /\ h[w].size > 0 /\ h[w].size \in Nat
<1>1. h[1].size \in Nat /\ h[2].size \in Nat /\ h[w].size \in Nat
    BY DEF Cut
<1>2. Part(h, w, m) \in Nat /\ Part(h, w, m) + n <= h[w].size /\ First(h, w) + Part(h, w, m) = m + 1
    BY <1>1, PartRoom
<1>3. h[w].size > 0
    BY <1>1, <1>2
<1>4. h[w].ptr = Pointers(HostL(c, c.cout, h[w].size), Part(h, w, m))
    BY <1>3 DEF Cut
<1>5. HostStride(c.cout) = Step(HostL(c, c.cout, h[w].size))
    BY Pointing
<1>6. First(h, w) \in Nat
    BY <1>1 DEF First
<1>7. /\ IsLayout(HostL(c, c.cout, h[w].size)) /\ HostL(c, c.cout, h[w].size).chans = c.cout
      /\ HostL(c, c.cout, h[w].size).size = h[w].size
    BY <1>1, Layouts
<1> QED
    BY <1>1, <1>2, <1>3, <1>4, <1>5, <1>6, <1>7

LEMMA PutsZeros ==
    ASSUME NEW h, NEW d, NEW m, NEW w, NEW n, NEW at, NEW top, ConfigsAssumption, NoPartial, c \in Streams,
           c.cout \in Nat, d \in Nat, m \in Nat, w \in {1, 2}, n \in Nat, n # 0, at \in Nat, top \in Nat,
           Cut(c, h, c.cout, d, m), Room(h, w, m, n), top + InitialOut(c) <= at + m
    PROVE  Puts(c, h, w, m, n, Zeroed(c.hostFormat, h[w].mem, h[w].ptr, HostStride(c.cout), n), at, top)
<1> DEFINE l == HostL(c, c.cout, h[w].size)
           b == Part(h, w, m)
           first == at + First(h, w) - InitialOut(c)
           mem == Zeroed(c.hostFormat, h[w].mem, Pointers(l, b), Step(l), n)
<1>1. /\ IsLayout(l) /\ l.size = h[w].size /\ b \in Nat /\ b + n <= h[w].size
      /\ First(h, w) \in Nat /\ First(h, w) + b = m + 1 /\ h[w].ptr = Pointers(l, b)
      /\ HostStride(c.cout) = Step(l)
    BY SpotOf
<1> HIDE DEF l, b
<1>2. InitialOut(c) \in Nat
    BY Initials
<1>3. first \in Int /\ first + b > top
    BY <1>1, <1>2
<1> HIDE DEF first
<1>z. top \in Int /\ b + n <= l.size
    BY <1>1
<1>4. Holds(mem, c.hostFormat, l, b, b + n, first, top)
    BY <1>1, <1>3, <1>z, ZerosHold
<1>5. Wrote(mem, h[w].mem, l, b, n)
    BY <1>1, WroteZeros
<1> QED
    BY <1>1, <1>4, <1>5 DEF l, b, first, Puts

\* From the user's buffer, which lies in layout g from frame a on.
LEMMA PutsConverted ==
    ASSUME NEW h, NEW d, NEW m, NEW w, NEW n, NEW at, NEW top, NEW g, NEW a, NEW t, NEW src, NEW from,
           ConfigsAssumption, NoPartial, c \in Streams,
           c.cout \in Nat, d \in Nat, m \in Nat, w \in {1, 2}, n \in Nat, n # 0, at \in Nat, top \in Nat,
           Cut(c, h, c.cout, d, m), Room(h, w, m, n),
           IsLayout(g), g.chans = c.cout, a \in Nat, from \in Int, Lies(src, t, g, a, a + n, from),
           from + a + InitialOut(c) = at + m + 1, from + a + n <= top + 1
    PROVE  Puts(c, h, w, m, n, Converted(c.hostFormat, h[w].mem, h[w].ptr, HostStride(c.cout),
                                         src, Pointers(g, a), Step(g), n), at, top)
<1> DEFINE l == HostL(c, c.cout, h[w].size)
           b == Part(h, w, m)
           first == at + First(h, w) - InitialOut(c)
           mem == Converted(c.hostFormat, h[w].mem, Pointers(l, b), Step(l), src, Pointers(g, a), Step(g), n)
<1>1. /\ IsLayout(l) /\ l.chans = c.cout /\ l.size = h[w].size /\ b \in Nat /\ b + n <= h[w].size
      /\ First(h, w) \in Nat /\ First(h, w) + b = m + 1 /\ h[w].ptr = Pointers(l, b)
      /\ HostStride(c.cout) = Step(l)
    BY SpotOf
<1> HIDE DEF l, b
<1>2. InitialOut(c) \in Nat
    BY Initials
<1>3. first \in Int /\ from + a - b = first
    BY <1>1, <1>2
<1>4. first + (b + n) <= top + 1
    BY <1>1, <1>2
<1> HIDE DEF first
<1>5. Lies(mem, c.hostFormat, l, b, b + n, from + a - b)
    BY <1>1, Moved
<1>6. Wrote(mem, h[w].mem, l, b, n)
    BY <1>1, WroteConverted
<1> HIDE DEF mem
<1>7. Lies(mem, c.hostFormat, l, b, b + n, first)
    BY <1>3, <1>5
<1>8. b \in Int /\ b + n \in Int /\ top \in Int
    BY <1>1
<1>9. Holds(mem, c.hostFormat, l, b, b + n, first, top)
    BY <1>3, <1>4, <1>7, <1>8, LiesHolds
<1> QED
    BY <1>1, <1>6, <1>9 DEF l, b, first, mem, Puts

\* The user makes them in the host's memory.
LEMMA PutsMakes ==
    ASSUME NEW h, NEW d, NEW m, NEW w, NEW n, NEW at, ConfigsAssumption, NoPartial, c \in Streams,
           c.cout \in Nat, d \in Nat, m \in Nat, w \in {1, 2}, n \in Nat, n # 0, at \in Nat, made \in Nat,
           Cut(c, h, c.cout, d, m), Room(h, w, m, n), c.format = c.hostFormat,
           made + InitialOut(c) = at + m
    PROVE  Puts(c, h, w, m, n, Makes(h[w].mem, h[w].ptr, HostStride(c.cout), n), at, made + n)
<1> DEFINE l == HostL(c, c.cout, h[w].size)
           b == Part(h, w, m)
           first == at + First(h, w) - InitialOut(c)
           mem == Makes(h[w].mem, Pointers(l, b), Step(l), n)
<1>1. /\ IsLayout(l) /\ l.chans = c.cout /\ l.size = h[w].size /\ b \in Nat /\ b + n <= h[w].size
      /\ First(h, w) \in Nat /\ First(h, w) + b = m + 1 /\ h[w].ptr = Pointers(l, b)
      /\ HostStride(c.cout) = Step(l)
    BY SpotOf
<1> HIDE DEF l, b
<1>2. InitialOut(c) \in Nat
    BY Initials
<1>3. first \in Int /\ made + 1 - b = first
    BY <1>1, <1>2
<1>4. first + (b + n) <= (made + n) + 1
    BY <1>1, <1>2
<1> HIDE DEF first
<1>5. Lies(mem, c.format, l, b, b + n, made + 1 - b)
    BY <1>1, MakesLie
<1>6. Wrote(mem, h[w].mem, l, b, n)
    BY <1>1, WroteMakes
<1> HIDE DEF mem
<1>7. Lies(mem, c.hostFormat, l, b, b + n, first)
    BY <1>3, <1>5
<1>8. b \in Int /\ b + n \in Int /\ made + n \in Int
    BY <1>1
<1>9. Holds(mem, c.hostFormat, l, b, b + n, first, made + n)
    BY <1>3, <1>4, <1>7, <1>8, LiesHolds
<1> QED
    BY <1>1, <1>6, <1>9 DEF l, b, first, mem, Puts

\* Set w of k is that of h with n frames put to it.
After(h, k, w, mem, n, chans, count) ==
    /\ {"count", "size", "mem", "ptr"} \subseteq DOMAIN k[w]
    /\ k[w].size = h[w].size /\ k[w].mem = mem /\ k[w].count = count
    /\ k[w].ptr = Advanced(h[w].ptr, n, HostStride(chans))
    /\ \A v \in {1, 2} : v # w => k[v] = h[v]

LEMMA FilledAs ==
    ASSUME NEW h, NEW k, NEW s, NEW at, NEW n, NEW top, Filled(s, h, at, n, top),
           \A v \in {1, 2} : k[v].size = h[v].size /\ k[v].mem = h[v].mem
    PROVE  Filled(s, k, at, n, top)
<1>1. k[1].size = h[1].size
    OBVIOUS
<1>2. \A v \in {1, 2} : First(k, v) = First(h, v) /\ Part(k, v, n) = Part(h, v, n)
    BY <1>1 DEF First, Part
<1>3. ASSUME NEW v \in {1, 2}, k[v].size > 0
      PROVE  /\ DOMAIN k[v].mem = Area(HostL(s, s.cout, k[v].size))
             /\ Holds(k[v].mem, s.hostFormat, HostL(s, s.cout, k[v].size), 0, Part(k, v, n),
                      at + First(k, v) - InitialOut(s), top)
  <2>1. First(k, v) = First(h, v) /\ Part(k, v, n) = Part(h, v, n)
      BY <1>2
  <2>2. k[v].size = h[v].size /\ k[v].mem = h[v].mem
      OBVIOUS
  <2>3. /\ DOMAIN h[v].mem = Area(HostL(s, s.cout, h[v].size))
        /\ Holds(h[v].mem, s.hostFormat, HostL(s, s.cout, h[v].size), 0, Part(h, v, n),
                 at + First(h, v) - InitialOut(s), top)
      BY <1>3, <2>2 DEF Filled
  <2> QED
      BY <2>1, <2>2, <2>3
<1> QED
    BY <1>3 DEF Filled

LEMMA PutOn ==
    ASSUME NEW h, NEW k, NEW d, NEW m, NEW w, NEW n, NEW at, NEW top, NEW mem,
           ConfigsAssumption, c \in Streams, c.cout \in Nat, d \in Nat, m \in Nat, w \in {1, 2}, n \in Nat, n # 0,
           Cut(c, h, c.cout, d, m), Filled(c, h, at, m, top), Room(h, w, m, n),
           Puts(c, h, w, m, n, mem, at, top), After(h, k, w, mem, n, c.cout, h[w].count)
    PROVE  Cut(c, k, c.cout, d, m + n) /\ Filled(c, k, at, m + n, top)
<1>1. /\ {"count", "size", "mem", "ptr"} \subseteq DOMAIN k[w]
      /\ k[w].size = h[w].size /\ k[w].mem = mem /\ k[w].count = h[w].count
      /\ k[w].ptr = Advanced(h[w].ptr, n, HostStride(c.cout))
      /\ \A v \in {1, 2} : v # w => k[v] = h[v]
    BY DEF After
<1>2. Cut(c, k, c.cout, d, m + n)
    BY <1>1, SetMoves
<1>3. h[1].size \in Nat /\ h[2].size \in Nat /\ k[1].size = h[1].size
    BY <1>1 DEF Cut
<1>4. /\ Part(h, w, m + n) = Part(h, w, m) + n
      /\ \A v \in {1, 2} : v # w => Part(h, v, m + n) = Part(h, v, m)
    BY <1>3, PartRoom
<1>5. \A v \in {1, 2} : First(k, v) = First(h, v) /\ Part(k, v, m + n) = Part(h, v, m + n)
    BY <1>3 DEF First, Part
<1>6. ASSUME NEW v \in {1, 2}, k[v].size > 0
      PROVE  /\ DOMAIN k[v].mem = Area(HostL(c, c.cout, k[v].size))
             /\ Holds(k[v].mem, c.hostFormat, HostL(c, c.cout, k[v].size), 0, Part(k, v, m + n),
                      at + First(k, v) - InitialOut(c), top)
  <2>1. CASE v # w
    <3>1. k[v] = h[v] /\ First(k, v) = First(h, v) /\ Part(k, v, m + n) = Part(h, v, m)
        BY <1>1, <1>4, <1>5, <2>1
    <3>2. /\ DOMAIN h[v].mem = Area(HostL(c, c.cout, h[v].size))
          /\ Holds(h[v].mem, c.hostFormat, HostL(c, c.cout, h[v].size), 0, Part(h, v, m),
                   at + First(h, v) - InitialOut(c), top)
        BY <1>6, <3>1 DEF Filled
    <3> QED
        BY <3>1, <3>2
  <2>2. CASE v = w
    <3> DEFINE l == HostL(c, c.cout, h[w].size)
               b == Part(h, w, m)
               first == at + First(h, w) - InitialOut(c)
    <3>1. IsLayout(l) /\ l.size = h[w].size /\ b \in Nat /\ b + n <= h[w].size /\ h[w].size > 0
        BY SpotOf
    <3>2. Wrote(mem, h[w].mem, l, b, n) /\ Holds(mem, c.hostFormat, l, b, b + n, first, top)
        BY DEF Puts
    <3>3. DOMAIN h[w].mem = Area(l) /\ Holds(h[w].mem, c.hostFormat, l, 0, b, first, top)
        BY <3>1 DEF Filled
    <3>4. /\ First(k, w) = First(h, w) /\ Part(k, w, m + n) = b + n /\ k[w].mem = mem
          /\ k[w].size = h[w].size
        BY <1>1, <1>4, <1>5
    <3> HIDE DEF l, b, first
    <3>5. Holds(mem, c.hostFormat, l, 0, b + n, first, top)
        BY <3>1, <3>2, <3>3, HoldsOn
    <3>6. DOMAIN mem = Area(l)
        BY <3>1, <3>2, <3>3, HoldsStill
    <3> QED
        BY <2>2, <3>4, <3>5, <3>6 DEF l, b, first
  <2> QED
      BY <2>1, <2>2
<1> QED
    BY <1>2, <1>6 DEF Filled

\* The same of a set that is counted as it is filled.
LEMMA PutAway ==
    ASSUME NEW h, NEW k, NEW m, NEW w, NEW n, NEW at, NEW top, NEW mem,
           ConfigsAssumption, c \in Streams, c.cout \in Nat, m \in Nat, w \in {1, 2}, n \in Nat, n # 0,
           Cut(c, h, c.cout, m, m), Filled(c, h, at, m, top), Room(h, w, m, n), DOMAIN h = {1, 2},
           Puts(c, h, w, m, n, mem, at, top), After(h, k, w, mem, n, c.cout, h[w].count - n)
    PROVE  Cut(c, k, c.cout, m + n, m + n) /\ Filled(c, k, at, m + n, top)
<1>1. /\ {"count", "size", "mem", "ptr"} \subseteq DOMAIN k[w]
      /\ k[w].size = h[w].size /\ k[w].mem = mem /\ k[w].count = h[w].count - n
      /\ k[w].ptr = Advanced(h[w].ptr, n, HostStride(c.cout))
      /\ \A v \in {1, 2} : v # w => k[v] = h[v]
    BY DEF After
<1>2. PICK j : j = [h EXCEPT ![w] = [k[w] EXCEPT !.count = h[w].count]]
    OBVIOUS
<1>3. /\ {"count", "size", "mem", "ptr"} \subseteq DOMAIN j[w]
      /\ j[w].size = h[w].size /\ j[w].mem = mem /\ j[w].count = h[w].count
      /\ j[w].ptr = Advanced(h[w].ptr, n, HostStride(c.cout))
      /\ \A v \in {1, 2} : v # w => j[v] = h[v]
    BY <1>1, <1>2
<1>4. After(h, j, w, mem, n, c.cout, h[w].count)
    BY <1>3 DEF After
<1>5. Cut(c, j, c.cout, m, m + n) /\ Filled(c, j, at, m + n, top)
    BY <1>4, PutOn
<1>6. /\ k[w].size = j[w].size /\ k[w].count = j[w].count - n /\ k[w].ptr = j[w].ptr
      /\ k[w].mem = j[w].mem /\ \A v \in {1, 2} : v # w => k[v] = j[v]
    BY <1>1, <1>3
<1>7. Room(j, w, m, n)
    BY <1>3 DEF Room
<1>8. Cut(c, k, c.cout, m + n, m + n)
    BY <1>1, <1>5, <1>6, <1>7, SetCounted
<1>9. \A v \in {1, 2} : k[v].size = j[v].size /\ k[v].mem = j[v].mem
    BY <1>6
<1> QED
    BY <1>5, <1>8, <1>9, FilledAs

LEMMA FilledMore ==
    ASSUME NEW h, NEW d, NEW m, NEW at, NEW top, NEW n, ConfigsAssumption, NoPartial, c \in Streams,
           d \in Nat, m \in Nat, at \in Nat, top \in Nat, n \in Nat, Cut(c, h, c.cout, d, m),
           Filled(c, h, at, m, top), at + m <= top + InitialOut(c)
    PROVE  Filled(c, h, at, m, top + n)
<1> SUFFICES ASSUME NEW w \in {1, 2}, h[w].size > 0
             PROVE  /\ DOMAIN h[w].mem = Area(HostL(c, c.cout, h[w].size))
                    /\ Holds(h[w].mem, c.hostFormat, HostL(c, c.cout, h[w].size), 0, Part(h, w, m),
                             at + First(h, w) - InitialOut(c), top + n)
    BY DEF Filled
<1> DEFINE l == HostL(c, c.cout, h[w].size)
           b == Part(h, w, m)
           first == at + First(h, w) - InitialOut(c)
<1>1. DOMAIN h[w].mem = Area(l) /\ Holds(h[w].mem, c.hostFormat, l, 0, b, first, top)
    BY DEF Filled
<1>2. h[1].size \in Nat /\ h[2].size \in Nat /\ InitialOut(c) \in Nat
    BY Initials DEF Cut
<1>3. b \in Nat /\ First(h, w) \in Nat /\ (b = 0 \/ First(h, w) + b <= m + 1)
    BY <1>2 DEF Part, First, Least
<1> HIDE DEF l, b
<1>4. first \in Int /\ (b = 0 \/ first + b <= top + 1)
    BY <1>2, <1>3
<1> HIDE DEF first
<1>5. Holds(h[w].mem, c.hostFormat, l, 0, b, first, top + n)
  <2>1. CASE b = 0
      BY <2>1 DEF Holds
  <2>2. CASE first + b <= top + 1
      BY <1>1, <1>3, <1>4, <2>2, HoldsMore
  <2> QED
      BY <1>4, <2>1, <2>2
<1> QED
    BY <1>1, <1>5 DEF l, b, first

\* Frames behind those that are put are written over.
LEMMA Overwritten ==
    ASSUME NEW h, NEW k, NEW d, NEW m, NEW w, NEW n, NEW at, NEW top, NEW mem,
           ConfigsAssumption, c \in Streams, c.cout \in Nat, d \in Nat, m \in Nat, w \in {1, 2}, n \in Nat, n # 0,
           Cut(c, h, c.cout, d, m), Filled(c, h, at, m, top), Room(h, w, m, n),
           Wrote(mem, h[w].mem, HostL(c, c.cout, h[w].size), Part(h, w, m), n),
           DOMAIN h = {1, 2}, k = [h EXCEPT ![w].mem = mem]
    PROVE  Cut(c, k, c.cout, d, m) /\ Filled(c, k, at, m, top)
<1>1. {"count", "size", "mem", "ptr"} \subseteq DOMAIN h[w]
    BY DEF Cut
<1>2. /\ {"count", "size", "mem", "ptr"} \subseteq DOMAIN k[w] /\ k[w].size = h[w].size
      /\ k[w].mem = mem /\ k[w].count = h[w].count /\ k[w].ptr = h[w].ptr
      /\ \A v \in {1, 2} : v # w => k[v] = h[v]
    BY <1>1
<1>3. k[1].size = h[1].size
    BY <1>2
<1>4. \A v \in {1, 2} : \A a : First(k, v) = First(h, v) /\ Part(k, v, a) = Part(h, v, a)
    BY <1>3 DEF First, Part
<1>5. Cut(c, k, c.cout, d, m)
  <2> SUFFICES ASSUME NEW v \in {1, 2}
               PROVE  /\ {"count", "size", "mem", "ptr"} \subseteq DOMAIN k[v] /\ k[v].size \in Nat
                      /\ k[v].count = k[v].size - Part(k, v, d)
                      /\ k[v].size > 0 => k[v].ptr = Pointers(HostL(c, c.cout, k[v].size), Part(k, v, m))
      BY DEF Cut
  <2>1. /\ {"count", "size", "mem", "ptr"} \subseteq DOMAIN k[v] /\ k[v].size = h[v].size
        /\ k[v].count = h[v].count /\ k[v].ptr = h[v].ptr
      BY <1>2 DEF Cut
  <2>2. Part(k, v, d) = Part(h, v, d) /\ Part(k, v, m) = Part(h, v, m)
      BY <1>4
  <2> QED
      BY <2>1, <2>2 DEF Cut
<1>6. ASSUME NEW v \in {1, 2}, k[v].size > 0
      PROVE  /\ DOMAIN k[v].mem = Area(HostL(c, c.cout, k[v].size))
             /\ Holds(k[v].mem, c.hostFormat, HostL(c, c.cout, k[v].size), 0, Part(k, v, m),
                      at + First(k, v) - InitialOut(c), top)
  <2> DEFINE l == HostL(c, c.cout, h[v].size)
             b == Part(h, v, m)
             first == at + First(h, v) - InitialOut(c)
  <2>1. First(k, v) = First(h, v) /\ Part(k, v, m) = b /\ k[v].size = h[v].size
      BY <1>2, <1>4
  <2>2. DOMAIN h[v].mem = Area(l) /\ Holds(h[v].mem, c.hostFormat, l, 0, b, first, top)
      BY <1>6, <2>1 DEF Filled
  <2>3. CASE v # w
      BY <1>2, <2>1, <2>2, <2>3
  <2>4. CASE v = w
    <3>1. IsLayout(l) /\ l.size = h[w].size /\ b \in Nat /\ b + n <= l.size
        BY <2>4, SpotOf
    <3>2. Wrote(mem, h[w].mem, l, b, n) /\ k[w].mem = mem
        BY <1>2, <2>4
    <3> HIDE DEF l, b, first
    <3>3. Holds(mem, c.hostFormat, l, 0, b, first, top) /\ DOMAIN mem = Area(l)
        BY <2>2, <2>4, <3>1, <3>2, HoldsStill
    <3> QED
        BY <2>1, <2>4, <3>2, <3>3 DEF l, b, first
  <2> QED
      BY <2>3, <2>4
<1> QED
    BY <1>5, <1>6 DEF Filled

LEMMA SetsEmpty ==
    ASSUME ConfigsAssumption, c \in Streams, c.cout \in Nat \ {0}, NEW n \in Nat \ {0}, NEW split \in 1 .. n,
           NEW filled, NEW at, NEW top
    PROVE  Filled(c, Sets(c.cout, n, split, filled), at, 0, top)
<1> DEFINE h == Sets(c.cout, n, split, filled)
<1>1. c.cout # 0 /\ c.cout \in Nat /\ split \in Nat /\ n - split \in Nat
    OBVIOUS
<1>2. h[1] = HostSet(c.cout, split, base + 1, filled)
    BY <1>1 DEF Sets
<1>3. h[2] = IF split = n THEN NoData ELSE HostSet(c.cout, n - split, base + split + 1, filled)
    BY <1>1 DEF Sets
<1> HIDE DEF h
<1>4. h[1].size = split /\ DOMAIN h[1].mem = Area(HostL(c, c.cout, h[1].size))
    BY <1>1, <1>2, SetShape
<1>5. h[2].size > 0 => DOMAIN h[2].mem = Area(HostL(c, c.cout, h[2].size))
  <2>1. CASE split = n
      BY <1>3, <2>1, NoShape
  <2>2. CASE split # n
      BY <1>1, <1>3, <2>2, SetShape
  <2> QED
      BY <2>1, <2>2
<1>6. Part(h, 1, 0) = 0 /\ Part(h, 2, 0) = 0
    BY <1>1, <1>4 DEF Part, Least
<1>7. \A w \in {1, 2} : \A t, l, first : Holds(h[w].mem, t, l, 0, Part(h, w, 0), first, top)
    BY <1>6 DEF Holds
<1> QED
    BY <1>4, <1>5, <1>7 DEF Filled, h

------------------------------------------------------------------------------
(* The invariant: the host's sets hold what is put, and tempOutputBuffer what is not yet. *)

Sent == IF pc \in {"copy", "fill"} THEN done + go - Count(hout) ELSE done - go

OutMemory == pc # "idle" =>
    /\ Sent \in Nat
    /\ Cut(c, hout, c.cout, IF pc \in {"copy", "fill"} THEN Sent ELSE done, Sent)
    /\ pc \in {"block", "rest", "output"} => go > 0 /\ AtSet(hout, out, done, go)
    /\ Filled(c, hout, base, Sent, made)

TempOut == ~NonAdapting(c) =>
    /\ outT <= c.user
    /\ Lies(tout, c.format, UserL(c, c.cout, c.user), c.user - outT, c.user, made + 1 - c.user)

\* Of a user who does not go on nothing remains to be put but silence.
Ended ==
    /\ result \in Results
    /\ result # "continue" => /\ made + InitialOut(c) <= outT + Put
                              /\ outT > 0 => made + InitialOut(c) = outT + Put
                              /\ pc = "fill" => Count(hout) = 0
    /\ result = "abort" => outT = 0
    /\ result = "complete" /\ pc = "copy" /\ go = 0 => Count(hout) <= outT

\* n frames of the last buffer were put: all, unless the user aborted.
Over(s, h, at, n, all, m, top, r) ==
    /\ n \in Nat /\ n <= all /\ h[1].size \in Nat /\ h[2].size \in Nat /\ n <= h[1].size + h[2].size
    /\ Filled(s, h, at, n, top)
    /\ n # all => r = "abort" /\ Adapts(s) /\ at + n >= m + InitialOut(s)

OutIdle == pc = "idle" => \E n \in Nat : Over(c, hout, base - done, n, done, made, made, result)

OutInv == ~zeroed /\ (c.cout > 0 => OutMemory /\ TempOut /\ Ended /\ OutIdle)

LEMMA OutLatency ==
    ASSUME ConfigsAssumption, NoPartial, c \in Streams, ~NonAdapting(c)
    PROVE  InitialOut(c) \in Nat /\ InitialOut(c) <= c.user
<1>1. CASE ~Duplex
    BY <1>1, Initials, StreamFacts
<1>2. CASE Duplex
  <2>1. c.user \in Nat \ {0} /\ c.host \in Nat \ {0}
      BY StreamFacts
  <2>2. CalculateFrameShift(c.host, c.user) \in 0 .. c.user - 1
      BY <2>1, ShiftIsMost
  <2>3. InitialIn(c) \in Nat /\ InitialOut(c) \in Nat
      BY Initials
  <2>4. c.mode # "fixed" => InitialOut(c) = c.user
      BY <1>2, Initials
  <2>5. c.mode = "fixed" => InitialIn(c) + InitialOut(c) = CalculateFrameShift(c.host, c.user)
      BY <1>2, Initials
  <2> QED
      BY <2>1, <2>2, <2>3, <2>4, <2>5
<1> QED
    BY <1>1, <1>2

\* Where a frame is put.
LEMMA PutSent ==
    ASSUME Types, pc # "idle" PROVE Put = base + Sent /\ Count(hout) \in Nat
<1>1. Count(hout) \in Nat /\ base \in Nat /\ done \in Nat /\ go \in Nat
    BY DEF Types, Counts, Count
<1> QED
    BY <1>1 DEF Put, Sent

\* No buffer was given to the host since the start.
LEMMA NoneOver == ASSUME NEW s, NEW at, NEW m, NEW top, NEW r PROVE Over(s, <<NoData, NoData>>, at, 0, 0, m, top, r)
<1>1. \A w \in {1, 2} : <<NoData, NoData>>[w].size = 0
    BY DEF NoData
<1> QED
    BY <1>1 DEF Over, Filled

\* The temporary buffer at the start.
LEMMA TempEmpty ==
    ASSUME ConfigsAssumption, NoPartial, c \in Streams, c.cout > 0, ~NonAdapting(c), NEW t, NEW n, n = InitialOut(c),
           n > 0 => t = TempBuffer(c, c.cout)
    PROVE  n <= c.user /\ Lies(t, c.format, UserL(c, c.cout, c.user), c.user - n, c.user, 0 + 1 - c.user)
<1>1. n \in Nat /\ n <= c.user /\ c.user \in Nat /\ c.cout \in Nat
    BY OutLatency, StreamFacts
<1>2. CASE n > 0
  <2>1. /\ c.user - n \in Nat /\ c.user \in Int /\ c.user <= c.user /\ 0 + 1 - c.user \in Int
        /\ (0 + 1 - c.user) + c.user <= 1
      BY <1>1
  <2> QED
      BY <1>1, <1>2, <2>1, TempLies
<1>3. CASE ~(n > 0)
    BY <1>1, <1>3 DEF Lies
<1> QED
    BY <1>1, <1>2, <1>3

LEMMA InitOut == ASSUME ConfigsAssumption, NoPartial, c \in Streams, Init PROVE OutInv
<1>1. /\ pc = "idle" /\ zeroed = FALSE /\ made = 0 /\ base = 0 /\ done = 0 /\ result = "continue"
      /\ tout = TempBuffer(c, c.cout) /\ outT = InitialOut(c) /\ hout = <<NoData, NoData>>
    BY DEF Init
<1>2. OutIdle
    BY <1>1, NoneOver DEF OutIdle
<1>3. c.cout > 0 => TempOut
    BY <1>1, TempEmpty DEF TempOut
<1> QED
    BY <1>1, <1>2, <1>3 DEF OutInv, OutMemory, Ended, Results

LEMMA ResetOut ==
    ASSUME ConfigsAssumption, NoPartial, c \in Streams, PaUtil_ResetBufferProcessor PROVE OutInv'
<1>1. /\ pc' = "idle" /\ zeroed' = FALSE /\ made' = 0 /\ base' = 0 /\ done' = 0 /\ result' = "continue"
      /\ outT' = InitialOut(c) /\ (outT' > 0 => tout' = TempBuffer(c, c.cout))
      /\ hout' = <<NoData, NoData>> /\ c' = c
    BY DEF PaUtil_ResetBufferProcessor
<1>2. OutIdle'
    BY <1>1, NoneOver DEF OutIdle
<1>3. ASSUME c.cout > 0 PROVE TempOut'
  <2>1. ~NonAdapting(c) =>
           /\ outT' <= c.user
           /\ Lies(tout', c.format, UserL(c, c.cout, c.user), c.user - outT', c.user, 0 + 1 - c.user)
      BY <1>1, <1>3, TempEmpty
  <2> QED
      BY <1>1, <2>1, SameStream DEF TempOut
<1> QED
    BY <1>1, <1>2, <1>3 DEF OutInv, OutMemory, Ended, Results

LEMMA BeginOut ==
    ASSUME ConfigsAssumption, NoPartial, c \in Streams, Counted, OutInv, Begin PROVE OutInv'
<1>0. PICK n \in HostFrames : \E i, o \in 1 .. n :
          /\ hout' = Sets(c.cout, n, o, FALSE)
          /\ go' = IF ~NonAdapting(c) /\ Duplex THEN n ELSE 0
    BY DEF Begin
<1>1. PICK o \in 1 .. n :
          /\ hout' = Sets(c.cout, n, o, FALSE)
          /\ go' = IF ~NonAdapting(c) /\ Duplex THEN n ELSE 0
    BY <1>0
<1>2. /\ pc' = (IF ~NonAdapting(c) /\ Duplex THEN "copy" ELSE "splice")
      /\ done' = 0 /\ zeroed' = FALSE /\ pc = "idle"
      /\ UNCHANGED <<c, tout, outT, result, made, base>>
    BY DEF Begin, temps
<1>3. n \in Nat \ {0}
    BY StreamFacts, ConfigsAssumption DEF HostFrames, ConfigsAssumption
<1> SUFFICES ASSUME c.cout > 0 PROVE (OutMemory /\ TempOut /\ Ended /\ OutIdle)'
    BY <1>2 DEF OutInv
<1>4. c.cout \in Nat \ {0} /\ base \in Nat /\ OutMemory /\ TempOut /\ Ended
    BY StreamFacts DEF Counted, Types, OutInv
<1>5. Count(hout') = n
    BY <1>1, <1>3, <1>4, SetsCount
<1>6. Sent' = 0
  <2>1. Sent' = IF pc' \in {"copy", "fill"} THEN done' + go' - Count(hout') ELSE done' - go'
      BY DEF Sent, Count
  <2>2. CASE ~NonAdapting(c) /\ Duplex
    <3>1. pc' = "copy" /\ go' = n /\ done' = 0
        BY <1>1, <1>2, <2>2
    <3>2. 0 + n - n = 0
        BY <1>3
    <3> QED
        BY <1>5, <2>1, <3>1, <3>2
  <2>3. CASE ~(~NonAdapting(c) /\ Duplex)
    <3>1. pc' = "splice" /\ go' = 0 /\ done' = 0
        BY <1>1, <1>2, <2>3
    <3> QED
        BY <2>1, <3>1
  <2> QED
      BY <2>2, <2>3
<1>7. Cut(c, hout', c.cout, 0, 0) /\ Filled(c, hout', base, 0, made)
    BY <1>1, <1>3, <1>4, SetsCut, SetsEmpty
<1>8. OutMemory'
    BY <1>2, <1>6, <1>7 DEF OutMemory
<1>9. Put' = Put
  <2>1. Put' = IF pc' \in {"copy", "fill"} THEN base' + done' + go' - Count(hout') ELSE base' + done' - go'
      BY <1>2 DEF Put, Count
  <2>2. CASE ~NonAdapting(c) /\ Duplex
    <3>1. pc' = "copy" /\ go' = n /\ done' = 0 /\ base' = base
        BY <1>1, <1>2, <2>2
    <3>2. base + 0 + n - n = base
        BY <1>3, <1>4
    <3> QED
        BY <1>2, <1>5, <2>1, <3>1, <3>2 DEF Put
  <2>3. CASE ~(~NonAdapting(c) /\ Duplex)
    <3>1. pc' = "splice" /\ go' = 0 /\ done' = 0 /\ base' = base
        BY <1>1, <1>2, <2>3
    <3>2. base + 0 - 0 = base
        BY <1>4
    <3> QED
        BY <1>2, <2>1, <3>1, <3>2 DEF Put
  <2> QED
      BY <2>2, <2>3
<1>10. Ended'
    BY <1>1, <1>2, <1>3, <1>4, <1>9, SameStream DEF Ended
<1>11. TempOut'
    BY <1>2, <1>4, SameStream DEF TempOut
<1> QED
    BY <1>2, <1>8, <1>10, <1>11 DEF OutIdle

\* All that the host's sets hold is no more than their size.
LEMMA CutWithin ==
    ASSUME NEW s, NEW h, NEW chans, NEW d, NEW m, d \in Nat, Cut(s, h, chans, d, m), Counts(h)
    PROVE  h[1].size \in Nat /\ h[2].size \in Nat /\ d <= h[1].size + h[2].size
<1>1. /\ h[1].size \in Nat /\ h[2].size \in Nat /\ h[1].count \in Nat /\ h[2].count \in Nat
      /\ h[1].count = h[1].size - Part(h, 1, d) /\ h[2].count = h[2].size - Part(h, 2, d)
    BY DEF Cut, Counts
<1> QED
    BY <1>1 DEF Part, Least

LEMMA SpliceOut ==
    ASSUME ConfigsAssumption, NoPartial, c \in Streams, Counted, InInv, OutInv, Splice PROVE OutInv'
<1> DEFINE i == Set(hin)
           o == Set(hout)
           hasIn == c.cin > 0 /\ ~noInput
           n == IF ~hasIn THEN hout[o].count
                ELSE IF c.cout = 0 THEN hin[i].count
                ELSE Least(hin[i].count, hout[o].count)
<1>1. /\ pc = "splice" /\ out' = o /\ go' = n /\ done' = done + n
      /\ c.cout > 0 => hout' = [hout EXCEPT ![o].count = @ - n]
      /\ IF n = 0 THEN pc' = "idle" /\ base' = base + done
         ELSE /\ pc' = IF NonAdapting(c) THEN IF result = "continue" THEN "block" ELSE "rest"
                       ELSE IF c.cin > 0 THEN "input" ELSE "output"
              /\ base' = base
    BY DEF Splice, Ends
<1>2. UNCHANGED <<c, tout, outT, result, made, zeroed>>
    BY DEF Splice, temps
<1> SUFFICES ASSUME c.cout > 0 PROVE (OutMemory /\ TempOut /\ Ended /\ OutIdle)'
    BY <1>2 DEF OutInv
<1>3. Counts(hin) /\ Counts(hout) /\ i \in {1, 2} /\ o \in {1, 2} /\ outT \in Nat /\ made \in Nat
    BY DEF Counted, Types, Set
<1>4. hin[i].count \in Nat /\ hout[o].count \in Nat
    BY <1>3 DEF Counts
<1>5. n \in Nat /\ n <= hout[o].count
    BY <1>4 DEF Least
<1>6. done \in Nat /\ go = 0 /\ base \in Nat /\ c.cout \in Nat
    BY <1>1, StreamFacts DEF Counted, Types, Places
<1>7. OutMemory /\ TempOut /\ Ended
    BY DEF OutInv
<1> HIDE DEF n, i
<1>8. Sent = done
    BY <1>1, <1>6 DEF Sent
<1>9. Cut(c, hout, c.cout, done, done) /\ Filled(c, hout, base, done, made)
    BY <1>1, <1>7, <1>8 DEF OutMemory
<1>10. Room(hout, o, done, n)
    BY <1>3, <1>5, <1>6, <1>9, FirstLeft
<1> HIDE DEF o
<1>11. /\ {"count", "size", "mem", "ptr"} \subseteq DOMAIN hout'[o]
       /\ hout'[o].size = hout[o].size /\ hout'[o].count = hout[o].count - n
       /\ hout'[o].ptr = hout[o].ptr /\ hout'[o].mem = hout[o].mem
       /\ \A v \in {1, 2} : v # o => hout'[v] = hout[v]
  <2>1. hout' = [hout EXCEPT ![o].count = hout[o].count - n]
      BY <1>1
  <2>2. {"count", "size", "mem", "ptr"} \subseteq DOMAIN hout[o] /\ DOMAIN hout = {1, 2}
      BY <1>3, <1>9 DEF Cut, Counts
  <2> QED
      BY <1>3, <2>1, <2>2
<1>12. Cut(c, hout', c.cout, done + n, done)
    BY <1>3, <1>5, <1>6, <1>9, <1>10, <1>11, SetCounted
<1>13. \A v \in {1, 2} : hout'[v].size = hout[v].size /\ hout'[v].mem = hout[v].mem
    BY <1>11
<1>14. Filled(c, hout', base, done, made)
    BY <1>9, <1>13, FilledAs
<1>15. TempOut'
    BY <1>2, <1>7, SameStream DEF TempOut
<1>16. CASE n = 0
  <2>1. done' = done /\ pc' = "idle" /\ base' = base + done
      BY <1>1, <1>6, <1>16
  <2>2. Put = base + done /\ Put' = base + done
      BY <1>1, <1>6, <2>1 DEF Put
  <2>3. Ended'
      BY <1>2, <1>7, <2>1, <2>2, SameStream DEF Ended
  <2>4. done <= hout[1].size + hout[2].size /\ hout[1].size \in Nat /\ hout[2].size \in Nat
      BY <1>3, <1>6, <1>9, CutWithin
  <2>5. base' - done' = base
      BY <1>6, <2>1
  <2>6. Over(c, hout', base' - done', done, done', made, made, result)
      BY <1>6, <1>13, <1>14, <2>1, <2>4, <2>5 DEF Over
  <2>7. OutIdle'
      BY <1>2, <1>6, <2>6 DEF OutIdle
  <2> QED
      BY <1>15, <2>1, <2>3, <2>7 DEF OutMemory
<1>17. CASE n # 0
  <2>1. go' = n /\ done' = done + n /\ pc' \in {"block", "rest", "input", "output"} /\ base' = base
      BY <1>1, <1>17
  <2>2. Sent' = done
      BY <1>5, <1>6, <2>1 DEF Sent
  <2>3. Put = base + done /\ Put' = base + done
      BY <1>1, <1>5, <1>6, <2>1 DEF Put
  <2>4. Ended'
      BY <1>2, <1>7, <2>1, <2>3, SameStream DEF Ended
  <2>5. AtSet(hout', o, done + n, n)
      BY <1>3, <1>5, <1>6, <1>10, <1>13 DEF AtSet, Room
  <2>6. OutMemory'
      BY <1>1, <1>2, <1>5, <1>6, <1>12, <1>14, <1>17, <2>1, <2>2, <2>5 DEF OutMemory
  <2> QED
      BY <1>15, <2>1, <2>4, <2>6 DEF OutIdle
<1> QED
    BY <1>16, <1>17

LEMMA RestOut ==
    ASSUME ConfigsAssumption, NoPartial, c \in Streams, Counted, InInv, OutInv, ZeroRest PROVE OutInv'
<1>1. /\ pc = "rest" /\ pc' = "splice" /\ go' = 0
      /\ UNCHANGED <<c, tout, outT, result, done, made, base, zeroed>>
    BY DEF ZeroRest, temps, history
<1> SUFFICES ASSUME c.cout > 0 PROVE (OutMemory /\ TempOut /\ Ended /\ OutIdle)'
    BY <1>1 DEF OutInv
<1>2. PICK mem : mem = Zeroed(c.hostFormat, hout[out].mem, hout[out].ptr, HostStride(c.cout), go)
    OBVIOUS
<1>3. hout' = [hout EXCEPT ![out].mem = mem, ![out].ptr = Advanced(hout[out].ptr, go, HostStride(c.cout))]
    BY <1>2, StreamFacts DEF ZeroRest, HostFormat
<1>4. /\ c.cout \in Nat /\ go \in Nat /\ done \in Nat /\ base \in Nat /\ made \in Nat /\ outT = 0
      /\ Counts(hout) /\ go <= done /\ result # "continue" /\ NonAdapting(c)
    BY <1>1, StreamFacts DEF Counted, Types, Places, Phases, InInv, Evenly
<1>5. OutMemory /\ TempOut /\ Ended
    BY DEF OutInv
<1>6. PICK m \in Nat : m = done - go
    BY <1>4
<1>7. Sent = m /\ Sent' = m + go /\ Put = base + m /\ Put' = base + (m + go) /\ done = m + go
    BY <1>1, <1>4, <1>6 DEF Sent, Put
<1>8. go # 0 /\ AtSet(hout, out, done, go) /\ Cut(c, hout, c.cout, done, m) /\ Filled(c, hout, base, m, made)
    BY <1>1, <1>4, <1>5, <1>7 DEF OutMemory
<1>9. out \in {1, 2} /\ Room(hout, out, m, go)
  <2>1. /\ done \in Nat /\ go \in Nat /\ m \in Nat /\ m = done - go /\ go <= go
        /\ AtSet(hout, out, done, go) /\ Cut(c, hout, c.cout, done, m) /\ Counts(hout)
      BY <1>4, <1>6, <1>8
  <2> QED
      BY <2>1, AtRoom
<1>10. made + InitialOut(c) <= base + m /\ InitialOut(c) \in Nat
    BY <1>4, <1>5, <1>7, Initials DEF Ended
<1>11. Puts(c, hout, out, m, go, mem, base, made)
    BY <1>2, <1>4, <1>6, <1>8, <1>9, <1>10, PutsZeros
<1>12. After(hout, hout', out, mem, go, c.cout, hout[out].count)
  <2>1. DOMAIN hout = {1, 2} /\ {"count", "size", "mem", "ptr"} \subseteq DOMAIN hout[out]
      BY <1>4, <1>8, <1>9 DEF Counts, Cut
  <2> QED
      BY <1>3, <1>9, <2>1 DEF After
<1>13. Cut(c, hout', c.cout, done, m + go) /\ Filled(c, hout', base, m + go, made)
    BY <1>4, <1>6, <1>8, <1>9, <1>11, <1>12, PutOn
<1>14. OutMemory'
    BY <1>1, <1>4, <1>6, <1>7, <1>13 DEF OutMemory
<1>15. Ended'
    BY <1>1, <1>4, <1>5, <1>6, <1>7, <1>10, SameStream DEF Ended
<1>16. TempOut'
    BY <1>1, <1>5, SameStream DEF TempOut
<1> QED
    BY <1>1, <1>14, <1>15, <1>16 DEF OutIdle

LEMMA BlockOut ==
    ASSUME ConfigsAssumption, NoPartial, c \in Streams, Counted, InInv, OutInv, NEW r \in Results,
           NonAdaptingBlock(r)
    PROVE  OutInv'
<1>1. /\ go \in Nat \ {0} /\ done \in Nat /\ base \in Nat /\ made \in Nat /\ go <= done /\ Counts(hout)
      /\ pc = "block" /\ result = "continue"
    BY DEF NonAdaptingBlock, Callback, InInv, Evenly, Counted, Types
<1>2. TempFrames(c) \in Nat \ {0}
    BY StreamFacts DEF TempFrames, ConfigsAssumption
<1>3. PICK n \in Nat : n = Least(TempFrames(c), go)
    BY <1>1, <1>2 DEF Least
<1>4. n # 0 /\ n <= go
    BY <1>1, <1>2, <1>3 DEF Least
<1>5. /\ result' = r /\ made' = IF r = "abort" THEN made ELSE made + n
      /\ c.cout > 0 => Delivers(n, r)
      /\ IF r = "abort" THEN go' = go ELSE go' = go - n
      /\ pc' = IF go' = 0 THEN "splice" ELSE IF r = "continue" THEN "block" ELSE "rest"
      /\ UNCHANGED <<c, outT, out, done, base, zeroed>>
    BY <1>3, StreamFacts DEF NonAdaptingBlock, Callback
<1> SUFFICES ASSUME c.cout > 0 PROVE (OutMemory /\ TempOut /\ Ended /\ OutIdle)'
    BY <1>5 DEF OutInv
<1>6. NonAdapting(c) /\ c.cout \in Nat /\ outT = 0 /\ InitialOut(c) = 0
    BY <1>1, StreamFacts, Initials DEF Counted, Places, Phases
<1>7. OutMemory /\ Ended
    BY DEF OutInv
<1>8. PICK m \in Nat : m = done - go
    BY <1>1
<1>9. Sent = m /\ Put = base + m
    BY <1>1, <1>8 DEF Sent, Put
<1>10. AtSet(hout, out, done, go) /\ Cut(c, hout, c.cout, done, m) /\ Filled(c, hout, base, m, made)
    BY <1>1, <1>7, <1>9 DEF OutMemory
<1>11. out \in {1, 2} /\ Room(hout, out, m, n)
  <2>1. done \in Nat /\ go \in Nat /\ m \in Nat /\ m = done - go /\ n \in Nat /\ n <= go
      BY <1>1, <1>3, <1>4, <1>8
  <2> QED
      BY <1>1, <1>10, <2>1, AtRoom
<1>12. made = base + m
    BY <1>1, <1>6, <1>9 DEF Counted, Accounts
<1>13. TempOut' /\ pc' # "idle"
    BY <1>5, <1>6, SameStream DEF TempOut
<1> DEFINE h == hout[out]
           l == HostL(c, c.cout, h.size)
           b == Part(hout, out, m)
           u == UserL(c, c.cout, n)
           mem == IF Direct(c.cout) THEN Makes(h.mem, h.ptr, HostStride(c.cout), n)
                  ELSE Converted(c.hostFormat, h.mem, h.ptr, HostStride(c.cout),
                                 Makes(tout, Pointers(u, 0), Step(u), n), Pointers(u, 0), Step(u), n)
           ptr == Advanced(h.ptr, n, HostStride(c.cout))
<1>14. Puts(c, hout, out, m, n, mem, base, made + n)
  <2>1. CASE Direct(c.cout)
    <3>1. c.format = c.hostFormat /\ made + InitialOut(c) = base + m
        BY <1>1, <1>6, <1>12, <2>1 DEF Direct, UserFormat, HostFormat
    <3>2. Puts(c, hout, out, m, n, Makes(h.mem, h.ptr, HostStride(c.cout), n), base, made + n)
        BY <1>1, <1>3, <1>4, <1>6, <1>8, <1>10, <1>11, <3>1, PutsMakes
    <3> QED
        BY <2>1, <3>2
  <2>2. CASE ~Direct(c.cout)
    <3> DEFINE src == Makes(tout, Pointers(u, 0), Step(u), n)
    <3>1. IsLayout(u) /\ u.chans = c.cout /\ u.size = n
        BY <1>3, <1>6, Layouts
    <3>2. 0 \in Nat /\ 0 + n <= u.size
        BY <1>3, <3>1
    <3> HIDE DEF u
    <3>3. Lies(src, c.format, u, 0, 0 + n, made + 1 - 0)
        BY <1>1, <1>3, <3>1, <3>2, MakesLie
    <3> HIDE DEF src
    <3>4. /\ made + 1 - 0 \in Int /\ (made + 1 - 0) + 0 + InitialOut(c) = base + m + 1
          /\ (made + 1 - 0) + 0 + n <= (made + n) + 1 /\ made + n \in Nat
        BY <1>1, <1>3, <1>6, <1>8, <1>12
    <3>5. Puts(c, hout, out, m, n, Converted(c.hostFormat, h.mem, h.ptr, HostStride(c.cout),
                                             src, Pointers(u, 0), Step(u), n), base, made + n)
        BY <1>1, <1>3, <1>4, <1>6, <1>8, <1>10, <1>11, <3>1, <3>2, <3>3, <3>4, PutsConverted
    <3> QED
        BY <2>2, <3>5 DEF src
  <2> QED
      BY <2>1, <2>2
<1>15. \/ hout' = [hout EXCEPT ![out].mem = mem, ![out].ptr = IF r = "abort" THEN h.ptr ELSE ptr]
       \/ r = "abort" /\ hout' = hout
  <2>1. Delivers(n, r)
      BY <1>5
  <2>2. CASE Direct(c.cout)
      BY <2>1, <2>2 DEF Delivers
  <2>3. CASE ~Direct(c.cout)
    <3>1. UserPtrs(c.cout, n, 0) = Pointers(u, 0) /\ UserStride(c.cout) = Step(u)
        BY Pointing
    <3> QED
        BY <2>1, <2>3, <3>1 DEF Delivers, HostFormat
  <2> QED
      BY <2>2, <2>3
<1>16. DOMAIN hout = {1, 2} /\ {"count", "size", "mem", "ptr"} \subseteq DOMAIN hout[out]
    BY <1>1, <1>10, <1>11 DEF Counts, Cut
<1> HIDE DEF mem, h
<1>17. CASE r # "abort"
  <2>1. After(hout, hout', out, mem, n, c.cout, hout[out].count)
      BY <1>11, <1>15, <1>16, <1>17 DEF After, h
  <2>2. Filled(c, hout, base, m, made + n)
    <3>1. base + m <= made + InitialOut(c)
        BY <1>1, <1>6, <1>12
    <3> QED
        BY <1>1, <1>3, <1>8, <1>10, <3>1, FilledMore
  <2>3. Cut(c, hout', c.cout, done, m + n) /\ Filled(c, hout', base, m + n, made + n)
      BY <1>1, <1>3, <1>4, <1>6, <1>8, <1>10, <1>11, <1>14, <2>1, <2>2, PutOn
  <2>4. made' = made + n /\ go' = go - n /\ pc' \notin {"copy", "fill", "idle", "output"}
      BY <1>5, <1>17
  <2>5. Sent' = m + n
    <3>1. done - (go - n) = m + n
        BY <1>1, <1>3, <1>8
    <3> QED
        BY <1>5, <2>4, <3>1 DEF Sent
  <2>6. Put' = base + (m + n)
    <3>1. base + done - (go - n) = base + (m + n)
        BY <1>1, <1>3, <1>8
    <3> QED
        BY <1>5, <2>4, <3>1 DEF Put
  <2>7. go' \in Nat /\ (pc' \in {"block", "rest"} => go' > 0)
      BY <1>1, <1>3, <1>4, <1>5, <2>4
  <2>8. AtSet(hout', out, done, go')
    <3>1. hout'[1].size = hout[1].size
        BY <1>11, <2>1 DEF After
    <3>2. hout[1].size \in Nat
        BY <1>10 DEF Cut
    <3> QED
        BY <1>1, <1>3, <1>4, <1>10, <2>4, <3>1, <3>2 DEF AtSet
  <2>9. OutMemory'
      BY <1>3, <1>5, <1>8, <2>3, <2>4, <2>5, <2>7, <2>8 DEF OutMemory
  <2>10. Ended'
    <3>1. made + n + 0 <= 0 + (base + (m + n))
        BY <1>1, <1>3, <1>8, <1>12
    <3> QED
        BY <1>5, <1>6, <1>17, <2>4, <2>6, <3>1, SameStream DEF Ended
  <2> QED
      BY <1>13, <2>9, <2>10 DEF OutIdle
<1>18. CASE r = "abort"
  <2>1. Cut(c, hout', c.cout, done, m) /\ Filled(c, hout', base, m, made)
    <3>1. CASE hout' = hout
        BY <1>10, <3>1
    <3>2. CASE hout' = [hout EXCEPT ![out].mem = mem, ![out].ptr = h.ptr]
      <4>1. hout' = [hout EXCEPT ![out].mem = mem]
          BY <1>11, <1>16, <3>2 DEF h
      <4>2. Wrote(mem, hout[out].mem, HostL(c, c.cout, hout[out].size), Part(hout, out, m), n)
          BY <1>14 DEF Puts
      <4> QED
          BY <1>1, <1>3, <1>4, <1>6, <1>8, <1>10, <1>11, <1>16, <4>1, <4>2, Overwritten
    <3> QED
        BY <1>15, <1>18, <3>1, <3>2
  <2>2. made' = made /\ go' = go /\ pc' = "rest" /\ result' = "abort"
      BY <1>1, <1>5, <1>18
  <2>3. Sent' = m /\ Put' = base + m
      BY <1>1, <1>5, <1>8, <2>2 DEF Sent, Put
  <2>4. hout'[1].size = hout[1].size
    <3>1. hout'[1].size = IF out = 1 THEN hout[1].size ELSE hout[1].size
        BY <1>11, <1>15, <1>16, <1>18
    <3> QED
        BY <3>1
  <2>5. OutMemory'
      BY <1>1, <1>5, <1>8, <1>10, <2>1, <2>2, <2>3, <2>4 DEF OutMemory, AtSet
  <2>6. Ended'
    <3>1. made + 0 <= 0 + (base + m)
        BY <1>1, <1>8, <1>12
    <3> QED
        BY <1>5, <1>6, <2>2, <2>3, <3>1, SameStream DEF Ended, Results
  <2> QED
      BY <1>13, <2>5, <2>6 DEF OutIdle
<1> QED
    BY <1>17, <1>18

\* What of the user's buffer is put, of which the last `held' frames are left.
LEMMA PutsHeld ==
    ASSUME NEW h, NEW d, NEW m, NEW w, NEW n, NEW at, NEW top, NEW t, NEW held,
           ConfigsAssumption, NoPartial, c \in Streams, ~NonAdapting(c),
           c.cout \in Nat, d \in Nat, m \in Nat, w \in {1, 2}, n \in Nat, n # 0, at \in Nat, top \in Nat,
           held \in Nat, held <= c.user, n <= held,
           Cut(c, h, c.cout, d, m), Room(h, w, m, n),
           Lies(t, c.format, UserL(c, c.cout, c.user), c.user - held, c.user, top + 1 - c.user),
           top + InitialOut(c) = held + (at + m)
    PROVE  /\ Puts(c, h, w, m, n, Spends(t, h[w], held, n).mem, at, top)
           /\ Lies(t, c.format, UserL(c, c.cout, c.user), c.user - (held - n), c.user, top + 1 - c.user)
<1> DEFINE u == UserL(c, c.cout, c.user)
           a == c.user - held
           from == top + 1 - c.user
<1>1. c.user \in Nat /\ InitialOut(c) \in Nat
    BY StreamFacts, Initials
<1>2. IsLayout(u) /\ u.chans = c.cout
    BY <1>1, Layouts
<1>3. /\ a \in Nat /\ from \in Int /\ a + n <= c.user /\ a + n \in Int /\ a \in Int /\ c.user \in Int
      /\ from + a + InitialOut(c) = at + m + 1 /\ from + a + n <= top + 1
      /\ c.user - (held - n) = a + n
    BY <1>1
<1>4. Spends(t, h[w], held, n).mem
         = Converted(c.hostFormat, h[w].mem, h[w].ptr, HostStride(c.cout), t, Pointers(u, a), Step(u), n)
  <2>1. {"mem", "ptr"} \subseteq DOMAIN h[w]
      BY DEF Cut
  <2> QED
      BY <2>1, Pointing DEF Spends, HostFormat
<1> HIDE DEF u, a, from
<1>5. Lies(t, c.format, u, a, c.user, from)
    BY DEF u, a, from
<1>6. Lies(t, c.format, u, a, a + n, from)
    BY <1>3, <1>5, Within
<1>7. Lies(t, c.format, u, a + n, c.user, from)
    BY <1>3, <1>5, Within
<1>8. Puts(c, h, w, m, n, Converted(c.hostFormat, h[w].mem, h[w].ptr, HostStride(c.cout),
                                    t, Pointers(u, a), Step(u), n), at, top)
    BY <1>2, <1>3, <1>6, PutsConverted
<1> QED
    BY <1>3, <1>4, <1>7, <1>8 DEF u, from

LEMMA PutsSilence ==
    ASSUME NEW h, NEW d, NEW m, NEW w, NEW n, NEW at, NEW top,
           ConfigsAssumption, NoPartial, c \in Streams,
           c.cout \in Nat, d \in Nat, m \in Nat, w \in {1, 2}, n \in Nat, n # 0, at \in Nat, top \in Nat,
           Cut(c, h, c.cout, d, m), Room(h, w, m, n), top + InitialOut(c) <= at + m
    PROVE  Puts(c, h, w, m, n, Silences(h[w], n).mem, at, top)
<1>1. {"mem", "ptr"} \subseteq DOMAIN h[w]
    BY DEF Cut
<1>2. Silences(h[w], n).mem = Zeroed(c.hostFormat, h[w].mem, h[w].ptr, HostStride(c.cout), n)
    BY <1>1 DEF Silences, HostFormat
<1> QED
    BY <1>2, PutsZeros

\* What the user makes fills its buffer.
LEMMA MadeWhole ==
    ASSUME ConfigsAssumption, NoPartial, c \in Streams, c.cout \in Nat, made \in Nat, c.user \in Nat
    PROVE  Lies(Makes(tout, UserPtrs(c.cout, c.user, 0), UserStride(c.cout), c.user), c.format,
                UserL(c, c.cout, c.user), c.user - c.user, c.user, (made + c.user) + 1 - c.user)
<1> DEFINE u == UserL(c, c.cout, c.user)
<1>1. IsLayout(u) /\ u.size = c.user /\ UserPtrs(c.cout, c.user, 0) = Pointers(u, 0)
      /\ UserStride(c.cout) = Step(u)
    BY Layouts, Pointing
<1>2. /\ 0 \in Nat /\ 0 + c.user <= u.size /\ 0 + c.user = c.user /\ c.user - c.user = 0
      /\ made + 1 - 0 = (made + c.user) + 1 - c.user
    BY <1>1
<1> HIDE DEF u
<1>3. Lies(Makes(tout, Pointers(u, 0), Step(u), c.user), c.format, u, 0, 0 + c.user, made + 1 - 0)
    BY <1>1, <1>2, MakesLie
<1> QED
    BY <1>1, <1>2, <1>3 DEF u

LEMMA OutputOut ==
    ASSUME ConfigsAssumption, NoPartial, c \in Streams, Counted, InInv, OutInv, NEW r \in Results,
           AdaptingOutput(r)
    PROVE  OutInv'
<1>1. /\ pc = "output" /\ go \in Nat \ {0} /\ done \in Nat /\ base \in Nat /\ made \in Nat /\ outT \in Nat
      /\ go <= done /\ Counts(hout)
    BY DEF AdaptingOutput, InInv, Evenly, Counted, Types, Places
<1>2. ~NonAdapting(c) /\ ~Duplex /\ c.cout > 0 /\ c.cout \in Nat /\ c.user \in Nat \ {0}
  <2>1. pc \in Phases
      BY <1>1 DEF Counted, Places
  <2> QED
      BY <1>1, <2>1, StreamFacts DEF Phases
<1>3. PICK held \in Nat : held = IF outT = 0 /\ result = "continue" /\ r # "abort" THEN c.user ELSE outT
    BY <1>1, <1>2
<1>4. PICK n \in Nat : n = IF held > 0 THEN Least(held, go) ELSE go
    BY <1>1, <1>3 DEF Least
<1>5. /\ IF outT = 0 /\ result = "continue"
         THEN Callback(<<>>, c.user, r)
              /\ tout' = Makes(tout, UserPtrs(c.cout, c.user, 0), UserStride(c.cout), c.user)
         ELSE r = result /\ UNCHANGED <<made, result, tout>>
      /\ hout' = [hout EXCEPT ![out] = IF held > 0 THEN Spends(tout', hout[out], held, n)
                                       ELSE Silences(hout[out], n)]
      /\ outT' = IF held > 0 THEN held - n ELSE 0
      /\ go' = go - n
      /\ pc' = IF go' = 0 THEN "splice" ELSE "output"
      /\ UNCHANGED <<c, out, done, base, zeroed>>
    BY <1>3, <1>4 DEF AdaptingOutput, OutputMade
<1> SUFFICES ASSUME TRUE PROVE (OutMemory /\ TempOut /\ Ended /\ OutIdle)'
    BY <1>5 DEF OutInv
<1>6. n # 0 /\ n <= go /\ (held > 0 => n <= held)
    BY <1>1, <1>3, <1>4 DEF Least
<1>7. OutMemory /\ TempOut /\ Ended
    BY <1>2 DEF OutInv
<1>8. PICK m \in Nat : m = done - go
    BY <1>1
<1>9. Sent = m /\ Put = base + m
    BY <1>1, <1>8 DEF Sent, Put
<1>10. AtSet(hout, out, done, go) /\ Cut(c, hout, c.cout, done, m) /\ Filled(c, hout, base, m, made)
    BY <1>1, <1>7, <1>9 DEF OutMemory
<1>11. out \in {1, 2} /\ Room(hout, out, m, n)
  <2>1. done \in Nat /\ go \in Nat /\ m \in Nat /\ m = done - go /\ n \in Nat /\ n <= go
      BY <1>1, <1>4, <1>6, <1>8
  <2> QED
      BY <1>1, <1>10, <2>1, AtRoom
<1>12. InitialOut(c) \in Nat /\ outT <= c.user
    BY <1>2, <1>7, Initials DEF TempOut
<1>13. /\ result = "continue" => made + InitialOut(c) = outT + (base + m)
       /\ result # "continue" => /\ made + InitialOut(c) <= outT + (base + m)
                                 /\ outT > 0 => made + InitialOut(c) = outT + (base + m)
       /\ result = "abort" => outT = 0
    BY <1>2, <1>7, <1>9 DEF Counted, Accounts, Ended
<1>14. Lies(tout, c.format, UserL(c, c.cout, c.user), c.user - outT, c.user, made + 1 - c.user)
    BY <1>2, <1>7 DEF TempOut
\* The callback was called, or need not be.
<1>15. /\ made' \in Nat /\ result' = r /\ held <= c.user
       /\ held > 0 => made' + InitialOut(c) = held + (base + m)
       /\ held = 0 => made' + InitialOut(c) <= base + m
       /\ r = "abort" => held = 0
       /\ held > 0 => Lies(tout', c.format, UserL(c, c.cout, c.user), c.user - held, c.user, made' + 1 - c.user)
       /\ Filled(c, hout, base, m, made')
  <2>1. CASE outT = 0 /\ result = "continue" /\ r # "abort"
    <3>1. /\ made' = made + c.user /\ held = c.user /\ result' = r
          /\ tout' = Makes(tout, UserPtrs(c.cout, c.user, 0), UserStride(c.cout), c.user)
        BY <1>3, <1>5, <2>1 DEF Callback
    <3>2. Lies(tout', c.format, UserL(c, c.cout, c.user), c.user - c.user, c.user, (made + c.user) + 1 - c.user)
        BY <1>1, <1>2, <3>1, MadeWhole
    <3>3. made + InitialOut(c) = base + m /\ base + m <= made + InitialOut(c)
        BY <1>1, <1>8, <1>12, <1>13, <2>1
    <3>4. Filled(c, hout, base, m, made + c.user)
        BY <1>1, <1>2, <1>8, <1>10, <3>3, FilledMore
    <3>5. made + c.user + InitialOut(c) = c.user + (base + m)
        BY <1>1, <1>2, <1>8, <1>12, <3>3
    <3> QED
        BY <1>1, <1>2, <2>1, <3>1, <3>2, <3>4, <3>5
  <2>2. CASE outT = 0 /\ result = "continue" /\ r = "abort"
    <3>1. made' = made /\ result' = r /\ held = 0
        BY <1>3, <1>5, <2>2 DEF Callback
    <3> QED
        BY <1>1, <1>2, <1>8, <1>10, <1>12, <1>13, <2>2, <3>1
  <2>3. CASE ~(outT = 0 /\ result = "continue")
    <3>1. made' = made /\ result' = r /\ r = result /\ held = outT /\ tout' = tout
        BY <1>3, <1>5, <2>3
    <3> QED
        BY <1>1, <1>2, <1>8, <1>10, <1>12, <1>13, <1>14, <2>3, <3>1
  <2> QED
      BY <2>1, <2>2, <2>3
<1>16. PICK mem : mem = IF held > 0 THEN Spends(tout', hout[out], held, n).mem ELSE Silences(hout[out], n).mem
    OBVIOUS
<1>17. Puts(c, hout, out, m, n, mem, base, made')
  <2>1. CASE held > 0
    <3>1. Puts(c, hout, out, m, n, Spends(tout', hout[out], held, n).mem, base, made')
        BY <1>1, <1>2, <1>3, <1>4, <1>6, <1>8, <1>10, <1>11, <1>15, <2>1, PutsHeld
    <3> QED
        BY <1>16, <2>1, <3>1
  <2>2. CASE held = 0
    <3>1. Puts(c, hout, out, m, n, Silences(hout[out], n).mem, base, made')
        BY <1>1, <1>2, <1>4, <1>6, <1>8, <1>10, <1>11, <1>15, <2>2, PutsSilence
    <3> QED
        BY <1>16, <2>2, <3>1
  <2> QED
      BY <1>3, <2>1, <2>2
<1>18. After(hout, hout', out, mem, n, c.cout, hout[out].count)
  <2>1. DOMAIN hout = {1, 2} /\ {"count", "size", "mem", "ptr"} \subseteq DOMAIN hout[out]
      BY <1>1, <1>10, <1>11 DEF Counts, Cut
  <2>2. CASE held > 0
    <3>1. hout'[out] = Spends(tout', hout[out], held, n)
        BY <1>5, <1>11, <2>1, <2>2
    <3> QED
        BY <1>5, <1>11, <1>16, <2>1, <2>2, <3>1 DEF After, Spends
  <2>3. CASE ~(held > 0)
    <3>1. hout'[out] = Silences(hout[out], n)
        BY <1>5, <1>11, <2>1, <2>3
    <3> QED
        BY <1>5, <1>11, <1>16, <2>1, <2>3, <3>1 DEF After, Silences
  <2> QED
      BY <2>2, <2>3
<1>19. Cut(c, hout', c.cout, done, m + n) /\ Filled(c, hout', base, m + n, made')
    BY <1>1, <1>2, <1>4, <1>6, <1>8, <1>10, <1>11, <1>15, <1>17, <1>18, PutOn
<1>20. Sent' = m + n /\ Put' = base + (m + n)
  <2>1. done - (go - n) = m + n /\ base + done - (go - n) = base + (m + n)
      BY <1>1, <1>4, <1>8
  <2> QED
      BY <1>5, <2>1 DEF Sent, Put
<1>21. OutMemory'
  <2>1. go' \in Nat /\ (pc' = "output" => go' > 0) /\ pc' \in {"splice", "output"}
      BY <1>1, <1>4, <1>5, <1>6
  <2>2. AtSet(hout', out, done, go')
    <3>1. hout'[1].size = hout[1].size
        BY <1>11, <1>18 DEF After
    <3>2. hout[1].size \in Nat
        BY <1>10 DEF Cut
    <3>3. go' = go - n
        BY <1>5
    <3>4. go \in Nat /\ n \in Nat /\ done \in Nat /\ AtSet(hout, out, done, go)
        BY <1>1, <1>4, <1>10
    <3> QED
        BY <3>1, <3>2, <3>3, <3>4 DEF AtSet
  <2> QED
      BY <1>4, <1>5, <1>8, <1>19, <1>20, <2>1, <2>2 DEF OutMemory
<1>22. Ended'
  <2>1. /\ made' + InitialOut(c) <= outT' + (base + (m + n))
        /\ outT' > 0 => made' + InitialOut(c) = outT' + (base + (m + n))
        /\ r = "abort" => outT' = 0
    <3>1. CASE held > 0
      <4>1. /\ held \in Nat /\ n \in Nat /\ base \in Nat /\ m \in Nat
            /\ outT' = held - n /\ made' + InitialOut(c) = held + (base + m) /\ r # "abort"
          BY <1>1, <1>3, <1>4, <1>5, <1>8, <1>15, <3>1
      <4>2. held + (base + m) = (held - n) + (base + (m + n))
          BY <4>1
      <4>3. outT' + (base + (m + n)) \in Int
          BY <4>1
      <4> QED
          BY <4>1, <4>2, <4>3
    <3>2. CASE held = 0
      <4>1. /\ n \in Nat /\ base \in Nat /\ m \in Nat /\ outT' = 0
            /\ made' \in Nat /\ InitialOut(c) \in Nat /\ made' + InitialOut(c) <= base + m
          BY <1>1, <1>4, <1>5, <1>8, <1>12, <1>15, <3>2
      <4>2. base + m <= 0 + (base + (m + n))
          BY <4>1
      <4>3. made' + InitialOut(c) <= 0 + (base + (m + n))
          BY <4>1, <4>2
      <4> QED
          BY <4>1, <4>3
    <3> QED
        BY <1>3, <3>1, <3>2
  <2>2. pc' \in {"splice", "output"}
      BY <1>5
  <2> QED
      BY <1>5, <1>15, <1>20, <2>1, <2>2, SameStream DEF Ended
<1>23. TempOut'
  <2>1. CASE held > 0
    <3>1. Lies(tout', c.format, UserL(c, c.cout, c.user), c.user - (held - n), c.user, made' + 1 - c.user)
        BY <1>1, <1>2, <1>3, <1>4, <1>6, <1>8, <1>10, <1>11, <1>15, <2>1, PutsHeld
    <3>2. outT' = held - n /\ outT' <= c.user
        BY <1>2, <1>3, <1>4, <1>5, <1>15, <2>1
    <3> QED
        BY <1>5, <3>1, <3>2, SameStream DEF TempOut
  <2>2. CASE held = 0
    <3>1. outT' = 0
        BY <1>5, <2>2
    <3>2. Lies(tout', c.format, UserL(c, c.cout, c.user), c.user - 0, c.user, made' + 1 - c.user)
        BY <1>2 DEF Lies
    <3> QED
        BY <1>2, <1>5, <3>1, <3>2, SameStream DEF TempOut
  <2> QED
      BY <1>3, <2>1, <2>2
<1> QED
    BY <1>5, <1>21, <1>22, <1>23 DEF OutIdle

LEMMA CopyOut ==
    ASSUME ConfigsAssumption, NoPartial, c \in Streams, Counted, OutInv,
           CopyTempOutputBuffersToHostOutputBuffers
    PROVE  OutInv'
<1> DEFINE w == Set(hout)
<1>1. /\ pc = "copy" /\ pc' = "copy" /\ outT > 0 /\ Count(hout) > 0
      /\ go \in Nat /\ done \in Nat /\ base \in Nat /\ made \in Nat /\ outT \in Nat /\ Counts(hout)
      /\ UNCHANGED <<c, tout, result, go, done, made, base, zeroed>>
    BY DEF CopyTempOutputBuffersToHostOutputBuffers, MustCopy, loop, history, Counted, Types
<1>2. ~NonAdapting(c) /\ Duplex /\ c.cout > 0 /\ c.cout \in Nat /\ c.user \in Nat
    BY <1>1, StreamFacts DEF Counted, Places, Phases, Duplex
<1> SUFFICES ASSUME TRUE PROVE (OutMemory /\ TempOut /\ Ended /\ OutIdle)'
    BY <1>1 DEF OutInv
<1>3. w \in {1, 2} /\ hout[w].count \in Nat \ {0}
    BY <1>1 DEF Count, Counts, Set
<1>4. PICK n \in Nat : n = Least(hout[w].count, outT)
    BY <1>1, <1>3 DEF Least
<1>5. n # 0 /\ n <= hout[w].count /\ n <= outT
    BY <1>1, <1>3, <1>4 DEF Least
<1>6. /\ hout' = [hout EXCEPT ![w] = [Spends(tout, hout[w], outT, n) EXCEPT !.count = hout[w].count - n]]
      /\ outT' = outT - n
    BY <1>4 DEF CopyTempOutputBuffersToHostOutputBuffers
<1>7. OutMemory /\ TempOut /\ Ended
    BY <1>2 DEF OutInv
<1>8. PICK m \in Nat : m = Sent
    BY <1>1, <1>7 DEF OutMemory
<1>9. Put = base + m /\ Count(hout) \in Nat /\ m = done + go - Count(hout)
    BY <1>1, <1>8, PutSent DEF Counted, Sent
<1>10. Cut(c, hout, c.cout, m, m) /\ Filled(c, hout, base, m, made)
    BY <1>1, <1>7, <1>8 DEF OutMemory
<1>11. Room(hout, w, m, n)
    BY <1>1, <1>4, <1>5, <1>10, FirstLeft
<1> HIDE DEF w
<1>12. /\ Lies(tout, c.format, UserL(c, c.cout, c.user), c.user - outT, c.user, made + 1 - c.user)
       /\ outT <= c.user
    BY <1>2, <1>7 DEF TempOut
<1>13. made + InitialOut(c) = outT + (base + m)
    BY <1>1, <1>2, <1>7, <1>9 DEF Counted, Accounts, Ended
<1>14. PICK mem : mem = Spends(tout, hout[w], outT, n).mem
    OBVIOUS
<1>15. /\ Puts(c, hout, w, m, n, mem, base, made)
       /\ Lies(tout, c.format, UserL(c, c.cout, c.user), c.user - (outT - n), c.user, made + 1 - c.user)
    BY <1>1, <1>2, <1>3, <1>4, <1>5, <1>8, <1>10, <1>11, <1>12, <1>13, <1>14, PutsHeld
<1>16. DOMAIN hout = {1, 2} /\ {"count", "size", "mem", "ptr"} \subseteq DOMAIN hout[w]
    BY <1>1, <1>3, <1>10 DEF Counts, Cut
<1>17. After(hout, hout', w, mem, n, c.cout, hout[w].count - n)
    BY <1>3, <1>6, <1>14, <1>16 DEF After, Spends
<1>18. Cut(c, hout', c.cout, m + n, m + n) /\ Filled(c, hout', base, m + n, made)
    BY <1>1, <1>2, <1>3, <1>4, <1>5, <1>8, <1>10, <1>11, <1>15, <1>16, <1>17, PutAway
<1>19. Count(hout') = Count(hout) - n
    BY <1>1, <1>3, <1>4, <1>6, <1>16 DEF Count, Counts
<1>20. Sent' = m + n /\ Put' = base + (m + n)
  <2>1. done + go - (Count(hout) - n) = m + n /\ base + done + go - (Count(hout) - n) = base + (m + n)
      BY <1>1, <1>4, <1>9
  <2>2. Count(hout)' = Count(hout) - n
      BY <1>19 DEF Count
  <2> QED
      BY <1>1, <2>1, <2>2 DEF Sent, Put
<1>21. OutMemory'
    BY <1>1, <1>4, <1>8, <1>18, <1>20 DEF OutMemory
<1>22. Ended'
  <2>1. made + InitialOut(c) = (outT - n) + (base + (m + n))
      BY <1>1, <1>4, <1>8, <1>13
  <2>2. Count(hout)' = Count(hout) - n
      BY <1>19 DEF Count
  <2>3. result # "abort" /\ (result = "complete" /\ go = 0 => Count(hout) - n <= outT - n)
      BY <1>1, <1>4, <1>7, <1>9 DEF Ended
  <2>4. (outT - n) + (base + (m + n)) \in Int
      BY <1>1, <1>4, <1>8
  <2> QED
      BY <1>1, <1>6, <1>7, <1>20, <2>1, <2>2, <2>3, <2>4, SameStream DEF Ended
<1>23. TempOut'
  <2>1. outT - n <= c.user
      BY <1>1, <1>2, <1>4, <1>12
  <2> QED
      BY <1>1, <1>6, <1>15, <2>1, SameStream DEF TempOut
<1> QED
    BY <1>1, <1>21, <1>22, <1>23 DEF OutIdle

\* What remains of a set is silenced.
LEMMA SilenceSet ==
    ASSUME NEW h, NEW k, NEW m, NEW w, NEW n, NEW at, NEW top,
           ConfigsAssumption, NoPartial, c \in Streams, c.cout \in Nat, m \in Nat, w \in {1, 2}, n \in Nat,
           at \in Nat, top \in Nat, Cut(c, h, c.cout, m, m), Filled(c, h, at, m, top), DOMAIN h = {1, 2},
           n = h[w].count, n # 0 => Room(h, w, m, n), top + InitialOut(c) <= at + m,
           k[w] = IF n = 0 THEN h[w] ELSE [Silences(h[w], n) EXCEPT !.count = 0],
           \A v \in {1, 2} : v # w => k[v] = h[v]
    PROVE  Cut(c, k, c.cout, m + n, m + n) /\ Filled(c, k, at, m + n, top)
<1>1. CASE n = 0
  <2>1. \A v \in {1, 2} : k[v] = h[v]
      BY <1>1
  <2>2. m + n = m
      BY <1>1
  <2>3. k[1] = h[1]
      BY <2>1
  <2>4. \A v \in {1, 2} : Part(k, v, m) = Part(h, v, m)
      BY <2>3 DEF Part
  <2>5. Cut(c, k, c.cout, m, m)
      BY <2>1, <2>4 DEF Cut
  <2>6. Filled(c, k, at, m, top)
      BY <2>1, FilledAs
  <2> QED
      BY <2>2, <2>5, <2>6
<1>2. CASE n # 0
  <2>1. PICK mem : mem = Silences(h[w], n).mem
      OBVIOUS
  <2>2. Puts(c, h, w, m, n, mem, at, top)
      BY <1>2, <2>1, PutsSilence
  <2>3. {"count", "size", "mem", "ptr"} \subseteq DOMAIN h[w] /\ n - n = 0
      BY DEF Cut
  <2>4. After(h, k, w, mem, n, c.cout, h[w].count - n)
      BY <1>2, <2>1, <2>3 DEF After, Silences
  <2> QED
      BY <1>2, <2>2, <2>4, PutAway
<1> QED
    BY <1>1, <1>2

LEMMA MoreOut ==
    ASSUME ConfigsAssumption, NoPartial, c \in Streams, Counted, OutInv, AdaptingMore PROVE OutInv'
<1>1. /\ pc = "copy" /\ pc' = "fill"
      /\ go \in Nat /\ done \in Nat /\ base \in Nat /\ made \in Nat /\ outT \in Nat /\ Counts(hout)
      /\ outT = 0 \/ ~(Count(hout) > 0)
      /\ UNCHANGED <<c, tout, outT, result, go, done, made, base, zeroed>>
    BY DEF AdaptingMore, MustCopy, temps, history, Counted, Types
<1>2. ~NonAdapting(c) /\ Duplex /\ c.cout > 0 /\ c.cout \in Nat
    BY <1>1, StreamFacts DEF Counted, Places, Phases, Duplex
<1> SUFFICES ASSUME TRUE PROVE (OutMemory /\ TempOut /\ Ended /\ OutIdle)'
    BY <1>1 DEF OutInv
<1>3. OutMemory /\ TempOut /\ Ended
    BY <1>2 DEF OutInv
<1>4. PICK m \in Nat : m = Sent
    BY <1>1, <1>3 DEF OutMemory
<1>5. Put = base + m /\ Count(hout) \in Nat /\ m = done + go - Count(hout)
    BY <1>1, <1>4, PutSent DEF Counted, Sent
<1>6. Cut(c, hout, c.cout, m, m) /\ Filled(c, hout, base, m, made)
    BY <1>1, <1>3, <1>4 DEF OutMemory
<1>7. TempOut'
    BY <1>1, <1>3, SameStream DEF TempOut
<1>8. CASE outT # 0 \/ result = "continue"
  <2>1. hout' = hout
      BY <1>8 DEF AdaptingMore
  <2>2. Sent' = m /\ Put' = base + m /\ Count(hout)' = Count(hout)
      BY <1>1, <1>4, <1>5, <2>1 DEF Sent, Put, Count
  <2>3. OutMemory'
      BY <1>1, <1>6, <2>1, <2>2 DEF OutMemory
  <2>4. result # "continue" => Count(hout) = 0
      BY <1>1, <1>5, <1>8
  <2>5. Ended'
      BY <1>1, <1>3, <1>5, <2>2, <2>4, SameStream DEF Ended
  <2> QED
      BY <1>1, <1>7, <2>3, <2>5 DEF OutIdle
<1>9. CASE ~(outT # 0 \/ result = "continue")
  <2>1. hout' = [x \in 1 .. 2 |-> IF hout[x].count = 0 THEN hout[x]
                                  ELSE [Silences(hout[x], hout[x].count) EXCEPT !.count = 0]]
      BY <1>9 DEF AdaptingMore
  <2>2. PICK a \in Nat : a = hout[1].count
      BY <1>1 DEF Counts
  <2>3. PICK b \in Nat : b = hout[2].count
      BY <1>1 DEF Counts
  <2>4. Count(hout) = a + b
      BY <2>2, <2>3 DEF Count
  <2>5. /\ hout[1].size \in Nat /\ hout[2].size \in Nat
        /\ a = hout[1].size - Least(m, hout[1].size)
        /\ b = hout[2].size - (IF m > hout[1].size THEN m - hout[1].size ELSE 0)
      BY <1>6, <2>2, <2>3 DEF Cut, Part
  <2>6. PICK j : j = [hout EXCEPT ![1] = hout'[1]]
      OBVIOUS
  <2>7. DOMAIN hout = {1, 2}
      BY <1>1 DEF Counts
  <2>8. j[1] = hout'[1] /\ j[2] = hout[2] /\ DOMAIN j = {1, 2}
      BY <2>6, <2>7
  <2>9. made + InitialOut(c) <= base + m /\ InitialOut(c) \in Nat
      BY <1>1, <1>3, <1>4, <1>5, <1>9, Initials DEF Ended
  <2>10. Cut(c, j, c.cout, m + a, m + a) /\ Filled(c, j, base, m + a, made)
    <3>1. a # 0 => Room(hout, 1, m, a)
        BY <2>2, <2>5 DEF Room, Least
    <3>2. j[1] = IF a = 0 THEN hout[1] ELSE [Silences(hout[1], a) EXCEPT !.count = 0]
        BY <2>1, <2>2, <2>8
    <3>3. 1 \in {1, 2} /\ \A v \in {1, 2} : v # 1 => j[v] = hout[v]
        BY <2>8
    <3> QED
        BY <1>1, <1>2, <1>4, <1>6, <2>2, <2>7, <2>9, <3>1, <3>2, <3>3, SilenceSet
  <2>11. Cut(c, hout', c.cout, m + a + b, m + a + b) /\ Filled(c, hout', base, m + a + b, made)
    <3>0. PICK e \in Nat : e = m + a
        OBVIOUS
    <3>1. b # 0 => Room(j, 2, e, b)
      <4>1. j[1].size = hout[1].size /\ j[2].size = hout[2].size
        <5>1. j[1].size = hout[1].size
          <6>1. j[1] = IF a = 0 THEN hout[1] ELSE [Silences(hout[1], a) EXCEPT !.count = 0]
              BY <2>1, <2>2, <2>8
          <6>2. {"count", "size", "mem", "ptr"} \subseteq DOMAIN hout[1]
              BY <1>6 DEF Cut
          <6> QED
              BY <6>1, <6>2 DEF Silences
        <5> QED
            BY <2>8, <5>1
      <4>2. b # 0 => e >= hout[1].size /\ e - hout[1].size + b <= hout[2].size
          BY <2>5, <3>0 DEF Least
      <4> QED
          BY <4>1, <4>2 DEF Room
    <3>2. hout'[2] = IF b = 0 THEN j[2] ELSE [Silences(j[2], b) EXCEPT !.count = 0]
        BY <2>1, <2>3, <2>8
    <3>3. 2 \in {1, 2} /\ \A v \in {1, 2} : v # 2 => hout'[v] = j[v]
        BY <2>8
    <3>4. b = j[2].count /\ made + InitialOut(c) <= base + e
        BY <1>1, <2>3, <2>8, <2>9, <3>0
    <3>5. Cut(c, j, c.cout, e, e) /\ Filled(c, j, base, e, made)
        BY <2>10, <3>0
    <3>6. Cut(c, hout', c.cout, e + b, e + b) /\ Filled(c, hout', base, e + b, made)
        BY <1>1, <1>2, <2>3, <2>8, <3>0, <3>1, <3>2, <3>3, <3>4, <3>5, SilenceSet
    <3> QED
        BY <3>0, <3>6
  <2>12. Count(hout') = 0
    <3>1. {"count", "size", "mem", "ptr"} \subseteq DOMAIN hout[1] /\ {"count", "size", "mem", "ptr"} \subseteq DOMAIN hout[2]
        BY <1>6 DEF Cut
    <3>2. hout'[1].count = 0 /\ hout'[2].count = 0
        BY <2>1, <3>1 DEF Silences
    <3> QED
        BY <3>2 DEF Count
  <2>13. Sent' = m + a + b /\ Put' = base + (m + a + b)
    <3>1. done + go - 0 = m + a + b /\ base + done + go - 0 = base + (m + a + b)
        BY <1>1, <1>5, <2>4
    <3>2. Count(hout)' = 0
        BY <2>12 DEF Count
    <3> QED
        BY <1>1, <3>1, <3>2 DEF Sent, Put
  <2>14. OutMemory'
      BY <1>1, <1>4, <2>11, <2>13 DEF OutMemory
  <2>15. Ended'
    <3>1. made + InitialOut(c) <= 0 + (base + (m + a + b))
        BY <1>1, <2>9
    <3>2. Count(hout)' = 0
        BY <2>12 DEF Count
    <3> QED
        BY <1>1, <1>3, <1>9, <2>13, <3>1, <3>2, SameStream DEF Ended
  <2> QED
      BY <1>1, <1>7, <2>14, <2>15 DEF OutIdle
<1> QED
    BY <1>8, <1>9

LEMMA FillOut ==
    ASSUME ConfigsAssumption, NoPartial, c \in Streams, Counted, OutInv, FillTempInputBuffer PROVE OutInv'
<1>1. /\ pc = "fill" /\ pc' = "fill" /\ MustFill
      /\ inT \in Nat /\ go \in Nat /\ done \in Nat /\ base \in Nat /\ Counts(hin) /\ Counts(hout)
      /\ UNCHANGED <<c, tout, outT, hout, result, made, base, zeroed>>
    BY DEF FillTempInputBuffer, history, Counted, Types
<1>2. ~NonAdapting(c) /\ Duplex /\ c.user \in Nat
    BY <1>1, StreamFacts DEF Counted, Places, Phases, Duplex
<1>3. Count(hin) = go /\ hin[1].count \in Nat /\ hin[2].count \in Nat /\ Count(hout) \in Nat
    BY <1>1, <1>2 DEF Counted, Meets, Counts, Count
<1>4. PICK n \in Nat : n = Least(hin[Set(hin)].count, c.user - inT)
    BY <1>1, <1>2, <1>3 DEF Least, MustFill, Set
<1>5. go' = go - n /\ done' = done + n
    BY <1>4 DEF FillTempInputBuffer
<1>6. Count(hout)' = Count(hout)
    BY <1>1
<1>7. Sent' = Sent /\ Put' = Put
  <2>1. /\ done + n + (go - n) - Count(hout) = done + go - Count(hout)
        /\ base + (done + n) + (go - n) - Count(hout) = base + done + go - Count(hout)
      BY <1>1, <1>3, <1>4
  <2> QED
      BY <1>1, <1>5, <1>6, <2>1 DEF Sent, Put
<1> SUFFICES ASSUME c.cout > 0 PROVE (OutMemory /\ TempOut /\ Ended /\ OutIdle)'
    BY <1>1 DEF OutInv
<1>8. OutMemory /\ TempOut /\ Ended
    BY DEF OutInv
<1>9. OutMemory'
    BY <1>1, <1>7, <1>8 DEF OutMemory
<1>10. Ended'
    BY <1>1, <1>6, <1>7, <1>8, SameStream DEF Ended
<1>11. TempOut'
    BY <1>1, <1>8, SameStream DEF TempOut
<1> QED
    BY <1>1, <1>9, <1>10, <1>11 DEF OutIdle

LEMMA CallbackOut ==
    ASSUME ConfigsAssumption, NoPartial, c \in Streams, Counted, OutInv, NEW r \in Results, AdaptingCallback(r)
    PROVE  OutInv'
<1>1. /\ pc = "fill" /\ pc' = "copy"
      /\ go \in Nat /\ done \in Nat /\ base \in Nat /\ made \in Nat /\ taken \in Nat /\ outT \in Nat
      /\ inT \in Nat /\ Counts(hout) /\ Count(hout) \in Nat
      /\ IF inT = c.user /\ outT = 0 /\ result = "continue" THEN AdaptingCalls(r)
         ELSE r = result /\ UNCHANGED <<made, result, tout, outT>>
      /\ UNCHANGED <<c, hout, go, done, base, zeroed>>
    BY DEF AdaptingCallback, hosts, Counted, Types, Counts, Count
<1>2. ~NonAdapting(c) /\ Duplex /\ c.cin > 0 /\ c.cout > 0 /\ c.cout \in Nat /\ c.user \in Nat \ {0}
    BY <1>1, StreamFacts DEF Counted, Places, Phases, Duplex
<1> SUFFICES ASSUME TRUE PROVE (OutMemory /\ TempOut /\ Ended /\ OutIdle)'
    BY <1>1 DEF OutInv
<1>3. OutMemory /\ TempOut /\ Ended
    BY <1>2 DEF OutInv
<1>4. PICK m \in Nat : m = Sent
    BY <1>1, <1>3 DEF OutMemory
<1>5. Put = base + m /\ m = done + go - Count(hout)
    BY <1>1, <1>4, PutSent DEF Counted, Sent
<1>6. Sent' = m /\ Put' = base + m /\ Count(hout)' = Count(hout)
    BY <1>1, <1>4, <1>5 DEF Sent, Put, Count
<1>7. Cut(c, hout, c.cout, m, m) /\ Filled(c, hout, base, m, made)
    BY <1>1, <1>3, <1>4 DEF OutMemory
<1>8. InitialIn(c) \in Nat /\ InitialOut(c) \in Nat
    BY Initials
<1>9. CASE inT = c.user /\ outT = 0 /\ result = "continue"
  <2>1. /\ result' = r /\ made' = IF r = "abort" THEN made ELSE made + c.user
        /\ outT' = IF r = "abort" THEN 0 ELSE c.user
        /\ tout' = Makes(tout, UserPtrs(c.cout, c.user, 0), UserStride(c.cout), c.user)
      BY <1>1, <1>9 DEF AdaptingCalls, Callback
  <2>2. /\ made + InitialOut(c) = base + m
        /\ taken + c.user = InitialIn(c) + (base + done) /\ taken = made
    <3>1. /\ made + InitialOut(c) = 0 + (base + m)
          /\ taken + c.user = InitialIn(c) + (base + done) /\ taken = made
        BY <1>1, <1>2, <1>5, <1>9 DEF Counted, Accounts, Took, Meets
    <3> QED
        BY <1>1, <1>4, <3>1
  <2>3. CASE r = "abort"
    <3>1. OutMemory'
        BY <1>1, <1>6, <1>7, <2>1, <2>3 DEF OutMemory
    <3>2. Ended'
      <4>1. made + InitialOut(c) <= 0 + (base + m)
          BY <1>1, <1>4, <1>8, <2>2
      <4> QED
          BY <1>1, <1>6, <2>1, <2>3, <4>1, SameStream DEF Ended
    <3>3. TempOut'
      <4>1. Lies(tout', c.format, UserL(c, c.cout, c.user), c.user - 0, c.user, made' + 1 - c.user) /\ 0 <= c.user
          BY <1>2 DEF Lies
      <4> QED
          BY <1>1, <2>1, <2>3, <4>1, SameStream DEF TempOut
    <3> QED
        BY <1>1, <3>1, <3>2, <3>3 DEF OutIdle
  <2>4. CASE r # "abort"
    <3>1. made' = made + c.user /\ outT' = c.user
        BY <2>1, <2>4
    <3>2. Filled(c, hout, base, m, made + c.user)
      <4>1. base + m <= made + InitialOut(c)
          BY <1>1, <1>4, <1>8, <2>2
      <4> QED
          BY <1>1, <1>2, <1>4, <1>7, <4>1, FilledMore
    <3>3. OutMemory'
        BY <1>1, <1>6, <1>7, <3>1, <3>2 DEF OutMemory
    <3>4. Ended'
      <4>1. made + c.user + InitialOut(c) = c.user + (base + m) /\ c.user + (base + m) \in Int
          BY <1>1, <1>2, <1>4, <1>8, <2>2
      <4>2. go = 0 => Count(hout) <= c.user
          BY <1>1, <1>2, <1>4, <1>5, <1>8, <2>2
      <4> QED
          BY <1>1, <1>6, <2>1, <2>4, <3>1, <4>1, <4>2, SameStream DEF Ended
    <3>5. TempOut'
      <4>1. Lies(tout', c.format, UserL(c, c.cout, c.user), c.user - c.user, c.user, (made + c.user) + 1 - c.user)
          BY <1>1, <1>2, <2>1, MadeWhole
      <4>2. c.user <= c.user
          BY <1>2
      <4> QED
          BY <1>1, <3>1, <4>1, <4>2, SameStream DEF TempOut
    <3> QED
        BY <1>1, <3>3, <3>4, <3>5 DEF OutIdle
  <2> QED
      BY <2>3, <2>4
<1>10. CASE ~(inT = c.user /\ outT = 0 /\ result = "continue")
  <2>1. UNCHANGED <<made, result, tout, outT>>
      BY <1>1, <1>10
  <2>2. OutMemory'
      BY <1>1, <1>6, <1>7, <2>1 DEF OutMemory
  <2>3. result # "continue" => Count(hout) = 0 /\ Count(hout) <= outT
      BY <1>1, <1>3 DEF Ended
  <2>4. Ended'
      BY <1>1, <1>3, <1>5, <1>6, <2>1, <2>3, SameStream DEF Ended
  <2>5. TempOut'
      BY <1>1, <1>3, <2>1, SameStream DEF TempOut
  <2> QED
      BY <1>1, <2>2, <2>4, <2>5 DEF OutIdle
<1> QED
    BY <1>9, <1>10

LEMMA DoneOut ==
    ASSUME ConfigsAssumption, NoPartial, c \in Streams, Counted, Counted', OutInv, AdaptingDone PROVE OutInv'
<1>1. /\ pc = "copy" /\ pc' = "idle" /\ base' = base + done /\ ~MustCopy
      /\ go \in Nat /\ done \in Nat /\ base \in Nat /\ made \in Nat /\ outT \in Nat
      /\ Counts(hout) /\ Count(hout) \in Nat
      /\ UNCHANGED <<c, tout, outT, hout, result, done, made, zeroed>>
    BY DEF AdaptingDone, Ends, temps, hosts, Counted, Types, Counts, Count
<1>2. ~NonAdapting(c) /\ Duplex /\ c.cin > 0 /\ c.cout > 0 /\ c.mode # "partial"
    BY <1>1, StreamFacts DEF Counted, Places, Phases, Duplex
<1>3. go = 0
    BY <1>1, <1>2 DEF AdaptingDone, EndProcessingMinFrameCount
<1> SUFFICES ASSUME TRUE PROVE (OutMemory /\ TempOut /\ Ended /\ OutIdle)'
    BY <1>1 DEF OutInv
<1>4. OutMemory /\ TempOut /\ Ended
    BY <1>2 DEF OutInv
<1>5. PICK m \in Nat : m = Sent
    BY <1>1, <1>4 DEF OutMemory
<1>6. Put = base + m /\ m = done - Count(hout)
    BY <1>1, <1>3, <1>5, PutSent DEF Counted, Sent
<1>7. Put' = base + done
    BY <1>1 DEF Put
<1>8. Cut(c, hout, c.cout, m, m) /\ Filled(c, hout, base, m, made)
    BY <1>1, <1>4, <1>5 DEF OutMemory
<1>9. outT = 0 \/ Count(hout) = 0
    BY <1>1 DEF MustCopy
<1>10. InitialOut(c) \in Nat
    BY Initials
<1>11. result = "continue" => Count(hout) = 0
  <2> SUFFICES ASSUME result = "continue" PROVE Count(hout) = 0
      OBVIOUS
  <2>1. made + InitialOut(c) = outT + (base + m)
      BY <1>1, <1>2, <1>6 DEF Counted, Accounts
  <2>2. made + InitialOut(c) = outT + (base + done)
      BY <1>1, <1>2, <1>7, SameStream DEF Counted, Accounts
  <2> QED
      BY <1>1, <1>5, <1>6, <2>1, <2>2
<1>12. result = "complete" => Count(hout) = 0
    BY <1>1, <1>3, <1>4, <1>9 DEF Ended
<1>13. m # done => result = "abort" /\ Adapts(c) /\ base + m >= made + InitialOut(c)
  <2> SUFFICES ASSUME m # done PROVE result = "abort" /\ Adapts(c) /\ base + m >= made + InitialOut(c)
      OBVIOUS
  <2>1. Count(hout) # 0
      BY <1>1, <1>6
  <2>2. result = "abort"
      BY <1>4, <1>11, <1>12, <2>1 DEF Ended, Results
  <2>3. made + InitialOut(c) <= outT + (base + m) /\ outT = 0
      BY <1>4, <1>6, <2>2 DEF Ended
  <2> QED
      BY <1>1, <1>2, <1>5, <1>10, <2>2, <2>3 DEF Adapts
<1>14. Ended'
  <2> SUFFICES ASSUME result # "continue"
               PROVE  /\ made + InitialOut(c) <= outT + (base + done)
                      /\ outT > 0 => made + InitialOut(c) = outT + (base + done)
      BY <1>1, <1>4, <1>7, SameStream DEF Ended
  <2>1. /\ made + InitialOut(c) <= outT + (base + m)
        /\ outT > 0 => made + InitialOut(c) = outT + (base + m)
      BY <1>4, <1>6 DEF Ended
  <2>2. outT > 0 => m = done
      BY <1>1, <1>6, <1>9
  <2>3. m <= done
      BY <1>1, <1>6
  <2> QED
      BY <1>1, <1>5, <1>10, <2>1, <2>2, <2>3
<1>15. OutIdle'
  <2>1. hout[1].size \in Nat /\ hout[2].size \in Nat /\ m <= hout[1].size + hout[2].size
      BY <1>1, <1>8, CutWithin
  <2>2. m <= done /\ base' - done' = base
      BY <1>1, <1>5, <1>6
  <2>3. Over(c, hout, base' - done', m, done, made, made, result)
      BY <1>8, <1>13, <2>1, <2>2 DEF Over
  <2> QED
      BY <1>1, <2>3 DEF OutIdle
<1>16. TempOut'
    BY <1>1, <1>4, SameStream DEF TempOut
<1> QED
    BY <1>1, <1>14, <1>15, <1>16 DEF OutMemory

LEMMA InputOut ==
    ASSUME ConfigsAssumption, NoPartial, c \in Streams, Counted, OutInv, NEW r, AdaptingInput(r) PROVE OutInv'
<1>1. pc = "input" /\ c' = c /\ zeroed' = zeroed
    BY DEF AdaptingInput
<1>2. ~(c.cout > 0)
  <2>1. pc \in Phases
      BY <1>1 DEF Counted, Places
  <2> QED
      BY <1>1, <2>1, StreamFacts DEF Phases, Duplex
<1> QED
    BY <1>1, <1>2 DEF OutInv

\* Every step of a stream with a callback.
LEMMA StepOut ==
    ASSUME ConfigsAssumption, NoPartial, BInv, c.callback, InInv, OutInv, [Next]_vars PROVE OutInv'
<1>0. c \in Streams /\ Counted /\ ub.kind = "none"
    BY DEF BInv
<1>c. Counted'
  <2>1. BInv' /\ c' = c
      BY StepKeeps, StreamStays DEF vars
  <2> QED
      BY <2>1 DEF BInv
<1>1. CASE UNCHANGED vars
  <2>1. /\ UNCHANGED <<c, tout, outT, hout, result, pc, out, go, done>>
        /\ UNCHANGED <<made, base, zeroed>>
      BY <1>1 DEF vars, temps, hosts, loop, history
  <2> QED
      BY <2>1, SameStream DEF OutInv, OutMemory, TempOut, Ended, OutIdle, Sent, Put, Count
<1>2. CASE Begin
    BY <1>0, <1>2, BeginOut
<1>3. CASE Splice
    BY <1>0, <1>3, SpliceOut
<1>4. CASE ZeroRest
    BY <1>0, <1>4, RestOut
<1>5. CASE CopyTempOutputBuffersToHostOutputBuffers
    BY <1>0, <1>5, CopyOut
<1>6. CASE FillTempInputBuffer
    BY <1>0, <1>6, FillOut
<1>7. CASE AdaptingMore
    BY <1>0, <1>7, MoreOut
<1>8. CASE AdaptingDone
    BY <1>0, <1>c, <1>8, DoneOut
<1>9. ASSUME NEW r \in Results, NonAdaptingBlock(r) PROVE OutInv'
    BY <1>0, <1>9, BlockOut
<1>10. ASSUME NEW r \in Results, AdaptingCallback(r) PROVE OutInv'
    BY <1>0, <1>10, CallbackOut
<1>11. ASSUME NEW r \in Results, AdaptingInput(r) PROVE OutInv'
    BY <1>0, <1>11, InputOut
<1>12. ASSUME NEW r \in Results, AdaptingOutput(r) PROVE OutInv'
    BY <1>0, <1>12, OutputOut
<1>13. CASE PaUtil_ResetBufferProcessor
    BY <1>0, <1>13, ResetOut
<1>14. CASE Next
  <2>1. ~Blocking
      BY <1>0, <1>14, NotBlocking
  <2>2. EndBufferProcessing => OutInv'
      BY <1>3, <1>4, <1>5, <1>6, <1>7, <1>8, <1>9, <1>10, <1>11, <1>12 DEF EndBufferProcessing
  <2> QED
      BY <1>2, <1>13, <1>14, <2>1, <2>2 DEF Next
<1> QED
    BY <1>1, <1>14

------------------------------------------------------------------------------
(* What FramesInOrder says of the host's and of the user's side *)

UserServed == c.cin > 0 /\ seen # Nothing =>
    /\ c.callback /\ c.user > 0 => DOMAIN seen.frames = 1 .. c.user
    /\ \A k \in DOMAIN seen.frames, x \in Chans(c.cin) :
          LET f == seen.at + k - IF c.callback THEN InitialIn(c) ELSE 0
          IN  seen.frames[k][x] = IF f <= 0 \/ seen.blank THEN Silence(UserFormat)
                                  ELSE <<UserFormat, f, x>>

Shapes(h) == \A w \in {1, 2} : h[w].size > 0 => DOMAIN h[w].mem = Area(HostL(c, c.cout, h[w].size))

\* Frame q of a buffer of the host.
FrameOut(h, q, x) == IF q <= h[1].size THEN HostSample(h[1], q - 1, x)
                     ELSE HostSample(h[2], q - 1 - h[1].size, x)
Right(s, f, x) == IF zeroed \/ f <= 0 THEN s = Silence(c.hostFormat)
                  ELSE IF f <= made THEN s = <<c.hostFormat, f, x>>
                  ELSE Excepted(f) \/ (result # "continue" /\ s = Silence(c.hostFormat))

Latency(s) == IF s.callback THEN InitialOut(s) ELSE 0

HostServed == pc = "idle" /\ c.cout > 0 =>
    /\ Shapes(hout)
    /\ \A q \in 1 .. done, x \in Chans(c.cout) : Right(FrameOut(hout, q, x), base - done + q - Latency(c), x)

LEMMA InOrder == ASSUME UserServed, HostServed PROVE FramesInOrder
<1>1. \A n : HostArea(c.cout, n) = Area(HostL(c, c.cout, n))
    BY DEF HostArea, Area, HostL
<1>2. pc = "idle" /\ c.cout > 0 =>
        /\ \A w \in 1 .. 2 : hout[w].size > 0 => DOMAIN hout[w].mem = HostArea(c.cout, hout[w].size)
        /\ \A q \in 1 .. done, x \in Chans(c.cout) :
              LET first == q <= hout[1].size
                  s == IF first THEN HostSample(hout[1], q - 1, x)
                       ELSE HostSample(hout[2], q - 1 - hout[1].size, x)
                  f == base - done + q - IF c.callback THEN InitialOut(c) ELSE 0
              IN  IF zeroed \/ f <= 0 THEN s = Silence(HostFormat)
                  ELSE IF f <= made THEN s = <<HostFormat, f, x>>
                  ELSE Excepted(f) \/ (result # "continue" /\ s = Silence(HostFormat))
    BY <1>1 DEF HostServed, Shapes, FrameOut, Right, Latency, HostFormat
<1> QED
    BY <1>2 DEF FramesInOrder, UserServed

LEMMA UserInOrder ==
    ASSUME c.callback, Told(c, seen) PROVE UserServed
BY DEF Told, UserServed, Sample, UserFormat

LEMMA HostInOrder ==
    ASSUME ConfigsAssumption, NoPartial, c \in Streams, Counted, OutInv, c.callback PROVE HostServed
<1> SUFFICES ASSUME pc = "idle", c.cout > 0
             PROVE  /\ Shapes(hout)
                    /\ \A q \in 1 .. done, x \in Chans(c.cout) :
                          Right(FrameOut(hout, q, x), base - done + q - Latency(c), x)
    BY DEF HostServed
<1>1. ~zeroed /\ OutIdle
    BY DEF OutInv
<1>2. PICK n \in Nat : Over(c, hout, base - done, n, done, made, made, result)
    BY <1>1 DEF OutIdle
<1>3. /\ n <= done /\ hout[1].size \in Nat /\ hout[2].size \in Nat
      /\ n <= hout[1].size + hout[2].size /\ Filled(c, hout, base - done, n, made)
      /\ n # done => result = "abort" /\ Adapts(c) /\ (base - done) + n >= made + InitialOut(c)
    BY <1>2 DEF Over
<1>4. Shapes(hout)
    BY <1>3 DEF Filled, Shapes
<1>5. /\ base \in Nat /\ done \in Nat /\ made \in Nat /\ InitialOut(c) \in Nat /\ Latency(c) = InitialOut(c)
    BY Initials DEF Counted, Types, Latency
<1>6. PICK at \in Int : at = base - done
    BY <1>5
<1>7. result = "continue" => base <= made + InitialOut(c)
    BY <1>5 DEF Counted, Accounts, Put, Types
<1>8. ASSUME NEW q \in 1 .. done, NEW x \in Chans(c.cout)
      PROVE  Right(FrameOut(hout, q, x), base - done + q - Latency(c), x)
  <2>1. PICK f \in Int : f = at + q - InitialOut(c)
      BY <1>5
  <2>2. base - done + q - Latency(c) = f /\ f <= base - InitialOut(c)
      BY <1>5, <1>6, <2>1
  <2>3. CASE q <= n
    <3>1. q \in 1 .. n /\ Filled(c, hout, at, n, made)
        BY <1>3, <1>6, <2>3
    <3>2. FrameOut(hout, q, x) = Given(c.hostFormat, made, f, x)
      <4>1. \A w, k : HostSample(hout[w], k, x) = hout[w].mem[Place(HostL(c, c.cout, hout[w].size), k, x)]
          BY DEF HostSample, Place, HostL, HostStride, Stride
      <4>2. \A w : HostL(c, c.cout, hout[w].size).chans = c.cout
          BY DEF HostL
      <4>3. CASE q <= hout[1].size
        <5>1. PICK k \in Nat : k = q - 1
            BY <1>5
        <5>2. hout[1].size > 0 /\ k \in 0 .. Part(hout, 1, n) - 1
            BY <1>2, <1>3, <3>1, <4>3, <5>1 DEF Part, Least
        <5>3. PICK from \in Int : from = at + First(hout, 1) - InitialOut(c)
            BY <1>5, <1>6 DEF First
        <5>4. Holds(hout[1].mem, c.hostFormat, HostL(c, c.cout, hout[1].size), 0, Part(hout, 1, n), from, made)
            BY <3>1, <5>2, <5>3 DEF Filled
        <5>5. hout[1].mem[Place(HostL(c, c.cout, hout[1].size), k, x)] = Given(c.hostFormat, made, from + k, x)
            BY <4>2, <5>2, <5>4 DEF Holds
        <5>6. from + k = f
            BY <1>5, <1>6, <2>1, <5>1, <5>3 DEF First
        <5> QED
            BY <4>1, <4>3, <5>1, <5>5, <5>6 DEF FrameOut
      <4>4. CASE ~(q <= hout[1].size)
        <5>1. PICK k \in Nat : k = q - 1 - hout[1].size
            BY <1>3, <1>5, <4>4
        <5>2. hout[2].size > 0 /\ k \in 0 .. Part(hout, 2, n) - 1
            BY <1>2, <1>3, <3>1, <4>4, <5>1 DEF Part
        <5>3. PICK from \in Int : from = at + First(hout, 2) - InitialOut(c)
            BY <1>3, <1>5, <1>6 DEF First
        <5>4. Holds(hout[2].mem, c.hostFormat, HostL(c, c.cout, hout[2].size), 0, Part(hout, 2, n), from, made)
            BY <3>1, <5>2, <5>3 DEF Filled
        <5>5. hout[2].mem[Place(HostL(c, c.cout, hout[2].size), k, x)] = Given(c.hostFormat, made, from + k, x)
            BY <4>2, <5>2, <5>4 DEF Holds
        <5>6. from + k = f
            BY <1>3, <1>5, <1>6, <2>1, <5>1, <5>3 DEF First
        <5> QED
            BY <4>1, <4>4, <5>1, <5>5, <5>6 DEF FrameOut
      <4> QED
          BY <4>3, <4>4
    <3>3. f > made => result # "continue"
        BY <1>5, <1>7, <2>1, <2>2
    <3>4. Right(Given(c.hostFormat, made, f, x), f, x)
        BY <1>1, <1>5, <2>1, <3>3 DEF Right, Given
    <3> QED
        BY <2>2, <3>2, <3>4
  <2>4. CASE ~(q <= n)
    <3>1. f > made
        BY <1>3, <1>5, <1>6, <2>1, <2>4
    <3>2. Excepted(f)
        BY <1>3, <2>4, <3>1 DEF Excepted
    <3>3. ~(f <= 0) /\ ~(f <= made)
        BY <1>5, <2>1, <3>1
    <3>4. Right(FrameOut(hout, q, x), f, x)
        BY <1>1, <3>2, <3>3 DEF Right
    <3> QED
        BY <2>2, <3>4
  <2> QED
      BY <2>3, <2>4
<1> QED
    BY <1>4, <1>8

------------------------------------------------------------------------------
(* A stream without a callback: the calls wait for PaUtil_CopyOutput and PaUtil_CopyInput *)

LEMMA UserShape ==
    ASSUME ConfigsAssumption, c \in Streams, NEW kind, NEW chans \in Nat, NEW n \in Nat, NEW first
    PROVE  LET u == UserBuffer(kind, chans, n, first)
           IN  /\ DOMAIN u = {"kind", "count", "size", "ptr", "mem"}
               /\ u.kind = kind /\ u.count = n /\ u.size = n
               /\ u.ptr = Pointers(UserL(c, chans, n), 0) /\ DOMAIN u.mem = Area(UserL(c, chans, n))
<1>1. UserPtrs(chans, n, 0) = Pointers(UserL(c, chans, n), 0)
    BY Pointing
<1>2. 0 .. n * chans - 1 = Area(UserL(c, chans, n))
    BY DEF Area, UserL
<1> QED
    BY <1>1, <1>2 DEF UserBuffer

LEMMA UserLies ==
    ASSUME ConfigsAssumption, c \in Streams, NEW chans \in Nat, NEW n \in Nat, NEW first \in Nat \ {0}
    PROVE  Lies(UserBuffer("write", chans, n, first).mem, c.format, UserL(c, chans, n), 0, n, first)
<1> DEFINE l == UserL(c, chans, n)
           m == UserBuffer("write", chans, n, first).mem
<1>1. IsLayout(l) /\ l.chans = chans /\ l.size = n
    BY Layouts
<1>2. l.wide = chans /\ l.inter = c.userInter
    BY DEF UserL
<1>3. m = [a \in Area(l) |->
             LET x == IF l.inter THEN a % chans ELSE a \div n
                 k == IF l.inter THEN a \div chans ELSE a % n
             IN  <<c.format, first + k, x>>]
  <2>1. 0 .. n * chans - 1 = Area(l)
      BY DEF Area, UserL
  <2> QED
      BY <1>2, <2>1 DEF UserBuffer, UserFormat
<1> SUFFICES ASSUME NEW k \in 0 .. n - 1, NEW x \in Chans(chans)
             PROVE  m[Place(l, k, x)] = Sample(c.format, first + k, x)
    BY <1>1 DEF Lies
<1> HIDE DEF l, m
<1>4. Place(l, k, x) \in Area(l)
    BY <1>1, PlaceInside
<1>5. k \in Nat /\ x \in Nat /\ x < chans /\ x \in 0 .. chans - 1
    BY <1>1 DEF Chans
<1>6. first + k > 0
    BY <1>5
<1>7. CASE l.inter
  <2>1. Place(l, k, x) % chans = x /\ Place(l, k, x) \div chans = k
      BY <1>2, <1>5, <1>7, Quotient DEF Place
  <2> QED
      BY <1>3, <1>4, <1>6, <1>7, <2>1 DEF Sample
<1>8. CASE ~l.inter
  <2>1. Place(l, k, x) % n = k /\ Place(l, k, x) \div n = x
      BY <1>1, <1>5, <1>8, Quotient DEF Place
  <2> QED
      BY <1>3, <1>4, <1>6, <1>8, <2>1 DEF Sample
<1> QED
    BY <1>7, <1>8

\* What is left of a buffer to write is made next, and one to read holds the last that were taken.
Pending(u) == /\ {"kind", "count", "size", "ptr", "mem"} \subseteq DOMAIN u
              /\ u.size \in Nat /\ u.count \in Nat /\ u.count <= u.size
Writes(s, u, top) == u.kind = "write" =>
    /\ s.cout > 0 /\ Pending(u)
    /\ u.ptr = Pointers(UserL(s, s.cout, u.size), u.size - u.count)
    /\ Lies(u.mem, s.format, UserL(s, s.cout, u.size), 0, u.size, top + 1 - (u.size - u.count))
Reads(s, u, top) == u.kind = "read" =>
    /\ s.cin > 0 /\ Pending(u) /\ u.size - u.count <= top
    /\ u.ptr = Pointers(UserL(s, s.cin, u.size), u.size - u.count)
    /\ DOMAIN u.mem = Area(UserL(s, s.cin, u.size))
    /\ Lies(u.mem, s.format, UserL(s, s.cin, u.size), 0, u.size - u.count,
            top + 1 - (u.size - u.count))

\* The last n frames of those up to `top', or silence, are in the host's buffer.
Handed(s, h, n, silent, top) ==
    /\ h[1].size \in Nat /\ h[2].size = 0 /\ n <= h[1].size
    /\ h[1].size > 0 => DOMAIN h[1].mem = Area(HostL(s, s.cout, h[1].size))
    /\ IF silent THEN \A k \in 0 .. n - 1, x \in Chans(s.cout) :
                         h[1].mem[Place(HostL(s, s.cout, h[1].size), k, x)] = Silence(s.hostFormat)
       ELSE n <= top /\ Lies(h[1].mem, s.hostFormat, HostL(s, s.cout, h[1].size), 0, n, top + 1 - n)

\* A buffer that was read.
Served(s, v) == v # Nothing =>
    v.at \in Nat /\ ~v.blank /\ \E n \in Nat : Shown(v.frames, s.format, s.cin, n, v.at + 1)

BlockInv ==
    /\ pc = "idle" /\ result = "continue" /\ base = made
    /\ made \in Nat /\ taken \in Nat /\ done \in Nat
    /\ Writes(c, ub, made) /\ Reads(c, ub, taken)
    /\ Handed(c, hout, done, zeroed, made) /\ Served(c, seen)

LEMMA NoneHanded ==
    ASSUME NEW s, NEW h, NEW silent, NEW top \in Nat, h[1].size \in Nat, h[2].size = 0,
           h[1].size > 0 => DOMAIN h[1].mem = Area(HostL(s, s.cout, h[1].size))
    PROVE  Handed(s, h, 0, silent, top)
BY DEF Handed, Lies

LEMMA InitBlock == ASSUME Init PROVE BlockInv
<1>1. /\ hout = <<NoData, NoData>> /\ ub = NoBuffer /\ seen = Nothing
      /\ pc = "idle" /\ result = "continue" /\ base = 0 /\ made = 0 /\ taken = 0 /\ done = 0
    BY DEF Init
<1>2. hout[1].size = 0 /\ hout[2].size = 0
    BY <1>1 DEF NoData
<1>3. Handed(c, hout, done, zeroed, made)
    BY <1>1, <1>2, NoneHanded
<1> QED
    BY <1>1, <1>3 DEF BlockInv, Writes, Reads, Served, NoBuffer

LEMMA ResetBlock == ASSUME PaUtil_ResetBufferProcessor PROVE BlockInv'
<1>1. /\ hout' = <<NoData, NoData>> /\ ub' = NoBuffer /\ seen' = Nothing
      /\ pc' = "idle" /\ result' = "continue" /\ base' = 0 /\ made' = 0 /\ taken' = 0 /\ done' = 0
    BY DEF PaUtil_ResetBufferProcessor
<1>2. hout'[1].size = 0 /\ hout'[2].size = 0
    BY <1>1 DEF NoData
<1>3. Handed(c, hout, done, zeroed, made)'
    BY <1>1, <1>2, NoneHanded
<1> QED
    BY <1>1, <1>3 DEF BlockInv, Writes, Reads, Served, NoBuffer

LEMMA CallBlock ==
    ASSUME ConfigsAssumption, NoPartial, c \in Streams, BlockInv, Blocks PROVE BlockInv'
<1>1. /\ done' = 0 /\ seen' = Nothing
      /\ UNCHANGED <<c, hout, result, pc, taken, made, base, zeroed>>
    BY DEF Blocks, hosts
<1>2. made \in Nat /\ taken \in Nat /\ c.cin \in Nat /\ c.cout \in Nat
    BY StreamFacts DEF BlockInv
<1>3. Handed(c, hout, done, zeroed, made)'
  <2>1. /\ hout[1].size \in Nat /\ hout[2].size = 0
        /\ hout[1].size > 0 => DOMAIN hout[1].mem = Area(HostL(c, c.cout, hout[1].size))
      BY DEF BlockInv, Handed
  <2>2. Handed(c, hout, 0, zeroed, made)
      BY <1>2, <2>1, NoneHanded
  <2> QED
      BY <1>1, <2>2
<1>4. PICK n \in 1 .. MaxHost :
          \/ c.cout > 0 /\ ub' = UserBuffer("write", c.cout, n, made + 1)
          \/ c.cin > 0 /\ ub' = UserBuffer("read", c.cin, n, 0)
    BY DEF Blocks
<1>5. n \in Nat
    BY <1>4 DEF ConfigsAssumption
<1>6. CASE c.cout > 0 /\ ub' = UserBuffer("write", c.cout, n, made + 1)
  <2>1. PICK u : u = UserBuffer("write", c.cout, n, made + 1)
      OBVIOUS
  <2>2. /\ DOMAIN u = {"kind", "count", "size", "ptr", "mem"}
        /\ u.kind = "write" /\ u.count = n /\ u.size = n
        /\ u.ptr = Pointers(UserL(c, c.cout, n), 0)
      BY <1>2, <1>5, <2>1, UserShape
  <2>3. Lies(u.mem, c.format, UserL(c, c.cout, n), 0, n, made + 1)
      BY <1>2, <1>5, <2>1, UserLies
  <2>4. n - n = 0 /\ made + 1 - 0 = made + 1
      BY <1>2, <1>5
  <2>5. Writes(c, u, made)
      BY <1>5, <1>6, <2>2, <2>3, <2>4 DEF Writes, Pending
  <2>6. Reads(c, u, taken)
      BY <2>2 DEF Reads
  <2> QED
      BY <1>1, <1>2, <1>3, <1>6, <2>1, <2>5, <2>6 DEF BlockInv, Served
<1>7. CASE c.cin > 0 /\ ub' = UserBuffer("read", c.cin, n, 0)
  <2>1. PICK u : u = UserBuffer("read", c.cin, n, 0)
      OBVIOUS
  <2>2. /\ DOMAIN u = {"kind", "count", "size", "ptr", "mem"}
        /\ u.kind = "read" /\ u.count = n /\ u.size = n
        /\ u.ptr = Pointers(UserL(c, c.cin, n), 0) /\ DOMAIN u.mem = Area(UserL(c, c.cin, n))
      BY <1>2, <1>5, <2>1, UserShape
  <2>3. n - n = 0 /\ taken + 1 - 0 = taken + 1
      BY <1>2, <1>5
  <2>4. Lies(u.mem, c.format, UserL(c, c.cin, n), 0, 0, taken + 1)
      BY DEF Lies
  <2>5. Reads(c, u, taken)
      BY <1>2, <1>5, <1>7, <2>2, <2>3, <2>4 DEF Reads, Pending
  <2>6. Writes(c, u, made)
      BY <2>2 DEF Writes
  <2> QED
      BY <1>1, <1>2, <1>3, <1>7, <2>1, <2>5, <2>6 DEF BlockInv, Served
<1> QED
    BY <1>4, <1>6, <1>7

\* A buffer of the host to write to.
LEMMA BlankShape ==
    ASSUME ConfigsAssumption, c \in Streams, NEW chans \in Nat, NEW n \in Nat,
           NEW h, h = HostSet(chans, n, 0, FALSE)
    PROVE  /\ DOMAIN h = {"count", "size", "mem", "ptr"} /\ h.size = n
           /\ h.ptr = Pointers(HostL(c, chans, n), 0) /\ DOMAIN h.mem = Area(HostL(c, chans, n))
<1>1. Ptrs(c.hostInter, chans, n, 0) = Pointers(HostL(c, chans, n), 0)
    BY HostPointing
<1>2. HostArea(chans, n) = Area(HostL(c, chans, n))
    BY DEF HostArea, Area, HostL
<1> QED
    BY <1>1, <1>2 DEF HostSet

LEMMA CopyOutBlock ==
    ASSUME ConfigsAssumption, NoPartial, c \in Streams, BlockInv, NEW k \in 1 .. MaxHost, PaUtil_CopyOutput(k)
    PROVE  BlockInv'
<1>1. ub.kind = "write" /\ ub.count > 0 /\ c' = c
    BY DEF PaUtil_CopyOutput
<1>2. /\ c.cout > 0 /\ Pending(ub) /\ made \in Nat /\ taken \in Nat /\ c.cout \in Nat
      /\ ub.ptr = Pointers(UserL(c, c.cout, ub.size), ub.size - ub.count)
      /\ Lies(ub.mem, c.format, UserL(c, c.cout, ub.size), 0, ub.size, made + 1 - (ub.size - ub.count))
    BY <1>1, StreamFacts DEF BlockInv, Writes
<1>3. k \in Nat
    BY DEF ConfigsAssumption
<1>4. PICK b \in Nat : b = ub.size - ub.count
    BY <1>2 DEF Pending
<1>5. PICK n \in Nat : n = Least(k, ub.count)
    BY <1>2, <1>3 DEF Pending, Least
<1>6. n <= k /\ n <= ub.count /\ b + n <= ub.size /\ ub.size \in Nat /\ ub.count \in Nat
    BY <1>2, <1>3, <1>4, <1>5 DEF Pending, Least
<1>7. PICK h : h = HostSet(c.cout, k, 0, FALSE)
    OBVIOUS
<1>8. PICK l : l = HostL(c, c.cout, k)
    OBVIOUS
<1>9. PICK g : g = UserL(c, c.cout, ub.size)
    OBVIOUS
<1>10. /\ IsLayout(l) /\ l.chans = c.cout /\ l.size = k
       /\ IsLayout(g) /\ g.chans = c.cout /\ g.size = ub.size
       /\ HostStride(c.cout) = Step(l) /\ UserStride(c.cout) = Step(g)
    BY <1>2, <1>3, <1>6, <1>8, <1>9, Layouts, Pointing
<1>11. /\ DOMAIN h = {"count", "size", "mem", "ptr"} /\ h.size = k
       /\ h.ptr = Pointers(l, 0) /\ DOMAIN h.mem = Area(l)
  <2>1. c.cout \in Nat /\ k \in Nat
      BY <1>2, <1>3
  <2> QED
      BY <1>7, <1>8, <2>1, BlankShape
<1>12. PICK m : m = Converted(c.hostFormat, h.mem, Pointers(l, 0), Step(l), ub.mem, Pointers(g, b), Step(g), n)
    OBVIOUS
<1>13. /\ hout' = << [h EXCEPT !.mem = m, !.ptr = Advanced(@, n, HostStride(c.cout)), !.count = @ + n], NoData >>
       /\ ub' = Spent(n, c.cout)
       /\ done' = n /\ base' = base + n /\ made' = made + n /\ zeroed' = FALSE
       /\ UNCHANGED <<result, pc, seen, taken>>
  <2>1. Converted(HostFormat, h.mem, h.ptr, HostStride(c.cout), ub.mem, ub.ptr, UserStride(c.cout), n) = m
      BY <1>2, <1>4, <1>9, <1>10, <1>11, <1>12 DEF HostFormat
  <2> QED
      BY <1>5, <1>7, <2>1 DEF PaUtil_CopyOutput
<1>14. hout'[1].mem = m /\ hout'[1].size = k /\ hout'[2].size = 0
    BY <1>11, <1>13 DEF NoData
<1>15. DOMAIN m = Area(l)
  <2>1. Wrote(m, h.mem, l, 0, n)
      BY <1>6, <1>10, <1>12, WroteConverted
  <2>2. Grid(l, 0, n) \subseteq Area(l)
      BY <1>6, <1>10, GridInside
  <2> QED
      BY <1>11, <2>1, <2>2 DEF Wrote
<1>16. Lies(m, c.hostFormat, l, 0, n, made + 1)
  <2>1. PICK first \in Int : first = made + 1 - b
      BY <1>2
  <2>2. Lies(ub.mem, c.format, g, b, b + n, first)
    <3>1. Lies(ub.mem, c.format, g, 0, ub.size, first)
        BY <1>2, <1>4, <1>9, <2>1
    <3>2. 0 \in Int /\ ub.size \in Int /\ b \in Int /\ b + n \in Int /\ 0 <= b /\ b + n <= ub.size
        BY <1>6
    <3> QED
        BY <3>1, <3>2, Within
  <2>3. 0 + n <= l.size /\ 0 \in Nat
      BY <1>6, <1>10
  <2>4. Lies(m, c.hostFormat, l, 0, 0 + n, first + b - 0)
      BY <1>10, <1>12, <2>2, <2>3, Moved
  <2>5. first + b - 0 = made + 1 /\ 0 + n = n
      BY <1>2, <2>1
  <2> QED
      BY <2>4, <2>5
<1>17. Handed(c, hout, done, zeroed, made)'
  <2>1. n <= made + n /\ made + n + 1 - n = made + 1
      BY <1>2
  <2>2. Handed(c, hout', n, FALSE, made + n)
      BY <1>3, <1>6, <1>8, <1>14, <1>15, <1>16, <2>1 DEF Handed
  <2> QED
      BY <1>1, <1>13, <2>2
<1>18. Writes(c, ub, made)'
  <2>1. /\ ub'.kind = "write" /\ ub'.count = ub.count - n /\ ub'.size = ub.size /\ ub'.mem = ub.mem
        /\ ub'.ptr = Advanced(Pointers(g, b), n, Step(g)) /\ DOMAIN ub' = DOMAIN ub
      BY <1>1, <1>2, <1>4, <1>9, <1>10, <1>13 DEF Spent, Pending
  <2>2. ub'.ptr = Pointers(g, b + n)
      BY <1>10, <2>1, Advances
  <2>3. ub.size - (ub.count - n) = b + n /\ made + n + 1 - (b + n) = made + 1 - b
      BY <1>2, <1>4, <1>6
  <2>4. Pending(ub')
      BY <1>2, <1>6, <2>1 DEF Pending
  <2>5. Lies(ub.mem, c.format, g, 0, ub.size, made + 1 - b)
      BY <1>2, <1>4, <1>9
  <2>6. Writes(c, ub', made + n)
      BY <1>2, <1>9, <2>1, <2>2, <2>3, <2>4, <2>5 DEF Writes
  <2> QED
      BY <1>1, <1>13, <2>6
<1>19. Reads(c, ub, taken)' /\ Served(c, seen)'
  <2>1. ub'.kind = "write"
      BY <1>1, <1>2, <1>13 DEF Spent, Pending
  <2> QED
      BY <1>1, <1>13, <2>1 DEF Reads, Served, BlockInv
<1> QED
    BY <1>2, <1>13, <1>17, <1>18, <1>19 DEF BlockInv

LEMMA ZeroOutBlock ==
    ASSUME ConfigsAssumption, NoPartial, c \in Streams, BlockInv, NEW k \in 1 .. MaxHost, PaUtil_ZeroOutput(k)
    PROVE  BlockInv'
<1>1. /\ hout' = << [Silences(HostSet(c.cout, k, 0, FALSE), k) EXCEPT !.count = @ + k], NoData >>
      /\ done' = k /\ zeroed' = TRUE /\ UNCHANGED <<c, result, pc, ub, seen, taken, made, base>>
    BY DEF PaUtil_ZeroOutput
<1>2. k \in Nat /\ c.cout \in Nat /\ 0 \in Int
    BY StreamFacts DEF ConfigsAssumption
<1>3. PICK h : h = HostSet(c.cout, k, 0, FALSE)
    OBVIOUS
<1>4. PICK l : l = HostL(c, c.cout, k)
    OBVIOUS
<1>5. IsLayout(l) /\ l.chans = c.cout /\ l.size = k /\ HostStride(c.cout) = Step(l)
    BY <1>2, <1>4, Layouts, Pointing
<1>6. /\ DOMAIN h = {"count", "size", "mem", "ptr"} /\ h.size = k
      /\ h.ptr = Pointers(l, 0) /\ DOMAIN h.mem = Area(l)
    BY <1>2, <1>3, <1>4, BlankShape
<1>7. PICK m : m = Zeroed(c.hostFormat, h.mem, Pointers(l, 0), Step(l), k)
    OBVIOUS
<1>8. hout'[1].mem = m /\ hout'[1].size = k /\ hout'[2].size = 0
  <2>1. /\ Silences(h, k).mem = m /\ Silences(h, k).size = k
        /\ DOMAIN Silences(h, k) = {"count", "size", "mem", "ptr"}
      BY <1>5, <1>6, <1>7 DEF Silences, HostFormat
  <2> QED
      BY <1>1, <1>3, <2>1 DEF NoData
<1>9. DOMAIN m = Area(l)
  <2>0. 0 \in Nat /\ 0 + k <= l.size
      BY <1>2, <1>5
  <2>1. Wrote(m, h.mem, l, 0, k)
      BY <1>2, <1>5, <1>7, <2>0, WroteZeros
  <2>2. Grid(l, 0, k) \subseteq Area(l)
      BY <1>2, <1>5, <2>0, GridInside
  <2> QED
      BY <1>6, <2>1, <2>2 DEF Wrote
<1>10. ASSUME NEW q \in 0 .. k - 1, NEW x \in Chans(c.cout) PROVE m[Place(l, q, x)] = Silence(c.hostFormat)
  <2>0. 0 \in Nat /\ 0 + k <= l.size /\ q \in 0 .. 0 + k - 1 /\ x \in Chans(l.chans)
      BY <1>2, <1>5
  <2> QED
      BY <1>2, <1>5, <1>7, <2>0, ZeroAt
<1>11. Handed(c, hout', k, TRUE, made)
    BY <1>2, <1>4, <1>8, <1>9, <1>10 DEF Handed
<1> QED
    BY <1>1, <1>2, <1>11 DEF BlockInv

LEMMA CopyInBlock ==
    ASSUME ConfigsAssumption, NoPartial, c \in Streams, BlockInv, NEW k \in 1 .. MaxHost, PaUtil_CopyInput(k)
    PROVE  BlockInv'
<1>1. ub.kind = "read" /\ ub.count > 0 /\ c' = c
    BY DEF PaUtil_CopyInput
<1>2. /\ c.cin > 0 /\ Pending(ub) /\ ub.size - ub.count <= taken /\ made \in Nat /\ taken \in Nat
      /\ c.cin \in Nat
      /\ ub.ptr = Pointers(UserL(c, c.cin, ub.size), ub.size - ub.count)
      /\ DOMAIN ub.mem = Area(UserL(c, c.cin, ub.size))
      /\ Lies(ub.mem, c.format, UserL(c, c.cin, ub.size), 0, ub.size - ub.count,
              taken + 1 - (ub.size - ub.count))
    BY <1>1, StreamFacts DEF BlockInv, Reads
<1>3. k \in Nat
    BY DEF ConfigsAssumption
<1>4. PICK b \in Nat : b = ub.size - ub.count
    BY <1>2 DEF Pending
<1>5. PICK n \in Nat : n = Least(k, ub.count)
    BY <1>2, <1>3 DEF Pending, Least
<1>6. n <= k /\ n <= ub.count /\ b + n <= ub.size /\ ub.size \in Nat /\ ub.count \in Nat /\ b <= taken
    BY <1>2, <1>3, <1>4, <1>5 DEF Pending, Least
<1>7. PICK h : h = HostSet(c.cin, k, taken + 1, TRUE)
    OBVIOUS
<1>8. PICK l : l = UserL(c, c.cin, ub.size)
    OBVIOUS
<1>9. PICK g : g = HostL(c, c.cin, k)
    OBVIOUS
<1>10. /\ IsLayout(l) /\ l.chans = c.cin /\ l.size = ub.size
       /\ IsLayout(g) /\ g.chans = c.cin /\ g.size = k
       /\ HostStride(c.cin) = Step(g) /\ UserStride(c.cin) = Step(l)
    BY <1>2, <1>3, <1>6, <1>8, <1>9, Layouts, Pointing
<1>11. h.ptr = Pointers(g, 0) /\ Lies(h.mem, c.hostFormat, g, 0, k, taken + 1)
  <2>1. taken + 1 \in Nat \ {0} /\ c.cin \in Nat /\ k \in Nat
      BY <1>2, <1>3
  <2>2. Lies(h.mem, c.hostFormat, g, 0, k, taken + 1)
      BY <1>7, <1>9, <2>1, SetLies
  <2>3. h.ptr = Pointers(g, 0)
      BY <1>7, <1>9, <2>1, HostPointing DEF HostSet
  <2> QED
      BY <2>2, <2>3
<1>12. PICK m : m = Converted(c.format, ub.mem, Pointers(l, b), Step(l), h.mem, Pointers(g, 0), Step(g), n)
    OBVIOUS
<1>13. /\ ub' = [Spent(n, c.cin) EXCEPT !.mem = m] /\ taken' = taken + n
       /\ seen' = IF n < ub.count THEN seen
                  ELSE [frames |-> Frames(m, UserPtrs(c.cin, ub.size, 0), UserStride(c.cin), ub.size),
                        at |-> taken' - ub.size, made |-> made, adc |-> 0, dac |-> 0, blank |-> FALSE]
       /\ UNCHANGED <<result, pc, hout, done, made, base, zeroed>>
  <2>1. Converted(UserFormat, ub.mem, ub.ptr, UserStride(c.cin), h.mem, h.ptr, HostStride(c.cin), n) = m
      BY <1>2, <1>4, <1>8, <1>10, <1>11, <1>12 DEF UserFormat
  <2> QED
      BY <1>5, <1>7, <2>1 DEF PaUtil_CopyInput, loop
<1>14. DOMAIN m = Area(l)
  <2>1. Wrote(m, ub.mem, l, b, n)
      BY <1>6, <1>10, <1>12, WroteConverted
  <2>2. Grid(l, b, n) \subseteq Area(l)
      BY <1>6, <1>10, GridInside
  <2> QED
      BY <1>2, <1>8, <2>1, <2>2 DEF Wrote
<1>15. PICK before \in Int : before = taken + 1 - b
    BY <1>2
<1>16. Lies(m, c.format, l, 0, b + n, before)
  <2>1. Lies(ub.mem, c.format, l, 0, b, before) /\ DOMAIN ub.mem = Area(l)
      BY <1>2, <1>4, <1>8, <1>15
  <2>2. PICK first \in Int : first = taken + 1
      BY <1>2
  <2>3. Lies(h.mem, c.hostFormat, g, 0, 0 + n, first)
    <3>1. 0 \in Int /\ k \in Int /\ 0 + n \in Int /\ 0 <= 0 /\ 0 + n <= k
        BY <1>3, <1>6
    <3>2. Lies(h.mem, c.hostFormat, g, 0, k, first)
        BY <1>11, <2>2
    <3> QED
        BY <3>1, <3>2, Within
  <2>4. first + 0 = before + b /\ 0 \in Nat /\ b + n <= l.size
      BY <1>2, <1>6, <1>10, <1>15, <2>2
  <2> QED
      BY <1>10, <1>12, <2>1, <2>3, <2>4, Appended
<1>17. Reads(c, ub, taken)'
  <2>1. /\ ub'.kind = "read" /\ ub'.count = ub.count - n /\ ub'.size = ub.size /\ ub'.mem = m
        /\ ub'.ptr = Advanced(Pointers(l, b), n, Step(l)) /\ DOMAIN ub' = DOMAIN ub
      BY <1>1, <1>2, <1>4, <1>8, <1>10, <1>13 DEF Spent, Pending
  <2>2. ub'.ptr = Pointers(l, b + n)
      BY <1>10, <2>1, Advances
  <2>3. /\ ub.size - (ub.count - n) = b + n /\ taken + n + 1 - (b + n) = before
        /\ b + n <= taken + n
      BY <1>2, <1>4, <1>6, <1>15
  <2>4. Pending(ub')
      BY <1>2, <1>6, <2>1 DEF Pending
  <2>5. Reads(c, ub', taken + n)
      BY <1>2, <1>8, <1>14, <1>16, <2>1, <2>2, <2>3, <2>4 DEF Reads
  <2> QED
      BY <1>1, <1>13, <2>5
<1>18. Writes(c, ub, made)'
  <2>1. ub'.kind = "read"
      BY <1>1, <1>2, <1>13 DEF Spent, Pending
  <2> QED
      BY <2>1 DEF Writes
<1>19. Served(c, seen)'
  <2>1. CASE n < ub.count
      BY <1>1, <1>13, <2>1 DEF BlockInv, Served
  <2>2. CASE ~(n < ub.count)
    <3>1. b + n = ub.size
        BY <1>4, <1>6, <2>2
    <3>2. /\ seen'.frames = Frames(m, Pointers(l, 0), Step(l), ub.size)
          /\ seen'.at = taken + n - ub.size /\ ~seen'.blank
      <4>1. UserPtrs(c.cin, ub.size, 0) = Pointers(l, 0)
          BY <1>8, Pointing
      <4>2. /\ seen'.frames = Frames(m, UserPtrs(c.cin, ub.size, 0), UserStride(c.cin), ub.size)
            /\ seen'.at = taken' - ub.size /\ ~seen'.blank
          BY <1>13, <2>2
      <4>3. taken' = taken + n /\ UserStride(c.cin) = Step(l)
          BY <1>10, <1>13
      <4>4. seen'.frames = Frames(m, Pointers(l, 0), Step(l), ub.size)
          BY <4>1, <4>2, <4>3
      <4> QED
          BY <1>2, <1>6, <4>2, <4>3, <4>4
    <3>3. taken + n - ub.size \in Nat /\ before + 0 = taken + n - ub.size + 1
        BY <1>2, <1>6, <1>15, <3>1
    <3>4. Lies(m, c.format, l, 0, 0 + ub.size, before) /\ 0 \in Nat
        BY <1>6, <1>16, <3>1
    <3>5. Shown(Frames(m, Pointers(l, 0), Step(l), ub.size), c.format, l.chans, ub.size, before + 0)
        BY <1>6, <1>10, <3>4, Read
    <3>6. Shown(seen'.frames, c.format, c.cin, ub.size, seen'.at + 1)
        BY <1>10, <3>2, <3>3, <3>5
    <3> QED
        BY <1>1, <1>6, <3>2, <3>3, <3>6 DEF Served
  <2> QED
      BY <2>1, <2>2
<1>20. Handed(c, hout, done, zeroed, made)'
    BY <1>1, <1>13 DEF BlockInv
<1> QED
    BY <1>2, <1>13, <1>17, <1>18, <1>19, <1>20 DEF BlockInv

LEMMA StepBlock ==
    ASSUME ConfigsAssumption, NoPartial, c \in Streams, ~c.callback, BlockInv, [Next]_vars PROVE BlockInv'
<1>1. CASE UNCHANGED vars
  <2>1. UNCHANGED <<c, hout, result, pc, done, ub, seen, taken, made, base, zeroed>>
      BY <1>1 DEF vars, hosts, loop, history
  <2> QED
      BY <2>1 DEF BlockInv
<1>2. CASE Next
  <2>1. ~Begin /\ ~EndBufferProcessing
      BY DEF BlockInv, Begin, EndBufferProcessing, Splice, ZeroRest, CopyTempOutputBuffersToHostOutputBuffers,
             FillTempInputBuffer, AdaptingMore, AdaptingDone, NonAdaptingBlock, AdaptingCallback,
             AdaptingInput, AdaptingOutput
  <2>2. Blocks => BlockInv'
      BY CallBlock
  <2>3. ASSUME NEW k \in 1 .. MaxHost, PaUtil_CopyOutput(k) PROVE BlockInv'
      BY <2>3, CopyOutBlock
  <2>4. ASSUME NEW k \in 1 .. MaxHost, PaUtil_ZeroOutput(k) PROVE BlockInv'
      BY <2>4, ZeroOutBlock
  <2>5. ASSUME NEW k \in 1 .. MaxHost, PaUtil_CopyInput(k) PROVE BlockInv'
      BY <2>5, CopyInBlock
  <2>6. PaUtil_ResetBufferProcessor => BlockInv'
      BY ResetBlock
  <2> QED
      BY <1>2, <2>1, <2>2, <2>3, <2>4, <2>5, <2>6 DEF Next, Blocking
<1> QED
    BY <1>1, <1>2

\* Without a callback there is no silence at the start.
LEMMA BlockInOrder ==
    ASSUME ConfigsAssumption, NoPartial, c \in Streams, ~c.callback, BlockInv PROVE UserServed /\ HostServed
<1>1. /\ made \in Nat /\ done \in Nat /\ base = made /\ result = "continue"
      /\ Handed(c, hout, done, zeroed, made) /\ Served(c, seen)
    BY DEF BlockInv
<1>2. UserServed
  <2> SUFFICES ASSUME seen # Nothing, NEW k \in DOMAIN seen.frames, NEW x \in Chans(c.cin)
               PROVE  seen.frames[k][x] = IF seen.at + k - 0 <= 0 \/ seen.blank THEN Silence(c.format)
                                          ELSE <<c.format, seen.at + k - 0, x>>
      BY DEF UserServed, UserFormat
  <2>1. PICK n \in Nat : Shown(seen.frames, c.format, c.cin, n, seen.at + 1)
      BY <1>1 DEF Served
  <2>2. seen.at \in Nat /\ ~seen.blank
      BY <1>1 DEF Served
  <2>3. k \in 1 .. n /\ seen.frames[k][x] = Sample(c.format, seen.at + 1 + k - 1, x)
      BY <2>1 DEF Shown
  <2>4. seen.at + 1 + k - 1 = seen.at + k - 0 /\ seen.at + k - 0 > 0
      BY <2>2, <2>3
  <2> QED
      BY <2>2, <2>3, <2>4 DEF Sample
<1>3. HostServed
  <2> SUFFICES ASSUME c.cout > 0
               PROVE  /\ Shapes(hout)
                      /\ \A q \in 1 .. done, x \in Chans(c.cout) :
                            Right(FrameOut(hout, q, x), base - done + q - Latency(c), x)
      BY DEF HostServed
  <2>1. Shapes(hout)
      BY <1>1 DEF Handed, Shapes
  <2>2. ASSUME NEW q \in 1 .. done, NEW x \in Chans(c.cout)
        PROVE  Right(FrameOut(hout, q, x), base - done + q - Latency(c), x)
    <3>1. PICK k \in Nat : k = q - 1
        BY <1>1
    <3>2. PICK s : s = hout[1].mem[Place(HostL(c, c.cout, hout[1].size), k, x)]
        OBVIOUS
    <3>3. FrameOut(hout, q, x) = s
      <4>1. q <= hout[1].size
          BY <1>1 DEF Handed
      <4> QED
          BY <3>1, <3>2, <4>1 DEF FrameOut, HostSample, Place, HostL, HostStride, Stride
    <3>4. PICK f \in Int : f = made - done + q
        BY <1>1
    <3>5. base - done + q - Latency(c) = f /\ f <= made /\ k \in 0 .. done - 1
        BY <1>1, <3>1, <3>4 DEF Latency
    <3>6. CASE zeroed
      <4>1. s = Silence(c.hostFormat)
          BY <1>1, <3>2, <3>5, <3>6 DEF Handed
      <4> QED
          BY <3>3, <3>5, <3>6, <4>1 DEF Right
    <3>7. CASE ~zeroed
      <4>1. done <= made /\ s = Sample(c.hostFormat, made + 1 - done + k, x)
        <5>1. Lies(hout[1].mem, c.hostFormat, HostL(c, c.cout, hout[1].size), 0, done, made + 1 - done)
            BY <1>1, <3>7 DEF Handed
        <5>2. HostL(c, c.cout, hout[1].size).chans = c.cout
            BY DEF HostL
        <5> QED
            BY <1>1, <3>2, <3>5, <3>7, <5>1, <5>2 DEF Handed, Lies
      <4>2. made + 1 - done + k = f /\ f > 0
          BY <1>1, <3>1, <3>4, <4>1
      <4>3. s = <<c.hostFormat, f, x>>
          BY <4>1, <4>2 DEF Sample
      <4> QED
          BY <3>3, <3>5, <3>7, <4>2, <4>3 DEF Right
    <3> QED
        BY <3>6, <3>7
  <2> QED
      BY <2>1, <2>2
<1> QED
    BY <1>2, <1>3

------------------------------------------------------------------------------
(* The theorem *)

\* The invariant of a stream with a callback, and that of one without.
OrderInv == BInv /\ IF c.callback THEN InInv /\ OutInv ELSE BlockInv

\* PortAudio's buffer processor loses, repeats, mixes up and damages no frame (pa_process.c): the
\* callback is given the frames the host recorded, each once and in order, always as many as it
\* asked for, and the host gets all the callback made, and a buffer filled to its end, with silence
\* only where the user ended the stream; the same for what blocking calls read and write. It holds
\* for all sizes of buffers, formats, layouts and numbers of channels. A host that takes
\* partial buffers is excepted, and in full duplex the buffer in which the callback aborts
\* (Excepted).
THEOREM FramesPassInOrder == NoPartial => (Spec => []FramesInOrder)
<1>1. ASSUME NoPartial PROVE Spec => []FramesInOrder
  <2>1. ASSUME OrderInv PROVE FramesInOrder
    <3>1. CASE c.callback
      <4>1. c \in Streams /\ Counted /\ Told(c, seen) /\ OutInv
          BY <2>1, <3>1 DEF OrderInv, BInv, InInv
      <4> QED
          BY <1>1, <3>1, <4>1, ConfigsAssumption, UserInOrder, HostInOrder, InOrder
    <3>2. CASE ~c.callback
      <4>1. c \in Streams /\ BlockInv
          BY <2>1, <3>2 DEF OrderInv, BInv
      <4> QED
          BY <1>1, <3>2, <4>1, ConfigsAssumption, BlockInOrder, InOrder
    <3> QED
        BY <3>1, <3>2
  <2>2. Init => OrderInv
    <3> SUFFICES ASSUME Init PROVE OrderInv
        OBVIOUS
    <3>1. BInv /\ c \in Streams
        BY <1>1, ConfigsAssumption, InitKeeps DEF BInv
    <3>2. InInv /\ OutInv /\ BlockInv
        BY <1>1, <3>1, ConfigsAssumption, InitIn, InitOut, InitBlock
    <3> QED
        BY <3>1, <3>2 DEF OrderInv
  <2>3. OrderInv /\ [Next]_vars => OrderInv'
    <3> SUFFICES ASSUME OrderInv, [Next]_vars PROVE OrderInv'
        OBVIOUS
    <3>1. BInv' /\ c' = c /\ BInv /\ c \in Streams
        BY <1>1, ConfigsAssumption, StepKeeps, StreamStays DEF OrderInv, BInv, vars
    <3>2. c.callback => InInv' /\ OutInv'
        BY <1>1, <3>1, ConfigsAssumption, StepIn, StepOut DEF OrderInv
    <3>3. ~c.callback => BlockInv'
        BY <1>1, <3>1, ConfigsAssumption, StepBlock DEF OrderInv
    <3> QED
        BY <3>1, <3>2, <3>3 DEF OrderInv
  <2> QED
      BY <2>1, <2>2, <2>3, PTL DEF Spec
<1> QED
    BY <1>1
==============================================================================
