------------------------------- MODULE Front -------------------------------
(****************************************************************************)
(* pa_front.c: the part of PortAudio that every host API shares. It counts      *)
(* Pa_Initialize, keeps the table of host APIs with their devices and the list   *)
(* of open streams, and checks the parameters of a stream. OpenSles and AAudio   *)
(* are the host APIs of the Android build, Streams dispatches to them.           *)
(*                                                                            *)
(* One thread calls the library (its functions share their tables without a      *)
(* lock). What is undefined in C ends the behaviour and is named in `undefined'.   *)
(****************************************************************************)
EXTENDS Integers, Sequences, FiniteSets, SequencesExt

CONSTANTS Streams,       \* streams that may be open
          Builds,        \* the enabled host APIs, and what the device can do
          Requests,      \* what Pa_OpenStream is asked for
          Faults,        \* what may go wrong outside the program
          MaxMishaps,    \* how often
          MaxInits,      \* how often Pa_Initialize is counted
          NDEBUG,        \* assertions are compiled out, as CMakeLists.txt of the app does
          Tame           \* nothing happens that the code is known to leave undefined

Apis == <<"OpenSLES", "AAudio">>        \* paHostApiInitializers
NoDevice == -1
NoParameters == [device |-> NoDevice, channels |-> 0, format |-> "none"]

\* A side of a request, and what the device has for one.
Parameters == {NoParameters} \cup [device : Int, channels : Int,
                 format : {"Float32", "Int32", "Int24", "Int16", "Int8", "UInt8", "Custom"}]
Capability == [channels : SUBSET {1, 2}, rates : SUBSET Nat]

ASSUME FrontAssumption ==
    /\ Streams \subseteq Nat \ {0} /\ IsFiniteSet(Streams)
    /\ \A b \in Builds : /\ b.enabled \subseteq {"OpenSLES", "AAudio"}
                         /\ b.out \in Capability /\ b.in \in Capability
    /\ \A r \in Requests : r.in \in Parameters /\ r.out \in Parameters /\ r.rate \in Nat
    /\ Faults \subseteq {"engine", "open", "enqueue", "state", "record", "stuck", "start", "disconnect"}
    /\ MaxMishaps \in Nat /\ MaxInits \in Nat \ {0} /\ Tame \in BOOLEAN /\ NDEBUG \in BOOLEAN

VARIABLES build,
          initializationCount, hostApis, defaultHostApi, openStreams,
          stream,        \* the representation of each stream
          held, leaked,  \* what each stream has acquired, and what nobody can free
          call,          \* the Pa_ function the client is in
          mishaps, undefined

tables == <<initializationCount, hostApis, defaultHostApi, openStreams>>
resources == <<held, leaked>>
frontVars == <<build, tables, stream, resources, call, mishaps, undefined>>

Closed == [open |-> FALSE, api |-> "none", mode |-> "none", sides |-> {}, ends |-> FALSE,
           started |-> FALSE, isStopped |-> TRUE, isActive |-> FALSE]
NoCall == [op |-> "none", s |-> 0, at |-> "none"]

FrontInit ==
    /\ build \in Builds
    /\ initializationCount = 0 /\ hostApis = << >> /\ defaultHostApi = 0
    /\ openStreams = << >>
    /\ stream = [s \in Streams |-> Closed]
    /\ held = [s \in Streams |-> {}] /\ leaked = {}
    /\ call = NoCall
    /\ mishaps = 0 /\ undefined = "nothing"

Mishap(kind) == kind \in Faults /\ mishaps < MaxMishaps /\ mishaps' = mishaps + 1
Idle == call = NoCall
Initialised == initializationCount # 0
Within(op, s, at) == call' = [op |-> op, s |-> s, at |-> at]

------------------------------------------------------------------------------
(* Host APIs and their devices *)

SumOfCounts(table) == FoldSeq(LAMBDA a, n : a.deviceCount + n, 0, table)

\* What an initializer makes of its one device. A disabled one sets the default devices
\* but no function.
Found(result, out, in) == [result |-> result, out |-> out, in |-> in]
Disabled == Found("disabled", 0, 0)

\* The first of what is tried that is supported, else 0.
FirstOf(tried, supported) ==
    LET good == {i \in DOMAIN tried : tried[i] \in supported}
    IN  IF good = {} THEN 0 ELSE tried[CHOOSE i \in good : \A j \in good : i <= j]

HostApi(i, found, base) ==
    [type |-> Apis[i], deviceCount |-> IF found.result = "device" THEN 1 ELSE 0,
     maxOutputChannels |-> found.out, maxInputChannels |-> found.in,
     baseDeviceIndex |-> base, defaultOutputDevice |-> base, functions |-> found.result = "device"]

\* Mutant: the devices of every host API are counted from 0.
TableFromZero(found) == [i \in 1 .. 2 |-> HostApi(i, found[i], 0)]

Table(found) ==
    FoldLeft(LAMBDA table, i : Append(table, HostApi(i, found[i], SumOfCounts(table))),
             << >>, <<1, 2>>)

Terminates(table) == \A i \in DOMAIN table : table[i].functions

\* "assert( hostApi->info.defaultOutputDevice < hostApi->info.deviceCount )", before the
\* base is added: false of an API without a device, whose default is 0 too.
Asserts(table) ==
    NDEBUG \/ \A i \in DOMAIN table :
                 table[i].defaultOutputDevice - table[i].baseDeviceIndex < table[i].deviceCount

\* The first API is the default one whatever it has: no initializer says paNoDevice. An
\* initializer that finds no rate frees its representation and returns paNoError.
InitializeHostApis(initializers) ==
    \E sl \in initializers[1], aaudio \in initializers[2] :
      LET found == <<sl, aaudio>>
          failures == {i \in 1 .. 2 : found[i].result \in {"no rate", "no engine"}}
          first == CHOOSE i \in failures : \A j \in failures : i <= j
          table == IF failures = {} THEN Table(found) ELSE SubSeq(Table(found), 1, first - 1)
      IN  /\ undefined' = IF ~Asserts(table) THEN "assertion"
                          ELSE IF failures = {} THEN "nothing"
                          ELSE IF found[first].result = "no rate" THEN "freed host API"
                          ELSE IF Terminates(table) THEN "nothing"
                          ELSE "no Terminate"
          /\ Tame => undefined' = "nothing"
          /\ IF failures = {}
             THEN /\ hostApis' = table
                  /\ defaultHostApi' = 1
                  /\ initializationCount' = 1
                  /\ UNCHANGED <<mishaps, leaked>>
             ELSE /\ IF found[first].result = "no engine"
                     THEN Mishap("engine") /\ leaked' \in {leaked, leaked \cup {"engine"}}
                     ELSE UNCHANGED <<mishaps, leaked>>
                  /\ UNCHANGED <<hostApis, defaultHostApi, initializationCount>>

\* TerminateHostApis, with every stream closed.
TerminateHostApis ==
    /\ undefined' = IF ~Terminates(hostApis) THEN "no Terminate"
                    ELSE IF \E s \in Streams : stream[s].open THEN "stream outlives its host API"
                    ELSE "nothing"
    /\ hostApis' = << >> /\ defaultHostApi' = 0

\* The host API of a device, 0 for none: the counts are taken off one after the other.
FindHostApi(d) ==
    LET at == {i \in DOMAIN hostApis :
                  /\ d >= SumOfCounts(SubSeq(hostApis, 1, i - 1))
                  /\ d < SumOfCounts(SubSeq(hostApis, 1, i))}
    IN  IF Initialised /\ at # {} THEN CHOOSE i \in at : TRUE ELSE 0
HostApiDevice(d) == d - SumOfCounts(SubSeq(hostApis, 1, FindHostApi(d) - 1))

Pa_HostApiDeviceIndexToDeviceIndex(i, d) == hostApis[i].baseDeviceIndex + d
PaUtil_DeviceIndexToHostApiDeviceIndex(d, i) ==
    LET x == d - hostApis[i].baseDeviceIndex
    IN  IF x >= 0 /\ x < hostApis[i].deviceCount THEN x ELSE NoDevice
Pa_GetDeviceCount == SumOfCounts(hostApis)
Pa_GetDefaultOutputDevice ==
    IF Initialised THEN hostApis[defaultHostApi].defaultOutputDevice ELSE NoDevice

------------------------------------------------------------------------------
(* Streams *)

\* Flags and stream infos are those of every client: none.
ValidateOpenStreamParameters(in, out, rate) ==
    LET used == {in, out} \ {NoParameters}
    IN  /\ Initialised /\ used # {}
        /\ \A p \in used : /\ p.device >= 0 /\ p.device < Pa_GetDeviceCount /\ FindHostApi(p.device) # 0
                           /\ p.channels > 0
        /\ \A p, q \in used : FindHostApi(p.device) = FindHostApi(q.device)
        /\ rate >= 1000 /\ rate <= 768000

HostApiOf(in, out) == hostApis[FindHostApi(IF out # NoParameters THEN out.device ELSE in.device)]
SidesOf(in, out) == (IF in # NoParameters THEN {"in"} ELSE {}) \cup (IF out # NoParameters THEN {"out"} ELSE {})

\* Both host APIs have their device's channels, and select the format they open with;
\* paCustomFormat is none they could select.
Converter == INSTANCE Converters WITH B <- 3, Points <- 1
Selects(available, p) == p.format # "Custom" /\ Converter!SelectClosestAvailableFormat(available, p.format) \in available
HasChannels(in, out) ==
    LET api == HostApiOf(in, out)
    IN  in.channels <= api.maxInputChannels /\ out.channels <= api.maxOutputChannels

\* IsFormatSupported is the same of both, but for how a rate is tried.
IsFormatSupported(in, out, rate) ==
    /\ "Custom" \notin {in.format, out.format}
    /\ HasChannels(in, out)
    /\ out # NoParameters => rate \in build.out.rates
    /\ in # NoParameters => rate \in build.in.rates
Pa_IsFormatSupported(r) ==
    ValidateOpenStreamParameters(r.in, r.out, r.rate) /\ IsFormatSupported(r.in, r.out, r.rate)

\* Mutant: the list ends at the stream that leaves it.
RemoveOpenStreamAndRest(s) == openStreams' = SubSeq(openStreams, 1, SelectInSeq(openStreams, LAMBDA x : x = s) - 1)

AddOpenStream(s) == openStreams' = <<s>> \o openStreams
RemoveOpenStream(s) == openStreams' = RemoveFirst(openStreams, s)

\* Opening acquires one thing after the other; where it fails, what it has and does not
\* free is lost.
Acquires(s, steps) == held' = [held EXCEPT ![s] = ToSet(steps)] /\ UNCHANGED leaked
FailsAt(steps, i, frees) ==
    leaked' = leaked \cup (ToSet(SubSeq(steps, 1, i - 1)) \ frees) /\ UNCHANGED held
Frees(s, freed) == leaked' = leaked \cup (held[s] \ freed) /\ held' = [held EXCEPT ![s] = {}]

PaUtil_InitializeStreamRepresentation(s, api, mode, sides, ends) ==
    stream' = [stream EXCEPT ![s] = [Closed EXCEPT !.open = TRUE, !.api = api, !.mode = mode,
                                                   !.sides = sides, !.ends = ends]]

\* PaUtil_ValidateStreamPointer: initialised, and the magic is there.
PaUtil_ValidateStreamPointer(s) == Initialised /\ stream[s].open

Flags(s, stopped, active) ==
    stream' = [stream EXCEPT ![s].isStopped = stopped, ![s].isActive = active]
=============================================================================
