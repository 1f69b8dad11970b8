# Squeezelite in TLA+

Squeezelite is a headless player for the Lyrion Music Server (LMS): it takes
commands over one TCP connection (slimproto), fetches an encoded stream over
another (or from a file), decodes it and plays it. This directory holds a TLA+
model of it, the TLC configurations that check the model on small instances and
TLAPS proofs of what matters most for every instance. Paths such as
`output.c:443` are relative to the root of the repository.

## 1. The system

```
 LMS --slimproto--> controller (slimproto_run, main thread)
                        |  starts, stops, watches
 source --> stream_thread --streambuf--> decode_thread --outputbuf--> output thread --> device
```

Four threads share three mutexes: **S** (streambuf, `struct streamstate`, the
descriptor), **D** (`struct decodestate`, the codec), **O** (outputbuf,
`struct outputstate`). The controller and the decoder take several of them
one after the other in a single command, tick or decode call; the other threads
run in between. That is where most of what can go wrong lies.

| component | state | operations | hard behaviours | what makes it correct |
|---|---|---|---|---|
| circular buffer, `buffer.c` | two pointers, wrap, size, memory | measure, advance, flush, adjust, resize, unwrap | exact fits at the wrap, a failed resize, unsigned arithmetic | it is a FIFO queue; nothing unwritten is read, nothing unread is overwritten |
| stream thread, `stream.c` | `stream.state`, `disconnect`, `fd`, counters, `stream.header`, `ogg` | poll and act, `stream_sock`, `stream_file`, `stream_disconnect` | S is released while polling; bytes in any pieces, one buffer for request, headers and metadata; failures at each stage | audio arrives whole and in order, an end is reported once and with its reason |
| decode thread, `decode.c` | `decode.state`, `new_stream`, codec | look, decode, `codec_open`, `decode_flush` | decides with what it saw under other mutexes | nothing is lost or repeated; the end is seen only at the end |
| codecs, `pcm.c`, `dsd.c`, `alac.c`, `faad.c`, `mad.c`, `mpg.c`, `flac.c`, `vorbis.c`, `opus.c`, `ffmpeg.c` | framing state, the decoder library's buffer | open, decode one call, callbacks that wait for bytes | frames and headers across the wrap, early ends, state of an earlier stream | frames are found where they are; everything received is decoded before the end |
| processing, `process.c`, `resample.c` | in and out buffers, what libsoxr holds | new stream, samples, drain, flush | O given up in `decode_newstream`, a full outputbuf | frames in = frames out, drained at the end |
| output engine, `output.c` | `output.state`, `track_start`, `track_started`, a union of intervals, fades, gains | one period; flushes | raw pointers into a buffer others flush and resize | tracks start where they start, with their rate and gain; flushed audio is gone |
| ALSA, PortAudio, PulseAudio, stdout, `output_*.c` | the device | open, write, close when OFF, wait for the device | callbacks against O, recovery, hot unplugging | handles are live, rates match, the device is closed when OFF, closing returns |
| controller, `slimproto.c` | `autostart`, `sentSTM*`, a tick's locals | strm, cont, codc, aude, audg, setd, serv, ticks | commands of up to five regions, snapshots from three | reports are true when sent; 'q' stops all |
| server link, `slimproto.c` | socket, partial packet, timeouts, server addresses | connect, receive, time out, switch | packets in pieces, a server that does not answer | packets are processed once and whole; a player finds a server |
| PortAudio on Android, `android/src/pa`: `pa_front.c`, `pa_process.c`, `pa_converters.c`, `pa_opensles.c`, `pa_aaudio.c` | tables of host APIs and devices, list of open streams; buffers between host and user; per stream a thread, a queue of buffers, a semaphore | `Pa_*`, the buffer processor, the stream thread, callbacks of the device | two block sizes, ends in the middle, threads joined and freed, a device that posts nothing more | frames pass once, in order, with their times; callbacks come between start and close; nothing is used by two, freed twice or left behind |
| gain and packing, `output_pack.c`; DoP `dop.c` | - | arithmetic on samples | clamps, the marker's phase | bounds |
| visualiser `output_vis.c`, IR `ir.c`, GPIO | a ring, one slot, a pin | export, next code | try-lock, one slot | - |
| start-up, sockets, Android glue | - | pure I/O | - | - |

`PROJECT.json` lists each with its status, and every hazard with its line.

## 2. The modules

| module | models | state and actions |
|---|---|---|
| `Fifo` | what a struct buffer promises: a queue | `Put`, `Take`, `Drop`, `Clear` |
| `Buffer` | `buffer.c` except unwrap, byte by byte | `readp`, `writep`, `wrap`, `size`, `base_size` as offsets; `Write`, `Read`, `Skip`, `BufFlush`, `BufAdjust`, `Resize`; refines `Fifo` |
| `BufferUnwrap`, `MCBuffer` | `_buf_unwrap` with C's undefined cases, as operators; `Buffer` with a call of it on every content it comes to | `Unwrap` |
| `Pipeline` | the variables the threads share, by mutex | - |
| `StreamThread` | `stream_thread` and the functions that control it | `ReadFile`, `PollSocket`, `PollStale`, `SendHeader`, `RecvHeaders`, `RecvBody` |
| `DecodeThread` | `decode_thread` with a codec like `mad.c` | `LookStream`, `LookOutput`, `NotRan`, `CodecInput`, `CodecTrackStart`, `CodecWrite` |
| `OutputThread` | `_output_frames` and the flushes | `_output_frames`: one period |
| `Controller` | `process_strm`, `process_cont`, `process_codc`, the tick of `slimproto_run` | one action per mutex region of each |
| `Player`, `MCPlayer` | all of the above with a server; the properties; the kinds of 's' commands of the runs | `Server`, `Threads`, `Execute`, `Tick`, `Continue` |
| `Link` | `slimproto()` and the loop of `slimproto_run`: the connection to the server | `Switch`, `ConnectFails`, `Connect`, `Recv`, `RecvFails`, `LeaveForNew`, `Wake`, `Wait`; `Send`, `Lose`, `Change` of the outside |
| `Body`, `MCBody` | `stream_thread` byte by byte: request, headers, SSL retry, icy metadata, `stream_ogg`; the answers of the run | `send_header`, `RecvHeader`, `RecvHeaderFails`, `RecvMetaLength`, `RecvMeta`, `RecvMetaFails`, `RecvBody`, `RecvBodyEnds`; `stream_sock`, `stream_disconnect`, `Tick`, `process_cont`, `Decode` |
| `Codec` | what a codec works between: streambuf and `decode_thread` | `Deliver`, `End`; `Returns`, `Consumed` |
| `Pcm`, `Mp4`, `Dsd`, `LibCodecs` | `pcm.c`; `alac.c` and `faad.c`; `dsd.c`; `mad.c`, `mpg.c`, `flac.c`, `vorbis.c`, `opus.c`, `ffmpeg.c` over a library | one action per step of decode(): headers, atoms, samples, callbacks |
| `Codecs`, `MCCodecs` | one stream through each codec; the layouts of the files of the run | `Decode` |
| `Fades` | `_output_frames` as the loop over memory that it is, with `_checkfade`, track starts, delays at a rate change, crossfades, replay gain | `PeriodBegins`, `TrackStarts`, `DelayStarts`, `FadeGoesOn`, `CrossGoesOn`, `FadeTurns`, `FadeCompletes`, `WriteChunk`; `StrmStart`, `NewTrack`, `Write`, `FlushStreaming` |
| `Process` | `process.c` and `resample.c` between a codec and `Fades` | `NewStream`, `DecodeBlock`, `DrainBlock`, `WriteSamples`, `Complete`, `Flush` |
| `Device` | what the outputs share: the output state machine, the tick and the commands that change it | `WriteFrame`, `StrmStart`, `TickStates`, `TickEnds`, `Flush`, `Aude`, `Unplug` |
| `Alsa`, `PortAudio`, `Pulse` | `output_alsa.c`; `output_pa.c`; `output_pulse.c` and `output_stdout.c` | `AlsaStep`; `PaCallback`, `PaFinishes`, `PaStep` of tick and monitor, `PaClose`; `PulseStep`, `StdoutStep` |
| `Devices` | each of the outputs under controller and decoder; the properties | `Output`, `Tick`, `Commands` |
| `Converters` | `pa_converters.c` and `pa_dither.c`: every converter as a function on samples, and their choice | - |
| `BufferProcessor`, `MCBufferProcessor` | `pa_process.c`: a stream of one client through the buffer processor, iteration by iteration of its loops; the configurations of the run | `Begin`, `NonAdaptingBlock`, `AdaptingInput`, `AdaptingOutput`, `AdaptingMore`, `AdaptingCalls`, `AdaptingDone`, `Splice`, `Ends`; `PaUtil_CopyInput`, `PaUtil_CopyOutput`, `PaUtil_ZeroOutput`, `PaUtil_ResetBufferProcessor` |
| `Front` | `pa_front.c` without the functions that dispatch: the table of host APIs, validation, the list of streams | operators |
| `OpenSles`, `AAudio` | `pa_opensles.c`; `pa_aaudio.c`: initialising, opening in steps that may fail, starting, stopping, the stream thread or the callbacks | `SlStarts`, `SlStops`, `SlThread`, `SlPlays`; `AaStarts`, `AaStops`, `AaCallbacks` |
| `StreamPromise` | what the callbacks of a PortAudio stream may rely on | `Opens`, `Steps`, `Closes` |
| `Streams`, `MCStreams` | the `Pa_` functions over both host APIs, threads and devices; refines `StreamPromise`; the devices and requests of the run | `Pa_Initialize` ... `Pa_WriteStream`, `Threads`, `Devices` |
| `BufferProofs`, `LinkProofs`, `DevicesProofs`, `BufferProcessorProofs`, `StreamsProofs` | theorems about `Buffer`, `Link`, `Devices`, `BufferProcessor` and `Streams` | - |
| `PlayerProofs`, `OrderProofs`, `GaplessProofs` | theorems about `Player`: what 'q' quiets, types, who opens a stream when; order; gaps | each on top of those before |

`Player` composes the threads over whole units of audio. The others go into what
`Player` takes as one step: `Body` into the receiving of `StreamThread`, `Codecs`
into the codec of `DecodeThread`, `Process` and `Fades` into what is
between that codec and the device, `Devices` into who calls `_output_frames`, `Buffer`
into the two queues, `Link` into how a command arrives. `Devices` takes PortAudio as external, with
streams that behave as `StreamPromise` says; `Streams` shows it of the two host APIs of the
Android build, and `BufferProcessor` shows what happens to the frames between callback and host.

**Regions are steps.** An action is what one thread does while it holds a mutex.
S and O need no variable: what is done under them is one step. D is held
by the decoder across its steps (`HoldsD`); the codec calls inside take S and O as
separate steps, so the output and the stream thread run between them. The
controller's program counter `cpc` runs through the regions of a command
("q_buffer", "q_output", ...) or of a tick ("tickD", "tickO", "send"), and
`spc` holds what `poll` told the stream thread before it takes S again.

**Audio is units.** `<<k, i>>` is the i-th unit of the k-th stream. A unit of
encoded bytes decodes to a unit of frames and a period plays one. `streambuf` is a
sequence here since `Buffer` refines a queue; `outputbuf` keeps its slots and
offsets, because `track_start` is a pointer into it that outlives flushes, and a
stale one revives what was in the memory.

**The server** (`Player`, external code) may send q, f, p, a, u at any time and
starts a stream when there is none, after q or f, or after STMd, STMn, STMu or a
DSCO other than OK for the last one; it answers RESP of a stream that
waits with codc (if it left the format open) and cont. It ignores reports that
are older than the stream it started last, which it can tell by STMf and STMc.

**History variables** (not in the program): `got`, `played`, `why`, `started`,
`flushed`, `trimmed`, `quiet`, `sent` (what the last controller step sent).

**The link** (`Link`) is a module of its own: what it keeps, no other thread reads. A
byte is <<p, i>>, the i-th of packet p, so a packet executed from the wrong bytes
shows. The network delivers any prefix of what was sent, or nothing any more, with or
without recv noticing. Of a packet `Link` executes only serv, which is what changes the
link; what the others do is `Controller`, where a command arrives whole and once, as
`WholePackets` says it does. `given` is the -s option, without which a server is
discovered.

**Bytes of a stream** (`Body`) are marked with what they are, so a byte that ends up in
the wrong place shows: `<<"a", i>>` is the i-th of the audio, `<<"m", b, j>>` the j-th of
the b-th metadata block. recv returns any number of those that are left. `stream.header` is
memory that is never cleared, which matters: the SSL retry sends from it what is
still there of the request, and a tick that comes late copies what is there then. An ogg
page is its pattern, one byte for the rest of its header, one per lacing value and its
data; the bytes before `writep`, to which `stream_ogg` goes back for a pattern cut in
two, are those of the memory of streambuf, and unknown before its start.

**Codecs** count bytes instead of storing them. A file is a layout (where the header,
atoms, chunks, frames are) and the state is where in it the codec is: `pos` consumed,
`arrived` received, `rd` the offset of `readp`, so that every wrap occurs. A codec that
frames its input itself must be at the start of a unit between calls. A library is
external: it keeps what it was given and makes a frame of it when it has all of it.

**Fades** takes a period apart into the steps of the loop of `_output_frames`, over an
`outputbuf` whose samples `<<k, j>>` say of which track they are; the decoder,
processing and flushes run between periods, as O makes them. `odd` collects the named
cases in which the code is known to lose its place; the properties name those
they except.

**Devices**: a frame is the number of its track, the device has a rate; the device may
be unplugged and come back, and `MaxMishaps` calls of the sound library fail. PortAudio's
streams go through open, active, calling, complete, finishing, finished and closed, and
`_pa_open` is executed by the main thread, the controller and monitor threads (`Openers`): the monitor
gives up O in `_pa_open` after it cleared `monitor_thread_running`, so a second one can
be started and come to its own end meanwhile. `Monitors` are those that are there at a time.

**The buffer processor** keeps its buffers as memory: functions from addresses to samples
`<<format, frame, channel>>`, so a wrong stride, offset or count misplaces a sample. The host
offers buffers of any size its mode allows, in one or two pieces; the user's callback may
continue, complete or abort at any call. `Converters` has bytes of `B` bits, with the
shifts, casts, clips and dither of each converter, and tries `Points` samples of each format.

**PortAudio's streams** have one client thread, since the library shares its tables without a
lock. A call that waits (for a join, an empty queue, a semaphore) is a record in `call`, and
threads and devices go on meanwhile. The queue of a device is a sequence of buffer indices,
its semaphore a count. What C leaves undefined ends the behaviour and is named in
`undefined`. A client that is `Tame` avoids what section 3 lists as known.

## 3. The runs

Each passing run's properties are also checked to fail on a variant of the code (the
definitions marked "Mutant:", paired with the properties in `PROJECT.json`).

| run | shows | states |
|---|---|---|
| `buffer` | a 4-byte buffer, adjusted to frames of 1, 2, 3 bytes, resized to 5, the resize failing in both ways: a FIFO; frames never straddle the wrap; loops advance; in every state `_buf_unwrap` loses no byte and moves data in one piece far enough | 76 k |
| `gapless` | two streams of up to three units back to back, direct, waiting, file, unnamed format, and f at any point: played in order, what plays is kept, STMd and STMu true | 1.8 M |
| `stop` | q, p and u at any point: after q all is stopped, empty and silent, nothing flushed is played | 1.5 M |
| `faults` | connect, send, header, reset failures, codecs that give up, skips: reasons are right, nothing is repeated | 2 M |
| `live` | under fairness every stream ends for the server; all that was received is played, unless the connection breaks before the decoder was started | 100 k |
| `link` | packets in pieces, loss, silence, two servers that go down and come back, serv to one that does not answer or resolve: packets whole and once, the player comes back | 0.6 M |
| `body` | plain, icy and ogg answers, with SSL or without, headers too long or not well-formed, connections that break: audio whole, request, headers and metadata unchanged, an end that is told | 92 k |
| `codecs` | every codec on files laid out around every wrap, cut, bad or with the state of an earlier stream: in step, everything decoded, good files not given up but in the named cases, every call and file ends | 0.41 M |
| `process` | two tracks with all fade modes and rates, resampled, flushed, paused: played and mixed in order, starts reported, gain of the track, nothing held back, all played | 2.3 M |
| `devices` | each output with aude, stop, close, unplugging and failing calls: handles live, rates right, playing or closed in the end, closing returns | 0.38 M |
| `buffer_processor` | host and user buffers of all pairs of sizes up to 7, all layouts, one way and both ways, callbacks that end the stream, blocking calls, all pairs of formats: frames once, in order, whole, with their times, and their meaning kept; every host buffer is finished | 0.17 M |
| `streams` | PortAudio with each set of host APIs: initialised twice, streams opened, refused, started, ended by their callback, stopped, read, written, closed, with devices that get stuck, are disconnected or refuse: as `StreamPromise` says, the buffer of a callback or a write not shared with the device, devices of the APIs that have one numbered rightly, nothing left behind, calls return | 93 k |

**Refuted.** The code differs from its own words in the following. TLC shows the counterexample
with `Player_stale.cfg`, or with a configuration of a run changed as said:

* `Player_stale.cfg` - `StartedIsPlaying`. `slimproto.c:808` says of STMs "A new track has
  started playing". `track_started` survives q and s, so STMs of the stopped track
  goes out after STMf and after STMc of the next one.
* `Buffer.cfg` with `InitSize = 6` and invariant `Contiguous`. `alac.c:308` and `faad.c:317` call
  `_buf_unwrap` to "make sure there is 'len' contiguous space". When the data wraps
  this can fail: `size` (`buffer.c:121`) is unsigned, so a shift that fits the gap
  is taken for a huge overlap, malloc fails and the recursion moves too little; and
  a `memcpy` of the scratch branch can overlap.
* `Player_stale.cfg` with `FlushedStaysFlushed` as its property. `output_flush` ("flush output buffer
  (full)", `output.c:444`) keeps `output.track_start`. Play a stream, stop it with q
  before the output reached its track start, start another and send f while that
  one buffers: `output_flush_streaming` sets `writep` to the stale pointer, and old
  frames between the pointers are played. It needs three streams and both q and f;
  run `stop` has no f.
* `Link.cfg` with `SPECIFICATION Spec` and property `GroupOfServer`. `slimproto.c:1036`, "add on any capablity to be sent
  to the new server": the sync group of a serv packet goes into the next HELO,
  whichever server that reaches. When the new server does not answer, the player
  reverts to the previous one (`slimproto.c:1003`) and hands it the group.
* `Codecs.cfg` with invariant `Parsed`. An atom "we want to parse" (`alac.c:290`) that ends where
  the contiguous bytes end is passed over unparsed.
* `Codecs.cfg` with invariant `ComesBack`. `dsd.c:175` returns 0 to "come back later" for a
  header that is not complete; its caller takes 0 for an error first.
* `Devices.cfg` with invariant `NeverHeldOverClose`. `output_pa.c:341` says of `Pa_CloseStream` that
  it can wait for a callback that needs the mutex, "so never close the stream while
  holding it"; `output_close_pa` (`output_pa.c:640`) aborts and terminates with O held.
* `Streams.cfg` with `"enqueue"` in `Faults`, `Tame = FALSE` and invariant `Defined`: a client that is
  not tame and a device whose first `Enqueue` fails. `android.c:187` enables one host API by the environment. The other one's
  initializer then leaves its structure behind with a null `Terminate` (`pa_opensles.c:317`,
  `pa_front.c:184`), and every `Pa_Terminate` calls it, so `output_close_pa` does.
* `Streams.cfg` with invariant `DefaultsExist`. `portaudio.h:325` says of the default device of
  an API "a device index ranging from 0 to (Pa_GetDeviceCount()-1), or paNoDevice if no default
  output device is available". An API that is not enabled keeps 0, without a device
  (`pa_opensles.c:313`, `pa_aaudio.c:786`); to that the number of devices before it is added, so
  next to an OpenSL ES with one device the default of AAudio is 1, of 1 device.
* `Streams.cfg` with `NDEBUG = FALSE`, `Tame = FALSE` and invariant `Defined`. The assertions that the
  default device is one of the API's (`pa_front.c:233`) are false for such an API, and a build with assertions
  stops in `Pa_Initialize` when one of the two APIs is not enabled. The Android build has none
  (`android/app/CMakeLists.txt:28`), hence `NDEBUG = TRUE` in the run.

Proving showed one more limit of the code, with three streams (run `faults` has two):

* `ReasonIsCurrent` needs that streams are started with their format, or that no connect fails.
  A stream whose format comes later does not stop the decoder, so the STMd of the stream before
  is taken for its own and the server starts a third while the descriptor of the second is open;
  if that connect fails the descriptor stays open, the stream thread finds it stale and writes
  `stream.disconnect` again between a tick's look (`slimproto.c:693`) and its decision
  (`slimproto.c:714`). The same false end can leave a gap. Hence `Named` in section 4.

**What the properties except.** A property about code that is known to lose its place
names the case; the run then shows that there is no other within its bounds.

* `StreamEnds`: `Broken`. A tick starts the decoder of a stream in STREAMING_HTTP or
  STREAMING_FILE only, or of one that ended DISCONNECT_OK (`slimproto.c:713`). When the connection
  breaks after audio came and before a tick saw enough of it, the state is DISCONNECT with
  another reason: the server hears DSCO, and what is in streambuf is never decoded, or is flushed by
  the stream that the server starts on hearing it.

* `Verbatim`, `Ends`: headers whose line ends are not in pairs have no end,
  and are read until the buffer is full or the connection closes. A tick that comes after
  the next block or comment has begun sends the beginning of that one instead, or nothing
  if the block is empty ("late"). A page whose pattern is cut by the wrap of streambuf is
  looked for before the memory, so its comments are missed ("missed"). A failed read of
  headers or metadata leaves STOPPED and no DSCO; so does a server that closes where
  metadata is due.
* `NothingLeft`, `NoFalseError`, `DecodeEnds`: `PcmLosesTail` (a frame across the wrap
  when the stream has ended is dropped, and what follows with it), `Blind` (the last bytes
  of an aac file are seen in one piece only), `DsdMissed`, `DsdHeaderLong`, `PastBlocks`, and the
  files of `Stuck`, cut in the middle of a block or header that is waited for. `DsdHeaderLong`: the
  header chunks of a good file need more than the 8192 bytes with which the stream was found ready, or more
  than streambuf holds; what could be consumed is, and then `r < 1` (`dsd.c:756`) takes the
  0 of "come back later" for an error. `PastBlocks`: an alac file that gives one size for all
  blocks has no last block, and what follows the media is taken for one (`alac.c:380`). `pcm.c`
  looks for the header of a local file only while that is being read (`pcm.c:192`); of a short
  file, read whole before the first call, the header is played (`"header"` in `lost`).
* `PlayedInOrder`, `StartReported`, `Drains` of `Fades` and `Process`: "resized" (the
  track start points to the memory from before a resize), "overrun" (a crossfade
  completed in the middle of a chunk), "changed" (the fade mode or gain of the next track came
  while a fade was under way), "flushed" (a fade due for a track that is gone), "dropped"
  (no room for ten waits), "abandoned". `PlayedInOrder` also excepts what is mixed at the end of the
  memory: but for Android, `_apply_cross` wraps its pointer one sample late (`output.c:250`) and
  mixes in a sample that is not of the buffer (`Late`).
* `RateMatches`: PortAudio from a track start to the end of the period; PulseAudio once
  `error_opening` is set or the stream failed. `HandleLive`: PortAudio after
  `output_close_pa`, which does not wait for the monitor; streams opened and not started are
  forgotten. `Settles`: hardware gone for good, a pcm closed twice, the end of a PortAudio
  stream erased by `pa_reopen = false`, PulseAudio refusing or losing the stream.
  `CloseReturns`: ALSA waiting for a device that is gone, or crashed; a PortAudio callback that
  waits for O.
* `FramesInOrder`: a callback in full duplex that aborts when all input of the host buffer is
  taken (`pa_process.c:1321`): the rest of the host's output is not silenced, although
  `pa_process.c:1326` sets out to do it. Modelled and in no configuration of the run: the mode
  "partial" (`PartialOnly`), whose condition is the wrong way round and which no host API uses.
  `PaUtil_CopyOutput` and `PaUtil_ZeroOutput` add to the count of host frames where the
  others subtract; the one user (`pa_opensles.c`) sets it before each call.
* `FormatsKept`: `Undefined` (Float32 to UInt8 without clipping casts negative numbers to unsigned,
  `pa_converters.c:762`), `Overflows` (dithered integer conversions wrap within a last place of full
  scale), Int32 to Int24 with dither ("IMPLEMENT ME", `pa_converters.c:890`), and temporary memory
  zeroed for UInt8, which is not silence. The player opens `paInt32` with `paDitherOff`
  (`output_pa.c:184`, `366`), and meets none of them.
* `Defined`, `GoesOn`, `KeepsPromise`, `BufferIsOurs` are checked with a `Tame` client, which does not
  - terminate with a host API that is not enabled (above), or open a blocking stream on
    AAudio, which returns `paNoError` and no stream;
  - stop or abort a stream whose callback may end it: `isStopped` stays 0 when an OpenSL thread
    ends by itself, and a second stop joins it again, unlike `portaudio.h:1018`, which wants
    the stream stopped by a call;
  - start a stream again: `outputSem` keeps the posts of before, and the thread may write
    into a buffer that is queued.
  A start that fails (fault "enqueue") leaves the flags of a running stream and no thread to
  join; one that fails at `SetPlayState` leaves the thread running.
* `KeepsPromise`: AAudio goes on calling after `paComplete` until the stream is closed, and
  a data callback that ends marks the stream as stopped (`portaudio.h:1020`); it is modelled as an API that
  repeats. Stopping an OpenSL callback stream drops what is queued (`portaudio.h:1005`).
* `GoesOn`: the wait for input has no timeout, nor do those of blocking streams (`Stalled`).
* `NothingLeaks`: an OpenSL open that fails leaves the buffer processor, recorder and input
  buffers (`pa_opensles.c:826`), an engine that cannot be realised stays.
* `DevicesServe`: `OpenStream` of OpenSL does not check the rate of the input. Of the eight rates
  of `AaRates` the code tries five. That the default device of an API is its own is said of an API that
  has devices; one without says otherwise (`DefaultsExist` above).
* `BufferIsOurs` is about the callback's buffer and the one a write copies to. `ReadStream` queues its
  buffer again before it copies from it (`pa_opensles.c:1412`), so the device may be filling it.

**Bounds.** `MaxStreams` 2 (one stream that ends, is stopped or fails, and its
successor; every property relates at most two streams); `MaxLen` 1 to 3 units (2 where order
within a stream matters, 3 to fill a streambuf
that can hold input after the connection ended); `StreamCap` and
`OutSlots` so small that both buffers fill and `outputbuf` wraps; `QMax` and
`MaxCmds` bound the commands under way and in total; `Threshold` and `StartLevel`
are 0 or 1. In `live` streambuf has room for two units of a stream, so that a connection can break
between the first audio and the tick that would start the decoder. `Faults` names the failures a run
allows. In `live` and `gapless` the
streams are not shorter than what starts the output. In `link` packets are empty,
fill the player's buffer or are one byte too long; a connection carries two of them,
arriving in any pieces; `Timeouts` and `Failures` are 1 instead of 35 and 5, since only
reaching them matters; two changes let a server go down and come back.

`buffer_processor`: `MaxHost` 3 frames where the host's size has no bound; pairs of sizes run until the two meet
again (`frames`), which is the period of everything; full duplex with user buffers of 2 and 4 and
host buffers up to 3, started twice (`resets`); bytes of 3 bits (`B`) and 256 samples
of each format (`Points`), its limits among them, let every rounding, clip and dither occur. `streams`: two streams, open together on AAudio only
(`Many`; streams share the lists of `Front` and nothing in OpenSL), two buffers in a queue, semaphores up to
2 posts (`MaxPosts`), one mishap of seven kinds, two calls of `Pa_Initialize`, three builds.
`Pa_IsFormatSupported` is asked for some 140 combinations of devices, channels, formats and rates.

`body`: two streams after each other, each with one of twelve answers; a streambuf of 6 bytes
wraps several times in a stream, and at different places of ogg pages; `HeaderMax` 9 lets
headers fit, fill the buffer exactly and be too long; a metadata block is 0, 2 or 4
bytes; `Pattern` has two bytes instead of four. Checked beyond it: streambufs of 5, 7 and 8 bytes
(0.14 M states), and a pattern of four bytes. `codecs`: headers, atoms and frames are a few
bytes, streambuf a few more, such that each straddles the wrap in some file; among them are dff
headers longer than what is waited for, dsf blocks that end in zeros, alac files with one size for
all blocks and bytes behind them, and wav and aiff files from the network and local.
`process`: `outputbuf` of 3 frames that a crossfade enlarges to 6, tracks of 1 and 7 frames (and of any
length between that 'f' leaves), fades of up to 3, a period of 2, one wait for room. A crossfade goes
on over three chunks, so that what is mixed is found by the position in the fade, and its region, the chunk and
the mixed pointer pass the wrap, each at moments of its own. Checked beyond it: `Android = TRUE` (as many
states), and lengths 1, 5 and 7 with both default rates (5.1 M states). `devices`: two tracks of two
frames, two rates, one command, one mishap, one failed recovery instead of ten; beyond it two
mishaps and two recoveries for each output (0.44 M states with ALSA).

**What the runs do not cover.** `CHECK_DEADLOCK FALSE` is used where the system really
stops: `Body` has had its streams, `Devices` is closed,
crashed or in the deadlock that `CloseReturns` names, `BufferProcessor` has had its frames,
`Streams` waits for a device that is stuck. Without 'q' in `Ops`,
`TrackStartAhead` is a
statement about natural ends and 'f'. The fault "open" (a file that cannot be
opened) is modelled but in no run: `stream_file` does not set `stream.disconnect`
(`stream.c:866`) and `ReasonIsCurrent` fails with it. A streambuf or outputbuf whose size
makes 90 % of it a fraction of a frame (`-b 2048`) makes a crossfade stall playback
(`output.c:337`); the mutant of `Drains` is that case, the run has an aligned size as
the default has.

**Fairness** (`FairSpec`). Each thread is an endless loop with sleeps: weak fairness
on its steps. The controller finishes a command or tick it began (weak). It looks
at the socket and at the clock in every round of its loop (`slimproto.c:586`, `662`),
but a command can come between any two ticks, so `Execute` and `Tick` get strong
fairness. The server answers RESP (weak). No fairness is assumed of the server's
other commands or of failures. The fault "header" is left out: `stream.c:619` leaves
STOPPED without a report when the headers cannot be read, and `StreamEnds` is
false then.

In `Body` the stream thread, the ticks, the decoder and the server's cont get weak
fairness; no failure is assumed. In `Codecs` the network delivers or ends (strong
fairness, since S is taken from it by every call of a codec) and `decode_thread` runs (weak).
In `Process` one of output, decoder and the server's 's' goes on when one of them can (weak
fairness on their disjunction: the order is any). In `Devices` it is weak fairness
on the tick, the decoder, each output thread, PortAudio's callbacks and its openers, and the
playing of a pcm; none on mishaps, commands or the device's return.

In `BufferProcessor` a host buffer that was begun is processed (weak). In `Streams` a call that is
under way, the stream threads, AAudio's callbacks and devices that are not stuck go on (weak), and
reading and writing ends (strong: a call is of finitely many buffers); nothing is assumed of the client's
next call. A post that arrives between the timeout of the output semaphore and the clearing
of the queue (`pa_opensles.c:1069`) is taken to be the last.

In `Link` the main thread keeps going and reads what arrives: weak fairness on its
steps, on `Recv` and on the passing of seconds, none on recv reporting a lost
connection. `MaxWakes` matters: a wake-up resets the count of silent seconds
(`slimproto.c:650`), so the end of a silence needs them to end, which they do when no
command arrives and the streams run out. `PlayerReturns` excepts a player whose given
server stays down: it looks for no other (`slimproto.c:1012`).

## 4. The proofs

`BufferProofs` proves, for every size below UINT_MAX + 1, set of frame lengths and
set of new sizes, from `BufferAssumption` alone:

* `TypeCorrect`, `OnlyWrittenIsRead`: `[]TypeOK` and `[]NoJunk`. Neither is enough
  for the other: that the pointers stay in the region in use is needed to say which
  slots lie between them. The inductive invariant is the conjunction.
  `Measures` and `AdvanceInRegion` bound the measurements and pointer
  moves; `WriteKeeps` and `ConsumeKeeps` do the two kinds of moves, `ResizeType` and
  `AdjustType` the others.
* `LoopsAlwaysWork`: the loops that fill or empty a buffer piece by piece advance and
  write in their own memory, from `LoopsProgress` and `WritesNeverOverlap`, consequences of
  the type invariant.
* `BufferIsQueue`: `Spec => ImplementsFifo`, the refinement mapping being `Contents`,
  the unread bytes in order. `WritePuts`, `ReadTakes`, `ConsumeDrops` and `RewindClears`
  are the steps.

`PlayerProofs` proves for every number and length of streams, size of the buffers,
set of faults and repertoire of the server:

* `StopQuiesces`: `[]Quiesced`. After q and until the next command the stream is
  STOPPED and closed, both buffers are empty, and decoder and output stand still.
  It is not inductive: whether the tick that follows can restart something depends
  on what each thread saw before q. `IInv` says for each stage of q what is already
  quiet (`DecoderStopped` from "q_buffer" on, `OutputEmpty` from "q_output" on,
  `OutputStopped`, `StreamClosed`, `StreamEmpty`), that the decoder never holds D unless
  decoding (`DecoderRuns`), and that a tick begun in quiet carries nothing to do
  (`TickQuiet`).
* `StopIsSilent`: `QuietIsSilent`, from the same invariant: in quiet no report about an
  earlier stream is sent (STMs excepted, see `Player_stale.cfg`).

* `PlayerTyped`: `[]TypeOK` of `Player`. It is not inductive: received bytes fit into
  streambuf because poll saw room and only the stream thread fills it, a decoded unit has a slot, and
  stream numbers stay under `MaxStreams` because each 's' on its way is counted with the streams opened.
* `ReasonCurrent`: `ReasonIsCurrent`, although `stream.disconnect` is read a second time
  without S after the tick looked under S. `HandInv` says how server and controller take turns: commands that
  end and that start streams alternate (`Alternate`), the next 's' finds no stream
  (`NextFindsNone`), what a tick saw of the stream is still so unless the stream ended since (`TickKnows`),
  and the ends it is about to report are those of a stream that is over (`TickTells`). It assumes "open" not in
  `Faults`, and `Named` or "connect" not in `Faults`: both are necessary (section 3; `stream_file` leaves a stale reason).

`OrderProofs` is about the order of audio, whatever network, server and codec do:

* `NothingRepeats`: `NeverRepeated`. `RoomInv` is about the two positions in outputbuf that are
  used later than they were determined: room that the decoder saw, and `track_start`. `OrderInv` lines up
  all units on their way, from the one played last over outputbuf, codec and streambuf to the
  one that the connection gives next, and says for each region of 'q' what may be left.
* `FlushedIsGone`: `FlushedStaysFlushed`, from the same.

Both assume `FlushAlone`: a server that uses 'f' uses neither 'q' nor skips. Otherwise
they are false: 'q' and 'a' leave a stale `track_start` for 'f' (`Player_stale.cfg`).

`GaplessProofs` is about completeness:

* `PlayedWithoutGap`: `PlayedInOrder`, over any number of streams, any sizes of both buffers and lengths
  of streams. `GapInv` says that each unit in outputbuf comes after the one before it
  (`Chained`), the codec's after those (`HeldNext`), and streambuf begins where that ends
  (`Numbered`, `Complete`). That a new stream adds no gap rests on `OpensDrained`
  and `StartsDrained`: it is started and opened when all of the last was decoded, from what decoder,
  ticks and failures leave (`StopsDrained`, `CompletesDrained`, `FailsDrained`, `FindsKept`).
* `ReportedEndsAreReal`: `EndsAreReal`. `TrackStartStaysAhead`: `[]TrackStartAhead`.

They assume `Smooth`, that nothing is lost on purpose or by failing: no "reset", no codec that gives up,
no skips, formats named, not both 'q' and 'f'. Failing requests, headers and files are
allowed. A reset connection, a codec that gives up and a skip are gaps; both 'q' and
'f' is the stale track start. `TrackStartStaysAhead` also excludes 'q', which leaves it behind.

`LinkProofs` proves for any servers, packets, bounds and losses:

* `ReconnectTrue`: `ReconnectIsTrue`. The invariant (`ReconnectInv`) has to relate three
  variables: while connected the last HELO went to `server`; a set `reconnect` excludes
  `previous`, so that a failed connect of a player that comes back from a lost
  connection has nowhere else to go; then `server` is still the one of the last HELO.
* `PacketsWhole`: `WholePackets`, however recv cuts the bytes. `WireOk` says that each byte on the wire
  brings the rest of its packet and then the next packet, `Framed` that the
  first of them is the one `expect` and `buffer` wait for and that the packets executed are those before.
  `Receiving` says what n bytes from the wire are; `BodyFrames`, `LengthFrames` and `SendFrames` are the steps.
* `LinkTyped`: `[]TypeOK`, with the bound on `buffer`; it needs `FrameInv`.

`DevicesProofs` proves, for any streams, rates, commands, failures and number of monitor threads:

* `NoHandleUsedAfterClose`: `[]HandleLive`. ALSA is one thread, and `AlsaInv` says at which of its steps the pcm is
  open. `_pa_open` gives up O while it closes a stream and while it starts one; `OpenInv` says of each thread in it
  which stream that is (`Calls`), that only one thread starts a stream at a time (`OneOpens`), and that meanwhile
  no other stream runs and nobody asked for another (`OneRuns`).
* `PlayedAtItsRate`: `RateMatches`. `QueueInv` says that the frames in outputbuf up to the track start have
  `current_sample_rate` and those behind it `next_sample_rate`; `_output_frames` keeps that (`OutputKeepsOrder`), and so do the
  decoder and the flushes. `RateInv` says that a PortAudio stream runs at `current_sample_rate`, or a flush has reset that and
  outputbuf has nothing from before the track start. `AlsaInv` and `PulseInv` say it of the others.

`BufferProcessorProofs` proves, for any sizes of user and host buffers, in any mode but "partial", any
formats, layouts and number of starts:

* `TimesToldAreTrue`: `[]TimesAreTrue`. The invariant counts frames (`Accounts`): what the user took and what lies in
  the input buffer is what the host gave and the silence at the start, and likewise for the output, as long as the
  user goes on. In full duplex a host buffer is given back when its input is used up; then its output has to
  be full (`Meets`, `InputUsedUp`). It is, since the user took a multiple of its frames and the host gave a multiple of its
  own, and the silence at the start is the most that a multiple of the one leaves of the other (`ShiftIsMost`):
  what `CalculateFrameShift` searches up to the least common multiple (`CommonMultiple`) bounds
  all others.
* `FramesPassInOrder`: `[]FramesInOrder`. A layout (`IsLayout`) gives each frame and channel a place of its own in
  memory (`PlaceUnique`), so a loop of a converter or zeroer writes the n frames it is told and leaves all others
  (`Wrote`, `ConvertedAt`, `ZeroAt`), and what lay in order still does (`Moved`, `Appended`). On top of the counts, `InInv` says
  which frames lie in the host's two sets of channels, where their pointers are (`Cut`) and what
  `tempInputBuffer` holds; `OutInv` says which frames the host's output has been given (`Filled`), what
  `tempOutputBuffer` still holds, and that when the user has ended the stream nothing but
  silence is missing (`Ended`). Without adapting, what is left to do is a number of whole user buffers (`Evenly`), so
  the callback gets no less than it asked for. A stream with blocking calls has an invariant of
  its own (`BlockInv`): a call that waits has the next frames to write, or the last that were taken.
  It has no silence at the start, since `PaUtil_CopyOutput` and `PaUtil_CopyInput` pass by the temporary
  buffers.

`StreamsProofs` is about PortAudio on Android, for any streams, devices, host APIs, failures and
numbers of buffers:

* `NothingUndefined`: `[]Defined`. `SlInv` and `AaInv` say of each stream what thread or device, flags and start
  know of each other, `CallInv` what the stream is like that a waiting call works
  on, `ListInv` that `Pa_Terminate` finds the open streams in the list, each once.
* `OursAlone`: `[]BufferIsOurs`. `LineInv` counts: what is queued, posted and in somebody's hand is at most
  `numberOfBuffers`, and the queue is the buffers just before `current`, so `current` is not in it.
* `LittleLeaks`: `[]NothingLeaks`, for every client, from `LeakInv` (what a stream holds its close gives back).
* `PromiseKept`: `Spec => KeepsPromise`, the refinement of `StreamPromise`. The mapping is `Status`, read off the
  flags and the program counters of threads and devices; each action is shown to turn the status of
  at most one stream, as `Turning` allows, or to close all (`Pa_Terminate`).

All but `LittleLeaks` assume a `Tame` client; section 3 says what happens with another.

## 5. Only model-checked

Everything about `_buf_unwrap`, the codecs, `stream_ogg` and with it `Body` (recursive operators or
induction over data); the properties of `Process`; `FormatsKept` of `BufferProcessor` (every converter on every sample, where
the theorems take a converter to keep the sample's meaning); `DevicesServe` of `Streams`, which
is about folds over the table of devices. The type invariants of `Link`, `Player`, `Codecs` and `Fades` are
definitions that the runs do not list; the first two are proved. Liveness (`StreamEnds`, `PlayerReturns`,
`Ends`, `DecodeEnds`, `Drains`, `Settles`, `CloseReturns`, `Returns`, `GoesOn`)
stays with TLC: fairness and ENABLED are out of the prover's reach.

## 6. Known limits of the model

In `Player` units hide byte counts: threshold and start level are compared in units, and codecs
differ from `mad.c` in where they take O: PCM and FLAC hold S and O together, which
is a coarser step. `PortAudio` has the monitor thread of a build that is not for Android. `Link` does not
model slimproto_stop,
nor would-block answers, after which recv is tried again. A poll with headers to send always
reports "writable". The clock is a choice. Locks are ideal, memory is sequentially consistent
under them; `stream.disconnect` read outside S (`slimproto.c:714`) is read atomically. In `Body`
the length of a metadata block and its bytes are always two steps. In `Alsa` the head
of the loop is one with the step before it. A sleeping PortAudio monitor is not followed after
`output_close_pa`, nor what `output_close_stdout` frees under its thread.

**Not modelled**, and why:

* Arithmetic on samples: gain, clipping and packing (`output_pack.c`), the conversion at the end
  of each codec, dsd2pcm, the phase of the DoP marker; the milliseconds of `start_at`
  (`output.c:104`), which is a moment that comes or does not.
* Of the outputs: ALSA hardware parameters, mixer and `test_open`, the choice between mmap and
  write, PortAudio device names and host options, the connection to PulseAudio
  and its volume, which `set_volume` sets without a lock.
* `send_packet` on a full socket (`slimproto.c:117`) and what a tick loses with a dead one
  (`slimproto.c:714`): both need the player's state across a reconnect. `setd`, `audg`.
* The ogg scanner over libogg (`USE_LIBOGG`), the steps of an SSL handshake, errors of libsoxr,
  the order of codecs (`sort_codecs`).
* The visualiser's shared memory and the IR slot, on which nothing in the player depends; GPIO.
* `main.c`, `utils.c`, `daemonize.c`, `sslsym.c`, `tools/`: options, sockets, loading of libraries, without
  state of their own.
* Of PortAudio: latencies, the stream clock and CPU load, error texts, the scheduling class of a thread,
  `pa_ringbuffer`, `pa_allocation`; host APIs that the Android build does not have.
* `android/`: glue between a Java user interface and the same player, except for PortAudio.

## 7. Plan

What is left is to prove more of what TLC checks: `NothingHeldBack` of `Process`, and `StartReported` and
`PlayedInOrder` of `Fades`, with `odd` as it is. Both modules reach no recursive operator.

To run: `tlc -config Player_stop.cfg MCPlayer.tla`, `tlapm OrderProofs.tla`.
