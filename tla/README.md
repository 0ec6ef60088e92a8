# Verification of DVswitch

DVswitch is a live video mixer: cameras and other *sources* send DV frames over
TCP, an operator chooses what goes out, and *sinks* (recorders, streamers) receive
the mixed frames. This directory holds TLA+ models of the program, the TLC runs that
check them and TLAPS proofs about them. Paths below are relative to the repository.

## 1. The system

| component | source | state | operations | used by |
|---|---|---|---|---|
| ring buffer | `src/ring_buffer.hpp` | `front_`, `back_`, slots | push, pop, front, back, reset, copy, assign, swap | mixer, server |
| mixer | `src/mixer.cpp`, `.hpp` | formats, settings, source slots with queues of 4, `mixer_queue_` of 10, sinks, two run states | add/remove source and sink, put_frame, operator calls, clock thread, mixer thread, destructor | server, connector, window |
| server | `src/server.cpp` | poll set, connections, message pipe; per source: a partly received frame, activation message; per sink: queue of 30, stream position, recording flag | poll loop, receive, send, put_frame, set_active | network clients, mixer |
| connector | `src/connector.cpp`, `src/DVVideoStreamFramer.cpp` | one thread and one pipe of requests, HTTP sources, framers | add_source, handle_frame, handle_close | window, mixer |
| window | `src/mixer_window.cpp`, `src/dv_selector_widget.cpp`, `src/format_dialog.cpp` | the last frames handed over, buttons, a fade in progress | put_frames, effect_status, button handlers | mixer, operator |
| display | `src/dv_display_widget.cpp`, `src/vu_meter.cpp`, `src/status_overlay.cpp` | drawing buffers | drawing | window |
| file sink | `src/dvsink-files.c` | the open file | read header and frame, open and close files | server |
| command sink | `src/dvsink-command.c` | a pipe | copies the stream | server |
| sources | `src/dvsource-{alsa,file,firewire,dvgrab}` | audio ring, file position, device | send frames | server |
| DIF | `src/dif.c`, `src/dif_audio.c`, `src/video_effect.c` | none | pure functions on frames | all |
| configuration, sockets | `src/config.c`, `src/socket.c` | none | parse, connect | all |

### How they interact

Threads of the program: the *server* thread and the *connector* thread call
`mixer::put_frame`, `add_*` and `remove_*`; the *clock* thread takes one frame of every
queue per tick and pushes the set to `mixer_queue_`; the *mixer* thread pops it, makes
the mixed frame, calls `sink::put_frame` of each sink connection and
`monitor::put_frames` of the window; the *window* thread (Gtk) calls the operator
functions. `source_mutex_`, `mixer_mutex_`, `sink_mutex_` and one mutex per sink connection
guard the shared state and are never nested except a sink's inside `sink_mutex_`. The mixer
thread wakes the server thread through a pipe of file descriptor numbers. Frames are shared
by reference between all of these.

### What is hard, and what makes each part correct

* **mixer** - the mixer thread works on the front of its queue without the lock;
  settings are used with sets of frames selected at other times; slots change hands with
  frames in them; one-shot flags pass through bounded queues; three wakeups and a stop race
  each other. Correct: frames in order and once, no frame written while shared, indices in
  range, no lost wakeup, cuts and tallies not lost, the output's format as asked for, shutdown
  terminates.
* **clock** - the interval of the next tick feeds back from the delay of the frames, in integers.
  Correct: it keeps step with the audio source, without a frame missed or dropped, and
  recovers from a stall.
* **ring buffer** - counters that wrap, raw storage. Correct: a bounded FIFO of exactly the
  live slots.
* **server** - wakeups by descriptor number while descriptors are closed and reused, two vectors
  changed in the middle of a loop over them, partial reads and writes, a stream whose flags depend
  on what was skipped. Correct: every queued frame is eventually sent, a wakeup reaches the
  connection that asked, a gap in the stream is always flagged, frames are cut where they begin.
* **file sink** - Correct: a file never contains a gap, across overflow, cuts and pauses of the
  recording.
* **connector** - a request and its completion across two threads, and a constructor that may fail
  at four points. Correct: whoever waits is woken; a frame goes into the slot of its own
  connection, and a connection that failed, was refused or ended has none.
* **window** - a timed fade whose end is reported from another thread without a lock, handlers
  that signal each other; frames handed over through a slot that the next frame overwrites.
  Correct: what is on air, the buttons and what the window remembers agree, no frame is forgotten, no
  thumbnail starves.
* **capture** - packets lost between chunks of any length, an overspill of the last request;
  a device that returns any number of samples. Correct: blocks at their places, no read beyond
  a buffer.
* **fade, times, audio, effects, display geometry** - integer arithmetic with divisions,
  remainders, widths and special cases. Correct: they agree with what they approximate, to a
  bound that is stated.

The list of hazards with their lines is in `PROJECT.json`.

## 2. Modules

| module | what it models |
|---|---|
| `BoundedFifo` | what a queue promises: a bounded sequence, first in first out, that can be copied and exchanged |
| `RingBuffer` | `ring_buffer`: slots, wrapping counters, every operation; refines `BoundedFifo` |
| `Mixer`, `MCMixer` | `mixer`: every member function, the clock thread, the mixer thread, the destructor; values of its constants for TLC |
| `FrameClock` | `run_clock`: the interval of a tick from the delay of the audio source's frames |
| `TimedFade` | `video_mix_fade`: the progress of a timed fade |
| `RecordingTime` | `set_times`: timecode, and the places of the packs that are written |
| `Recording` | what a sink that writes files promises: each file is an unbroken run of the frames to be recorded |
| `SinkStream` | one sink from `put_frame` to the file: queue, message pipe, `do_send`, socket, `dvsink-files`; refines `Recording` |
| `Server`, `MCServer` | the server thread with all its connections: accepting, receiving, sending and dropping; its symmetry for TLC |
| `DifAudio` | the sound of a DIF frame: shuffling, companding, sample counts, silence, dubbing |
| `VideoEffect` | fade, title-safe border and picture in picture on a plane of a picture; rectangles |
| `DisplayGeometry` | selections on the display, coordinates, thumbnails |
| `MCSignal` | the four before and `FrameClock`, `TimedFade` against reference definitions |
| `Connector` | sources over RTSP: the window's thread and the event loop |
| `MixerWindow` | the operator's commands and the end of a fade |
| `MonitorFeed` | `put_frames`, `update` and the rota of the thumbnails |
| `Capture` | the firewire source and the framer |
| `AlsaSource` | the buffer of samples of the ALSA source, and its dummy frame |
| `MCPeriphery` | the five before, each on its own; the window's record button, which shares no member with its effects, apart from these |
| `RingBuffer_proofs`, `Mixer_proofs`, `Frames_proofs`, `SinkStream_proofs`, `Recording_proofs`, `Server_proofs`, `Signal_proofs`, `Periphery_proofs` | proofs |

A definition marked *slip* in a module is the next definition with a plausible mistake. It is no
part of the specification; with it in place of the right one, TLC finds the
property named for it in `PROJECT.json` violated, which shows that the property
can fail.

### RingBuffer

`front_` and `back_` count modulo `Word`; `buffer_` maps slots to an element or to `Raw`
(storage without an object). Each operation is one action: a ring buffer has no locks of its
own, its users have. Growing the vector of sources copies queues, hence several
buffers and `CopyConstruct`. `contents` maps the state to the sequence of
`BoundedFifo`. If the capacity does not divide `Word` (10 and 30 do not divide 2^32) the
slots lose their place at the wrap; such a buffer is followed up to its last push before it
(`Room`), which on a 32-bit machine is more than five years of frames. The run has a capacity
that divides `Word`; the proofs cover both cases.

### Mixer

An action is one critical section with the unlocked code after it up to the next lock or
wait. `clock_pc` and `mixer_pc` are the places of the two threads between critical sections:

| action | code | then |
|---|---|---|
| `ClockStart` | `run_clock`, wait for the start | `asleep` until notified, or `select` |
| `ClockSelect`, `ClockStop` | copy of settings and frames, or stop | `push` |
| `ClockPush`, `ClockDrop` | push to `mixer_queue_`, or drop | `notify` or `select` |
| `ClockNotify` | `notify_one` | `select` |
| `MixerGet` | pop of the last set, wait, next set, or stop | `asleep`, `mix` or `done` |
| `MixerMix` | `apply`, repeat, audio, flags | `sink` |
| `MixerSink` | `put_frame` of each sink | `monitor` |
| `MixerMonitor` | `put_frames` of the window | `get` |

`put_frame` is `QueueFrame` and, where it started the clock, `NotifyClock`; or `DropFrame`. A
frame is a record of its number, video system, aspect, sample rate and `format_error`; a mixed
frame of the number of the frame that it is (0 for a new one), the numbers of
the frames it shows and of the frame whose audio it has, and the flags. A null dereference or a
failed assertion is a disabled `MixerMix`: the invariants `RepeatHasFrame`
and `DubSameSystem` are about it. Condition variables are modelled without spurious
wakeups, which is the harder case for liveness; both waits are loops, so a spurious wakeup would
only evaluate the condition once more.

Several variables only record the past (`puts`, `ticks`, `dropped`, `shared`, `seen`, `shown`,
`cut_due`, `reformatted`); no action of the code depends on them except through the bounds and `shown`,
which stands for the selectors that the window creates with its first frame.

Left out of `Mixer`: how long a tick is, the progress of a timed fade and the recording times
(the three modules that follow; the states of `Mixer` do not depend on them), the contents of
pictures.

### FrameClock, TimedFade, RecordingTime

`FrameClock` measures time from the present tick: `ages` holds how long ago each queued frame of
the audio source came. `Tick` is one round of `run_clock` and the wait that ends it, during which
frames come at the source's own rate and `put_frame` drops what finds the queue full. `Stalls`
keeps frames back in the network, `Switch` takes the sound from another source, whose queue
may be in any state; one of them happens at most once in a behaviour. Waiting is exact: how late the
system wakes the thread is not modelled. The widths of the code's numbers hold every value met
(the run's states are all of a few hundred million nanoseconds).

`TimedFade` has one action, `apply`. A frame's length is in whole ms, 33 for the 33.37 of 525/60,
and kept from the fade's first frame; all times of its properties are counted in it. That `m.format.system`,
which gives the length, may be null (`mixer.cpp:781`) is left out, as is the `pixel_aspect`
of a frame whose aspect is not known (`mixer.cpp:904`).
`RecordingTime` knows a sequence of a frame by the writes
made to it, so that a pack overwritten by another is seen.

### SinkStream

| action | code |
|---|---|
| `PutFrame`, `ScheduleSend` | `put_frame` under its mutex, then the write to the pipe |
| `Poll`, `ReadMessages`, `SentAll` | `serve`, as far as it concerns this connection |
| `TakeFrame`, `SkipFrame`, `WriteFrame`, `WriteBlocked` | the loop of `do_send`: under the mutex, then one `writev` that takes any part of what is left |
| `ReadHeader`, `EndHeader`, `ReadBody`, `EndBody` | `transfer_frames` of `dvsink-files`, a unit at a time |

A frame is its number with `do_record` and `cut_before`; headers and frames are a few
units long, and a write or a read may end after any of them. The sink is a recording sink of
`dvsink-files`, or one of the two other kinds; what reads those is taken to follow
`protocol.h`, with a new file at every flag. `puts` records what was put. `Recording`
knows only the files.

### Server

`serve_pc` is the place of the server thread in `serve`; `connections` and `poll_fds` are its
vectors, the two fixed entries of the latter being `pipe_ready` and `listen_ready`.

| action | code |
|---|---|
| `Poll`, `ReadMessages`, `Accept`, `EndTurn` | one turn of `serve` |
| `HangUp`, `Pass` | what it does with a connection by `revents` |
| `Receive`, `DropReceiving` | `do_receive` with the two virtual functions that it calls |
| `SendActive`, `Compare` | `source_connection::do_send` between its two looks at `act_flags_`, which another thread changes |
| `SendFrames`, `SendBlocked`, `DropSending`, `SentAll` | `do_send` of sinks, and what `serve` does with results |
| `set_active`, `put_frame`, `schedule_send` | calls of the mixer and the write to the pipe that ends them |
| `Quit`, `Return` | the destructor, and the end of `serve` |
| `Connect`, `Leave` | clients |

A `read` takes any part of what is wanted, or blocks, or fails; a `write` of an activation message takes any
part of it, blocks or fails. The number of a descriptor
is any that no object holds. The mixer calls an object under the mutex that the
destructor of the object needs too (`InCall`). `read`, `frames` and `asked` record the past. The
position in a source's activation message, `act_message_pos_`, has no value before the first is
sent: `SendActive` begins with any, writes the whole message whatever the position, and
`Compare` or `DropUnsent` follows by whether the position is then the end of the message. A second
message always begins at 0, since every other end of the first drops the source.

### Connector, MixerWindow, MonitorFeed

`Connector`: `ui` is the place of the window's thread in the constructor of a
`source_connection`, which fails at `Describe`, `Register`, `Play` or `Answer`; `handle_request` is
the request on the event loop's thread, which also delivers frames (`handle_frame`) and the end of a
stream (`handle_close`). A connection that is refused gives up its slot (`Refused`), and its
session goes only with the exception (`Unwind`); frames may come between the two, and
`last_put` says whether the frame put last came there. The members that `Unwind` destroys go in one step.
*Guests* are sources that the server registers in between. Three
assumptions: a server sends frames only after the PLAY request, no stream ends while the constructor
is still busy with it, and the wait on the condition variable, which has no predicate
(`connector.cpp:172`), is not woken spuriously.

`MixerWindow`: what a handler does before it asks for a mix is an operator from windows to windows, since
handlers call each other and
the buttons of the effects, one radio group, signal the old one and then the new one. A handler that
asks for a mix has three steps: `Command` begins it, `create_video_mix` reads the sources and makes the mix,
`set_video_mix` sets it and does the rest. `switch_pri_sec_video_sources` has one more, between its
reading of the primary source and its writing (`Switch`, `Switched`); and one handler may ask twice
(`cancel_and_set_pri`). The mixer thread's report of a fade's end has four: `FadeEnds`,
`TargetReached`, `ReportMade` and `FadeReplaced`. The steps of the two threads interleave freely; a statement
that copies a member is one step, and what only the window's thread reads goes
with the step before. `stale` records that a report came after the mix was made that a handler is
about to set, or set last.

`MonitorFeed`: `Store` and `Poke` are the two halves of `put_frames`;
`EmptyPipe`, `TakeFrames`, `DrawThumbnail` and `EndUpdate` are `update` and the selector's rota, which
newer frames break off.

### Capture, AlsaSource

A DIF block is its place in the frame. `poll` is one `raw1394_loop_iterate`: some packets,
each after some lost ones, go to the framer's buffer, what does not fit to the overspill. A
chunk is *sound* if it came in one piece with the profile known and ended in its frame; only of
such is `FramesPlaced` true, and the flag `sound` remembers that of the frame. `AlsaSource`
counts samples: `Read` of any number that the device returns, `Send` of a frame.

### The calculations

`DifAudio`, `VideoEffect` and `DisplayGeometry` are operators. The audio part of a frame is its
packs, the fields of the AS pack, and the samples of each block; a plane is a function from pixels to
values. In `MCSignal` a behaviour is about one subject, and its initial state is the input of one
calculation; the fade and the clock take steps.

## 3. Runs

**Mixer**: two sources, queues of one or two, three ticks and up to
three frames. The code's lengths 2, 4 and 10 are parameters of the same actions. A source queue
of `2 * target_queue_len` frames fills and empties, `mixer_queue_` fills while a set
is held and while one waits, a slot is vacated and taken over, and three ticks make a
normal, a repeated and a dropped set in any order. `MaxFrames` and `MaxTicks` only end
the behaviours. `MixerSinks` has two sinks, one of them a recorder, and two ticks, which is enough
for a sink to come, go and come back between frames. Symmetry is used for sources, in runs without
liveness properties. Deadlock is not checked in the runs of the mixer: the destructor ends
the program.

**SinkStream**: a queue of two with four frames overflows, drops frames with any of their flags,
and recovers; a message of four units goes through a socket with room for two, so that headers
and frames are split everywhere. Longer messages would only repeat the middle.

**Server**: two clients and two descriptors, so that the number of a client that left goes to the
other while a call is under way; four units make a greeting and a frame in two
buffers, the second of which may be filled in two reads; an activation message of two units can be torn; two
calls put two messages in the pipe.
`ServerLive` has one unit and one call, without symmetry. `MaxUnits` and `MaxCalls` only end
the behaviours.

**Signal**: all 65536 samples; sound of the least, greatest and standard number of samples of each
system and rate; silence for the first 31 frames, which is two cycles and more, summed from the first frame;
times of the first 20 minutes (36000 frames are two of the
ten-minute periods of the drop-frame rule) and around the end of a day in each system, where the digits
begin anew; every sequence; fades
of values in steps of 17 at all 256 scales; pictures up to 8 by 4 with one bright pixel, in the two
chroma formats (scaling is linear, so that others are sums, to rounding); rectangles on a grid of 3 by 2;
drags from every sixth of the picture to every sixth of the display, and beyond it. Fades of 300 ms, the
least that the slider has, 510, 1000, 2000 (the default) and 15000 ms, the most,
with frames of 33 and 40 ms, have buckets of one to fifty-eight milliseconds, with a remainder and (510) without.
The clock runs for 120 ticks with sources 1 % fast and 0.5 % slow, a first tick 10 ms
after a frame, and a stall of one or two intervals or a change of the source within 20 ticks.

**Periphery**: two connections and one guest make a slot vacant, taken over and vacated again; three sources
make a rota that can be unfair; frames of eight blocks in two sequences, packets of two blocks, up to
three of them at a time with none or one lost before each, exceed a frame and a request. The sound
source holds 40 samples back with frames of 16 and 17. The parts do not interact in the
model: the mixer comes between them.

For the window, two sources, a queue of one frame and three fade objects, of which one is set, one queued and one
being made, are what reports and effects can confuse; fade objects are alike, hence their symmetry.

| run | question | result |
|---|---|---|
| `RingBuffer` | is a ring buffer a FIFO of exactly its live slots, through wraps and copies? | yes |
| `MixerFrames` | are frames mixed in order and once, never written while shared, indices in range, is there a frame to repeat? | yes, with sources of one system |
| `MixerSinks` | does each sink get every frame once, are recorders counted, do cuts arrive, is every set of frames mixed, does the clock start and stop? | yes, unless a set of frames is dropped; liveness under the fairness below |
| `MixerChoices` | do slots and sources agree, is no source left lit, does the output keep to the system asked for? | yes |
| `SinkStream` | do frames reach the files, unbroken and in step, whatever overflows or blocks? | yes |
| `Server` | are requests to send neither lost nor misdirected, frames cut where they begin, connections kept? | yes, unless an activation message is torn or misplaced |
| `ServerLive` | does the thread end when asked to, are clients that left dropped? | yes, under the fairness below |
| `Signal` | do the calculations agree with what they are for? | yes, with the exceptions that the properties name |
| `Periphery` | do connections keep to their slots and end their waits, do program, buttons and window agree wherever a fade's end is reported, is no frame or thumbnail forgotten, are blocks and samples placed? | yes; but for frames of a connection that is being refused, and the primary source of a picture in picture made before a report (section 4) |
| `MixerShutdown` | does the destructor end? | **no** |
| `MixerDub` | is audio dubbed between equal systems only? | **no** |
| `Documented` | are the sound's rate, the frame numbers, the places of the times and the length of a fade what the comments and the manual say? | **no**, none of the four |

Fairness: weak fairness of each thread (`Clock`, `MixerThread`), of the end of a
`put_frame` that has begun and of a destructor that has begun: the operating system
schedules every runnable thread, and none of the critical sections blocks for good. Nothing
is assumed of sources, sinks or the operator. `SinkStream` assumes the same of the
server thread and of a `put_frame` that has begun, and that the sink goes on reading, without
which no frame could be delivered. `Server` assumes it of the server thread and of calls that
have begun, and nothing of clients. `Periphery` assumes it of the connector's event loop and of the
window's thread once it is in the constructor (its requests to RTSP servers time out or are
answered), and not of the operator.

## 4. Disagreements

### Shown by a run

`PROJECT.json` quotes the lines.

* `MixerShutdown`: the clock thread can overwrite the request to stop, so that the destructor never
  returns.
* `MixerDub`: audio of another system trips an assertion.
* `Documented`: `AsDocumented` has four parts, each of which is refuted; `tlc -continue` prints the states
  of all of them.
  * `RateKept`: a frame whose sound is set at 32 kHz has no valid sample rate (`dif_audio.c:261`, against `dif.h:100`).
    `AudioSurvives` reads such a frame with the code that other equipment writes (`Readable`).
  * `DropFrame`: the drop-frame rule (`mixer.cpp:450`: skip two numbers each minute) becomes one number at
    each half minute (453-454), and since the division by 1798 is never set back at the end of a
    ten-minute period, the count also runs ahead, by one more frame about each three days. Some numbers are
    given twice, the first to frames 8988 and 8989. `TimesRecorded` asks for less than the rule: that the
    number does not go back, and that the digits say it.
  * `OnlyListed`: `set_times` writes subcode into three blocks of a sequence where the comment
    (`mixer.cpp:527`) speaks of two, and times to VAUX of odd sequences; the third block's is overwritten in
    part by video times, and in odd sequences from 7 on it overwrites the VSC pack.
    `TimesRecorded` is about the packs that the comment lists.
  * `FadeOnTime`: a fade has 255 steps of `ms / 255` whole milliseconds (`mixer.cpp:721`): 300 ms end after
    255, 1000 after 765, the default of 2000 after 1785, where `doc/README:183` promises the time to a
    frame. `FadeTimed` is what does hold against the time asked for: never late, and early by 254 ms at most.

### Noticed while modelling, without a run of their own

Each is an exception that the property it touches names, or lies outside what is modelled.

Mixer:

* A cut is lost when its set of frames is dropped: `CutKeptOrDropped` holds only with its
  second half. `mixer.hpp:167` promises "a cut in the output as soon as possible".
* There may be no last frame to repeat (`mixer.cpp:940`), which the comment at 937 does not
  expect: when there are two systems and the first frames of the sources differ, or when the operator
  sets a format that no source has before the first frame is mixed. `RepeatHasFrame` is checked, and
  proved, with one system as long as the operator leaves the format alone (`RepeatSafe`).
* A source that takes over a slot of the video mix is not told that it is active (`mixer.cpp:85`,
  against `mixer.hpp:86`); `TallyNotStale` is the other direction, which holds.
* `format_error` of frames queued before the clock starts is never set (`mixer.cpp:125`), while
  `frame.h:30` says "set by mixer"; the display reads it (`dv_display_widget.cpp:190`).
* A repeated frame has a new serial number (`mixer.cpp:945`), while `mixer.hpp:69` says that "the
  serial_num member of the frame can be used to check whether the frame is new".

Server (`server.cpp:508` says why a source is dropped: "network" problems, disconnection, protocol
violation, lack of resources; neither of these is one):

* `act_message_pos_` is used without a value (477): if it is not 0, the first activation message counts as
  failed and the source is dropped.
* `write` is given the whole message whatever the position, and if it takes only a part of it (485), the
  source is dropped too. `KeptWithoutCause` excepts these two cases, by the position they leave
  (`Misplaced`, `Torn`), and nothing else.

Audio and capture:

* Negative samples just below the end of a companding segment lose a carry and come back with about
  double their amplitude, -513 as -1024 (`dif_audio.c:198`); `CarryLost` names them, and `SampleKept` is about the others.
* The packs VS and VSC of the dummy frame are in each other's place (`dvsource-alsa.c:118-134`,
  against `dif.c:89-120`), so that the mixer's setting of the aspect has no effect on it.
* The framer cannot know a camera's profile from its first data, since the firewire source
  delivers whole packets, 150 of the 155 blocks that `getProfile` wants; until then, a header
  anywhere in a chunk places the chunk at the start of the frame, a chunk that overruns its frame is
  not moved, and an overspill longer than the request is cut. `FramesPlaced` is about the time after.

Window:

* `pri_video_source_id_` may change between a handler's reading of it and its `set_video_mix`
  (`mixer_window.cpp:413`, 476, 492, 513): the picture in picture on air then has another primary source
  than the window remembers and the buttons show. `ProgramAsChosen` holds of its secondary source, and of the
  primary one unless a report came in between (`stale`).
* The key M changes the program only while a picture in picture is on
  (`mixer_window.cpp:498-517`, against `doc/README:97` and 115); the buttons change always.
  `ProgramAsChosen` says nothing of a single source on air.
* Choosing picture in picture does not end the fade effect (`mixer_window.cpp:359-367`), other than
  `doc/README:189-191` says.
* `fade_pending_` is not initialised; `Init` of `MixerWindow` has both values. The end of an earlier fade
  ends a later one (`effect_status` does not ask which fade it is about).
* The rectangle of a picture in picture chosen under 625/50 and used after a change to 525/60
  exceeds the frame, against the assertions of `video_effect.c:112`; `DisplayFits` is about the
  selection, which is clipped, not about the mix that was made of it.

Connector:

* A connection whose PLAY request is refused gives up its slot before it stops getting frames
  (`connector.cpp:80`); they are put where no one or another source is. `ConnectionsKept` holds of all
  other frames, and of all slots; `last_put.refused` tells those frames apart.
* The wait has no predicate (`connector.cpp:172`), and a stream that ends while the constructor
  is still in `Play` would be deleted twice; the model assumes that neither happens.

## 5. Proofs

The proofs hold for every value of the constants that satisfies the ASSUMEs of the modules:
any capacity and word size for `RingBuffer`; any numbers of sources, sinks, slots, frames and
ticks, any queue lengths and any formats and mixes for `Mixer`; any lengths of queue, header,
frame and socket for `SinkStream`; any number of clients, sizes of greeting and frame, bytes and calls
for `Server`, with at least as many descriptors as clients; any lengths of fades and frames; any
numbers of connections, guests, sources and fade objects, and any sizes of pipes, packets, requests
and frames for the parts of `MCPeriphery`, and any delay, device and cycle of sample counts. Its
assumption only orders the sizes as the code's constants are: the saved blocks fit in the smallest
frame, that in the camera's, and that in the reader's buffer.

* `RingBuffer_proofs`: type correctness, `LiveExact`, `PushEnds` and the refinement of
  `BoundedFifo`. The inductive invariant is `TypeOK /\ LiveExact` with the bound on the
  counters of a buffer that does not wrap; the work is in lemmas about `%`: that distinct
  positions of a queue no longer than the capacity have distinct slots, also across the
  wrap.
* `Mixer_proofs`: the inductive invariant `IInv` joins `TypeOK` with `Ranges` (what the settings
  name exists once the clock runs), `Holds` (the mixer thread holds the front of a
  non-empty queue), `SlotsAgree`, `TallyNotStale`, `SinkFacts` (sinks and slots agree, the
  recorders are counted, each sink has the last frame) and `CutAhead` (the flag
  of a cut that is owed is in front of the mixer thread). None of the safety properties is
  inductive alone: `IdsInRange`, for instance, needs that source 1 exists when the clock runs,
  because the initial settings name it before there is a source. There is one lemma per action
  and one step per part of the invariant; `Unmoved` and `UnmovedFacts` dispose of the
  parts whose variables an action leaves alone. From `IInv` follow `TypeOK`,
  `IdsInRange`, `HeldFrontStable`, `SlotsAgree`, `TallyNotStale`, `RecordersCounted`,
  `CutKeptOrDropped` and `SinksConsecutive`.

* `SinkStream_proofs`: the inductive invariant joins `TypeOK` with `Wakeups` (who will look at the
  queue next, counting messages on their way), `Sending` (how far `do_send` is with the
  front of the queue), `Queued` and `Sent` (elements of the queue and units in the socket
  say what was put), `Chain` (each unit in the socket succeeds the one before it), `SenderEnd` and
  `ReaderEnd` (the last is followed by what will be sent next, the first is what the sink
  expects), `Meeting` (the same across an empty socket) and `Filed`. The chain is what makes
  `InStep` inductive: it carries the place from the server, through whatever is in the
  socket, to the sink. From it follow `TypeOK`, `WakeupAhead`, `MessagesFew`,
  `InStep`, `CutHonoured` and `OnlyRecorded`.

* `Recording_proofs`: the refinement of `Recording` by the stream with headers (a raw stream maps to
  a recording of no file). The invariant above follows single frames; `Order` adds how they succeed
  each other: in the queue a frame is the next number or tells of an overflow (`Growing`), it
  continues what was sent last unless that closed the file (`SenderDue`), on the wire a header without a
  flag is of the frame after the one before it (`ChainDue`, `ReaderDue`), and the last file ends where
  the reader is (`FilesDue`). Then each step of the stream is one of `Recording`, or none:
  the end of a header creates or closes a file or continues it, the end of a frame writes it.

* `Server_proofs`: the inductive invariant joins the types with `Places` (the vectors have the same
  length, one place for each object, and the loop is within them), `Entries` (what an entry of
  `poll_fds` says is true of the connection at the same place), `Objects` and `Numbers` (who was asked,
  and that no two objects have one descriptor), `Waiting` (clients not yet accepted have no
  object), `PipeFresh` (between reading the pipe and `accept`, no message is about a connection that is
  gone), `AllAhead` (who is owed data will be looked at) and `Streams` (where each object is in the stream of
  its client). `AskedToSend` alone is not inductive: a new connection could inherit the number of one that
  is gone with a message under way. That it cannot is `PipeFresh`: a message is written by a call, the
  destructor waits for the call, and the pipe is read before the next `accept`. `Places` is what carries
  the others through a drop in the middle of the loop, which moves all later places by one. From the
  invariant follow `TypeOK`, `FdsAgree`, `AskedToSend`, `SendAhead` and `FramesAligned`, and the action
  property `KeptWithoutCause`, for which each step that drops a connection is shown to have a cause,
  or a position that is not the message's end.

* `Frames_proofs`: the frames on their way. A frame has a place, counted from the mixer thread: the
  sets selected are before the queue of the source. `Moved(f)` says that a step only moves frames,
  what is at place k coming from place f[k]; with it each action is one lemma about places, and
  the parts of the invariant follow from `Moved` alone. `OrderInv` joins `FramesInOrder` with `Fits` (a
  set has no more frames than there are slots), `Numbered` (no frame has a number that is still
  to be given), `Unused` (of the frames on their way, others have only those of the set in front, and only
  once the mixer thread is done with them) and `MixedFrom` (the mixed frame is new or of
  that set). `FramesInOrder` alone is not inductive: a frame put next must be newer than
  all others. `SharedUntouched` follows from `Unused`. For `SystemKept`, `SystemSet`: while the
  operator leaves the format alone, settings, selected sets and output are of one system. For `RepeatHasFrame`, `FirstFrame` (until a frame is
  mixed, the set in front has one from the primary source) and `Alike` (frames and format are of one
  system); the theorem `RepeatSafe` says so for any single system. That NULL is no frame is an
  assumption (`NullAssumption`).

* `Signal_proofs`: the input of a calculation never changes (`SubjectKnown`), so that a property of
  `MCSignal` holds as soon as the function has it. The lemmas are about all inputs, where the run has
  a few: every serial number, every pair of values and every scale of a fade, any rectangles, any sizes
  that are scaled, any point that the mouse is dragged to. They rest on division with remainder
  (`DivMod`, `Quotient`, `ModUnique`, `Cancel`), which the provers know only for constant divisors.
  *Sound*: each entry of the shuffling tables is a number of its own, so that every place of a sample is in
  one block at one index (`EveryPlace`), and what a block is set to is read back from it, in 16 bits
  (`LinearKept`) and, with the rate code that is read, in the three bytes that two codes share (`CompandedKept`); the codes, segment
  by segment, by what a power of two leaves over (`Powers`, `Companded`); dubbing takes all fields that the
  reader looks at (`DubKept`); and silence, by the sums within a cycle in closed form (`Cycles`),
  for every serial number (`SilenceKeepsStep`).
  *Times*: the digits make up the number again (`MadeUpAgain`), each being the number's remainder at its
  place, and the two quotients of the count never let it go back (`NeverBack`), for every serial number; each
  listed write is there (`DocumentedWritten`), and writes that are apart are shown to be so section by section.
  *Scaling*: the error term is what is left over of a column (`Left`), hence the weights are the
  overlaps of columns (`WeightsRight`); after x source columns the pass has filled the destination columns
  before x's and begun the next (`PassAt`), and the same for rows (`RowsAt`); hence each pixel is
  rescaled once from its own share (`PicInPic`), in a chroma plane too, whose overlaps are a fixed part of
  those in the tables (`PlaneShare`); and rescaling rounds to the nearest (`RescaledExact`), or to 33/64
  with the unit of the code, 2^32, which the run does not use (`RescaledInCode`). `Left`, `PassAt`,
  `RowsAt` and the sums of silence say in closed form what a recursive function of the model computes. That they are what it
  computes is proved without induction: the closed form satisfies the recursion, and any function
  that does agrees with it, for else there would be a least argument at which it does not.
  *Displays*: a selection grown to the aspect of the picture and shrunk again, in each direction.
  *The clock*: `ClockInv`, until the first upset. The frames in the queue are a period apart (`Spaced`), so
  that a frame is missed or dropped only if the delay leaves 0 to 4 periods; and the interval, its average
  and the delay are in a polytope around those aimed at (`Near`), ten bounds that one tick tightens by 6 in a
  hundred, rounding included (`ComesNearer`). After n ticks it is as small as `Level(n)`, which at 50 is within
  `OnTarget`. Hence `ClockSteady`, for any number of ticks, and `IntervalsFit`. The assumption is
  `ClockAssumption`: sources are off by at most a hundredth, and the first tick comes before the next
  frame.
  *The timed fade*: the invariant joins `TypeOK`, that the steps are the length by 255 (`WholeSteps`), that there
  are steps left while the fade lasts (`StepsLeft`), `Linear` and `EndsInTime`; with the remainder of that division
  (`AgainstAsked`) `FadeTimed` follows, which speaks of the length asked for only.

* `Periphery_proofs`: an invariant for each part, none of which is inductive as the run states it.
  `LinkInv`: `ConnectionsKept` with `Asked` (the pipe to the event loop has one
  message exactly while the window's thread waits, so that the loop never sets up a connection twice, nor
  another one) and `Building` (what the connection being built has). `WindowInv`: `ProgramAsChosen` speaks of
  windows at rest (`Right`); the invariant also says what holds of a window whose handler has yet to make
  its mix (`Ready`) and of a mix that was made and not yet set (`Made`), so that a
  report between any two of these steps, which changes only the primary source and the program, leaves
  them true or `stale`. There is one lemma for each handler; `set_active` needs the most, because the handler of the
  button that was active runs first, with the new button already active. `FeedInv`: `WakeupOwed`, and `Rota(n)`, n being the
  number of sources of the last thumbnails drawn: how long each source has waited is bounded by how far
  the rota is past it, also when sources are added and when a rota is broken off. `CaptureInv`:
  `FramesPlaced` with the bound on the frame so far, and with the same for the frame that is being filled.
  `TypeOK` and `ReadsFit` of the sound, for every delay, below and above the minimum of the buffer.

Model-checked only: what `ClockKeepsStep` says of the time after a stall or a change of the audio source (the
frames in the queue are then no longer a period apart, and some are dropped; that 30 and 50 ticks are
enough again is a figure of many short cases), and the liveness properties, which
are out of the prover's reach: it has no rules for ENABLED under fairness. The pictures of `PicInPic` have one bright pixel; that others are sums of such
is an induction over pixels, and stays an argument. `RecordingTime` counts frames without a bound;
the 32-bit product of the code wraps after more than two years.

## 6. Not modelled

* The frame timer and the file source: a wait for the system clock, and a sequential loop.
* Decoding and encoding of pictures, drawing, video output: calls of libavcodec, Xv and Gtk.
* Options, configuration files, sockets, building: parsing and wrappers.
* Failures of memory, running out of descriptors, spurious wakeups of the connector.
* `Mixer`: calls of one thread at a time from the server and the connector, where the program has two threads
  (`ServerIdle`: no `put_frame`, `add_source` or `remove_source` begins before a `put_frame` has woken the clock).
* Display: selections by the presets Center and Manual (`dv_display_widget.cpp:313`), and drags that begin
  outside the picture.
* Capture: a `raw1394_loop_iterate` without packets, and a sound device that returns no samples: no state changes.

What could come next: the proofs that are left to TLC above; `Mixer` composed with `MixerWindow`
(here each has the other's calls as free choices); the delays of the system's clock in `FrameClock`.
