# Verification of PAL, the platform audio layer

PAL (`src/`) sits between the audio HALs and the audio DSP. Clients open streams, start
them, write or read, and close them; PAL selects devices, keeps sessions with the DSP
(through ALSA plugins and AGM) and brings everything back when the DSP restarts. This
directory models the parts of it whose correctness depends on the order in which several
threads do things, checks them with TLC on small instances, and proves the results that
matter most with TLAPS for every value of the constants.

Modules use the names of the source. Line numbers in comments and in `PROJECT.json` refer
to the files under `src/`; `PROJECT.json` also lists, per definition, the lines it stands
for (`map`), the runs, the seeded faults that show each property can fail (`mutants`), and
the hazards that the properties are aimed at.

## 1. Inventory

Components, the state each keeps, its operations, and what makes it correct.

| Component | State | Operations | Correct when |
|---|---|---|---|
| **PAL API** `Pal.cpp` | `pal_init_ref_cnt` | `pal_init/deinit`, `pal_stream_*`, `pal_set_param` | a handle is usable from the return of open until close; a stream is deleted only when nobody uses it |
| **Resource manager** `ResourceManager.cpp` | `mActiveStreams`, per-kind lists, `mActiveStreamUserCounter`, `active_devices`, EC reference maps, `cardState`, `msgQ`, wake lock and sleep votes | register/deregister streams and devices, user counters, `ssrHandlingLoop`, device selection and switching, concurrency, global parameters | counts match the users; lists name live streams only; no lock cycles |
| **Sound card monitor** `SndCardMonitor.cpp` | last status read | one thread that polls the card's state file and reports changes | no change is lost |
| **Streams** `stream/` | `currentState`, `cachedState`, `isPaused`, devices, session; sound trigger and ACD streams have a state machine of their own | open, start, stop, pause, resume, read/write, close, volume, mute, device connect/disconnect, `ssrDownHandler`, `ssrUpHandler` | state, session and device counts agree; the state the client was told of survives a restart |
| **Sessions** `session/` | PCM handles, front ends, graph | open, start, stop, close, read, write, parameters | front ends are given back; DSP errors are reported |
| **Devices** `device/` | `deviceCount`, `deviceStartStopCount`, codec and calibration state (Bluetooth, speaker protection) | open, start, stop, close, `setParameter` | open/start counts match the streams that use the device |
| **Sound trigger** `StreamSoundTrigger`, `SoundTriggerEngineGsl/Capi`, `PalRingBuffer` | stream state machine, engine state, look-ahead ring, reader positions | load, start, detection events, buffering, second stages, restart of recognition | a second stage and the client read exactly the buffered audio; no detection is lost or doubled |
| **Detection profiles** `ResourceManager`, `StreamSensorPCMData` | the common capture profile, enable/disable counts per type, low-power flag, deferred switch | audio comes and goes, charger, headset, pause/resume of the detection streams | every detection stream runs with the profile that fits what is active; paused ones come back |
| **Context detection** `StreamACD`, `ACDEngine` | state machines, the shared engine, its queue and threads | load, start, recognition settings, detection events, profile changes, restarts | the engine is started iff a stream wants it; each event reaches the streams it concerns |
| **Context manager** `ContextManager` | the proxy stream, the hub's clients and their streams, request queue | register/deregister contexts, commands from the hub, restart, end | every request is answered once, and no stream outlives its use |
| **Compress, in-call, non-tunnel, common, ultrasound streams** | `currentState`, `cachedState`, worker threads, buffers, gains | as for all streams | votes and counts agree; buffers come back once; gains follow the playback |
| **PCM and voice sessions** `SessionAlsaPcm/Voice/Utils`, `ResourceManager`'s front ends | front ends, graph of front and back ends, metadata, mixer event callbacks | open, start, stop, close, connect, disconnect, set EC reference | the graph connects what the streams run on; nothing lent is lost |
| **Device choice** `ResourceManager` | stream attributes per device, back-end sharing, group configurations | `getDeviceConfig`, `updateECDeviceMap`, `streamDevSwitch`, priorities | streams that share a back end agree on it; rates and groups fit what runs |
| **Bluetooth** `Bluetooth.cpp` | `a2dpState`, session requests, ABR counts, suspended/muted streams | suspend, resume, start, stop, feedback path | streams move to the speaker and back; the feedback is open iff the link is |
| **Speaker protection** `SpeakerProtection.cpp` | calibration state, feedback path, static handles | calibration thread, start/stop of the speaker, factory test | calibration yields to playback; every path taken is given back |
| **IPC** `ipc/` | sessions of every client, duplicated descriptors, callbacks | forward the API over binder, clean up dead clients | a dead client's streams are closed once; a buffer's descriptor names that buffer |
| **PAL's life** `Pal.cpp`, `ResourceManager` | caller count, threads | `pal_init`, `pal_deinit` | who was told of success has PAL; the end ends |
| **Charger listener** | thread, pipe, charger and boost state | kernel's messages, start and stop of the speaker | the speaker is limited while it plays and a charger is in |
| **Signal handler** | old and new handlers, a registering thread | a signal, its hand-over to the debugger, registration anew | every signal reaches AGM and the debugger |
| Parsers | tables | XML and sound model parsing | - |
| `plugins/codecs` | codec payloads | fill in encoder payloads | data only |
| `configs`, `acdbdata`, `audio-listen`, `capiv2_api` | data, vendored headers | - | - |

How they interact:

- Every API call looks its handle up in `mActiveStreams` under `mValidStreamMutex`, counts
  itself as a user of the stream, calls the stream, and un-counts itself. `pal_stream_close`
  does not count itself; it waits for the counted users and deletes the stream.
- A stream takes its own `mStreamMutex`. To touch the list of devices it gives that up,
  takes `mActiveStreamMutex` and takes its own again, in that order.
- The monitor thread, and every session call that gets `ENETRESET`, push a card status onto
  `msgQ`; one thread (`ssrHandlingLoop`) pops it and walks `mActiveStreams` with
  `mActiveStreamMutex` held, calling each stream's restart handler. The handlers give that
  mutex up around `stop()` and `start()`.
- ResourceManager is the hub of everything else: registering a stream or a device can set
  echo references of capture streams, the gain of the ultrasound stream, the attributes of a
  shared back end (which restarts other streams' devices), the profile of the detection
  streams, and votes for sleep.
- Bluetooth and speaker protection are devices with control of their own; they are started
  and stopped by streams under `mGraphMutex`, and move or abort by requests from outside
  (`pal_set_param`) and by their own threads.
- The context manager is a client of PAL inside PAL; the binder services are PAL's callers
  in another process.
- The sound trigger engine's event thread writes the look-ahead ring; the stream (for its
  client) and second-stage threads read from it at their own pace.

What is hard: nested locks given up in the middle of an operation, with nothing looked at again
afterwards; counts kept by convention; the restart handlers racing with ordinary calls and with
the next restart; a ring with several readers, three copy shapes and a reset from a third
thread; callbacks and timers in the sound trigger code; waits for other threads with a lock
held (engines, worker threads, death notices, the signal's thread); moves that are planned
under a mutex and made without it; partial failures (a device that fails after its session was
opened); processes that die in the middle of a call. Each is a `hazard` in `PROJECT.json`.

## 2. Modules

| Module | Models | Composes / implements |
|---|---|---|
| `PalRingBuffer` | `PalRingBuffer.cpp`: ring and readers | implements `LookAheadLog` |
| `LookAheadLog` | what the ring promises: a log of which every reader sees a window | abstract |
| `MCPalRingBuffer` | instances for TLC | |
| `PalRingBufferProofs` | proofs: the ring's invariants and its refinement of the log | extends `PalRingBuffer` |
| `StreamHandles` | handles, user counters, deletion, the restart thread's walk | |
| `MCStreamHandles` | instances for TLC | |
| `StreamHandlesProofs` | proofs: users, counters, semaphores, the walk | extends `StreamHandles` |
| `StreamPCM` | the calls on PCM streams as sections between mutex hand-overs, their session and device counts | |
| `SoundCard` | clients, restart thread, monitor and DSP around `StreamPCM` | extends `StreamPCM` |
| `MCSoundCard` | instances for TLC | |
| `ListLemmas` | lemmas on lists of sections | |
| `SoundCardProofs` | proofs: the plans of threads, types, restarts, device counts, registered streams | extends `SoundCard`, `ListLemmas` |
| `SoundTriggerEngine` | the first stage's event thread and its look-ahead loop, the second stages' threads, and the stream's calls on both | |
| `StreamSoundTrigger` | the sound trigger stream: its six states, its client, the timer of the deferred stop, ResourceManager's requests | extends `SoundTriggerEngine` |
| `SoundTriggerProofs` | proofs: the plans of threads, and that the steps of a holder of the mutex keep to them; the deferred stop | extends `StreamSoundTrigger`, `ListLemmas` |
| `SoundTriggerVerdicts` | proofs: verdicts of second stage engines | extends `SoundTriggerProofs` |
| `SoundTriggerPower` | proofs: wake locks and the vote of the sleep monitor | extends `SoundTriggerVerdicts` |
| `MCSoundTrigger` | instances for TLC | |
| `PcmSession` | sessions of PCM streams: front ends, graph, metadata, mixer callbacks, votes | |
| `VoiceCall` | a voice call's session: two VSIDs, sidetone, occlusion, external EC reference | |
| `CompressStream` | a compressed stream, its client's two threads, its worker, the restart | |
| `InCallStream` | streams that record a call or play into it | |
| `NonTunnel` | streams of buffers to the processor, with events, over `SessionAgm` | |
| `CommonStream` | `StreamCommon` and the ultrasound stream with its gain | |
| `AcousticContext` | context detection: streams, shared engine, its threads | |
| `ContextManager` | the sensor hub's requests, the command thread, restart and end | |
| `DetectionSwitch` | capture profile, low power, pause and resume of detection streams | |
| `DeviceConfig` | which device and which configuration when streams share back ends | |
| `EchoReference` | the counts behind echo references and the ultrasound gain | |
| `A2dpRoute` | streams that move between a Bluetooth headset and the speaker | |
| `BtFeedback` | the feedback path of adaptive Bluetooth codecs | |
| `SpeakerProtection` | calibration, feedback path, factory test | |
| `HwBinder`, `SwBinder` | the two binder services before PAL | |
| `PalLifecycle` | `pal_init`, `pal_deinit` and the threads they begin and end | |
| `ChargerListener`, `SignalHandler` | the two utilities with threads | |
| `MCComponents` | instances of the nineteen above for TLC, one per behaviour | `INSTANCE`s of them |
| `ComponentProofs` | proofs: six of the nineteen | `INSTANCE`s of `ChargerListener`, `SignalHandler`, `PalLifecycle`, `InCallStream`, `HwBinder`, `CommonStream` |

### PalRingBuffer

`cell` is the ring (each byte is its position in the log, 0 for bytes never written),
`writeOffset`, `unreadSize`, `readOffset` and `state` are the fields of the code. A call of
`write(w)` is one action, because the code holds the ring's mutex throughout. `read(b)` is
two: `ReadTests` (the tests at the head, before the mutex; what was asked for is in
`asked`) and `ReadCopies` (under the mutex, outcome `ReadOutcome`: the branches `Ahead`,
`Wrapped`, `Unwrapped`). `reset()` of the ring resets one reader after the other and is so
modelled (`RingReset`, `RingResetReader`, `RingResetDone`). `out` is what the last call
delivered. Keyword indices are stored and reported only, and left out.

`LookAheadLog` has no offsets, no wrap and no buffer: `last` is the number of bytes
written, `place[r]` how far reader `r` has got. The mapping takes `place[r]` to
`written - unreadSize[r]`, so refinement says: each reader receives the very next bytes in
order, and nothing is overwritten before the slowest enabled reader has it.

### StreamHandles

A stream is an object (`Streams`) at an address (`Addresses`); a handle is an address, and
addresses are given out again after a free. `active` and `count` are the two parts of an
entry of `mActiveStreamUserCounter`, `keyed` says whether the entry exists, `smph` is the
stream's semaphore. One action stands for what the code does while it holds
`mValidStreamMutex`. `pc` "blocked" is a thread that waits for a semaphore while it holds
that mutex. The walk is the loop of `ssrHandlingLoop`: `BeginWalk`, then per stream
`PinCurrent` or `PassOver`, `HandlerUnlocks`/`HandlerRelocks`, `UnpinCurrent`, `Advance`;
`obj[Ssr]` is where the iterator stands and `ahead` the part of the list it has yet to see.

### StreamPCM and SoundCard

Each thread has a list `todo` of *sections* to run on stream `on`. A section is the code
between taking the stream's mutex and giving it up. `start()` of an output is the section
`start` (session and device are started) and, after the hand-over of mutexes, `started`
(the stream is registered for its device); `start()` of an input starts its session in the
second one. `stop()`, `write()` after a resume, and the two restart handlers are split the
same way: `stop/stopped`, `write/rewrite/written`, `down/.../downExit`, `up/.../upExit`.
Nothing is looked at again in a second section, because the code does not. `activeMutex`
records only the holder across sections, the restart thread.

`graph` and `frontEnd` stand for the session: its answers (`Answer`) are `reset` while the
DSP is down (the plugin's ENETRESET), `error` for a PCM that was open when the DSP went
down, `ok` otherwise. The device is one that all streams share, as a speaker is. `told` is
what the last successful call said to the stream's client and is the basis of the
properties about restarts.

`SoundCard` adds clients (`Call` starts any call the API's order allows), the counted
streams, the message queue, the walk (`Take`, `Visit`, `EndWalk`), the monitor (`Notice`)
and the DSP (`DspDown`, `DspUp`, the environment).

### SoundTriggerEngine and StreamSoundTrigger

A thread's `todo` is again a list of sections, here the code between two places where
another thread can get in: where a mutex is taken or given up, or where a thread is waited
for. Five kinds of thread run: the client, one of ResourceManager's (`Server`), the timer,
the event thread of the first stage (`Gsl`) and the thread of each second stage engine.

- *The stream.* `cur_state` is the state object that handles events. A call is
  `Enter` (take `mStreamMutex`), `handle` sections (one per event: the action is the one
  for the state the stream is then in) and `Return`. Stopping is the same in ACTIVE,
  DETECTED and BUFFERING up to the timer and the wake lock, and is one pair of actions
  (`Halt`, `Halted`). A failure of a session call replaces what is left of a call by its
  last section (`Fail`). `loaded`, `sm_config` and `rec_config` say whether there are
  engines, a sound model and a configuration.
- *The microphone.* `device_opened`, the device's two counts and its entry in
  ResourceManager's `active_devices`.
- *The first stage.* `eng_state_`, `exit_buffering_`, and the thread's place: `woken`,
  in the look-ahead loop before (`buffer`) and after (`drain`) it has told the stream, in
  `SetEngineDetectionState` (`poll`), and with its answer (`answer`). It has the engine's
  mutex in the loop (`MutexFree`), as the code does, so calls set `exit_buffering_` first
  (`Exit`) and then wait.
- *The second stages.* `processing_started_` and `exit_buffering_` of each; a thread is in
  its loop (`run`), polling, or done. `Judge` is its verdict. `accepted` records, for the
  properties, who accepted the last detection.
- *Detections.* `poll` is the loop of `try_lock()`s: `Ignored` leaves it when the state
  is none that could use the detection, the other actions handle it in the state found.
  `notifyClient()` gives the mutex up for the client's function (`Notify`, `callback`,
  `relock`), and every other thread can run in that window.
- *The timer.* `Timer` waits to be armed (empty `todo`), has been woken (`arm`), waits for
  the delay (`sleep`) or has been woken by a cancellation (`awake`). Durations are
  abstracted: the delay may be over at any time. A notification that comes while the timer
  does not wait for it is lost, as with the code's condition variables.
- *ResourceManager.* One request at a time, with `mActiveStreamMutex`: pause or resume,
  a change of the capture profile, another microphone, the two restart handlers.

What is left out: several streams on one engine (merged models, PDK); the choice of
the profile and the other streams' pauses (module `DetectionSwitch`); EC_REF events;
`EnableLPI`; failures of the session within the look-ahead loop; the time between the DSP's
fall and `ssrDownHandler` (a session call succeeds or fails by `config.failing` only); the
content of the ring and the enabling of readers (module `PalRingBuffer`); a holder of the
mutex that leaves BUFFERING and comes back before a polling thread has looked (`Polls`: a
poller looks more often than the state changes); the handling of a detection without the
mutex, when the stream comes back to the awaited state right after a poller has given up.

### The nineteen components of MCComponents

Each is a module of its own. All follow the same conventions: the `VARIABLES` list says of
each variable which member of the code it is; an action is a whole call, or, where the code
gives up the mutex that serializes it, a section of one; a definition with the name of a
function is that function. In several, `W` is the record of what a step changes, so that a helper of
the code becomes an operator from such a record to another, and `Becomes(w)` makes it the
next state. `str[s].ask` is what a stream's client was last told had been done, and what it
therefore counts on.

**PcmSession** is what `StreamPCM` leaves out of its session, without restarts: `free` are
the front ends of ResourceManager's lists, `conn`, `meta` and `link` what
`SessionAlsaUtils::open()`, `connectSessionDevice()` and the loopback variants write to the
mixer, `map` and `regs` the callbacks for mixer events (`LooksUp` and `CallsBack` are the
mixer thread, which gives up its mutex between the two), `votes`, `ioctls` and `kern` the
sleep monitor: counts are changed under `mSleepMonitorMutex`, and the driver is told without
it (`Told`). Streams are of four kinds (playback, capture, loopback, keyword engine).

**VoiceCall** is `SessionAlsaVoice`: `conn` and `meta` per VSID and back end, `path` the
sidetone, `occ` ResourceManager's `micOcclusionInfoMap`, `ec` the external echo reference
with its count, `dsp` the settings (volume, mute, slow talk, TTY) the modem's graph got.
A `Step(c)` is one call on the voice call's stream, restarts and device switches included.

**CompressStream** is `StreamCompress` over `SessionAlsaCompress`: the client's control and
writing threads and the restart thread run sections (`todo`), the session's worker waits for
the driver by messages (`queue`, `worker`). `owed` counts the drains not answered yet.
`told` is what the client believes: a `start()` whose session fails answers 0, because
`session_fail` returns the status of the last `Device::stop()`, so the client takes a stream
that stays in `STREAM_INIT` (or `STREAM_STOPPED`) for a started one.

**InCallStream** is `StreamInCall` with its sessions for recording and playing music. It has
no devices; `votes` are the processor's. The restart's worker (`work`) gives up the stream's
mutex between its calls, and clients call in between.

**NonTunnel** is `StreamNonTunnel` over `SessionAgm`. Buffers go out by `write()`/`read()`,
and come back as events (`AgmEvent`, `eventCallback`). `half` is a write that has given up
its mutex; `msgQ` and `work` are `ssrHandlingLoop`, `Reports` a call that finds the processor
gone and says so.

**CommonStream** is `StreamCommon`, and `StreamUltraSound` on top, whose start and stop set a
gain outside the calls of the base class (`op`). `Speaker` is a playback stream that comes to
the speaker or leaves it.

**AcousticContext** is `StreamACD` (state classes IDLE, LOADED, ACTIVE, DETECTED, SSR), the
`ACDEngine` they share (`eng`), and `ContextDetectionEngine`'s queue and thread
(`HandleSessionCallBack`, `ParseEventAndNotifyClient`). Each stream has a thread that tells its
client. A profile change disconnects all streams (`moved`) before it connects the first.

**ContextManager** is `ContextManager.cpp`: `StreamProxyCallback` queues the hub's requests,
`Command` is the command thread, with its mutex held while it serves one, `DeInit`/`Close` and
`Restart` close all from other threads.

**DetectionSwitch** is the part of ResourceManager that decides how detection streams
capture: `HandleConcurrencyForSoundTriggerStreams` and the counts by type (`enable`, `disable`),
`UpdateSoundTriggerCaptureProfile`, `SwitchSoundTriggerDevices`, `onVUIStreamRegistered`,
`onChargingStateChange`, `handleDeferredSwitch`, `HandleDetectionStreamAction` (a fold over the
registered streams); and `StreamSensorPCMData` in full. Of the voice user interface's stream
it keeps what the switch asks of it; its inside is `StreamSoundTrigger`.

**DeviceConfig** is `updateDeviceConfig`, `streamDevSwitch`, `restoreDevice`,
`restoreDeviceConfigForUPD`, `checkAndUpdateGroupDevConfig`, the haptics and speaker
concurrency rules, and the insertion and removal of device attributes by priority in
`Device`. A call first plans its moves (`job`), under
`mActiveStreamMutex`, then makes them one by one without it.
`layout` chooses which devices share a back end.

**EchoReference** is `registerDevice`/`deregisterDevice` with `updateECDeviceMap`,
`checkECRef`, the session's `setECRef`, and `setUltrasoundGain`.

**A2dpRoute** and **BtFeedback** are `BtA2dp`, `BtSco` and the parts of ResourceManager that
move streams (`a2dpSuspend`, `a2dpResume`, `forceDeviceSwitch`, `handleBTDeviceNotReady`): the
framework's calls are lists of sections over the streams they found (`job`, `list`), and the
client's are too. `BtFeedback` is `startAbr`/`stopAbr` with the counts on both directions.

**SpeakerProtection** is `SpeakerProtection.cpp`:
the calibration thread (`cal`: at rest, asks whether the speaker is idle, armed, waiting for
the DSP, back), the DSP's answer (`Callback`), a stream's `Start`, which aborts a calibration
and waits (`StartWoken`), the thread that sets up the path (`ViThread`), a recording of the
path, and the factory test. Both variants of the product are in (`devices`).

**HwBinder** and **SwBinder** are the servers of the HIDL and of the native service:
`calls` are the calls being served, `ev` the event a stream's thread carries to its client,
`death` what a death notice has still to close, `fds`/`copies` the descriptors duplicated for a
client's buffers. PAL below is reduced to the streams' states and buffers (`pal`).

**PalLifecycle** is `pal_init`, `pal_deinit` and the four threads they create and join.
**ChargerListener** is the library of that name with ResourceManager's side and the speaker's
streams.
**SignalHandler** is `SignalHandler.cpp`.


## 3. Runs

| Run | Instance | Properties |
|---|---|---|
| `ring_buffer` | 2 symmetric readers, sizes 2 and 3, at most 5 bytes written | types; `OffsetsAgree`; `UnreadIntact`; `ImplementsLog`; `NoReadBeyondUnread` |
| `stream_handles` | 2 clients, 3 streams, 2 addresses, 1 walk | types; `PinnedLive`; `CountExact`; `NeverBlocksLocked`; `IteratorValid`; `HandleUsable`; `ClosedIsFreed` |
| `sound_card` | an output and an input, 2 clients, 2 restarts, queue of 3 | types; `CountsExact`; `RegisteredExact`; `NothingLeft`; `StartedRuns`; `NeverWaitsForItself` |
| `sound_card_live` | an output and an input, 1 client, 2 restarts | `PlaysAgain` |
| `sound_trigger` | one stream, nine configurations, at most 2 starts of the microphone | types; `PowerExact`; `MicExact`; `StartedListens`; `NeverStopsActive`; `PendingStopTimed`; `BothVerdicts`; `NeverStuck` |
| `components` | nineteen scenes, one component each | types; `CountsExact`; `RoutesRight`; `NoOrphan`; `CallbacksRight`; `PauseKept`; `NeverBlocks`; `Adapts`; `PromisesKept`; `NeverReadsPast` |
| `components_live` | three scenes: speaker protection, context manager, non-tunnel streams | `WaitsEnd` |
| `ring_reset_during_read` | 1 reader | `NoReadBeyondUnread` is violated |
| `handle_reuse` | 1 address | `HandleUsable` is violated |
| `restart_twice` | 1 stream | `PlaysAgain` is violated |
| `pause_during_walk` | 1 stream | `NeverWaitsForItself` is violated |
| `stale_verdict` | two second stages | `BothVerdicts` is violated |

Why the bounds are enough. The ring wraps within 3 bytes, a read or write crosses the end
by every amount possible there, and 5 bytes make it wrap twice (every alignment of read and
write offset occurs). Two addresses and three streams let an address be reused while the
other stream is in use. One walk is enough to race with every step of two clients. Two
restarts are needed for the second to meet what the first left in `cachedState`; two
clients and two streams are needed for the device's counts to be shared. No passing run
reaches a bound in a way that hides a step: bounds stop new bytes, new walks and new
restarts, never the completion of what was begun.

A configuration of `sound_trigger` says which second stages there are, whether the client
wants the sound and to hear of rejections, which session calls may fail and what
ResourceManager may ask for; all are in one run, and nothing bounds the number of calls,
detections or requests, so the run covers every sequence of them in each configuration.
The nine configurations (`MCConfigs`) pair every request with a stream with and without a
second stage where the code treats them differently, put the requests that interact
together (`concurrent`, `switch`, `restart`), and have failing calls in the simplest
configuration in which each can fail. `MaxStarts` bounds one count only, which grows
because failed restarts leave the microphone on.

`components` checks nineteen models that do not interact in one state space: the first state
picks the scene, the behaviour is that component's (`MCComponents`, whose `v1`, `v2`, ... are
the component's variables in the order it declares them, the rest staying `None`). A property
of the run says of each component that states one of that name that it holds; what it says
there is the component's comment. In short: `CountsExact`, shared counts equal what the
streams call for (devices, votes, front ends, sessions, echo references, callers of
`pal_init`); `RoutesRight`, what is connected is what is wanted; `NoOrphan`, nothing is left
without an owner; `CallbacksRight`, each answer arrives once, where it is expected, and at
something that still exists; `PauseKept`, streams are paused exactly when their client, or
concurrent audio, wants it; `NeverBlocks`, no wait for oneself or for someone who
will not come; `Adapts`, gains, rates, groups and profiles follow what runs beside;
`PromisesKept`, what the client was told remains true over restarts; `NeverReadsPast`, no
read past a list's end. `Components.cfg` turns off deadlock checking because
the processes in front of the binder services may all have died.

| Scene | Bounds | Because |
|---|---|---|
| Compress | 1 device, 1 message, 1 opening, 1 fall of the card | the three threads and the worker interleave on one stream already |
| Headset | 2 streams, one offloaded and paused | a move treats the first stream on a device and the others differently |
| Feedback | 3 users, the codec and the stack failing | counts up to 3 tell "first", "another" and "last" apart in both directions |
| Echo | 2 playbacks, 2 captures, 2 devices | a reference must outlive one of two playbacks and serve two captures |
| Speaker | 2 playing, both variants | one stream to abort a calibration, another beside it |
| Acoustic | 2 streams, a threshold and none | the engine's shared threshold has to be told apart from the stream's |
| Pcm | a playback (low power mode), a loopback, a keyword engine; 2 outputs, 1 input, 1 front end per list | the kinds share lists; one front end means a stream finds none left |
| Voice | 2 calls on 2 VSIDs, 2 outputs (one with external EC), 1 input | shared sidetone, occlusion and external EC |
| InCall | 1 recording, 1 music, 1 front end, 2 falls | the second fall meets what the first left |
| Hardware, Software | 1 client with 2 streams; 2 clients with 1 | both ways to mix up whose buffer it is |
| Config | a call, a playback, a proximity detector and haptics, in 4 layouts | one stream per priority rule and per restriction |
| Context | 2 clients, 2 use cases, queue of 2 | a request queued behind the one in hand, of another client |
| Hostless | 2 streams, 1 buffer each, 1 front end, 1 fall, 3 messages | one stream closed while the worker has the other |
| Common | 1 ultrasound stream, 2 others, 2 falls | the devices are shared by three |
| Detection | 2 sensors, 3 kinds of audio, voice UI, charger, headset | a pause of the other, and of both |
| Lifecycle | 2 callers, 2 changes of the card | a second caller while the first one leaves |
| Signals | 2 threads, 3 signals | a signal while the last one's thread is still at it |
| Charger | 2 streams | the first and the last stop of the speaker |

None of these has a bound on the number of calls other than those named. `components_live`
takes the three scenes in which a thread waits for another one for more than a mutex:
playback for the calibration, the hub for its answers, clients of non-tunnel streams for the news.

Switches keep what was found to be wrong out of the passing runs, so that the rest can be
stated at all, and let it in for the runs that show it:

| Switch | FALSE / without it | What the code does with it |
|---|---|---|
| `ConcurrentReset` | no reader is between the tests of `read()` and the ring's mutex when the ring is reset | stale bytes are delivered (`ring_reset_during_read`) |
| `EarlyReuse` | an address is not handed out between `delete s` and `eraseStreamUserCounter(s)` | the new stream's handle is refused (`handle_reuse`) |
| `ConcurrentClose` | a stream is closed once | the second closer may call `setCachedState()` on a freed stream (property `CloserTouchesLive`) |
| `Overlap` | which calls may be in progress during a walk; `"dsp"`: the DSP may go down during one | `pause`: the restart thread waits for itself (`pause_during_walk`); `dsp`: a started stream stays closed (`restart_twice`); `close`: a stream is deleted with its session open (`NothingLeft` fails); `start`, `stop`: device counts drift (`CountsExact` fails); `write`: as `pause` |
| `Reentrant` | one client at a time is inside calls on one stream | `start()` and `stop()` act on a state they looked at before they gave the mutex up: `CountsExact` fails |
| `PauseIdle` | no `pause()` of a stream that a restart has closed | `pause()` marks it STREAM_PAUSED, the restart's `open()` refuses it, and `PlaysAgain` fails |
| `Overlap` of `StreamSoundTrigger` | one detection at a time; no call between the verdicts of two engines; no stream is destroyed while its deferred stop is due | `detection`: a detection that the event thread does not hear leaves its wake lock behind (`PowerExact` fails), and a verdict on the detection before counts for it (`BothVerdicts` fails); `verdict`: a detection is reported on one verdict (`stale_verdict`); `delete`: the destructor joins the timer, which waits for the destructor's mutex (`NeverStuck` fails) |
| conditions of `MicExact` and `PowerExact` | `MicExact` leaves out failing restarts, and switches together with restarts; `PowerExact` leaves out clients that hear of rejections | the microphone stays on, or off (`StreamSoundTrigger.cpp:4018`, `:3275`); a wake lock is released twice (`HandledAwake` fails, with `Configs <- Rejections`) |

`sound_card` lets `open` and `resume` overlap a walk and the DSP go down at any time;
`StopIsKept` (a stream stopped while the card was off stays stopped) is stated in `SoundCard` and
fails in the model, because `stop()` returns 0 and leaves `cachedState` at STREAM_STARTED
(`StreamPCM.cpp:789`).

### What the runs show of the code

- `ring_reset_during_read`: `PalRingBufferReader::read` looks at `unreadSize_` before it
  takes the ring's mutex. If `RestartRecognition_l` resets the ring in between, `read()`
  finds both offsets at 0, takes the branch for a full ring and hands out a buffer of bytes
  that are not the unread ones.
- `handle_reuse`: `pal_stream_close` erases the user counter after `delete`; the address may
  be another stream's by then.
- `restart_twice`: the exit label of `ssrUpHandler` resets `cachedState` on the very path
  that its comment wants to keep it on.
- `pause_during_walk`: `ssrDownHandler` calls `close()` with `mActiveStreamMutex` held;
  `close()` of a stream that has been paused meanwhile calls `stop()`, which takes it.
- `stale_verdict`: `detection_state_` keeps the verdict of an engine over a stop and a
  start of the stream. The next detection is reported as soon as the other engine accepts
  it, and the verdict of the first then arrives at a stream whose client has been told.

Not a run, but to be had by putting `Rejections` for the configurations of `SoundTrigger.cfg`
and `HandledAwake` for its properties: a stream whose client was told of a rejection is still
in BUFFERING, and its next start or stop releases the wake lock that the handler of the
rejection has already released. The lock is then the first stage's: the system may suspend
while the event is being handled.

Nor is this a run: `StartedAsTold` of `CompressStream`, checked on that module with the
constants that `MCComponents` gives it, is violated after an `open()` and a `start()`.
`StreamCompress::start` overwrites the error of its session with what `Device::stop()` returns,
always 0, and for ENETRESET sets 0 itself (`StreamCompress.cpp:458`, `:508`, `:542`). `PalApi.h`
promises "0 on success, error code otherwise"; the client is told that a stream runs which is
still in `STREAM_INIT`.

The passing runs show as much: the deferred stop never stops a stream that its client has
started again, although `pending_stop_` and the timer's flag are set and read under
different mutexes; a stop, an unload or a restart never waits for an engine thread that
waits for it, because the polling loop looks at the state; and whatever ResourceManager
asks for in whatever order, a stream that its client started listens afterwards.

### What the components do outside the passing runs

`Hasty` (in `CompressStream` `Window`, `Abortable` and `Blind`, in `EchoReference` `Apart`,
`Loose` and `Fails`) lets in the orders and failures that the code does not handle; `Components.cfg` has
it FALSE, so that each property is checked where the code means it to hold. With it TRUE the
models break the properties named here, for the reasons given. These are readings of the
models and of the code at the lines named; no run of the project checks them.

| Component | What goes wrong | Where |
|---|---|---|
| CompressStream | `Window`: a `stop()` between the two halves of a `write()`, or of itself, finds a stream half registered (`CountsExact`); `Abortable`: a stream started again destroys a joinable worker thread, which ends the process (`NoOrphan`), and one whose driver could not be opened has nobody to tell its client of a restart (`CallbacksRight`); `Blind`: a client pauses a stream that failed to start, which it takes for started: `pause_l()` sets `STREAM_PAUSED` with no vote and no started device, and the `stop()` after it takes a start of another stream on the device (`CountsExact`) | `StreamCompress.cpp:663`, `:304`, `:540`, `:866`; `SessionAlsaCompress.cpp:1226` |
| A2dpRoute | the framework's suspend and resume, and the client's switch and pause, act on what the other one has changed since: `CountsExact`, `RoutesRight`, `PauseKept` | `ResourceManager.cpp:8732` |
| BtFeedback | a clock that fails counts a session nobody ends, and so does a failed first `startAbr()` followed by another: kept out by `Fails` | `Bluetooth.cpp:1655` |
| EchoReference | streams on two devices, or that wait open while others move: a reference that is not the playback's, or none (`RoutesRight`); `Fails`: a session refuses its reference and `registerDevice()` takes back its count, from which the streams that come and go later go on (`CountsExact`, `RoutesRight`) | `ResourceManager.cpp:3438`, `:3479`, `:3481` |
| SpeakerProtection | an answer that comes before its wait, or from the calibration before, is taken for the next; the wait has no predicate; a recording of the path is not counted | `SpeakerProtection.cpp:1617`, `:1693` |
| AcousticContext | the engine is not stopped for the last stream when others are attached; a wake-up that comes before the wait is lost; teardown joins a thread that waits for the caller's mutex; a callback comes to a closed stream | `ACDEngine.cpp:152`, `StreamACD.cpp:1245` |
| PcmSession | a step of `open()` that fails after others succeeded leaves a front end, metadata or a link behind | `StreamPCM.cpp:266` |
| VoiceCall | a failing `start()` returns without taking back what it had set; a mute of an idle call reads past a list; settings are lost over a restart | `SessionAlsaVoice.cpp:848`, `:928`, `:1253` |
| InCallStream | a stop while the card is off is undone by the restart; a recording whose stop fails gives its vote back twice | `StreamInCall.cpp:964` |
| HwBinder | the death notice waits for an event thread that waits for it; a reply uses a handle after its session was checked and closed; replies of several devices are read at the wrong stride | `pal_server_wrapper.cpp:61`, `:149`, `:428` |
| SwBinder | a client that dies with calls or events under way leaves streams or copies of descriptors behind, or has them closed twice; an entry is found by a process number that has a new owner | `pal_client_manager.cpp:37`, `:66` |
| DeviceConfig | two streams that plan at once, or meet in an order with no rule, leave a shared back end with two devices, or with the rate of a stream that has gone (`RoutesRight`, `Adapts`) | `ResourceManager.cpp:7472` |
| ContextManager | `DeInit()` or a restart while a request is served: streams are left open, an answer goes to a proxy that is closed, the join never ends (`NoOrphan`, `CallbacksRight`, `NeverBlocks`) | `ContextManager.cpp:361` |
| NonTunnel | closing a started stream locks its mutex twice; a late report of the processor's fall marks a live stream dead; a stream whose constructor saw the card on and which registers after the walk is never told | `StreamNonTunnel.cpp:181`, `:341`, `:126` |
| CommonStream | devices that fail, and calls during a restart, break four of its properties | `StreamCommon.cpp` |
| DetectionSwitch | `Resume()` starts a stream its client has not started; `Pause()` marks one that is not running; a stop while paused closes the microphone twice; two starts pause one another and wait for good; a deferred switch is not cancelled | `StreamSensorPCMData.cpp:179`, `:282`, `:331`, `:346`; `ResourceManager.cpp:4846` |
| PalLifecycle | `pal_init()` counts a caller it then fails; the mixer's thread of a second life ends at its first event; the monitor misses the word to end (`CountsExact`, `PromisesKept`, `NeverBlocks`) | `Pal.cpp:98`, `ResourceManager.cpp:4469`, `SndCardMonitor.cpp:74` |
| ChargerListener | not only when hasty: the thread ends at its first message and would report the opposite, which the module models as it is; what ResourceManager has not initialised is either value. `Adapts` speaks of what clients told it themselves | `ChargerListener.cpp:185`, `ResourceManager.cpp:1726` |
| SignalHandler | a signal while the last one's thread registers the handler: each waits for the other; a signal that stays pending leaves the handler unregistered | `SignalHandler.cpp:103` |

### Fairness

`StreamHandles`: weak fairness of every client inside a call and of the restart thread: a
mutex's holder goes on, and nobody is obliged to begin a call. `SoundCard`: the same, and
weak fairness of `DspUp` and `Notice`: the DSP's restart completes and the monitor polls
in a loop. `MCComponents`' `LiveSpec` has
weak fairness of the code's own threads and nothing else: the speaker's calibration thread and
the playback it has woken (`Calibration`, `StartWoken`), the context manager's command thread
and the two that close it (`Command`, `Close`, `Restart`), and the worker that handles
restarts (`Worker`). Each of them runs a loop and gives its mutexes up without a client's help. The
DSP may fail to answer a calibration for good; the stream that waits aborts it. The ring and the
sound trigger stream have no liveness properties and no fairness (`NeverStuck` is a safety
property: some thread that has something to do can go on).

## 4. Proofs

The proofs hold for every value of the constants that the modules' named assumptions
allow: any finite set of readers, clients and streams, any sizes and bounds. Some theorems
have a hypothesis on top. With one exception (`DecidesAlone`, see `SoundTriggerVerdicts`) it
is on one of the constants by which a model is told which calls may overlap, and each of
those is needed: without it TLC finds the property violated, as the code does it. Most of
these are runs of section 3.

### PalRingBufferProofs

| Theorem | States | Hypothesis |
|---|---|---|
| `TypeCorrect` | `TypeOK` | |
| `ReadersAgree` | `OffsetsAgree`: a reader's offset is the write offset less its unread bytes, modulo the size | |
| `UnreadStaysIntact` | `UnreadIntact`: the unread bytes are still in the ring, in order | `~ConcurrentReset` |
| `ReadsOnlyUnread` | `NoReadBeyondUnread` (action property) | `~ConcurrentReset` |
| `RingImplementsLog` | `ImplementsLog`: the ring implements `LookAheadLog` | `~ConcurrentReset` |

`OffsetsAgree` is not inductive. It needs the types, the offsets to lie within the ring,
unread sizes not to exceed it, and the same agreement in the middle of a reset, for those
readers whose turn has come: `IInv`. The second group needs `ApartInv`, which says what the
cells hold, counted *back from the producer*: the cell `i` bytes behind the write offset
holds byte `written - i + 1`, for as many bytes as the slowest enabled reader has not read
(`RecentIntact`). Counted back, a write shifts everybody by the same amount, and no case of
the proof has to follow two readers around the wrap; `IntactIs` turns the statement into the
one about read offsets. The refinement then goes action by action; `ReadOutcomeAgrees` has
shown that all three shapes of a read take as many bytes as they move the offset by.
`ConcurrentReset` TRUE is `ring_reset_during_read`.

### StreamHandlesProofs

| Theorem | States | Hypothesis |
|---|---|---|
| `TypeCorrect` | `TypeOK` | |
| `UsersArePinned` | `PinnedLive`: nobody's object is deleted under him | |
| `CountsUsers` | `CountExact`: the counter is the number of users | |
| `NobodyBlocks` | `NeverBlocksLocked`: no wait for a semaphore with `mValidStreamMutex` held | |
| `IteratorHolds` | `IteratorValid`: the walk's iterator is on a listed stream | |
| `ClosersFindObject` | `CloserTouchesLive`: a closer works on its own live object | `~ConcurrentClose` |
| `HandlesAreUsable` | `HandleUsable`: a handle that was given out and not closed can be used | `~ConcurrentClose`, `~EarlyReuse` |

The invariant `IInv` adds to these who is where: one live object at an address, one owner
of an object, threads that open or close are alone with it, a semaphore without a user is
free, and the walk has pinned the object that its iterator is on. `CountExact` is proved by
what each step adds to the set of users and to the count; no induction over the set is
needed. Without the hypotheses `HandleUsable` fails: run `handle_reuse` (an address is
handed out again before the counter of the last stream is erased).

### SoundCardProofs

| Theorem | States | Hypothesis |
|---|---|---|
| `TypeInvariant`, `TypeCorrect` | every thread's plan is one of the code's, `TypeOK` | |
| `WalkNeverBlocksItself` | `NeverWaitsForItself` | `CallsKeptApart` |
| `DeviceCountsExact` | `CountsExact` | `CallsKeptApart` |
| `RegisteredAreThosePlaying` | `RegisteredExact` | `CallsKeptApart` |
| `NothingIsLeft` | `NothingLeft` | `CallsKeptApart` |
| `RestartsAreComplete` | `StartedRuns` | `CallsKeptApart` |

`CallsKeptApart` is what `SoundCard.cfg` sets: during a walk streams may be opened and
resumed and the DSP may go down again; starts, stops, closes, pauses and writes do not
overlap one; a stream has one caller at a time; a stream that a restart has closed is not
paused before it is started. What happens otherwise is shown by `pause_during_walk` and
`restart_twice`.

The types come first and are the longest step: `Head` and `Tail` of a plan mean something
only if the plan is one that the code can have. `ClientTodo` and `SsrTodo` list those plans,
`ClientThen` and `SsrThen` show that each section leads from one of them to another.

The inductive invariant has three parts. `CoreInv`: which sections of a call may meet a
walk, what they still know of their stream although mutexes were handed over since they
looked, whose users are counted, and in which sections the restart thread holds
`mActiveStreamMutex`. `DeviceInv`: the front ends, counts and registrations, with what the
sections in progress have done already (an input that has started its device and not yet
its session; an output that plays and is not yet registered). `DeathInv`: a graph that died
under a stream that plays is known to the walk, to the monitor, or by a message in the
queue, and a card that is off has every such stream still to visit or in the midst of being
stopped. With no section in progress these give the properties of the runs.

`WalkNeverBlocksItself` needs `CoreInv` only. The proof found that `overlapping` was missing
from the tuple `vars` of `SoundCard`, so that `[Next]_vars` would have let it change in a
stuttering step.

### SoundTriggerProofs

| Theorem | States | Hypothesis |
|---|---|---|
| `StopsOnlyTold` | `NeverStopsActive`: the timer stops only a stream whose client was told of a detection and has not started it again | `"verdict" \notin Overlap` |
| `StopIsTimed` | `PendingStopTimed`: a deferred stop that is due has a timer that will wake up | `"verdict" \notin Overlap` |

They hold for any set of engines and any configurations: any number of second stage
engines, any calls that fail, and any requests of `ResourceManager` on the stream.

The properties are about a flag, `pending_stop`, that four kinds of threads set and clear
with the mutex, and a timer that reads it. Why they hold depends on what every thread that
holds the mutex still has to do, and the first half of the module says what that can be. A call's
plan is open at its front: a failed load, a restart that has to stop the engines again and
a microphone that moves each put sections in front of what is left. `Runs(t)` is therefore
not a list of plans, as for the restart of the card, but the plans that are sections of some
set in front of one of few ends (`After` in `ListLemmas`); `CallsGoOn`, `EndingGoesOn` and
`RenewsGoesOn` show that each section leads from one of them to another. An engine's thread
that rejects a detection has plans of its own.

`IInv` then has these parts. `Planned`: the holder of the mutex has a plan that needs it, and
everybody else one that does not. `EnginesIdle`: only the second stage engines of the
configuration run. `Pending`: while a stop is pending the stream is in `DETECTED` or
`BUFFERING`, its timer runs and is to stop it, whoever holds the mutex is about
to cancel the stop, or to end a call that leaves it alone, and *no second stage engine may
still reject the detection that the client was told of*: a rejection starts recognition
again. `Verdicts`: a verdict is kept only while the stream buffers, nobody but a rejecting
engine holds the mutex, and the engines that accepted do not reject. The last two end when the
destructor waits for the timer (`Leaving`).

The sentence in italics is where the hypothesis comes in. If a call may come between the
verdicts of two engines (`"verdict" \in Overlap`), the verdict of one engine stays in
`detection_state` over a restart of recognition, the client is told of the next detection
before the other engine has decided, and when that engine rejects, in `BUFFERING`, recognition
starts again with the stop still pending: the timer then stops an active stream. TLC finds
both properties violated in `StaleVerdict.cfg` when the configuration wants the sound
(`Plain({Kwd, Uv}, TRUE, {})` for `TwoEngines`); when it does not, the stream is in
`DETECTED` and the late rejection is dropped.

### SoundTriggerVerdicts

| Theorem | States | Hypothesis |
|---|---|---|
| `VerdictsInvariant` | `IInv` and `VInv` hold in every reachable state | as below |
| `HeardOfAccepted` | `BothVerdicts`: the client is told of a detection only when all second stage engines have accepted it | `"verdict" \notin Overlap`, `"detection" \notin Overlap`, `DecidesAlone` |

Every engine decides on a thread of its own. The stream only counts: `detection_state` holds
the engines that have accepted, and when it is complete the client is told. Nothing in the
code ties a verdict to the detection it is about, so the property rests on where the engines'
threads can be. `accepted` is the model's own record of who has accepted since the DSP's
detection, and `Settled` says that `detection_state` is part of it. To keep that over the
next detection, which empties `accepted`, `detection_state` must be empty by then. The reason is
`Undecided`: while the stream is buffering, and whoever has the mutex does not end the
detection, every engine without a verdict in `detection_state` still decides. With a verdict
kept there is therefore an engine that still runs (`SomeoneDecides`), and the first stage
detects nothing.

The rest of `VInv` is what `Undecided` needs. `Engaging`: the first stage engages the engines
one by one, and those it has engaged decide while the others are still idle; an engine that is
not idle would not hear it. `Fresh`: that they are idle when a detection is handled.
`Stopping`: a thread that asks an engine to leave its loop has a plan that ends the detection
(`Busy`): it leaves `BUFFERING`, restarts recognition or drops the verdicts before it gives
the mutex up. That was the long part, because a handler may put a failed restart or another
handler's sections in front of such a plan (`WorksInBuffering`).

The first hypothesis is the one of `SoundTriggerProofs`, and `stale_verdict` shows what
happens without it. Without the second, TLC finds a verdict on one detection counted
for the next. `DecidesAlone` says that a client that hears of rejections
(`GetNotifySecondStageFailure()`) has at most one second stage engine. With two, the stream
goes on buffering after a rejection, and if the other engine already had its verdict it comes
then, and stays in `detection_state` until the stream is stopped. TLC finds no violation of
`BothVerdicts` there, but this says little: `"verdict" \notin Overlap` makes every later call
wait for a verdict that does not come (`NeverStuck` fails in that configuration), and the
same holds of `StopsOnlyTold` and `StopIsTimed` from that point on. With the calls let in,
`BothVerdicts` fails.

### SoundTriggerPower

| Theorem | States | Hypothesis |
|---|---|---|
| `PowerInvariant` | `IInv` and `PInv` hold in every reachable state | `"verdict" \notin Overlap`, `"detection" \notin Overlap` |
| `PowerIsExact` | `PowerExact`: between calls, one wake lock for a detection the first stage's thread handles, one for a detection the stream was told of and nobody has ended, and no other; a vote of the sleep monitor only while there is sound to read | the same |

`wake_lock_cnt` is one counter for two owners who do not know of each other. The first stage's
thread takes a lock when the DSP detects and gives it up when it is done with the detection,
whatever came of it. The stream takes one when it enters `DETECTED` or `BUFFERING`, and the
lock is given up by whoever takes it out of there: a start or a stop of the client, the
deferred stop, a rejection, and every request of `ResourceManager` that stops or restarts
recognition, each in its own handler. A handler that forgets it keeps the phone awake, and one
that gives it up twice lets it sleep under another stream. The same handlers take back the
vote.

In the middle of a call the count does not follow from the state: a stop changes the state
first and gives the lock up afterwards, with the engines' sections around it, and a restart
gives it up only when all engines have been restarted. `PInv` therefore reads the count off the
plan of the thread that holds the mutex. `Dry` lists the plans of a holder with no lock to give
up, each with the states that the stream may be in meanwhile; `Wet` those that still have an
`unwake` in them, or something that puts one there (an engine's stop that will be answered
`halted`, a restart that will end with `restarted`). `Awake` ties the count to the state in the
first case, `Level(1)` fixes it in the second. With nobody in possession of the mutex the count
is as the state says, and so is the vote (`Sound`): a vote is there only in `BUFFERING` and
after all second stage engines have decided. That is where `VInv`'s hypotheses come back. A
detection that comes while the last one is handled is not heard by the event thread, and its
lock is never given up. And a verdict left over from the detection before makes the stream vote
while the other engine still decides; when that one rejects, recognition starts again and the
vote stays. TLC finds `PowerExact` violated for either (for the second in `StaleVerdict.cfg`
with `Plain({Kwd, Uv}, TRUE, {})` for `TwoEngines`). `HasEngine`, `Unheard` and `Holder` are
what the handlers look at: a stream with an engine, a callback of a rejection only for a client
that wants it, and a holder that has something left to do.

A client that hears of rejections is left out by `PowerExact` itself: its wake lock may be
given up twice, and `HandledAwake` says so (section 3).

### ComponentProofs

Six of the components of `MCComponents`, each an instance with its own properties. The run
`components` checks them on one small instance; here the numbers of streams, threads,
signals, users, front ends, processes, descriptors and restarts are arbitrary.

| Theorem | States, of its instance | Hypothesis |
|---|---|---|
| `ChargerTypes` | `TypeOK` | |
| `ChargerNoOrphan` | `NoOrphan`: the listener's thread does not outlive the library | |
| `ChargerAdapts` | `Adapts`: limiter and boost go with the charger | `~Hasty` |
| `SignalTypes` | `TypeOK` | `~Hasty` |
| `SignalCallbacks` | `CallbacksRight`: every signal reaches the debugger's handler, AGM hears of none twice | `~Hasty` |
| `SignalPromises` | `PromisesKept`: PAL's handler is put back | `~Hasty` |
| `SignalNeverBlocks` | `NeverBlocks`: the handler does not wait for a job that waits for its lock | `~Hasty` |
| `LifeTypes` | `TypeOK` | `~Hasty` |
| `LifeCounts` | `CountsExact`: `pal_init_ref_cnt` is the number of users | `~Hasty` |
| `LifePromises` | `PromisesKept`: a user has every thread until its own `pal_deinit()` | `~Hasty` |
| `LifeNoOrphan` | `NoOrphan`: the last `pal_deinit()` leaves nothing behind | `~Hasty` |
| `LifeNeverBlocks` | `NeverBlocks`: nor does it wait for a thread that will not end | `~Hasty` |
| `InCallTypes` | `TypeOK` | `~Hasty` |
| `InCallCounts` | `CountsExact`: a vote for each stream that runs, no front end given out twice | `~Hasty` |
| `InCallPromises` | `PromisesKept`: after a restart every stream is what its client was told | `~Hasty` |
| `InCallNeverReadsPast` | `NeverReadsPast`: a client that reads has a handle to read through | `~Hasty` |
| `HardwareNoOrphan` | `NoOrphan`: no stream and no descriptor is lost when a process dies | `~Hasty`, two devices |
| `HardwareCallbacks` | `CallbacksRight`: an event has its stream's object and the client's number of the buffer | `~Hasty`, two devices |
| `HardwareRoutes` | `RoutesRight`: PAL's buffer is the one its descriptor was duplicated for | `~Hasty`, two devices |
| `HardwareNeverBlocks` | `NeverBlocks`: the death notice waits for no event that waits for its lock | `~Hasty`, two devices |
| `CommonShape` | `TypeOK` | `~Hasty` |
| `CommonDevicesCounted` | `CountsExact`: a device's two counts are its open and its running streams | `~Hasty` |
| `CommonRegistered` | `RoutesRight`: the devices of the streams that run are the active ones | `~Hasty` |
| `CommonPromises` | `PromisesKept`: after a restart every stream is what its client was told | `~Hasty` |
| `UltrasoundGain` | `Adapts`: the gain on the processor is the one for what plays | `~Hasty`, one ultrasound stream |

`Hasty` is each module's constant for the order of calls that the code does not withstand
(section 3, what the components do outside the passing runs).

The charger's invariant adds to the types that library, thread and streams go together
(`ChargerInv`), and that the limiter follows the charger that PAL knows while somebody plays
(`LimiterInv`); what a client tells while nobody plays is caught up with at the first start.

The signal handler's (`SignalInv`) is about one lock and two kinds of threads: the handler
holds the lock from its call of AGM until it has dealt with the job of the signal before, and
the one job that is to put PAL's handler back takes the same lock. The two never wait for each
other because the job that the handler waits for is past the lock (`Due`), and that is so
because the debugger's handler is in place, and no signal comes to PAL's, while a job is on its
way.

`LifeInv` says that while anybody counts everything is there, and otherwise nothing. In
between the last `pal_deinit()` waits for the mixer's thread, the monitor and the worker, in
this order, and each has had the word to leave: the worker's is a message, and stands
behind all those the monitor may still have sent, because the monitor has ended by then.

The streams of a call keep two records of themselves across a restart, the state and the cached
state. `InCallStreamInv` says which of the two answers for what the client was told: the state
while the restart has not come to the stream or has left it (`InCallSettled`), the cached state
in between, except for the one stream at which the worker is, of which the invariant says how
far it has come. A front end counts for a stream that holds it and for one that will be
reopened (`HoldsEnd`), so that the restart finds one for each. The votes are a cardinality;
`OneMoved` says what a step that changes one stream does to it, and no induction over the set
is needed.

"Two devices" is `MaxDevices <= 2`, the most a client of the HIDL service can ask for and be
served: the server reads the devices of a request at the wrong stride from the third on
(`pal_server_wrapper.cpp:428`), and `CallbacksRight`, of which the devices PAL opens are a part,
is false with three. The invariant (`HwInv`) says of each stream who answers for it, the session
it is in, a call that still carries it, or a death notice that has it on its list; and of each
entry of a list of descriptors which buffer PAL holds for it, which event carries it back, or
which write has it in hand. It is the conjunction over the streams of a predicate about one
(`HandleInv`), which a step about another stream leaves alone (`OthersKept`), so that each step
is about its own stream only.

The common streams keep two states, as the streams of a call do. `AskInv` says which of them
answers for what the client was told (`CommonSettled`), how far the worker has come with the one
stream it is at, what part of a start or a stop is left to do outside the mutex, and which
devices are registered. `GainInv` says that the gain remembered and the gain on the processor
are the same, and which it is. It holds with one ultrasound stream at most (`OneUpd`): when a
playback comes to the speaker or leaves it, `ResourceManager::setUltrasoundGain()` tells the
first active ultrasound stream it finds and leaves its loop, so of two the other would keep its
gain. The counts again follow from the one stream that moves (`CountsMove`).

### Only model-checked

Of the sound trigger stream: who listens and which counts of the microphone that leaves
(`MicExact`, `StartedListens`) and the bounds in its `TypeOK`. Thirteen of the nineteen
components of `MCComponents` (all but the six of `ComponentProofs`): `MCComponents` conjoins
the same property of all of them, so a theorem is about the one instance it names. All
liveness: temporal properties under fairness, and `NeverStuck`, which uses `ENABLED`, are out
of the proof system's reach. What a fold over a set computes (the counts of `EchoReference`,
`PcmSession` and others) would need induction over data, and is out of reach too unless the
count is stated by what each step adds, as `StreamHandles` and `SoundCard` do.

## 5. Plan

1. Proofs: the microphone of the sound trigger stream; the other thirteen components.
2. The sound trigger stream composed with the ring, against an abstract stream that reports
   each detection at most once; several streams on one engine (merged models).
3. `DetectionSwitch` composed with `StreamSoundTrigger`, whose inside it abstracts to what the
   switch asks, and with `AcousticContext`, whose moves it triggers; `StreamPCM` with
   `PcmSession`'s failures (a device that fails to open leaves the session open).
4. `registerDevice`'s locks on other capture streams; the SCO devices' frequencies; the clients
   of the binder services.

Not modelled and not planned: payload construction (`PayloadBuilder`), tag and calibration
tables, XML and sound model parsing, codec plugins, the capabilities of USB and DisplayPort
devices, vendored headers and data: they transform data that no other component's control
depends on. `StreamACDB` is `StreamCommon` with another session and has no module of its own.
