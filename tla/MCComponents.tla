---------------------------- MODULE MCComponents ----------------------------
(***************************************************************************)
(* Instances for TLC of the components that are checked by themselves, in  *)
(* one state space: the first state picks a scene, that is a component,    *)
(* and the behaviour is that component's. Each component's variables are   *)
(* v1, v2, ... in the order it declares them; those it does not need stay  *)
(* None. A property here says of every component that has one of its name  *)
(* that it holds there; the component's own comment says what it means.    *)
(***************************************************************************)
EXTENDS Integers

CONSTANTS
  Scenes,   \* the components to check
  Hasty     \* FALSE: each component's orders and failures the code handles

VARIABLES
  scene,
  v1, v2, v3, v4, v5, v6, v7, v8, v9, v10, v11, v12, v13, v14, v15, v16, v17, v18,
  v19, v20, v21, v22, v23, v24, v25, v26, v27, v28, v29

------------------------------------------------------------------------------
(* The components and the bounds they are checked in.                      *)
Compress == INSTANCE CompressStream WITH
  Devices <- {"d1"}, MaxQueue <- 1, MaxOpens <- 1, MaxOffs <- 1, Formats <- {TRUE},
  Abortable <- FALSE, Window <- FALSE, Blind <- FALSE, state <- v1, paused <- v2,
  devs <- v3, opens <- v4, starts <- v5, registered <- v6, votes <- v7, leaked <- v8,
  compress <- v9, playing <- v10, gapless <- v11, worker <- v12, queue <- v13,
  event <- v14, drained <- v15, ret <- v16, owed <- v17, unasked <- v18, mutex <- v19,
  activeMutex <- v20, todo <- v21, told <- v22, dsp <- v23, cardState <- v24,
  down <- v25, erred <- v26, aborted <- v27, opened <- v28, offs <- v29
Headset == INSTANCE A2dpRoute WITH
  Streams <- {"s1","s2"}, Offload <- {"s1"}, Pausing <- {"s1"}, Hasty <- Hasty,
  state <- v1, paused <- v2, susp <- v3, muted <- v4, held <- v5, silent <- v6,
  route <- v7, suspended <- v8, up <- v9, asked <- v10, wait <- v11, job <- v12,
  list <- v13, call <- v14, plan <- v15
Feedback == INSTANCE BtFeedback WITH
  MaxUsers <- 3, Fails <- {"codec","stack"}, kind <- v1, codec <- v2, dev <- v3,
  users <- v4
Echo == INSTANCE EchoReference WITH
  Rx <- {"r1","r2"}, Tx <- {"t1","t2"}, Apart <- FALSE, Loose <- FALSE, Fails <- FALSE,
  state <- v1, at <- v2, reg <- v3, ecCount <- v4, ecRef <- v5, gain <- v6
Speaker == INSTANCE SpeakerProtection WITH
  MaxPlays <- 2, Hasty <- Hasty, devices <- v1, cal <- v2, calState <- v3,
  devState <- v4, rcvd <- v5, verdict <- v6, inUse <- v7, requests <- v8, plays <- v9,
  apart <- v10, recording <- v11, caller <- v12, woken <- v13, txPcm <- v14,
  rxPcm <- v15, pcmDevIdTx <- v16, res <- v17, vi <- v18, viCreated <- v19,
  mode <- v20, dead <- v21
Acoustic == INSTANCE AcousticContext WITH
  Streams <- {"s1","s2"}, Thresholds <- {1}, Hasty <- Hasty, str <- v1, eng <- v2,
  dev <- v3, queue <- v4, evt <- v5, moved <- v6, joining <- v7, down <- v8,
  joins <- v9
Pcm == INSTANCE PcmSession WITH
  Plays <- {"p1"}, Records <- {}, Loops <- {"l1"}, Keywords <- {"k1"}, Lpm <- {"p1"},
  Outs <- {"o1","o2"}, Ins <- {"i1"}, Ends <- 1, Hasty <- Hasty, str <- v1, free <- v2,
  conn <- v3, meta <- v4, link <- v5, map <- v6, regs <- v7, votes <- v8, kern <- v9,
  ioctls <- v10, lpm <- v11, dev <- v12, due <- v13
Voice == INSTANCE VoiceCall WITH
  Calls <- {"c1","c2"}, Second <- {"c2"}, Outs <- {"o1","o2"}, Ins <- {"i1"},
  External <- {"o2"}, Mics <- {"i1"}, Ears <- {"o1"}, Hasty <- Hasty, call <- v1,
  conn <- v2, meta <- v3, map <- v4, path <- v5, occ <- v6, votes <- v7, ec <- v8,
  dsp <- v9, dev <- v10
InCall == INSTANCE InCallStream WITH
  Records <- {"r1"}, Musics <- {"m1"}, Ends <- 1, MaxDowns <- 2, Hasty <- Hasty,
  str <- v1, votes <- v2, card <- v3, work <- v4, downs <- v5
Hardware == INSTANCE HwBinder WITH
  Clients <- {"c1"}, Handles <- {"h1","h2"}, Joins <- {"h2"}, MaxFds <- 2,
  MaxDevices <- 2, Hasty <- Hasty, alive <- v1, sess <- v2, link <- v3, obj <- v4,
  pal <- v5, fds <- v6, calls <- v7, ev <- v8, death <- v9, seen <- v10
Software == INSTANCE SwBinder WITH
  Clients <- {"c1","c2"}, Handles <- {"h1"}, Joins <- {"h1"}, MaxFds <- 2,
  MaxFrames <- 2, Slots <- 2, Hasty <- Hasty, list <- v1, who <- v2, shared <- v3,
  copies <- v4, naming <- v5, pal <- v6, pend <- v7, used <- v8, calls <- v9,
  ev <- v10, death <- v11, seen <- v12
Config == INSTANCE DeviceConfig WITH
  Calls <- {"c1"}, Medias <- {"m1"}, Upds <- {"u1"}, Buzzes <- {"b1"},
  Layouts <- {"apart","shared","jack","virtual"}, Hasty <- Hasty, layout <- v1,
  groups <- v2, combos <- v3, rate <- v4, reg <- v5, want <- v6, on <- v7, attr <- v8,
  cfg <- v9, group <- v10, used <- v11, job <- v12
Context == INSTANCE ContextManager WITH
  Clients <- {"c1","c2"}, Uses <- {"acd","pcm"}, MaxQueue <- 2, Hasty <- Hasty,
  proxy <- v1, thread <- v2, quit <- v3, queue <- v4, cmd <- v5, see <- v6, strm <- v7,
  hub <- v8, card <- v9, ending <- v10, seen <- v11
Hostless == INSTANCE NonTunnel WITH
  Streams <- {"s1","s2"}, Buffers <- {1}, Ends <- 1, MaxDowns <- 1, MaxQ <- 3,
  Hasty <- Hasty, str <- v1, agm <- v2, ev <- v3, half <- v4, owed <- v5, votes <- v6,
  dsp <- v7, msgQ <- v8, work <- v9, seen <- v10
Common == INSTANCE CommonStream WITH
  Upds <- {"u1"}, Others <- {"o1","o2"}, MaxDowns <- 2, Hasty <- Hasty, str <- v1,
  devs <- v2, reg <- v3, op <- v4, speaker <- v5, card <- v6, work <- v7, downs <- v8
Charger == INSTANCE ChargerListener WITH
  Streams <- {"s1","s2"}, Hasty <- Hasty, usb <- v1, bit <- v2, told <- v3, life <- v4,
  thr <- v5, news <- v6, online <- v7, boost <- v8, str <- v9, limited <- v10
Lifecycle == INSTANCE PalLifecycle WITH
  MaxUsers <- 2, MaxChanges <- 2, Hasty <- Hasty, refs <- v1, users <- v2, rm <- v3,
  ctx <- v4, job <- v5, mixer <- v6, event <- v7, closed <- v8, monitor <- v9,
  fd <- v10, leaving <- v11, card <- v12, worker <- v13, msgQ <- v14, thrown <- v15
Signals == INSTANCE SignalHandler WITH
  Threads <- {"t1","t2"}, MaxSignals <- 3, Hasty <- Hasty, action <- v1, lock <- v2,
  th <- v3, jobs <- v4, reg <- v5, handle <- v6, count <- v7
Detection == INSTANCE DetectionSwitch WITH
  Sensors <- {"n1","n2"}, Audios <- {"playback","bargein","record"},
  Uncaptured <- {"vui","sensor"}, Unbarged <- {}, Hasty <- Hasty, str <- v1,
  mics <- v2, reg <- v3, common <- v4, audio <- v5, enable <- v6, disable <- v7,
  lpi <- v8, defer <- v9, vui <- v10, due <- v11, charging <- v12, headset <- v13,
  held <- v14, read <- v15, stuck <- v16

ASSUME ComponentsAssumption ==
  /\ Hasty \in BOOLEAN
  /\ Compress!CompressAssumption
  /\ Headset!A2dpAssumption
  /\ Feedback!FeedbackAssumption
  /\ Echo!EchoAssumption
  /\ Speaker!SpeakerAssumption
  /\ Acoustic!ContextAssumption
  /\ Pcm!SessionAssumption
  /\ Voice!CallAssumption
  /\ InCall!InCallAssumption
  /\ Hardware!HwAssumption
  /\ Software!SwAssumption
  /\ Config!ConfigAssumption
  /\ Context!ContextAssumption
  /\ Hostless!NonTunnelAssumption
  /\ Common!CommonAssumption
  /\ Charger!ChargerAssumption
  /\ Lifecycle!LifecycleAssumption
  /\ Signals!SignalAssumption
  /\ Detection!SwitchAssumption

------------------------------------------------------------------------------
(* What a component does not need.                                         *)
None == "none"

After21 == <<v22, v23, v24, v25, v26, v27, v28, v29>>
After16 == <<v17, v18, v19, v20, v21, After21>>
After15 == <<v16, After16>>
After13 == <<v14, v15, After15>>
After12 == <<v13, After13>>
After11 == <<v12, After12>>
After10 == <<v11, After11>>
After9 == <<v10, After10>>
After8 == <<v9, After9>>
After7 == <<v8, After8>>
After6 == <<v7, After7>>
After5 == <<v6, After6>>
After4 == <<v5, After5>>
vars == <<scene, v1, v2, v3, v4, After4>>

Absent21 == v22 = None /\ v23 = None /\ v24 = None /\ v25 = None /\ v26 =
             None /\ v27 = None /\ v28 = None /\ v29 = None
Absent16 == v17 = None /\ v18 = None /\ v19 = None /\ v20 = None /\ v21 =
             None /\ Absent21
Absent15 == v16 = None /\ Absent16
Absent13 == v14 = None /\ v15 = None /\ Absent15
Absent12 == v13 = None /\ Absent13
Absent11 == v12 = None /\ Absent12
Absent10 == v11 = None /\ Absent11
Absent9 == v10 = None /\ Absent10
Absent8 == v9 = None /\ Absent9
Absent7 == v8 = None /\ Absent8
Absent6 == v7 = None /\ Absent7
Absent5 == v6 = None /\ Absent6
Absent4 == v5 = None /\ Absent5

------------------------------------------------------------------------------
Init ==
  /\ scene \in Scenes
  /\ \/ scene = "Compress" /\ Compress!Init
     \/ scene = "Headset" /\ Headset!Init /\ Absent15
     \/ scene = "Feedback" /\ Feedback!Init /\ Absent4
     \/ scene = "Echo" /\ Echo!Init /\ Absent6
     \/ scene = "Speaker" /\ Speaker!Init /\ Absent21
     \/ scene = "Acoustic" /\ Acoustic!Init /\ Absent9
     \/ scene = "Pcm" /\ Pcm!Init /\ Absent13
     \/ scene = "Voice" /\ Voice!Init /\ Absent10
     \/ scene = "InCall" /\ InCall!Init /\ Absent5
     \/ scene = "Hardware" /\ Hardware!Init /\ Absent10
     \/ scene = "Software" /\ Software!Init /\ Absent12
     \/ scene = "Config" /\ Config!Init /\ Absent12
     \/ scene = "Context" /\ Context!Init /\ Absent11
     \/ scene = "Hostless" /\ Hostless!Init /\ Absent10
     \/ scene = "Common" /\ Common!Init /\ Absent8
     \/ scene = "Charger" /\ Charger!Init /\ Absent10
     \/ scene = "Lifecycle" /\ Lifecycle!Init /\ Absent15
     \/ scene = "Signals" /\ Signals!Init /\ Absent7
     \/ scene = "Detection" /\ Detection!Init /\ Absent16

CompressSteps == scene = "Compress" /\ Compress!Next /\ UNCHANGED scene
HeadsetSteps == scene = "Headset" /\ Headset!Next /\ UNCHANGED <<scene, After15>>
FeedbackSteps == scene = "Feedback" /\ Feedback!Next /\ UNCHANGED <<scene, After4>>
EchoSteps == scene = "Echo" /\ Echo!Next /\ UNCHANGED <<scene, After6>>
SpeakerSteps == scene = "Speaker" /\ Speaker!Next /\ UNCHANGED <<scene, After21>>
AcousticSteps == scene = "Acoustic" /\ Acoustic!Next /\ UNCHANGED <<scene, After9>>
PcmSteps == scene = "Pcm" /\ Pcm!Next /\ UNCHANGED <<scene, After13>>
VoiceSteps == scene = "Voice" /\ Voice!Next /\ UNCHANGED <<scene, After10>>
InCallSteps == scene = "InCall" /\ InCall!Next /\ UNCHANGED <<scene, After5>>
HardwareSteps == scene = "Hardware" /\ Hardware!Next /\ UNCHANGED <<scene, After10>>
SoftwareSteps == scene = "Software" /\ Software!Next /\ UNCHANGED <<scene, After12>>
ConfigSteps == scene = "Config" /\ Config!Next /\ UNCHANGED <<scene, After12>>
ContextSteps == scene = "Context" /\ Context!Next /\ UNCHANGED <<scene, After11>>
HostlessSteps == scene = "Hostless" /\ Hostless!Next /\ UNCHANGED <<scene, After10>>
CommonSteps == scene = "Common" /\ Common!Next /\ UNCHANGED <<scene, After8>>
ChargerSteps == scene = "Charger" /\ Charger!Next /\ UNCHANGED <<scene, After10>>
LifecycleSteps == scene = "Lifecycle" /\ Lifecycle!Next /\ UNCHANGED <<scene, After15>>
SignalsSteps == scene = "Signals" /\ Signals!Next /\ UNCHANGED <<scene, After7>>
DetectionSteps == scene = "Detection" /\ Detection!Next /\ UNCHANGED <<scene, After16>>

Next ==
  \/ CompressSteps \/ HeadsetSteps \/ FeedbackSteps \/ EchoSteps \/ SpeakerSteps
  \/ AcousticSteps \/ PcmSteps \/ VoiceSteps \/ InCallSteps \/ HardwareSteps
  \/ SoftwareSteps \/ ConfigSteps \/ ContextSteps \/ HostlessSteps \/ CommonSteps
  \/ ChargerSteps \/ LifecycleSteps \/ SignalsSteps \/ DetectionSteps

Spec == Init /\ [][Next]_vars

------------------------------------------------------------------------------
(***************************************************************************)
(* Fairness: the threads of the code run. Clients, the DSP, the sound card *)
(* and the hub owe nothing.                                                *)
(***************************************************************************)
In(name) == scene = name /\ UNCHANGED scene
SpeakerFair ==
  /\ WF_vars(In("Speaker") /\ Speaker!Calibration /\ UNCHANGED After21)
  /\ WF_vars(In("Speaker") /\ Speaker!StartWoken /\ UNCHANGED After21)
ContextFair ==
  /\ WF_vars(In("Context") /\ Context!Command /\ UNCHANGED After11)
  /\ WF_vars(In("Context") /\ Context!Close /\ UNCHANGED After11)
  /\ WF_vars(In("Context") /\ Context!Restart /\ UNCHANGED After11)
HostlessFair == WF_vars(In("Hostless") /\ Hostless!Worker /\ UNCHANGED After10)
LiveSpec == Spec /\ SpeakerFair /\ ContextFair /\ HostlessFair

------------------------------------------------------------------------------
(***************************************************************************)
(* Every wait ends: a stream that waits for a calibration plays; the hub   *)
(* is answered; the context manager's end and its restart come to an end;  *)
(* the client of a non-tunnel stream learns that the processor has gone.   *)
(***************************************************************************)
StreamWaits      == scene = "Speaker" /\ Speaker!Waiting
HubWaits(r)      == scene = "Context" /\ Context!WaitsFor(r)
ContextCloses    == scene = "Context" /\ Context!Closing
ContextRestarts  == scene = "Context" /\ Context!Restarting
ClientUnaware(s) == scene = "Hostless" /\ Hostless!Unaware(s)
WaitsEnd ==
  /\ StreamWaits ~> ~StreamWaits
  /\ \A r \in Context!Requests : HubWaits(r) ~> ~HubWaits(r)
  /\ ContextCloses ~> ~ContextCloses
  /\ ContextRestarts ~> ~ContextRestarts
  /\ \A s \in {"s1", "s2"} : ClientUnaware(s) ~> ~ClientUnaware(s)

(* The shape of each component's state.                                    *)
TypeOK ==
  /\ scene = "Compress" => Compress!TypeOK
  /\ scene = "Headset" => Headset!TypeOK
  /\ scene = "Feedback" => Feedback!TypeOK
  /\ scene = "Echo" => Echo!TypeOK
  /\ scene = "Speaker" => Speaker!TypeOK
  /\ scene = "Acoustic" => Acoustic!TypeOK
  /\ scene = "Pcm" => Pcm!TypeOK
  /\ scene = "Voice" => Voice!TypeOK
  /\ scene = "InCall" => InCall!TypeOK
  /\ scene = "Hardware" => Hardware!TypeOK
  /\ scene = "Software" => Software!TypeOK
  /\ scene = "Config" => Config!TypeOK
  /\ scene = "Context" => Context!TypeOK
  /\ scene = "Hostless" => Hostless!TypeOK
  /\ scene = "Common" => Common!TypeOK
  /\ scene = "Charger" => Charger!TypeOK
  /\ scene = "Lifecycle" => Lifecycle!TypeOK
  /\ scene = "Signals" => Signals!TypeOK
  /\ scene = "Detection" => Detection!TypeOK

(***************************************************************************)
(* The counts kept of shared things are right: how often a device is open  *)
(* and started, the votes that keep the processor awake, the streams       *)
(* registered on a device, the sessions of the Bluetooth stack, the echo   *)
(* references, the priorities of a device's attributes, PAL's own callers. *)
(***************************************************************************)
CountsExact ==
  /\ scene = "Compress" => Compress!CountsExact
  /\ scene = "Headset" => Headset!CountsExact
  /\ scene = "Feedback" => Feedback!CountsExact
  /\ scene = "Echo" => Echo!CountsExact
  /\ scene = "Speaker" => Speaker!CountsExact
  /\ scene = "Acoustic" => Acoustic!CountsExact
  /\ scene = "Pcm" => Pcm!CountsExact
  /\ scene = "Voice" => Voice!CountsExact
  /\ scene = "InCall" => InCall!CountsExact
  /\ scene = "Config" => Config!CountsExact
  /\ scene = "Hostless" => Hostless!CountsExact
  /\ scene = "Common" => Common!CountsExact
  /\ scene = "Lifecycle" => Lifecycle!CountsExact
  /\ scene = "Detection" => Detection!CountsExact

(***************************************************************************)
(* What is connected is what the streams and devices call for: the mixer's *)
(* graph, the device a stream plays on, its echo reference, the one device *)
(* of a shared back end, the descriptor a buffer stands for.               *)
(***************************************************************************)
RoutesRight ==
  /\ scene = "Headset" => Headset!RoutesRight
  /\ scene = "Echo" => Echo!RoutesRight
  /\ scene = "Acoustic" => Acoustic!RoutesRight
  /\ scene = "Pcm" => Pcm!RoutesRight
  /\ scene = "Voice" => Voice!RoutesRight
  /\ scene = "Hardware" => Hardware!RoutesRight
  /\ scene = "Config" => Config!RoutesRight
  /\ scene = "Common" => Common!RoutesRight

(***************************************************************************)
(* Nothing is left behind without an owner: front ends, handles, threads,  *)
(* callbacks, descriptors, streams of the hub or of a dead process.        *)
(***************************************************************************)
NoOrphan ==
  /\ scene = "Compress" => Compress!NoOrphan
  /\ scene = "Speaker" => Speaker!NoOrphan
  /\ scene = "Acoustic" => Acoustic!NoOrphan
  /\ scene = "Pcm" => Pcm!NoOrphan
  /\ scene = "Voice" => Voice!NoOrphan
  /\ scene = "Hardware" => Hardware!NoOrphan
  /\ scene = "Software" => Software!NoOrphan
  /\ scene = "Context" => Context!NoOrphan
  /\ scene = "Hostless" => Hostless!NoOrphan
  /\ scene = "Charger" => Charger!NoOrphan
  /\ scene = "Lifecycle" => Lifecycle!NoOrphan

(***************************************************************************)
(* Every answer reaches who waits for it, once, with what was asked; and   *)
(* no callback comes to something that is gone.                            *)
(***************************************************************************)
CallbacksRight ==
  /\ scene = "Compress" => Compress!CallbacksRight
  /\ scene = "Acoustic" => Acoustic!CallbacksRight
  /\ scene = "Pcm" => Pcm!CallbacksRight
  /\ scene = "Hardware" => Hardware!CallbacksRight
  /\ scene = "Software" => Software!CallbacksRight
  /\ scene = "Context" => Context!CallbacksRight
  /\ scene = "Hostless" => Hostless!CallbacksRight
  /\ scene = "Signals" => Signals!CallbacksRight

(* A stream its client paused stays paused, and no other one is.           *)
PauseKept ==
  /\ scene = "Headset" => Headset!PauseKept
  /\ scene = "Acoustic" => Acoustic!PauseKept
  /\ scene = "Detection" => Detection!PauseKept

(* No call waits for a lock its own thread holds, or for a thread that     *)
(* nobody wakes; and none ends the process.                                *)
NeverBlocks ==
  /\ scene = "Speaker" => Speaker!NeverBlocks
  /\ scene = "Acoustic" => Acoustic!NeverBlocks
  /\ scene = "Hardware" => Hardware!NeverBlocks
  /\ scene = "Software" => Software!NeverBlocks
  /\ scene = "Context" => Context!NeverBlocks
  /\ scene = "Hostless" => Hostless!NeverBlocks
  /\ scene = "Lifecycle" => Lifecycle!NeverBlocks
  /\ scene = "Signals" => Signals!NeverBlocks
  /\ scene = "Detection" => Detection!NeverBlocks

(***************************************************************************)
(* What follows from others' coming and going does so: the Bluetooth       *)
(* codec's feedback, group configurations and rates, an ultrasound         *)
(* stream's gain, the profile of the detection streams, the card's state,  *)
(* the limiter that goes with a charger.                                   *)
(***************************************************************************)
Adapts ==
  /\ scene = "Feedback" => Feedback!Adapts
  /\ scene = "Config" => Config!Adapts
  /\ scene = "Hostless" => Hostless!Adapts
  /\ scene = "Common" => Common!Adapts
  /\ scene = "Charger" => Charger!Adapts
  /\ scene = "Detection" => Detection!Adapts

(***************************************************************************)
(* What a client was told has been done stays so over restarts, switches   *)
(* and signals: a started stream is running, memory given is usable, who   *)
(* initialised PAL has it, and its signal handler is in place.             *)
(***************************************************************************)
PromisesKept ==
  /\ scene = "Pcm" => Pcm!PromisesKept
  /\ scene = "Voice" => Voice!PromisesKept
  /\ scene = "InCall" => InCall!PromisesKept
  /\ scene = "Common" => Common!PromisesKept
  /\ scene = "Lifecycle" => Lifecycle!PromisesKept
  /\ scene = "Signals" => Signals!PromisesKept

(* No list is read past its end, and no configuration that is not there.   *)
NeverReadsPast ==
  /\ scene = "Pcm" => Pcm!NeverReadsPast
  /\ scene = "Voice" => Voice!NeverReadsPast
  /\ scene = "InCall" => InCall!NeverReadsPast
  /\ scene = "Detection" => Detection!NeverReadsPast
==============================================================================
