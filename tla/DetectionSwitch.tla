--------------------------- MODULE DetectionSwitch ---------------------------
(***************************************************************************)
(* Detection streams share the microphone and a low-power path. Audio that *)
(* is opened beside them either pauses them or takes them off the low-     *)
(* power path, by counts kept for each type; a charger does the latter for *)
(* as long as there is a voice user interface; the switch is put off while *)
(* that one buffers. The sensor PCM streams are modelled in full, the      *)
(* voice user interface by what the switch sees of it. The acoustic        *)
(* context streams have the sensors' flags and so the sensors' counts.     *)
(***************************************************************************)
EXTENDS Integers, FiniteSets, FiniteSetsExt, Functions

CONSTANTS
  Sensors,              \* the sensor PCM streams
  Audios,               \* the audio streams beside them, by kind
  Uncaptured, Unbarged, \* the types that do not work beside a capture; beside low latency
  Hasty                 \* may calls come out of turn and overlap?

Kinds == {"playback", "bargein", "record"}
Types == {"vui", "sensor"}
SwitchAssumption ==
  Audios \subseteq Kinds /\ Uncaptured \subseteq Types /\ Unbarged \subseteq Types /\ Hasty \in BOOLEAN

VARIABLES
  str,             \* of each sensor stream: its state, flags and profile, and what its client asked last
  mics, reg,       \* of each microphone: its counts; active_devices
  common,          \* SoundTriggerCaptureProfile, by its priority; 0 when there is none
  audio,           \* the audio streams that are open
  enable, disable, \* the counts of each type
  lpi, defer,      \* use_lpi_ and deferredSwitchState
  vui, due,        \* the voice user interface; it stopped buffering and nobody looked yet
  charging, headset,
  held,            \* the stream whose start() pauses the others, its mutex held
  read, stuck      \* was a configuration read that is not there? does a thread wait for itself?
vars == <<str, mics, reg, common, audio, enable, disable, lpi, defer, vui, due, charging, headset, held, read, stuck>>
sw == <<audio, enable, disable, lpi, defer, vui, due, charging, headset>>

Mics == {"handset", "headset"}
NoStr == [st |-> "none", paused |-> FALSE, sess |-> FALSE, cfg |-> FALSE, ns |-> 0, lpi |-> FALSE,
          cap |-> 0, dev |-> "handset", ask |-> "none"]
Init ==
  /\ str = [s \in Sensors |-> NoStr] /\ mics = [m \in Mics |-> [open |-> 0, start |-> 0]] /\ reg = {}
  /\ common = 0 /\ audio = {} /\ enable = [t \in Types |-> 0] /\ disable = [t \in Types |-> 0]
  /\ lpi = TRUE /\ defer = "none" /\ vui = "none" /\ due = FALSE /\ charging = FALSE /\ headset = FALSE
  /\ held = {} /\ read = FALSE /\ stuck = FALSE

W == [str |-> str, mics |-> mics, reg |-> reg, common |-> common, read |-> read, stuck |-> stuck, vui |-> vui]
Becomes(w) ==
  /\ str' = w.str /\ mics' = w.mics /\ reg' = w.reg /\ common' = w.common /\ read' = w.read /\ stuck' = w.stuck
Less(n) == IF n > 0 THEN n - 1 ELSE 0
Here(w) == {s \in Sensors : w.str[s].st # "none"}
GetAvailCaptureDevice == IF headset THEN "headset" ELSE "handset"

------------------------------------------------------------------------------
(* The profiles, by priority: noise suppression before none, full power    *)
(* before low. The configuration is there once an effect was added.        *)
GetCurrentCaptureProfile(x) == IF x.cfg THEN x.ns + (IF x.lpi THEN 1 ELSE 3) ELSE 0
Reads(w, S) == [w EXCEPT !.read = @ \/ \E s \in S : ~w.str[s].cfg]
GetSPDCaptureProfileByPriority(w, but) == {GetCurrentCaptureProfile(w.str[s]) : s \in Here(w) \ but}
GetCaptureProfileByPriority(w, but) ==
  Max({0} \cup GetSPDCaptureProfileByPriority(w, but) \cup (IF w.vui = "none" THEN {} ELSE {1}))
UpdateSoundTriggerCaptureProfile(w, s, active) ==
  LET p == GetCurrentCaptureProfile(w.str[s])
      q == GetCaptureProfileByPriority(w, {s})
  IN IF active THEN [Reads(w, {s}) EXCEPT !.common = IF p > @ THEN p ELSE @]
     ELSE [Reads(w, Here(w) \ {s}) EXCEPT !.common = q]
(* Are the others to be stopped and started again?                         *)
BackendUpdate(w, v) == w.common # 0 /\ v.common # 0 /\ v.common # w.common

------------------------------------------------------------------------------
(* StreamSensorPCMData: the session and the device start together.         *)
Runs(w, s, ok) ==
  LET d == GetAvailCaptureDevice
  IN IF ~ok THEN w
     ELSE [w EXCEPT !.mics[d] = [open |-> @.open + 1, start |-> @.start + 1], !.reg = @ \cup {s},
                    !.str[s].st = "STARTED", !.str[s].dev = IF w.str[s].st = "PAUSED" THEN @ ELSE d]
KeepsMic(w, s) == [w EXCEPT !.reg = @ \ {s}]  \* seeded fault: a stop leaves the microphone open
Ends(w, s) ==
  [w EXCEPT !.mics[w.str[s].dev] = [open |-> Less(@.open), start |-> Less(@.start)], !.reg = @ \ {s}]
stop(w, s) == IF w.str[s].st \in {"STARTED", "PAUSED"} THEN [Ends(w, s) EXCEPT !.str[s].st = "STOPPED"] ELSE w
OnlyMarks(w, s) == [w EXCEPT !.str[s].paused = TRUE]  \* seeded fault: a stream that runs is marked, not stopped
Pause(w, s) ==
  LET v == stop([w EXCEPT !.str[s].paused = TRUE], s)
  IN IF v.str[s].st = "INIT" THEN v ELSE [v EXCEPT !.str[s].st = "PAUSED"]

(* resume() starts the stream whatever its client asked. One that was not  *)
(* paused opens its session, and may pause the others in its turn: if the  *)
(* mutex of one of them is held below it, the thread waits for itself.     *)
Outranked(w, s, v, h) ==
  BackendUpdate(w, v) /\ (h # {} \/ \E t \in Here(w) \ {s} :
    w.str[t].st \in {"INIT", "STOPPED"} /\ GetCurrentCaptureProfile(w.str[t]) > v.common)
Resume(w, s, h) ==
  LET x == [w EXCEPT !.str[s].paused = FALSE]
      v == UpdateSoundTriggerCaptureProfile(x, s, TRUE)
  IN CASE w.str[s].st = "PAUSED" -> Runs(x, s, TRUE)
       [] w.str[s].st \in {"INIT", "STOPPED"} ->
            Runs([v EXCEPT !.str[s].sess = TRUE, !.stuck = @ \/ Outranked(x, s, v, h)], s, TRUE)
       [] OTHER -> x
HandleDetectionStreamAction(w, S, Does(_, _)) == FoldSet(LAMBDA s, v : Does(v, s), w, S)
StopOtherDetectionStreams(w, s) == HandleDetectionStreamAction(w, Here(w) \ {s}, Pause)
StartOtherDetectionStreams(w, s) ==
  HandleDetectionStreamAction(w, Here(w) \ {s}, LAMBDA v, t : Resume(v, t, {s}))

(* The two halves of a move to other hardware, whatever the stream's       *)
(* state. A session that is not open cannot take the device.               *)
DisconnectDevice_l(w, s, d) == IF w.str[s].dev = d THEN Ends(w, s) ELSE w
ConnectDevice_l(w, s) ==
  LET d == GetAvailCaptureDevice
      v == [w EXCEPT !.str[s].dev = d, !.str[s].cap = GetCurrentCaptureProfile(w.str[s])]
  IN IF ~w.str[s].sess THEN v
     ELSE [v EXCEPT !.mics[d] = [open |-> @.open + 1, start |-> @.start + 1], !.reg = @ \cup {s}]
HandleConcurrentStream(w, s) ==
  LET p == GetCurrentCaptureProfile(w.str[s]) IN
  IF p # 0 /\ p # w.str[s].cap
  THEN ConnectDevice_l(DisconnectDevice_l(w, s, GetAvailCaptureDevice), s)
  ELSE Reads(w, {s})

------------------------------------------------------------------------------
(* The clients of the sensor streams. They see to it, unless hasty, that   *)
(* no stream is half set up or stopped while another's start, or audio     *)
(* beside them, may resume it, and that audio never resumes two at once    *)
(* that never ran.                                                         *)
Free == held = {} \/ Hasty
Asked(S) == \A t \in S : str[t].ask = "STARTED"
Set(s, f) == str' = [str EXCEPT ![s] = f] /\ UNCHANGED <<mics, reg, common, read, stuck, held, sw>>
Open(s) ==
  /\ str[s].st = "none" /\ Free
  /\ (Hasty \/ (disable["sensor"] > 0 => \A t \in Sensors : str[t].st # "INIT"))
  /\ Set(s, [NoStr EXCEPT !.st = "INIT", !.ask = "INIT", !.paused = disable["sensor"] > 0, !.lpi = lpi])
addRemoveEffect(s) ==
  /\ str[s].st = "INIT" /\ ~str[s].cfg /\ s \notin held
  /\ \E n \in {0, 1} :
       LET x == [str[s] EXCEPT !.cfg = TRUE, !.ns = n]
       IN Set(s, [x EXCEPT !.cap = GetCurrentCaptureProfile(x)])
Ready(s) == s \notin held /\ Free /\ (Hasty \/ (str[s].cfg /\ Asked(Here(W) \ {s})))
Start(s) ==
  /\ str[s].ask \in {"INIT", "STOPPED"} /\ Ready(s)
  /\ \E ok \in {TRUE} \cup IF Hasty THEN {FALSE} ELSE {} :
       LET x == [W EXCEPT !.str[s].ask = IF ok THEN "STARTED" ELSE @, !.str[s].sess = TRUE]
           v == UpdateSoundTriggerCaptureProfile(x, s, TRUE)
       IN CASE str[s].paused -> Becomes([W EXCEPT !.str[s].ask = "STARTED"]) /\ UNCHANGED held
            [] ~str[s].paused /\ str[s].st = "PAUSED" -> Becomes(Runs(x, s, ok)) /\ UNCHANGED held
            [] OTHER -> IF BackendUpdate(x, v) THEN Becomes(v) /\ held' = held \cup {s}
                        ELSE Becomes(Runs(v, s, ok)) /\ UNCHANGED held
  /\ UNCHANGED sw
Others(s) ==  \* of a start that needs the microphone set up anew
  /\ s \in held /\ held = {s}
  /\ Becomes(Runs(StartOtherDetectionStreams(StopOtherDetectionStreams(W, s), s), s, TRUE))
  /\ held' = {} /\ UNCHANGED sw
Stopped(w, s) ==
  LET v == UpdateSoundTriggerCaptureProfile(w, s, FALSE)
  IN IF w.str[s].paused THEN stop(w, s)
     ELSE IF BackendUpdate(w, v) THEN StartOtherDetectionStreams(stop(StopOtherDetectionStreams(v, s), s), s)
     ELSE stop(v, s)
Stop(s) ==
  /\ str[s].ask = "STARTED" /\ Ready(s) /\ held = {} /\ (Hasty \/ ~str[s].paused)
  /\ Becomes([Stopped(W, s) EXCEPT !.str[s].ask = "STOPPED"]) /\ UNCHANGED <<held, sw>>
Close(s) ==
  /\ str[s].st # "none" /\ Ready(s) /\ held = {}
  /\ LET w == IF str[s].st = "STARTED" THEN Stopped(W, s) ELSE W
     IN Becomes([w EXCEPT !.str[s] = NoStr])
  /\ UNCHANGED <<held, sw>>

------------------------------------------------------------------------------
(* Audio beside them: what it is to each type.                             *)
GetConcurrencyInfo(t, a) ==
  CASE a = "record" -> IF t \in Uncaptured THEN "pause" ELSE "switch"
    [] a = "bargein" -> IF t \in Unbarged THEN "none" ELSE "switch"
    [] OTHER -> "switch"
HandleStreamPauseResume(w, a, on) ==
  IF GetConcurrencyInfo("sensor", a) # "pause" THEN w
  ELSE IF on THEN IF disable["sensor"] = 0 THEN HandleDetectionStreamAction(w, Here(w), Pause) ELSE w
  ELSE IF disable["sensor"] = 1
       THEN HandleDetectionStreamAction(w, Here(w), LAMBDA v, t : Resume(v, t, {})) ELSE w
EnableLPI(w, to) ==  \* of each stream; by itself, with no move after it, a seeded fault of the switch
  [w EXCEPT !.str = [s \in Sensors |-> IF w.str[s].st = "none" THEN @[s] ELSE [@[s] EXCEPT !.lpi = to]]]
handleConcurrentStreamSwitch(w, to) ==
  LET v == EnableLPI(w, to)
      x == [Reads(v, Here(v)) EXCEPT !.common = GetCaptureProfileByPriority(v, {})]
  IN HandleDetectionStreamAction(x, Here(x), HandleConcurrentStream)
checkAndUpdateDeferSwitchState(active) ==
  IF active THEN IF defer = "to low" THEN "none" ELSE "off low"
  ELSE IF defer = "off low" THEN "none" ELSE "to low"

(* The switch, put off while the voice user interface buffers.             *)
Switch(w, to) ==
  IF vui = "buffers"
  THEN defer' = checkAndUpdateDeferSwitchState(~to) /\ UNCHANGED lpi /\ Becomes(w)
  ELSE lpi' = to /\ UNCHANGED defer /\ Becomes(handleConcurrentStreamSwitch(w, to))
NoSwitch(w) == UNCHANGED <<lpi, defer>> /\ Becomes(w)
Tame == held = {} /\ (Hasty \/ (~due /\ Asked(Here(W))))
Moves(a, on) == {t \in Types : GetConcurrencyInfo(t, a) = "switch"}
LastOnly(E) == E # {} /\ ~(vui # "none" /\ charging)  \* seeded fault: any audio that closes is taken for the last
LastGone(E) == (\E t \in E : enable[t] = 1) /\ ~(vui # "none" /\ charging)
Opened(a) ==
  /\ a \in Audios \ audio /\ Tame
  /\ (Hasty \/ (defer # "to low" /\ \A s \in Here(W) : ~str[s].paused))
  /\ LET E == Moves(a, TRUE)
         w == HandleStreamPauseResume(W, a, TRUE)
     IN /\ enable' = [t \in Types |-> IF t \in E THEN enable[t] + 1 ELSE enable[t]]
        /\ disable' = [t \in Types |-> IF GetConcurrencyInfo(t, a) = "pause" THEN disable[t] + 1 ELSE disable[t]]
        /\ IF lpi /\ \E t \in E : enable[t] = 0 THEN Switch(w, FALSE) ELSE NoSwitch(w)
  /\ audio' = audio \cup {a} /\ UNCHANGED <<vui, due, charging, headset, held>>
Closed(a) ==
  /\ a \in audio /\ Tame
  /\ (Hasty \/ (Moves(a, FALSE) # {} => \A s \in Here(W) : ~str[s].paused))
  /\ LET E == Moves(a, FALSE)
         w == HandleStreamPauseResume(W, a, FALSE)
     IN /\ enable' = [t \in Types |-> IF t \in E THEN Less(enable[t]) ELSE enable[t]]
        /\ disable' = [t \in Types |-> IF GetConcurrencyInfo(t, a) = "pause" THEN Less(disable[t]) ELSE disable[t]]
        /\ IF LastGone(E) THEN Switch(w, TRUE) ELSE NoSwitch(w)
  /\ audio' = audio \ {a} /\ UNCHANGED <<vui, due, charging, headset, held>>

------------------------------------------------------------------------------
(* The voice user interface: registered, buffering, and gone. Only its     *)
(* client's own word that the buffering stops brings the switch back.      *)
Unpaused == Tame /\ (Hasty \/ \A s \in Here(W) : ~str[s].paused)
onVUIStreamRegistered ==
  /\ vui = "none" /\ Unpaused /\ vui' = "listens"
  /\ IF charging /\ lpi THEN lpi' = FALSE /\ Becomes(handleConcurrentStreamSwitch(W, FALSE))
     ELSE UNCHANGED lpi /\ Becomes(W)
  /\ UNCHANGED <<audio, enable, disable, defer, due, charging, headset, held>>
onVUIStreamDeregistered ==
  /\ vui # "none" /\ Unpaused /\ (Hasty \/ (vui = "listens" /\ defer = "none"))
  /\ vui' = "none"
  /\ LET w == [W EXCEPT !.vui = "none"] IN
     IF charging /\ ~lpi /\ enable["vui"] = 0
     THEN lpi' = TRUE /\ Becomes(handleConcurrentStreamSwitch(w, TRUE))
     ELSE UNCHANGED lpi /\ Becomes(w)
  /\ UNCHANGED <<audio, enable, disable, defer, due, charging, headset, held>>
Buffers ==
  /\ vui = "listens" /\ ~due /\ vui' = "buffers"
  /\ UNCHANGED <<str, mics, reg, common, read, stuck, held, audio, enable, disable, lpi, defer, due, charging, headset>>
StopsBuffering ==
  /\ vui = "buffers" /\ vui' = "listens"
  /\ \E said \in {TRUE} \cup IF Hasty THEN {FALSE} ELSE {} : due' = said
  /\ UNCHANGED <<str, mics, reg, common, read, stuck, held, audio, enable, disable, lpi, defer, charging, headset>>
handleDeferredSwitch ==
  /\ due /\ held = {} /\ (Hasty \/ (Asked(Here(W)) /\ \A s \in Here(W) : ~str[s].paused)) /\ due' = FALSE
  /\ IF vui # "buffers" /\ defer # "none"
     THEN /\ lpi' = (defer = "to low") /\ defer' = "none"
          /\ Becomes(handleConcurrentStreamSwitch(W, defer = "to low"))
     ELSE UNCHANGED <<lpi, defer>> /\ Becomes(W)
  /\ UNCHANGED <<audio, enable, disable, vui, charging, headset, held>>
onChargingStateChange ==
  /\ Unpaused /\ (Hasty \/ defer = "none") /\ charging' = ~charging
  /\ IF vui # "none" /\ ~charging /\ lpi THEN Switch(W, FALSE)
     ELSE IF vui # "none" /\ charging /\ ~lpi /\ enable["vui"] = 0 THEN Switch(W, TRUE)
     ELSE NoSwitch(W)
  /\ UNCHANGED <<audio, enable, disable, vui, due, headset, held>>

(* A headset comes or goes: the streams move to the other microphone.      *)
SwitchSoundTriggerDevices ==
  /\ Unpaused /\ headset' = ~headset
  /\ LET from == GetAvailCaptureDevice
         to == IF headset THEN "handset" ELSE "headset"
         Moved(w, s) ==
           LET v == DisconnectDevice_l(w, s, from)
           IN IF ~v.str[s].sess THEN [v EXCEPT !.str[s].dev = to]
              ELSE [v EXCEPT !.str[s].dev = to, !.str[s].cap = GetCurrentCaptureProfile(v.str[s]), !.reg = @ \cup {s},
                             !.mics[to] = [open |-> @.open + 1, start |-> @.start + 1]]
         w == [Reads(W, Here(W)) EXCEPT !.common = GetCaptureProfileByPriority(W, {})]
     IN Becomes(HandleDetectionStreamAction(w, Here(w), Moved))
  /\ UNCHANGED <<audio, enable, disable, lpi, defer, vui, due, charging, held>>

Step(s) == Open(s) \/ addRemoveEffect(s) \/ Start(s) \/ Others(s) \/ Stop(s) \/ Close(s)
Next ==
  \/ \E s \in Sensors : Step(s)
  \/ \E a \in Audios : Opened(a) \/ Closed(a)
  \/ onVUIStreamRegistered \/ onVUIStreamDeregistered \/ Buffers \/ StopsBuffering \/ handleDeferredSwitch
  \/ onChargingStateChange \/ SwitchSoundTriggerDevices
Spec == Init /\ [][Next]_vars

------------------------------------------------------------------------------
(* The shape of the state.                                                 *)
TypeOK ==
  /\ \A s \in Sensors : str[s].st \in {"none", "INIT", "STARTED", "STOPPED", "PAUSED"} /\ str[s].cap \in 0..4
  /\ \A m \in Mics : mics[m].open \in Nat /\ mics[m].start \in Nat
  /\ reg \subseteq Sensors /\ held \subseteq Sensors /\ common \in 0..4
  /\ \A t \in Types : enable[t] \in Nat /\ disable[t] \in Nat
  /\ defer \in {"none", "to low", "off low"} /\ vui \in {"none", "listens", "buffers"}

(* A microphone is open and started once for each sensor stream that runs  *)
(* on it, and those are the ones registered; the counts of each type are   *)
(* those of the audio that is open.                                        *)
CountsExact ==
  /\ \A m \in Mics :
       LET n == Cardinality({s \in Sensors : str[s].st = "STARTED" /\ str[s].dev = m})
       IN mics[m].open = n /\ mics[m].start = n
  /\ reg = {s \in Sensors : str[s].st = "STARTED"}
  /\ \A t \in Types :
       /\ enable[t] = Cardinality({a \in audio : GetConcurrencyInfo(t, a) = "switch"})
       /\ disable[t] = Cardinality({a \in audio : GetConcurrencyInfo(t, a) = "pause"})

(* No sensor stream runs beside audio that pauses it, and otherwise those  *)
(* run that their clients started, and no others.                          *)
PauseKept ==
  \A s \in Sensors : held = {} =>
    (str[s].st = "STARTED" <=> str[s].ask = "STARTED" /\ disable["sensor"] = 0)

(* Low power is used just when nothing is against it, by each stream that  *)
(* runs, unless the switch is put off; what they share is good enough for  *)
(* each.                                                                   *)
Adapts ==
  /\ defer = "none" => (lpi <=> (\A t \in Types : enable[t] = 0) /\ ~(charging /\ vui # "none"))
  /\ defer # "none" => vui = "buffers" \/ due
  /\ \A s \in Sensors : str[s].st = "STARTED" =>
       /\ str[s].lpi = lpi /\ str[s].cap = GetCurrentCaptureProfile(str[s])
       /\ common >= str[s].cap

(* No thread waits for a mutex of its own, or two for one another's.       *)
NeverBlocks == ~stuck /\ Cardinality(held) < 2

(* A stream's configuration is read once it has one.                       *)
NeverReadsPast == ~read
=============================================================================
