------------------------------ MODULE BtFeedback ------------------------------
(***************************************************************************)
(* The two directions of a Bluetooth link, a call's (BtSco) or Low Energy  *)
(* audio's (BtA2dp). A codec whose bit rate adapts needs the other         *)
(* direction as a feedback path: a device that starts opens it with        *)
(* startAbr(), which counts the other device as one that is in use.        *)
(* Starts and stops are serialized by mGraphMutex.                         *)
(***************************************************************************)
EXTENDS Naturals, FiniteSets

CONSTANTS
  MaxUsers,    \* streams on a device
  Fails        \* what may fail: "feedback", "codec", "stack", "clock"

FeedbackAssumption == MaxUsers \in Nat \ {0} /\ Fails \subseteq {"feedback", "codec", "stack", "clock"}

Dirs     == {"out", "in"}
Other(d) == CHOOSE e \in Dirs : e # d

VARIABLES
  kind,      \* "sco" or "ble": which pair of devices it is
  codec,     \* what the parameters ask for: "plain", "aptx" (APTX_AD_SPEECH) or "lc3"
  dev,       \* of each device: "opens", "starts" (deviceCount, deviceStartStopCount), "conf"
             \* (isConfigured), "abr" (isAbrEnabled), "refs" (abrRefCnt), "pcm" (is fbPcm open?),
             \* "format" (codecFormat), "sessions" (totalActiveSessionRequests), "started"
             \* (is a2dpState A2DP_STATE_STARTED?)
  users      \* the streams that have started the device

vars == <<kind, codec, dev, users>>

Fresh == [opens |-> 0, starts |-> 0, conf |-> FALSE, abr |-> FALSE, refs |-> 0, pcm |-> FALSE,
          format |-> "none", sessions |-> 0, started |-> FALSE]

Init ==
  /\ \/ kind = "sco" /\ codec \in {"plain", "aptx", "lc3"}
     \/ kind = "ble" /\ codec = "lc3"
  /\ dev = [d \in Dirs |-> Fresh]
  /\ users = [d \in Dirs |-> 0]

Less(n)    == IF n > 0 THEN n - 1 ELSE 0
Adaptive   == {"aptx", "lc3"}

(* Is the feedback path of d counted as a use of the other device? That of *)
(* Low Energy playback is not.                                             *)
Counted(d, format) == format = "aptx" \/ (format = "lc3" /\ (kind = "sco" \/ d = "in"))

(* The other device's modules are set up, unless they are already: the     *)
(* plugin says that its bit rate adapts.                                   *)
ReadPlugin(f, d) ==
  IF Counted(d, f[d].format) /\ ~f[Other(d)].conf THEN [f EXCEPT ![Other(d)].abr = TRUE] ELSE f

(***************************************************************************)
(* startAbr(): what may become of the devices. A failure is only logged;   *)
(* one that comes late has already read the plugin's settings.             *)
(***************************************************************************)
Feedback(f, d) ==
  LET o    == Other(d)
      read == ReadPlugin(f, d)
      open == [read EXCEPT ![d].pcm = TRUE, ![d].refs = 1]
  IN IF f[d].refs > 0 THEN {[f EXCEPT ![d].refs = @ + 1]}
     ELSE {IF Counted(d, f[d].format)
           THEN [open EXCEPT ![o].conf = TRUE, ![o].starts = @ + 1, ![o].opens = @ + 1]
           ELSE open}
          \cup (IF "feedback" \in Fails THEN {f, read} ELSE {})

(* Seeded fault: the other device stays counted. *)
LeavesFeedback(f, d) ==
  IF ~f[d].pcm \/ f[d].refs = 0 THEN f
  ELSE IF f[d].refs > 1 THEN [f EXCEPT ![d].refs = @ - 1]
  ELSE [f EXCEPT ![d].refs = 0, ![d].pcm = FALSE, ![d].abr = FALSE]

(* stopAbr() *)
EndFeedback(f, d) ==
  LET o    == Other(d)
      shut == [f EXCEPT ![d].refs = 0, ![d].pcm = FALSE, ![d].abr = FALSE]
  IN IF ~f[d].pcm \/ f[d].refs = 0 THEN f
     ELSE IF f[d].refs > 1 THEN [f EXCEPT ![d].refs = @ - 1]
     ELSE IF ~Counted(d, f[d].format) THEN shut
     ELSE [shut EXCEPT ![o].starts = Less(@), ![o].opens = Less(@),
                       ![o].conf = @ /\ f[o].starts # 1]

(***************************************************************************)
(* configureA2dpEncoderDecoder(): the payloads of the codec's modules are  *)
(* built; it reads from the plugin whether the bit rate adapts.            *)
(***************************************************************************)
Configured(f, d) ==
  {[f EXCEPT ![d].conf = ok, ![d].abr = @ \/ ok]
     : ok \in {TRUE} \cup (IF "codec" \in Fails THEN {FALSE} ELSE {})}

(* The end of start(): the clock, the device, the feedback. *)
Started(f, d, first) ==
  LET on == [f EXCEPT ![d].starts = @ + 1]
  IN {[ok |-> TRUE, f |-> g] : g \in IF f[d].abr THEN Feedback(on, d) ELSE {on}}
     \cup (IF "clock" \in Fails /\ first THEN {[ok |-> FALSE, f |-> f]} ELSE {})

(* BtSco::start() with startSwb() *)
ScoStart(d) ==
  LET set   == [dev EXCEPT ![d].format = IF codec = "plain" THEN @ ELSE codec]
      ready == IF set[d].format \notin Adaptive THEN {[set EXCEPT ![d].conf = TRUE]}
               ELSE IF ~set[d].conf THEN Configured(set, d)
               ELSE {[set EXCEPT ![d].abr = @ \/ set[d].format = "aptx"]}
  IN UNION {IF f[d].conf THEN Started(f, d, f[d].starts = 0) ELSE {[ok |-> FALSE, f |-> f]}
              : f \in ready}

(* BtSco::stop() *)
ScoStop(d) ==
  LET f   == EndFeedback(dev, d)
      off == [f EXCEPT ![d].starts = Less(@)]
  IN [off EXCEPT ![d].format = IF off[d].abr THEN @ ELSE "none",
                 ![d].conf = @ /\ off[d].starts # 0]

(***************************************************************************)
(* BtA2dp::start() with startPlayback() and startCapture(): the first      *)
(* session starts the Bluetooth stack and configures the codec.            *)
(***************************************************************************)
BleReady(d) ==
  LET first == ~dev[d].started /\ dev[d].sessions = 0
      clear == [dev EXCEPT ![d].format = "none", ![d].abr = @ /\ (dev[d].conf \/ d = "in")]
      known == [clear EXCEPT ![d].format = "lc3"]
      conf  == IF d = "out" /\ dev[d].conf THEN {known} ELSE Configured(known, d)
  IN IF ~first THEN {[ok |-> TRUE, f |-> dev]}
     ELSE {[ok |-> f[d].conf, f |-> IF f[d].conf THEN [f EXCEPT ![d].started = TRUE] ELSE f]
             : f \in conf}
          \cup (IF "stack" \in Fails THEN {[ok |-> FALSE, f |-> clear], [ok |-> FALSE, f |-> known]} ELSE {})

BleStart(d) ==
  UNION {IF r.ok THEN LET f == [r.f EXCEPT ![d].sessions = @ + 1]
                      IN Started(f, d, f[d].sessions = 1)
         ELSE {r} : r \in BleReady(d)}

(* BtA2dp::stop() with stopPlayback() and stopCapture() *)
BleStop(d) ==
  LET f    == EndFeedback(dev, d)
      off  == [f EXCEPT ![d].starts = Less(@), ![d].sessions = Less(@)]
      last == off[d].sessions = 0 /\ (d = "in" \/ off[d].started)
  IN IF ~last THEN off
     ELSE [off EXCEPT ![d].started = FALSE, ![d].conf = @ /\ d = "out" /\ off[d].starts # 0]

------------------------------------------------------------------------------
Close(f, d) ==
  [f EXCEPT ![d].opens = Less(@), ![d].starts = IF f[d].opens <= 1 THEN 0 ELSE @]

(* A stream opens and starts the device; it closes one that did not start. *)
Start(d) ==
  /\ users[d] < MaxUsers
  /\ \E s \in (IF kind = "sco" THEN ScoStart(d) ELSE BleStart(d)) :
       IF s.ok
       THEN /\ dev' = [s.f EXCEPT ![d].opens = @ + 1]
            /\ users' = [users EXCEPT ![d] = @ + 1]
       ELSE /\ dev' = Close([s.f EXCEPT ![d].opens = @ + 1], d)
            /\ UNCHANGED users
  /\ UNCHANGED <<kind, codec>>

Stop(d) ==
  /\ users[d] > 0
  /\ dev' = Close(IF kind = "sco" THEN ScoStop(d) ELSE BleStop(d), d)
  /\ users' = [users EXCEPT ![d] = @ - 1]
  /\ UNCHANGED <<kind, codec>>

(* PAL_PARAM_ID_BT_SCO_SWB, PAL_PARAM_ID_BT_SCO_LC3: between two calls *)
SetCodec(c) ==
  /\ kind = "sco" /\ c # codec
  /\ \A d \in Dirs : users[d] = 0
  /\ codec' = c
  /\ UNCHANGED <<kind, dev, users>>

Next == (\E d \in Dirs : Start(d) \/ Stop(d)) \/ (\E c \in {"plain", "aptx", "lc3"} : SetCodec(c))

Spec == Init /\ [][Next]_vars

------------------------------------------------------------------------------
TypeOK ==
  /\ users \in [Dirs -> 0 .. MaxUsers]
  /\ \A d \in Dirs : dev[d].format \in Adaptive \cup {"none"} /\ dev[d].refs \in 0 .. MaxUsers

(***************************************************************************)
(* A device is open, and runs, once for every stream on it and once for    *)
(* the feedback path of the other; the feedback is open while it is        *)
(* referred to; the sessions of the Bluetooth stack are the streams.       *)
(***************************************************************************)
CountsExact ==
  \A d \in Dirs :
    LET lent == IF dev[Other(d)].pcm /\ Counted(Other(d), dev[Other(d)].format) THEN 1 ELSE 0
    IN /\ dev[d].starts = users[d] + lent /\ dev[d].opens = users[d] + lent
       /\ dev[d].pcm <=> dev[d].refs > 0
       /\ dev[d].refs <= users[d]
       /\ kind = "ble" => dev[d].sessions = users[d] /\ (dev[d].started <=> users[d] > 0)

(***************************************************************************)
(* In a call with a codec that adapts (APTX) the feedback path runs while  *)
(* the device does, however often the directions restart. It is not so for *)
(* LC3: a device that is still configured as the other one's feedback is   *)
(* not told again that its codec adapts.                                   *)
(***************************************************************************)
Adapts == \A d \in Dirs : users[d] > 0 /\ codec = "aptx" => dev[d].pcm
================================================================================
