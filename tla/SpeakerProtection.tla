-------------------------- MODULE SpeakerProtection --------------------------
(***************************************************************************)
(* The speaker's protection: a thread that calibrates an idle speaker with *)
(* a capture and a playback path of its own, the streams that abort it to  *)
(* play, and the feedback (VI) path that is up while any of them plays. In *)
(* one variant of the product (V2) the speaker and the handset are         *)
(* protected separately, on a shared back end; in the other the path is    *)
(* set up by a second thread. Device starts and stops are serialized by    *)
(* mGraphMutex, the members are static unless indexed by the device.       *)
(***************************************************************************)
EXTENDS Integers, FiniteSets, FiniteSetsExt

CONSTANTS
  MaxPlays,     \* bound on the streams that play at a time
  Hasty         \* may the calls and the DSP's answers come at any moment?

SpeakerAssumption == MaxPlays \in Nat /\ Hasty \in BOOLEAN

VARIABLES
  devices,      \* {"speaker"}, or {"speaker", "handset"}: separate protection (V2)
  cal,          \* of each device's calibration thread: where it is
  calState,     \* spkrCalState
  devState,     \* deviceCalState of each device
  rcvd,         \* mDspCallbackRcvd
  verdict,      \* calibrationCallbackStatus
  inUse,        \* isSpkrInUse, isDeviceInUse
  requests,     \* numberOfRequest
  plays,        \* number of streams playing on each device with the path counted
  apart,        \* number of those that play beside a recording of the path
  recording,    \* isVIRecordStarted
  caller,       \* the stream that starts: "none", or the device it waits or was woken for
  woken,        \* was the caller woken?
  txPcm, rxPcm, \* whose the static handles are: "none", "cal" or a device
  pcmDevIdTx,   \* of each device: has it a front end for its path?
  res,          \* what is held: pairs of an owner and a resource
  vi,           \* viTxSetupThread: "none", "running", "ended" (joinable)
  viCreated,    \* viTxSetupThrdCreated
  mode,         \* mSpkrProtModeValue: "normal" or "factory test"
  dead          \* has the process been terminated?

vars == <<devices, cal, calState, devState, rcvd, verdict, inUse, requests, plays, apart,
          recording, caller, woken, txPcm, rxPcm, pcmDevIdTx, res, vi, viCreated, mode, dead>>
calVars  == <<cal, calState, devState, rcvd, verdict>>
playVars == <<inUse, requests, plays, apart, recording, caller, woken>>
pathVars == <<txPcm, rxPcm, pcmDevIdTx, res>>
viVars   == <<vi, viCreated, mode, dead>>

V2     == Cardinality(devices) = 2
Used(d) == inUse[d]
Held   == \E d \in devices : cal[d] = "armed"     \* calibrationMutex is taken
Playing == \E d \in devices : plays[d] + apart[d] > 0
Calibrating == \E d \in devices : cal[d] \in {"armed", "waits", "woken"}
Quiet   == caller = "none" /\ ~Playing /\ ~recording

Init ==
  /\ devices \in {{"speaker"}, {"speaker", "handset"}}
  /\ cal \in [devices -> {"idle", "gone"}]        \* no thread where there is a calibration file
  /\ calState = IF V2 \/ cal["speaker"] = "idle" THEN "not" ELSE "calibrated"
  /\ devState = [d \in devices |-> IF cal[d] = "gone" THEN "calibrated" ELSE "not"]
  /\ rcvd = FALSE /\ verdict = "none"
  /\ inUse = [d \in devices |-> FALSE] /\ requests = 0
  /\ plays = [d \in devices |-> 0] /\ apart = [d \in devices |-> 0] /\ recording = FALSE
  /\ caller = "none" /\ woken = FALSE
  /\ txPcm = "none" /\ rxPcm = "none"
  /\ pcmDevIdTx = [d \in devices |-> FALSE] /\ res = {}
  /\ vi = "none" /\ viCreated = FALSE /\ mode = "normal" /\ dead = FALSE

------------------------------------------------------------------------------
(***************************************************************************)
(* Setting up a path, stage by stage: what a calibration holds when it     *)
(* fails after n of its stages.                                            *)
(***************************************************************************)
Own(o, R) == {o} \X R

CalTx(n) == {<<"fe", "be", "tx", "event">>[i] : i \in 1..n}
CalRx(n) == {<<"rxFe", "rxBe", "rx">>[i] : i \in 1..n}

(* The labels err_pcm_open and free_fe: the static handles are closed, and *)
(* the front ends this calibration allocated are given back.               *)
Closing(tx, rx) == Own(tx, {"tx", "event"}) \cup Own(rx, {"rx"}) \cup Own("cal", {"fe", "be", "rxFe", "rxBe"})

------------------------------------------------------------------------------
(* The calibration thread looks for an idle device, and looks again once   *)
(* it has read the temperatures.                                           *)
Idle(d) ==
  /\ cal[d] = "idle" /\ ~Used(d)
  /\ cal' = [cal EXCEPT ![d] = "checked"]
  /\ UNCHANGED <<devices, calState, devState, rcvd, verdict, playVars, pathVars, viVars>>

NotShared(d) == \A e \in devices \ {d} : cal[e] \in {"idle", "checked", "gone"}   \* calSharedBeMutex

IdleStill(d) ==
  /\ cal[d] = "checked" /\ NotShared(d)
  /\ Hasty \/ Quiet
  /\ cal' = [cal EXCEPT ![d] = IF Used(d) THEN "idle" ELSE "cleared"]
  /\ UNCHANGED <<devices, calState, devState, rcvd, verdict, playVars, pathVars, viVars>>

(***************************************************************************)
(* spkrStartCalibration() until it waits, under calibrationMutex. A stage  *)
(* that fails undoes what is there; unless an answer was received, the     *)
(* exit resets the state and wakes whoever waits.                          *)
(***************************************************************************)
Arms(d) ==
  /\ res' = res \cup Own("cal", CalTx(4) \cup CalRx(3))
  /\ txPcm' = "cal" /\ rxPcm' = "cal"
  /\ calState' = "in progress"
  /\ cal' = [cal EXCEPT ![d] = "armed"]
  /\ UNCHANGED <<woken, pcmDevIdTx>>

Disarms(d) ==
  /\ \E n \in 0..4, m \in 0..3 :
       LET got == Own("cal", CalTx(n) \cup CalRx(m))
           tx  == IF n >= 3 THEN "cal" ELSE txPcm
           rx  == IF m = 3 THEN "cal" ELSE rxPcm
       IN /\ m > 0 => n = 4
          /\ res' = (res \cup got) \ (IF n = 0 THEN {} ELSE Closing(tx, rx))
          /\ txPcm' = IF n <= 2 THEN txPcm ELSE "none"
          /\ rxPcm' = IF n <= 2 THEN rxPcm ELSE "none"
  /\ calState' = IF rcvd THEN calState ELSE "not"
  /\ woken' = (woken \/ (~rcvd /\ caller # "none"))
  /\ cal' = [cal EXCEPT ![d] = "idle"]
  /\ UNCHANGED pcmDevIdTx

Calibrate(d) ==
  /\ cal[d] = "cleared" /\ ~Held /\ ~V2
  /\ Hasty \/ Quiet
  /\ Arms(d) \/ Disarms(d)
  /\ UNCHANGED <<devices, devState, rcvd, verdict, inUse, requests, plays, apart, recording,
                 caller, viVars>>

(* spkrStartCalibrationV2() has the device's own state too. *)
ArmsV2(d)    == Arms(d) /\ devState' = [devState EXCEPT ![d] = "in progress"]
DisarmsV2(d) == Disarms(d) /\ devState' = [devState EXCEPT ![d] = IF rcvd THEN @ ELSE "not"]

CalibrateV2(d) ==
  /\ cal[d] = "cleared" /\ ~Held /\ V2
  /\ Hasty \/ Quiet
  /\ ArmsV2(d) \/ DisarmsV2(d)
  /\ UNCHANGED <<devices, rcvd, verdict, inUse, requests, plays, apart, recording, caller,
                 viVars>>

Wait(d) ==
  /\ cal[d] = "armed"
  /\ cal' = [cal EXCEPT ![d] = "waits"]
  /\ UNCHANGED <<devices, calState, devState, rcvd, verdict, playVars, pathVars, viVars>>

(* handleSPCallback(): the answer wakes all that wait, and takes no lock.  *)
Wakes == [d \in devices |-> IF cal[d] = "waits" THEN "woken" ELSE cal[d]]

Callback(v) ==
  /\ \E d \in devices : cal[d] = "waits" \/ (Hasty /\ cal[d] \in {"armed", "woken"})
  /\ <<"cal", "event">> \in res
  /\ rcvd' = TRUE /\ verdict' = v
  /\ cal' = Wakes /\ woken' = (caller # "none")
  /\ UNCHANGED <<devices, calState, devState, inUse, requests, plays, apart, recording, caller,
                 pathVars, viVars>>

(***************************************************************************)
(* The rest of spkrStartCalibration(): the answer, if there was one, is    *)
(* stored unless the file cannot be opened; the paths are closed.          *)
(***************************************************************************)
Cleans ==
  /\ res' = res \ Closing(txPcm, rxPcm)
  /\ txPcm' = "none" /\ rxPcm' = "none" /\ UNCHANGED pcmDevIdTx

(* Seeded fault: the playback front end is not given back. *)
LeavesRx ==
  /\ res' = res \ (Closing(txPcm, rxPcm) \ Own("cal", {"rxFe", "rxBe"}))
  /\ txPcm' = "none" /\ rxPcm' = "none" /\ UNCHANGED pcmDevIdTx

Clean == Cleans

Untold == woken' = woken      \* seeded fault: the exit wakes nobody
Told == woken' = (woken \/ (~rcvd /\ caller # "none"))

Calibrated(d) ==
  /\ cal[d] = "woken" /\ ~Held /\ ~V2
  /\ \E stored \in BOOLEAN :
       LET s == IF ~rcvd \/ verdict = "failure" THEN "not"
                ELSE IF stored THEN "calibrated" ELSE calState
       IN /\ calState' = s
          /\ cal' = [cal EXCEPT ![d] = IF s = "calibrated" THEN "gone" ELSE "idle"]
  /\ Clean /\ Told
  /\ UNCHANGED <<devices, devState, rcvd, verdict, inUse, requests, plays, apart, recording,
                 caller, viVars>>

(* With separate protection a success leaves spkrCalState as it is. *)
CalibratedV2(d) ==
  /\ cal[d] = "woken" /\ ~Held /\ V2
  /\ \E stored \in BOOLEAN :
       LET s == IF ~rcvd \/ verdict = "failure" THEN "not"
                ELSE IF stored THEN "calibrated" ELSE devState[d]
       IN /\ devState' = [devState EXCEPT ![d] = s]
          /\ calState' = IF s = "not" THEN "not" ELSE calState
          /\ cal' = [cal EXCEPT ![d] = IF s = "calibrated" THEN "gone" ELSE "idle"]
  /\ Clean /\ Told
  /\ UNCHANGED <<devices, rcvd, verdict, inUse, requests, plays, apart, recording, caller,
                 viVars>>

(* speakerProtectionDynamicCal() starts the first variant's thread again. *)
DynamicCal ==
  /\ ~V2 /\ cal["speaker"] = "gone"
  /\ rcvd' = FALSE /\ verdict' = "none" /\ calState' = "not"
  /\ cal' = [cal EXCEPT !["speaker"] = "idle"]
  /\ UNCHANGED <<devices, devState, playVars, pathVars, viVars>>

------------------------------------------------------------------------------
(* viTxSetupThreadLoop(): what it holds when it ends, having failed at f:  *)
(* before it opens the PCM, in that, or after.                             *)
ViPath(d, f) == IF f = "none" THEN Own(d, {"fe", "be", "tx"}) ELSE {}

(* The second variant's path is set up by the stream itself. Out of memory *)
(* at the module's payload it leaves at once, with its front end.          *)
ViPathV2(d, f) == IF f = "none" THEN Own(d, {"fe", "be", "tx"})
                  ELSE IF f = "memory" THEN Own(d, {"fe", "be"}) ELSE {}

Handle(d, f, tx) == CASE f = "none"   -> d
                      [] f = "device" -> tx
                      [] f = "memory" -> tx
                      [] OTHER        -> "none"

ViThread ==
  /\ vi = "running"
  /\ \E f \in {"none", "device", "open", "start"} :
       /\ res' = res \cup ViPath("speaker", f)
       /\ txPcm' = Handle("speaker", f, txPcm)
       /\ pcmDevIdTx' = [pcmDevIdTx EXCEPT !["speaker"] = f = "none"]
  /\ vi' = "ended"
  /\ viCreated' \in IF Hasty THEN BOOLEAN ELSE {FALSE}     \* it may end before it is marked created
  /\ UNCHANGED <<devices, calVars, playVars, rxPcm, mode, dead>>

(***************************************************************************)
(* spkrProtProcessingMode(true) once no calibration is in the way: the     *)
(* first stream makes the device used and has the path set up.             *)
(***************************************************************************)
Counted(d) == requests' = requests + 1 /\ plays' = [plays EXCEPT ![d] = @ + 1]

Process(d) ==
  /\ Counted(d)
  /\ IF requests > 0 THEN UNCHANGED <<inUse, vi, viCreated, dead>>
     ELSE /\ inUse' = [inUse EXCEPT ![d] = TRUE]
          /\ vi' = IF viCreated THEN vi ELSE "running"
          /\ viCreated' = TRUE
          /\ dead' = (dead \/ (~viCreated /\ vi # "none"))      \* a joinable thread is assigned
  /\ UNCHANGED <<res, pcmDevIdTx>>

ProcessV2(d, tx) ==
  /\ Counted(d)
  /\ IF requests > 0 THEN inUse' = inUse /\ txPcm' = tx /\ UNCHANGED <<res, pcmDevIdTx>>
     ELSE /\ inUse' = [inUse EXCEPT ![d] = TRUE]
          /\ \E f \in {"none", "device", "open", "start"} \cup (IF Hasty THEN {"memory"} ELSE {}) :
               /\ res' = res \cup ViPathV2(d, f)
               /\ txPcm' = Handle(d, f, tx)
               /\ pcmDevIdTx' = [pcmDevIdTx EXCEPT ![d] = f \in {"none", "memory"}]
  /\ UNCHANGED <<vi, viCreated, dead>>

Begin(d, tx) == IF V2 THEN ProcessV2(d, tx) ELSE Process(d) /\ txPcm' = tx

(* Unless Hasty, nothing starts that would wait for an answer which has    *)
(* come already, and the devices are used one at a time.                   *)
Ready(d) ==
  /\ caller = "none" /\ ~Held
  /\ FoldSet(LAMBDA e, n : n + plays[e] + apart[e], 0, devices) < MaxPlays
  /\ Hasty \/ /\ ~(calState = "in progress" /\ rcvd)
              /\ \A e \in devices \ {d} : plays[e] + apart[e] = 0
              /\ \A e \in devices : cal[e] \notin {"cleared", "armed", "woken"}

Start(d) ==
  /\ Ready(d) /\ ~recording
  /\ IF calState = "in progress"
     THEN /\ caller' = d /\ woken' = FALSE /\ cal' = Wakes
          /\ UNCHANGED <<inUse, requests, plays, txPcm, res, pcmDevIdTx, vi, viCreated, dead>>
     ELSE Begin(d, txPcm) /\ UNCHANGED <<caller, woken, cal>>
  /\ UNCHANGED <<devices, calState, devState, rcvd, verdict, apart, recording, rxPcm, mode>>

(* It was woken: the calibration is taken to be closed. *)
StartWoken ==
  /\ caller # "none" /\ woken /\ ~Held
  /\ caller' = "none" /\ woken' = FALSE
  /\ calState' = "not" /\ rxPcm' = "none"
  /\ devState' = IF devState[caller] = "in progress"
                 THEN [devState EXCEPT ![caller] = "not"] ELSE devState
  /\ Begin(caller, "none")
  /\ UNCHANGED <<devices, cal, rcvd, verdict, apart, recording, mode>>

(***************************************************************************)
(* spkrProtProcessingMode(false): the last stream waits for the thread and *)
(* closes the path.                                                        *)
(***************************************************************************)
ClosePath(d) ==
  IF txPcm = "none" THEN UNCHANGED <<res, txPcm, pcmDevIdTx>>
  ELSE /\ res' = res \ (Own(txPcm, {"tx"}) \cup
                        (IF pcmDevIdTx[d] THEN Own(d, {"fe", "be"}) ELSE {}))
       /\ txPcm' = "none"
       /\ pcmDevIdTx' = [pcmDevIdTx EXCEPT ![d] = FALSE]

Ends(d) ==
  /\ requests' = requests - 1
  /\ IF requests > 1 THEN UNCHANGED <<inUse, res, txPcm, pcmDevIdTx, vi>>
     ELSE /\ vi # "running" /\ vi' = "none"
          /\ inUse' = [inUse EXCEPT ![d] = FALSE]
          /\ ClosePath(d)

(* Seeded fault: a stream that is not the last closes the path. *)
EndsAll(d) ==
  /\ requests' = requests - 1
  /\ vi # "running" /\ vi' = "none"
  /\ inUse' = [inUse EXCEPT ![d] = FALSE]
  /\ ClosePath(d)

End(d) == Ends(d)

Stop(d) ==
  /\ caller = "none" /\ ~Held /\ ~recording
  /\ \/ plays[d] > 0 /\ plays' = [plays EXCEPT ![d] = @ - 1] /\ UNCHANGED apart
     \/ Hasty /\ apart[d] > 0 /\ apart' = [apart EXCEPT ![d] = @ - 1] /\ UNCHANGED plays
  /\ End(d)
  /\ UNCHANGED <<devices, calVars, recording, caller, woken, rxPcm, viCreated, mode, dead>>

(***************************************************************************)
(* A recording of the feedback: streams that start beside it only update   *)
(* the speaker's payload, and the first that stops ends it for them.       *)
(***************************************************************************)
Record ==
  /\ caller = "none" /\ ~recording
  /\ Hasty \/ (~Playing /\ \A d \in devices : cal[d] \in {"idle", "checked", "gone"})
  /\ recording' = TRUE
  /\ UNCHANGED <<devices, calVars, inUse, requests, plays, apart, caller, woken, pathVars, viVars>>

EndRecord ==
  /\ caller = "none" /\ recording /\ (Hasty \/ ~Playing)
  /\ recording' = FALSE
  /\ UNCHANGED <<devices, calVars, inUse, requests, plays, apart, caller, woken, pathVars, viVars>>

StartBeside(d) ==
  /\ Ready(d) /\ recording /\ (Hasty \/ ~Playing)
  /\ apart' = [apart EXCEPT ![d] = @ + 1]
  /\ UNCHANGED <<devices, calVars, inUse, requests, plays, recording, caller, woken, pathVars, viVars>>

StopBeside(d) ==
  /\ caller = "none" /\ recording /\ apart[d] > 0
  /\ apart' = [apart EXCEPT ![d] = @ - 1]
  /\ recording' = FALSE
  /\ UNCHANGED <<devices, calVars, inUse, requests, plays, caller, woken, pathVars, viVars>>

(***************************************************************************)
(* A test asks for the factory mode, which the next path is set up in, and *)
(* for its results: that takes the number of the path's front end, where   *)
(* there must be one, and ends the mode.                                   *)
(***************************************************************************)
SetMode ==
  /\ mode' = "factory test"
  /\ UNCHANGED <<devices, calVars, playVars, pathVars, vi, viCreated, dead>>

GetFTM ==
  /\ Hasty \/ (mode # "normal" /\ vi # "running" /\ txPcm = "speaker")
  /\ IF pcmDevIdTx["speaker"]
     THEN mode' = "normal" /\ UNCHANGED dead
     ELSE dead' = TRUE /\ UNCHANGED mode
  /\ UNCHANGED <<devices, calVars, playVars, pathVars, vi, viCreated>>

Calibration == \E d \in devices : Wait(d) \/ Calibrated(d) \/ CalibratedV2(d)

Next ==
  \/ \E d \in devices :
       \/ Idle(d) \/ IdleStill(d) \/ Calibrate(d) \/ CalibrateV2(d)
       \/ Start(d) \/ Stop(d) \/ StartBeside(d) \/ StopBeside(d)
  \/ Calibration
  \/ \E v \in {"success", "failure"} : Callback(v)
  \/ StartWoken \/ DynamicCal \/ ViThread \/ Record \/ EndRecord \/ SetMode \/ GetFTM

Spec == Init /\ [][Next]_vars

------------------------------------------------------------------------------
TypeOK ==
  /\ calState \in {"not", "in progress", "calibrated"}
  /\ requests \in -MaxPlays..MaxPlays
  /\ txPcm \in devices \cup {"none", "cal"} /\ rxPcm \in {"none", "cal"}
  /\ vi \in {"none", "running", "ended"}

(* The requests counted are the streams that play with the path of their   *)
(* device, which is in use exactly then.                                   *)
CountsExact ==
  /\ requests = FoldSet(LAMBDA d, n : n + plays[d], 0, devices)
  /\ \A d \in devices : inUse[d] = (plays[d] > 0)

(***************************************************************************)
(* Nothing is held but by a calibration under way, or by the path of a     *)
(* device in use: no front end, no connection, no event and no PCM. A      *)
(* calibration and a stream never have the speaker together.               *)
(***************************************************************************)
NoOrphan ==
  /\ (\E r \in res : r[1] = "cal") => Calibrating /\ ~Playing
  /\ \A d \in devices : (\E r \in res : r[1] = d) => inUse[d]
  /\ \A r \in res : r[2] = "tx" => txPcm = r[1]

Waiting == caller # "none"

(***************************************************************************)
(* A stream that waits for a calibration to close is told when it has, and *)
(* no call ends the process.                                               *)
(***************************************************************************)
NeverBlocks == ~dead /\ (Waiting => woken \/ (Calibrating /\ ~rcvd))
================================================================================
