--------------------------- MODULE StreamSoundTrigger ---------------------------
(***************************************************************************)
(* A sound trigger stream: a client loads a model, starts and stops        *)
(* recognition and is told of detections; ResourceManager pauses the       *)
(* stream, changes its capture profile or its microphone and brings it     *)
(* through restarts of the DSP; a timer stops a stream whose client does   *)
(* not start it again after a detection.  All of them hold mStreamMutex,   *)
(* except while the client's callback runs.                                *)
(***************************************************************************)
EXTENDS SoundTriggerEngine

VARIABLES
  cur_state, state_for_restore, currentState,
  paused,
  sm_config, rec_config,           \* the client's sound model ("freed": sm_cfg_ only),
                                   \* is there a configuration?
  loaded,                          \* are there engines?
  detection_state, second_stage_processing, rejection_notified,
  pending_stop, timer_stop_waiting,
  device, device_opened,           \* has the stream a microphone, has it opened it?
  deviceCount, deviceStartStopCount, active_devices, \* the microphone's
  force_nlpi_vote,
  mutex, activeMutex               \* who holds mStreamMutex, mActiveStreamMutex

states   == <<cur_state, state_for_restore, currentState>>
settings == <<paused, sm_config, rec_config, loaded>>
verdicts == <<detection_state, second_stage_processing, rejection_notified>>
timer    == <<pending_stop, timer_stop_waiting>>
counts   == <<deviceCount, deviceStartStopCount, active_devices>>
mic      == <<device, device_opened, counts>>
locks    == <<mutex, activeMutex>>
engines  == <<gsl, capi, wake_lock_cnt>>
stream   == <<states, settings, verdicts, timer, mic, force_nlpi_vote, locks>>
vars     == <<config, todo, engines, stream>>

State(s)     == cur_state \in s
TransitTo(s) == cur_state' = s
Running      == {"ACTIVE", "DETECTED", "BUFFERING"}
Told         == {"DETECTED", "BUFFERING"}
IsActive     == currentState = "STARTED"

(***************************************************************************)
(* The microphone: Device::open(), start(), stop() and close() count, and  *)
(* the stream is registered with ResourceManager while it uses it.         *)
(***************************************************************************)
OpenAndStart ==
  /\ deviceCount' = IF device_opened THEN deviceCount ELSE deviceCount + 1
  /\ deviceStartStopCount' = deviceStartStopCount + 1
  /\ active_devices' = TRUE
  /\ device_opened' = TRUE

\* The last close() forgets the starts.
CloseDevice(starts) ==
  /\ deviceCount' = Less(deviceCount)
  /\ deviceStartStopCount' = IF deviceCount = 1 THEN 0 ELSE starts

\* Seeded fault: the device is not closed.
StopOnly ==
  /\ deviceStartStopCount' = Less(deviceStartStopCount)
  /\ device_opened' = FALSE
  /\ UNCHANGED deviceCount

StopAndClose == CloseDevice(Less(deviceStartStopCount)) /\ device_opened' = FALSE

(***************************************************************************)
(* The timer of the deferred stop.  It does not hear of a stop that is     *)
(* posted, or cancelled, while it does not wait for that.                  *)
(***************************************************************************)
\* Seeded fault: the timer is not notified.
NotArmed(f) == f
Armed(f)   == [f EXCEPT ![Timer] = IF @ = <<>> THEN <<<<"arm">>>> ELSE @]
Disarmed(f) == [f EXCEPT ![Timer] = IF @ = <<<<"sleep">>>> THEN <<<<"awake">>>> ELSE @]

PostDelayedStop   == pending_stop' = TRUE /\ timer_stop_waiting' = FALSE
\* Seeded fault: the stop stays pending.
CancelNothing == UNCHANGED timer
CancelDelayedStop == pending_stop' = FALSE /\ timer_stop_waiting' = TRUE

Arm ==
  /\ At(Timer, "arm")
  /\ Goes(Timer, <<<<"sleep">>>>)
  /\ UNCHANGED <<engines, stream>>

\* woken by CancelDelayedStop() or at the end of the delay
Wake ==
  /\ At(Timer, "sleep") \/ At(Timer, "awake")
  /\ Goes(Timer, IF timer_stop_waiting THEN <<>>
                 ELSE <<<<"enter", "lateStop">>, <<"leave">>>>)
  /\ UNCHANGED <<engines, stream>>

(***************************************************************************)
(* SetEngineDetectionState(): an engine that has detected polls for the    *)
(* mutex, and gives up when the stream is in no state that could use it.   *)
(* The state is read once for the end of the loop and the check after it.  *)
(***************************************************************************)
Wanted(t) == IF Arg(t) = "gmm" THEN "ACTIVE" ELSE "BUFFERING"
Hopeless(useful) == mutex # None /\ ~State(useful)

Ignored(t) ==
  /\ At(t, "poll") /\ cur_state # Wanted(t)
  /\ mutex = None \/ Hopeless({"ACTIVE", "BUFFERING"})
  /\ Fail(t)
  /\ UNCHANGED <<engines, stream>>

\* notifyClient() up to the callback: the mutex is given up
Notify(t, what) ==
  /\ PostDelayedStop
  /\ currentState' = "STOPPED"
  /\ mutex' = None
  /\ todo' = Armed([todo EXCEPT ![t] = <<<<"callback", what>>, <<"relock", what>>>> \o <<Last(@)>>])

FirstStageOnly(t) ==
  /\ At(t, "poll") /\ Arg(t) = "gmm" /\ mutex = None /\ State({"ACTIVE"})
  /\ config.second = {}
  /\ wake_lock_cnt' = wake_lock_cnt + 1
  /\ TransitTo(IF config.capture THEN "BUFFERING" ELSE "DETECTED")
  /\ Notify(t, "detected")
  /\ UNCHANGED <<gsl, capi, state_for_restore, settings, verdicts, mic, force_nlpi_vote, activeMutex>>

FirstStageDetected(t) ==
  /\ At(t, "poll") /\ Arg(t) = "gmm" /\ mutex = None /\ State({"ACTIVE"})
  /\ config.second # {}
  /\ wake_lock_cnt' = wake_lock_cnt + 1
  /\ TransitTo("BUFFERING")
  /\ second_stage_processing' = TRUE
  /\ mutex' = t
  /\ Goes(t, [i \in 1..Cardinality(config.second) |-> <<"engage", SetToSeq(config.second)[i]>>]
             \o <<<<"unlock">>, Last(todo[t])>>)
  /\ UNCHANGED <<gsl, capi, state_for_restore, currentState, settings, detection_state,
                 rejection_notified, timer, mic, force_nlpi_vote, activeMutex>>

Unlock(t) ==
  /\ At(t, "unlock")
  /\ mutex' = None
  /\ Then(t, <<>>)
  /\ UNCHANGED <<engines, states, settings, verdicts, timer, mic, force_nlpi_vote, activeMutex>>

\* The notification waits for the verdicts of all engines.
Accept(t) ==
  /\ At(t, "poll") /\ Arg(t) = "success" /\ mutex = None /\ State({"BUFFERING"})
  /\ IF detection_state \cup {t} = config.second
     THEN /\ detection_state' = {}
          /\ second_stage_processing' = FALSE
          /\ TransitTo(IF config.capture THEN "BUFFERING" ELSE "DETECTED")
          /\ Notify(t, "detected")
     ELSE /\ detection_state' = detection_state \cup {t}
          /\ Then(t, <<>>)
          /\ UNCHANGED <<second_stage_processing, cur_state, currentState, timer, mutex>>
  /\ UNCHANGED <<engines, state_for_restore, settings, rejection_notified, mic, force_nlpi_vote,
                 activeMutex>>

\* The other engine is stopped ...
Reject(t) ==
  /\ At(t, "poll") /\ Arg(t) = "reject" /\ mutex = None /\ State({"BUFFERING"})
  /\ IF rejection_notified
     THEN Then(t, <<>>) /\ UNCHANGED mutex
     ELSE /\ Then(t, Stage2(config.second \ {t}, "await") \o <<<<"rejected">>>>)
          /\ mutex' = t
  /\ UNCHANGED <<engines, states, settings, verdicts, timer, mic, force_nlpi_vote, activeMutex>>

\* Seeded fault: the verdict of the engine that accepted is kept.
KeepsVerdict(t) ==
  /\ At(t, "rejected")
  /\ second_stage_processing' = FALSE
  /\ IF config.notify
     THEN rejection_notified' = TRUE /\ Notify(t, "rejected")
     ELSE /\ Then(t, RestartEngines \o <<<<"restarted">>, <<"unwake">>, <<"unlock">>>>)
          /\ UNCHANGED <<rejection_notified, currentState, timer, mutex>>
  /\ UNCHANGED <<engines, cur_state, state_for_restore, settings, detection_state, mic, force_nlpi_vote, activeMutex>>

\* ... and recognition starts again, or the client is told.
Rejected(t) ==
  /\ At(t, "rejected")
  /\ second_stage_processing' = FALSE
  /\ detection_state' = {}
  /\ IF config.notify
     THEN rejection_notified' = TRUE /\ Notify(t, "rejected")
     ELSE /\ Then(t, RestartEngines \o <<<<"restarted">>, <<"unwake">>, <<"unlock">>>>)
          /\ UNCHANGED <<rejection_notified, currentState, timer, mutex>>
  /\ UNCHANGED <<engines, cur_state, state_for_restore, settings, mic, force_nlpi_vote, activeMutex>>

\* the client's function runs, and returns
Callback(t) ==
  /\ At(t, "callback")
  /\ Then(t, <<>>)
  /\ UNCHANGED <<engines, stream>>

\* The rest of notifyClient(), with the mutex or, when the stream has been
\* stopped meanwhile, without.
Relock(t) ==
  /\ At(t, "relock")
  /\ mutex = None \/ Hopeless(Told)
  /\ wake_lock_cnt' = IF Arg(t) = "rejected" THEN Less(wake_lock_cnt) ELSE wake_lock_cnt
  /\ Then(t, <<>>)
  /\ UNCHANGED <<gsl, capi, stream>>

Detection(t) ==
  \/ Ignored(t) \/ FirstStageOnly(t) \/ FirstStageDetected(t) \/ Unlock(t)
  \/ Accept(t) \/ Reject(t) \/ Rejected(t) \/ Callback(t) \/ Relock(t)

(***************************************************************************)
(* Calls: a thread takes the mutex, its event is handled by the state the  *)
(* stream is in, and it gives the mutex up.                                *)
(***************************************************************************)
Freed == IF sm_config = "held" THEN "freed" ELSE sm_config
Leave(op) == <<"leave", TRUE, op, currentState>>

\* Without "verdict" in Overlap no call comes between the verdicts of two engines.
Enter(t) ==
  LET op == Arg(t) IN
  /\ At(t, "enter") /\ mutex = None
  /\ "verdict" \in Overlap \/ detection_state = {}
  /\ mutex' = t
  /\ currentState' = CASE op = "start" -> "STARTED" [] op = "stop" -> "STOPPED"
                       [] OTHER -> currentState
  /\ rejection_notified' = IF op = "start" THEN FALSE ELSE rejection_notified
  /\ LET handled == CASE op = "lateStop" -> IF pending_stop THEN <<<<"handle", "stop">>>> ELSE <<>>
                      [] op = "stopBuffering" ->
                           IF State({"BUFFERING"}) THEN <<<<"handle", "stop">>>> ELSE <<>>
                      [] OTHER -> <<<<"handle", op>>>>
     IN Goes(t, handled \o SubSeq(todo[t], 2, Len(todo[t]) - 1) \o <<Leave(op)>>)
  /\ UNCHANGED <<engines, cur_state, state_for_restore, settings, detection_state,
                 second_stage_processing, timer, mic, force_nlpi_vote, activeMutex>>

Return(t) ==
  LET ok == Arg(t)
      op == Head(todo[t])[3]
      before == Head(todo[t])[4]
  IN
  /\ At(t, "leave")
  /\ mutex' = None
  /\ activeMutex' = IF activeMutex = t THEN None ELSE activeMutex
  /\ currentState' = CASE op = "start" /\ ~ok -> before
                       [] op = "load" /\ ok   -> "OPENED"
                       [] op = "unload"       -> "IDLE"
                       [] OTHER               -> currentState
  /\ sm_config' = IF op = "unload" THEN Freed ELSE sm_config
  /\ Goes(t, IF op = "unload" THEN <<<<"delete">>>> ELSE <<>>)
  /\ UNCHANGED <<engines, cur_state, state_for_restore, paused, rec_config, loaded, verdicts, timer,
                 mic, force_nlpi_vote>>

Handles(t, events) == At(t, "handle") /\ Arg(t) \in events

(***************************************************************************)
(* Stopping recognition, in whatever state it runs, for one of the events  *)
(* that need that; what is left of the event is then handled by StLoaded.  *)
(***************************************************************************)
Stops == {"stop", "pause", "unload", "concurrent"}

Halt(t) ==
  /\ \/ Handles(t, Stops) /\ State(Running)
     \/ Handles(t, {"config", "disconnect"}) /\ State(Told)
  /\ active_devices' = (active_devices /\ ~device)
  /\ paused' = (paused \/ Arg(t) = "pause")
  /\ force_nlpi_vote' = FALSE
  /\ IF State({"ACTIVE"}) THEN UNCHANGED timer ELSE CancelDelayedStop
  /\ LET sections == StopEngines \o <<<<"halted">>>>
                     \o (IF Arg(t) \in {"stop", "pause"} THEN <<>> ELSE <<Head(todo[t])>>)
                     \o (IF State(Told) THEN <<<<"unwake">>>> ELSE <<>>)
         next == [todo EXCEPT ![t] = sections \o Tail(@)]
     IN todo' = IF State({"ACTIVE"}) THEN next ELSE Disarmed(next)
  /\ UNCHANGED <<engines, states, sm_config, rec_config, loaded, verdicts, device, device_opened,
                 deviceCount, deviceStartStopCount, locks>>

Halted(t) ==
  /\ At(t, "halted")
  /\ IF device THEN StopAndClose ELSE UNCHANGED <<deviceCount, deviceStartStopCount, device_opened>>
  /\ TransitTo("LOADED")
  /\ Then(t, <<>>)
  /\ UNCHANGED <<engines, state_for_restore, currentState, settings, verdicts, timer, device,
                 active_devices, force_nlpi_vote, locks>>

Unwake(t) ==
  /\ At(t, "unwake")
  /\ releaseWakeLock
  /\ Then(t, <<>>)
  /\ UNCHANGED <<gsl, capi, stream>>

(***************************************************************************)
(* Starting it: a first start, and the next one after a detection.         *)
(***************************************************************************)
StartLater(t) ==
  /\ Handles(t, {"start"}) /\ State({"LOADED"})
  /\ paused \/ ~rec_config
  /\ IF paused THEN Then(t, <<>>) ELSE Fail(t)
  /\ UNCHANGED <<engines, stream>>

Start(t) ==
  /\ Handles(t, {"start"}) /\ State({"LOADED"}) /\ ~paused /\ rec_config
  /\ IF device THEN OpenAndStart ELSE UNCHANGED <<counts, device_opened>>
  /\ Then(t, StartEngines \o <<<<"started">>>>)
  /\ UNCHANGED <<engines, states, settings, verdicts, timer, device, force_nlpi_vote, locks>>

StartFails(t) ==
  /\ At(t, "startFails")
  /\ IF device THEN active_devices' = FALSE /\ StopAndClose
               ELSE UNCHANGED <<counts, device_opened>>
  /\ Fail(t)
  /\ UNCHANGED <<engines, states, settings, verdicts, timer, device, force_nlpi_vote, locks>>

Restart(t) ==
  /\ Handles(t, {"start"}) /\ State(Told)
  /\ force_nlpi_vote' = FALSE
  /\ CancelDelayedStop
  /\ todo' = Disarmed([todo EXCEPT ![t] = RestartEngines \o <<<<"restarted">>, <<"unwake">>>> \o Tail(@)])
  /\ UNCHANGED <<engines, states, settings, verdicts, mic, locks>>

\* StDetected goes on after a failure, and forgets it when there is a second engine.
RestartFails(t) ==
  /\ At(t, "restartFails")
  /\ IF State({"DETECTED"}) /\ config.second # {}
     THEN Then(t, <<>>) /\ UNCHANGED cur_state
     ELSE /\ TransitTo("LOADED")
          /\ LET rest == IF t \in Engines THEN <<<<"unwake">>, <<"unlock">>>> ELSE <<<<"unwake">>>>
             IN Goes(t, rest \o <<[Last(todo[t]) EXCEPT ![2] = FALSE]>>)
  /\ UNCHANGED <<engines, state_for_restore, currentState, settings, verdicts, timer, mic,
                 force_nlpi_vote, locks>>

Started(t) ==
  /\ At(t, "started") \/ At(t, "restarted") \/ At(t, "connected")
  /\ TransitTo("ACTIVE")
  /\ second_stage_processing' = (second_stage_processing /\ ~At(t, "connected"))
  /\ Then(t, <<>>)
  /\ UNCHANGED <<engines, state_for_restore, currentState, settings, detection_state,
                 rejection_notified, timer, mic, force_nlpi_vote, locks>>

(***************************************************************************)
(* The model and the configuration.                                        *)
(***************************************************************************)
Load(t) ==
  /\ Handles(t, {"load"}) /\ State({"IDLE"})
  /\ device' = TRUE
  /\ sm_config' = "held"
  /\ Then(t, <<<<"gslLoad", "new">>, <<"loaded">>>>)
  /\ UNCHANGED <<engines, states, paused, rec_config, loaded, verdicts, timer, device_opened, counts,
                 force_nlpi_vote, locks>>

LoadFails(t) ==
  /\ At(t, "loadFails")
  /\ sm_config' = IF Arg(t) = "same" THEN sm_config ELSE Freed
  /\ loaded' = (loaded /\ Arg(t) = "same")
  /\ Fail(t)
  /\ UNCHANGED <<engines, states, paused, rec_config, verdicts, timer, mic, force_nlpi_vote, locks>>

Loaded(t) ==
  /\ At(t, "loaded")
  /\ loaded' = TRUE
  /\ TransitTo("LOADED")
  /\ Then(t, <<>>)
  /\ UNCHANGED <<engines, state_for_restore, currentState, paused, sm_config, rec_config, verdicts,
                 timer, mic, force_nlpi_vote, locks>>

Unload(t) ==
  /\ Handles(t, {"unload"}) /\ State({"IDLE", "LOADED"}) /\ loaded
  /\ IF device_opened /\ device THEN CloseDevice(deviceStartStopCount)
                               ELSE UNCHANGED <<deviceCount, deviceStartStopCount>>
  /\ device' = FALSE
  /\ Then(t, UnloadEngines \o <<<<"unloaded">>>>)
  /\ UNCHANGED <<engines, states, settings, verdicts, timer, device_opened, active_devices,
                 force_nlpi_vote, locks>>

Unloaded(t) ==
  /\ At(t, "unloaded")
  /\ loaded' = FALSE
  /\ TransitTo("IDLE")
  /\ Then(t, <<>>)
  /\ UNCHANGED <<engines, state_for_restore, currentState, paused, sm_config, rec_config, verdicts,
                 timer, mic, force_nlpi_vote, locks>>

Configure(t) ==
  /\ Handles(t, {"config"}) /\ State({"LOADED"})
  /\ rec_config' = TRUE
  /\ Then(t, <<>>)
  /\ UNCHANGED <<engines, states, paused, sm_config, loaded, verdicts, timer, mic, force_nlpi_vote, locks>>

(***************************************************************************)
(* Pause() and Resume().                                                   *)
(***************************************************************************)
Pause(t) ==
  /\ Handles(t, {"pause"}) /\ State({"IDLE", "LOADED", "SSR"})
  /\ paused' = TRUE
  /\ Then(t, <<>>)
  /\ UNCHANGED <<engines, states, sm_config, rec_config, loaded, verdicts, timer, mic,
                 force_nlpi_vote, locks>>

\* Seeded fault: a resumed stream is not started again.
ResumeOnly(t) ==
  /\ Handles(t, {"resume"}) /\ State({"IDLE", "LOADED", "DETECTED", "SSR"})
  /\ paused' = FALSE
  /\ state_for_restore' = IF State({"SSR"}) /\ paused /\ IsActive THEN "ACTIVE" ELSE state_for_restore
  /\ Then(t, <<>>)
  /\ UNCHANGED <<engines, cur_state, currentState, sm_config, rec_config, loaded, verdicts, timer, mic,
                 force_nlpi_vote, locks>>

Resume(t) ==
  /\ Handles(t, {"resume"}) /\ State({"IDLE", "LOADED", "DETECTED", "SSR"})
  /\ paused' = FALSE
  /\ state_for_restore' = IF State({"SSR"}) /\ paused /\ IsActive THEN "ACTIVE" ELSE state_for_restore
  /\ Then(t, IF State({"LOADED"}) /\ IsActive THEN <<<<"handle", "start">>>> ELSE <<>>)
  /\ UNCHANGED <<engines, cur_state, currentState, sm_config, rec_config, loaded, verdicts, timer, mic,
                 force_nlpi_vote, locks>>

(***************************************************************************)
(* HandleConcurrentStream(): the graph is closed, and set up again for     *)
(* the new capture profile.                                                *)
(***************************************************************************)
Reconfigure(t) ==
  /\ Handles(t, {"concurrent"}) /\ State({"LOADED"})
  /\ device' = FALSE
  /\ Then(t, Stage1("gslClose") \o <<<<"reconfigured">>>>)
  /\ UNCHANGED <<engines, states, settings, verdicts, timer, device_opened, counts, force_nlpi_vote, locks>>

Reconfigured(t) ==
  /\ At(t, "reconfigured")
  /\ TransitTo("IDLE")
  /\ Then(t, <<>>)
  /\ UNCHANGED <<engines, state_for_restore, currentState, settings, verdicts, timer, mic,
                 force_nlpi_vote, locks>>

Reload(t) ==
  /\ Handles(t, {"concurrentEnd"}) /\ State({"IDLE"}) /\ sm_config = "held"
  /\ device' = TRUE
  /\ Then(t, <<<<"gslLoad", "same">>, <<"loaded">>>>
             \o (IF IsActive THEN <<<<"handle", "start">>>> ELSE <<>>))
  /\ UNCHANGED <<engines, states, settings, verdicts, timer, device_opened, counts, force_nlpi_vote, locks>>

(***************************************************************************)
(* DisconnectDevice(), ConnectDevice().                                    *)
(***************************************************************************)
Disconnect(t) ==
  /\ Handles(t, {"disconnect"}) /\ State({"IDLE", "LOADED", "ACTIVE"}) /\ device
  /\ device' = FALSE
  /\ CASE State({"IDLE"}) -> UNCHANGED <<counts, device_opened>>
       [] State({"ACTIVE"}) -> active_devices' = FALSE /\ StopAndClose
       [] State({"LOADED"}) ->
            /\ IF device_opened THEN CloseDevice(deviceStartStopCount)
                                ELSE UNCHANGED <<deviceCount, deviceStartStopCount>>
            /\ device_opened' = FALSE
            /\ UNCHANGED active_devices
  /\ Then(t, <<>>)
  /\ UNCHANGED <<engines, states, settings, verdicts, timer, force_nlpi_vote, locks>>

\* A stream that was stopped while its second stage was busy starts again.
Connect(t) ==
  LET starts == State({"ACTIVE"}) \/ (State({"LOADED"}) /\ IsActive /\ ~paused)
  IN
  /\ Handles(t, {"connect"}) /\ State({"IDLE", "LOADED", "ACTIVE"}) /\ ~device
  /\ device' = (State({"LOADED", "ACTIVE"}) \/ sm_config # "none")
  /\ CASE State({"IDLE"}) -> UNCHANGED <<counts, device_opened>>
       [] starts -> OpenAndStart
       [] OTHER  -> /\ deviceCount' = IF device_opened THEN deviceCount ELSE deviceCount + 1
                    /\ device_opened' = TRUE
                    /\ UNCHANGED <<deviceStartStopCount, active_devices>>
  /\ IF State({"LOADED"}) /\ starts /\ second_stage_processing
     THEN Then(t, StartEngines \o <<<<"connected">>>>) /\ UNCHANGED <<cur_state, eng_state>>
     ELSE /\ Then(t, <<>>)
          /\ IF State({"LOADED"}) /\ starts
             THEN TransitTo("ACTIVE") /\ eng_state' = "ACTIVE"
             ELSE UNCHANGED <<cur_state, eng_state>>
  /\ UNCHANGED <<exit_buffering, capi, wake_lock_cnt, state_for_restore, currentState, settings,
                 verdicts, timer, force_nlpi_vote, locks>>

(***************************************************************************)
(* ssrDownHandler(), ssrUpHandler(), and the client's calls between them,  *)
(* which change what will be restored.                                     *)
(***************************************************************************)
Offline(t) ==
  /\ Handles(t, {"offline"}) /\ ~State({"SSR"})
  /\ state_for_restore' =
       IF state_for_restore # "NONE" THEN state_for_restore
       ELSE IF State({"DETECTED"}) \/ (State({"BUFFERING"}) /\ ~second_stage_processing) THEN "LOADED"
       ELSE IF State({"BUFFERING"}) THEN "ACTIVE" ELSE cur_state
  /\ Then(t, (IF State(Running) THEN <<<<"handle", "stop">>>> ELSE <<>>)
             \o (IF State({"IDLE"}) THEN <<>> ELSE <<<<"handle", "unload">>>>)
             \o <<<<"offline">>>>)
  /\ UNCHANGED <<engines, cur_state, currentState, settings, verdicts, timer, mic, force_nlpi_vote, locks>>

WentOffline(t) ==
  /\ At(t, "offline")
  /\ TransitTo("SSR")
  /\ Then(t, <<>>)
  /\ UNCHANGED <<engines, state_for_restore, currentState, settings, verdicts, timer, mic,
                 force_nlpi_vote, locks>>

Online(t) ==
  LET restored == IF state_for_restore # "IDLE" THEN state_for_restore
                  ELSE IF IsActive THEN "ACTIVE"
                  ELSE IF currentState \in {"OPENED", "STOPPED"} THEN "LOADED" ELSE "IDLE"
  IN
  /\ Handles(t, {"online"}) /\ State({"SSR"})
  /\ TransitTo("IDLE")
  /\ state_for_restore' = IF sm_config = "held" THEN restored ELSE state_for_restore
  /\ Then(t, IF sm_config # "held" THEN <<>>
             ELSE (IF restored = "IDLE" THEN <<>> ELSE <<<<"handle", "load">>>>)
                  \o (IF restored = "ACTIVE" THEN <<<<"handle", "start">>>> ELSE <<>>)
                  \o <<<<"online">>>>)
  /\ UNCHANGED <<engines, currentState, settings, verdicts, timer, mic, force_nlpi_vote, locks>>

WentOnline(t) ==
  /\ At(t, "online")
  /\ state_for_restore' = "NONE"
  /\ Then(t, <<>>)
  /\ UNCHANGED <<engines, cur_state, currentState, settings, verdicts, timer, mic, force_nlpi_vote, locks>>

CallOffline(t) ==
  LET from == CASE Arg(t) = "load" -> "IDLE" [] Arg(t) = "stop" -> "ACTIVE" [] OTHER -> "LOADED"
      ok   == state_for_restore = from /\ (Arg(t) = "start" => rec_config)
  IN
  /\ Handles(t, {"load", "unload", "config", "start", "stop"}) /\ State({"SSR"})
  /\ IF ok THEN Then(t, <<>>) ELSE Fail(t)
  /\ state_for_restore' = CASE ~ok -> state_for_restore
                            [] Arg(t) \in {"load", "stop"} -> "LOADED"
                            [] Arg(t) = "unload" -> "IDLE"
                            [] Arg(t) = "start" -> "ACTIVE"
                            [] OTHER -> state_for_restore
  /\ sm_config' = IF ok /\ Arg(t) = "load" THEN "held" ELSE sm_config
  /\ rec_config' = (rec_config \/ (ok /\ Arg(t) = "config"))
  /\ UNCHANGED <<engines, cur_state, currentState, paused, loaded, verdicts, timer, mic,
                 force_nlpi_vote, locks>>

(***************************************************************************)
(* The events a state has no case for, or ends at once.                    *)
(***************************************************************************)
Nothing(t) ==
  /\ \/ Handles(t, {"stop"}) /\ State({"IDLE", "LOADED"})
     \/ Handles(t, {"start"}) /\ State({"IDLE", "ACTIVE"})
     \/ Handles(t, {"config"}) /\ State({"IDLE", "ACTIVE"})
     \/ Handles(t, {"unload"}) /\ State({"IDLE"}) /\ ~loaded
     \/ Handles(t, {"concurrent"}) /\ State({"IDLE", "SSR"})
     \/ Handles(t, {"concurrentEnd"}) /\ (~State({"IDLE"}) \/ sm_config # "held")
     \/ Handles(t, {"disconnect"}) /\ (State({"SSR"}) \/ (~State(Told) /\ ~device))
     \/ Handles(t, {"connect"}) /\ State({"SSR"})
  /\ Then(t, <<>>)
  /\ UNCHANGED <<engines, stream>>

Handling(t) ==
  \/ Halt(t) \/ Halted(t) \/ Unwake(t)
  \/ StartLater(t) \/ Start(t) \/ StartFails(t) \/ Restart(t) \/ RestartFails(t) \/ Started(t)
  \/ Load(t) \/ LoadFails(t) \/ Loaded(t) \/ Unload(t) \/ Unloaded(t) \/ Configure(t)
  \/ Pause(t) \/ Resume(t) \/ Reconfigure(t) \/ Reconfigured(t) \/ Reload(t)
  \/ Disconnect(t) \/ Connect(t)
  \/ Offline(t) \/ WentOffline(t) \/ Online(t) \/ WentOnline(t) \/ CallOffline(t)
  \/ Nothing(t)

(***************************************************************************)
(* The client.  It calls in an order the API allows, and does not start a  *)
(* stream again before it has been told that the stream has detected.  A   *)
(* microphone that failed restarts have left on is started MaxStarts times *)
(* at most: a bound of the model.                                          *)
(***************************************************************************)
MaxStarts == 2

Legal(op) ==
  CASE op = "load"          -> currentState = "IDLE"
    [] op = "config"        -> currentState \in {"OPENED", "STOPPED"}
    [] op = "start"         -> /\ currentState \in {"OPENED", "STOPPED"}
                               /\ \A t \in Threads : ~At(t, "callback")
                               /\ deviceStartStopCount < MaxStarts
    [] op = "stop"          -> currentState \in {"STARTED", "STOPPED"}
    [] op = "stopBuffering" -> currentState = "STOPPED" /\ State({"BUFFERING"})
    [] op = "unload"        -> TRUE

Call(op) ==
  /\ todo[Client] = <<>> /\ Legal(op)
  /\ op \in {"start", "stop"} => activeMutex = None
  /\ activeMutex' = IF op \in {"start", "stop"} THEN Client ELSE activeMutex
  /\ Goes(Client, <<<<"enter", op>>, <<"leave">>>>)
  /\ UNCHANGED <<engines, states, settings, verdicts, timer, mic, force_nlpi_vote, mutex>>

\* read(), of a client that was told of a detection
Read ==
  /\ todo[Client] = <<>> /\ mutex = None
  /\ State({"BUFFERING"}) /\ currentState = "STOPPED"
  /\ ~second_stage_processing /\ ~force_nlpi_vote
  /\ CancelDelayedStop
  /\ force_nlpi_vote' = TRUE
  /\ todo' = Disarmed(todo)
  /\ UNCHANGED <<engines, states, settings, verdicts, mic, locks>>

(***************************************************************************)
(* The end of pal_stream_close(): the destructor, with mStreamMutex, waits *)
(* for the timer's thread; the thread of the first stage engine gives a    *)
(* wake lock up when it ends.  The next stream is a new one.               *)
(***************************************************************************)
Destroy ==
  /\ At(Client, "delete") /\ todo[Server] = <<>> /\ mutex = None
  /\ "delete" \in Overlap \/ ~At(Timer, "enter")
  /\ mutex' = Client
  /\ timer_stop_waiting' = TRUE
  /\ Goes(Client, <<<<"joinTimer">>>>)
  /\ UNCHANGED <<engines, states, settings, verdicts, pending_stop, mic, force_nlpi_vote, activeMutex>>

Born ==
  /\ currentState' = "IDLE" /\ rec_config' = FALSE /\ loaded' = FALSE /\ sm_config' = "none"
  /\ detection_state' = {} /\ second_stage_processing' = FALSE /\ rejection_notified' = FALSE
  /\ pending_stop' = FALSE /\ timer_stop_waiting' = FALSE
  /\ device' = FALSE /\ device_opened' = FALSE /\ force_nlpi_vote' = FALSE

Destroyed ==
  /\ At(Client, "joinTimer")
  /\ ~At(Timer, "enter")
  /\ \A t \in Engines \cup {Gsl} : todo[t] = <<>>
  /\ todo' = [todo EXCEPT ![Client] = <<>>, ![Timer] = <<>>]
  /\ eng_state' = "NONE"
  /\ wake_lock_cnt' = AfterOld
  /\ mutex' = None
  /\ Born
  /\ cur_state' = IF State({"SSR"}) THEN "SSR" ELSE "IDLE"
  /\ state_for_restore' = IF State({"SSR"}) THEN "IDLE" ELSE "NONE"
  /\ UNCHANGED <<exit_buffering, capi, counts, paused, activeMutex>>

(***************************************************************************)
(* ResourceManager.  One thread at a time, with mActiveStreamMutex: other  *)
(* streams that start or stop, microphones that come or go, restarts.      *)
(***************************************************************************)
Steps(r) ==
  CASE r = "pause"      -> <<<<"enter", IF paused THEN "resume" ELSE "pause">>, <<"leave">>>>
    [] r = "concurrent" -> <<<<"enter", "concurrent">>, <<"handle", "concurrentEnd">>, <<"leave">>>>
    [] r = "switch"     -> <<<<"enter", "disconnect">>, <<"handle", "connect">>, <<"leave">>>>
    [] r = "restart"    -> <<<<"enter", IF State({"SSR"}) THEN "online" ELSE "offline">>, <<"leave">>>>

Request(r) ==
  /\ r \in config.requests
  /\ todo[Server] = <<>> /\ activeMutex = None
  /\ ~At(Client, "delete") /\ ~At(Client, "joinTimer")
  /\ activeMutex' = Server
  /\ Goes(Server, Steps(r))
  /\ UNCHANGED <<engines, states, settings, verdicts, timer, mic, force_nlpi_vote, mutex>>

Callers == {Client, Server, Timer}
Pollers == Engines \cup {Gsl}

Init ==
  /\ InitEngines
  /\ cur_state = "IDLE" /\ state_for_restore = "NONE" /\ currentState = "IDLE"
  /\ paused = FALSE /\ sm_config = "none" /\ rec_config = FALSE /\ loaded = FALSE
  /\ detection_state = {} /\ second_stage_processing = FALSE /\ rejection_notified = FALSE
  /\ pending_stop = FALSE /\ timer_stop_waiting = FALSE
  /\ device = FALSE /\ device_opened = FALSE
  /\ deviceCount = 0 /\ deviceStartStopCount = 0 /\ active_devices = FALSE
  /\ force_nlpi_vote = FALSE /\ mutex = None /\ activeMutex = None

\* A poller looks at the stream's state more often than the state changes.
GivesUp(t) == /\ mutex # None
              /\ \/ At(t, "poll") /\ ~State({"ACTIVE", "BUFFERING"})
                 \/ At(t, "relock") /\ ~State(Told)

Engine(t) ==
  \/ EngineCall(t) /\ UNCHANGED stream
  \/ Detection(t) \/ Handling(t)
  \/ t = Gsl /\ FirstStage /\ UNCHANGED stream
  \/ t \in Engines /\ SecondStage(t) /\ UNCHANGED stream

Caller(t) ==
  \/ EngineCall(t) /\ UNCHANGED stream
  \/ Enter(t) \/ Handling(t) \/ Return(t)
  \/ t = Client /\ (Destroy \/ Destroyed)
  \/ t = Timer /\ (Arm \/ Wake)

Outside ==
  \/ \E op \in {"load", "config", "start", "stop", "stopBuffering", "unload"} : Call(op)
  \/ Read
  \/ \E r \in Requests : Request(r)
  \/ Detect /\ UNCHANGED stream

Polls == \E t \in Pollers : GivesUp(t)

Next ==
  /\ \/ \E t \in Pollers : (Polls => GivesUp(t)) /\ Engine(t)
     \/ ~Polls /\ \E t \in Callers : Caller(t)
     \/ ~Polls /\ Outside
  /\ UNCHANGED config

Spec == Init /\ [][Next]_vars
------------------------------------------------------------------------------
(* Type invariant. *)
TypeOK ==
  /\ config \in Configs
  /\ cur_state \in {"IDLE", "LOADED", "SSR"} \cup Running
  /\ state_for_restore \in {"NONE", "IDLE", "LOADED", "ACTIVE"}
  /\ currentState \in {"IDLE", "OPENED", "STARTED", "STOPPED"}
  /\ sm_config \in {"none", "freed", "held"}
  /\ eng_state \in {"NONE", "IDLE", "LOADED"} \cup Running
  /\ detection_state \subseteq config.second /\ accepted \subseteq config.second
  /\ wake_lock_cnt \in 0..3 /\ deviceCount \in 0..2 /\ deviceStartStopCount \in 0..MaxStarts
  /\ mutex \in Threads \cup {None} /\ activeMutex \in {Client, Server, None}

GoesOn(t) == ENABLED (IF t \in Pollers THEN Engine(t) ELSE Caller(t))

Quiet == /\ mutex = None /\ activeMutex = None
         /\ \A t \in Threads \ {Gsl, Timer} : todo[t] = <<>>
         /\ todo[Gsl] = <<>> \/ At(Gsl, "drain")

(***************************************************************************)
(* Suspend is held off for a detection until its client starts or stops    *)
(* the stream, or the deferred stop does, and not longer; the sleep        *)
(* monitor's vote lasts as long as there is sound to read.  For a client   *)
(* that hears of rejections see HandledAwake.                              *)
(***************************************************************************)
PowerExact ==
  Quiet /\ ~config.notify =>
     /\ wake_lock_cnt = Cardinality({x \in {"engine", "stream"} :
                            IF x = "engine" THEN todo[Gsl] # <<>> ELSE State(Told)})
     /\ force_nlpi_vote => State({"BUFFERING"})

(***************************************************************************)
(* The microphone is on, and known to ResourceManager, exactly while the   *)
(* stream is between a start and a stop, whoever made them.  Left out: a   *)
(* failed restart, which leaves it on (StDetected, StBuffering), and a     *)
(* microphone that a switch opened for a stream that does not run and a    *)
(* restart of the DSP closed: device_opened_ stays true (StLoaded).        *)
(***************************************************************************)
MicExact ==
  Quiet /\ ~MayFail("restart") /\ ~({"switch", "restart"} \subseteq config.requests) =>
     /\ deviceStartStopCount = IF State(Running) THEN 1 ELSE 0
     /\ active_devices = State(Running)
     /\ deviceCount = IF device_opened THEN 1 ELSE 0

(***************************************************************************)
(* A stream that its client has started, and nobody has paused, listens    *)
(* once the calls in progress are over: pauses, restarts, reconfigurations *)
(* and rejected detections leave no deaf stream behind.                    *)
(***************************************************************************)
StartedListens ==
  Quiet /\ config.failing = {} /\ IsActive /\ rec_config /\ ~paused /\ ~State({"SSR"}) =>
     State({"ACTIVE"}) /\ eng_state \in {"ACTIVE", "DETECTED"}

(***************************************************************************)
(* The deferred stop stops a stream whose client was told of a detection   *)
(* and has not started it since.                                           *)
(***************************************************************************)
NeverStopsActive ==
  At(Timer, "handle") => currentState = "STOPPED" /\ State(Told)

(***************************************************************************)
(* A deferred stop that is due has a timer that will wake up.              *)
(***************************************************************************)
PendingStopTimed == Quiet /\ pending_stop => todo[Timer] # <<>>

(***************************************************************************)
(* The client hears of a detection that all its engines have accepted:     *)
(* "notify client until both keyword detection/user verification done"     *)
(* (StBuffering::ProcessEvent).  Verdicts on an earlier one do not count.  *)
(***************************************************************************)
BothVerdicts ==
  \A t \in Pollers : At(t, "callback") /\ Arg(t) = "detected" => accepted = config.second

(***************************************************************************)
(* The threads that run do not all wait for each other.                    *)
(***************************************************************************)
NeverStuck ==
  (\E t \in Threads : todo[t] # <<>> /\ ~At(t, "drain")) =>
     \/ mutex # None /\ GoesOn(mutex)
     \/ \E t \in Threads : GoesOn(t)

(***************************************************************************)
(* "Acquire the wake lock and handle session event to avoid apps suspend"  *)
(* (HandleSessionCallBack): it is held until the event has been handled.   *)
(* No run checks it: it fails for a client that hears of rejections        *)
(* (Configs <- Rejections), whose next start releases the lock twice.      *)
(***************************************************************************)
HandledAwake == todo[Gsl] # <<>> => wake_lock_cnt > 0
==============================================================================
