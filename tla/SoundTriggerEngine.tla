--------------------------- MODULE SoundTriggerEngine ---------------------------
(***************************************************************************)
(* The engines of one sound trigger stream.  The first stage is the DSP's  *)
(* graph and the thread that waits for its detections                      *)
(* (SoundTriggerEngineGsl); each second stage engine is a thread that      *)
(* looks at the buffered sound and accepts or rejects the detection        *)
(* (SoundTriggerEngineCapi).  The threads of an engine tell the stream     *)
(* with none of the engine's mutexes held; the stream calls the engines    *)
(* with its own mutex held (module StreamSoundTrigger).                    *)
(*                                                                         *)
(* A thread's sections are the pieces of code it has still to run, each a  *)
(* name and its arguments; the first one is what it does, or waits for.    *)
(* The last section of a call holds the call's status.                     *)
(***************************************************************************)
EXTENDS Integers, FiniteSets, Sequences, SequencesExt

CONSTANTS
  Client, Server, Timer,  \* threads of the stream's users and its own
  Gsl, Engines,           \* the thread of the first stage, those of the second
  None,
  Configs,                \* what may be set up: see Config
  Overlap                 \* what may overlap: see Detect, Enter, Destroy

Threads == {Client, Server, Timer, Gsl} \cup Engines
Failures == {"load", "start", "restart"}
Requests == {"pause", "concurrent", "switch", "restart"}

(***************************************************************************)
(* The second stage engines, whether the client wants the sound and to     *)
(* hear of rejections (GetNotifySecondStageFailure()), the session calls   *)
(* that may fail, and what ResourceManager asks of the stream.             *)
(***************************************************************************)
Config == [second : SUBSET Engines, capture : BOOLEAN, notify : BOOLEAN,
           failing : SUBSET Failures, requests : SUBSET Requests]

ASSUME ThreadsAssumption ==
  /\ Client \notin {Server, Timer, Gsl} \cup Engines
  /\ Server \notin {Timer, Gsl} \cup Engines
  /\ Timer \notin {Gsl} \cup Engines
  /\ Gsl \notin Engines
ASSUME ConfigsAssumption == Configs # {} /\ Configs \subseteq Config
ASSUME EnginesAssumption == IsFiniteSet(Engines) /\ None \notin Threads /\ Overlap \subseteq {"detection", "delete", "verdict"}

VARIABLES
  config,
  todo,                        \* of every thread: the sections to run
  eng_state, exit_buffering,   \* of the first stage
  processing_started, capi_exit, \* of the second; capi_exit is its exit_buffering_
  accepted,                    \* the engines that accepted the last detection
  wake_lock_cnt

gsl  == <<eng_state, exit_buffering>>
capi == <<processing_started, capi_exit, accepted>>

At(t, section) == todo[t] # <<>> /\ Head(todo[t])[1] = section
Goes(t, sections) == todo' = [todo EXCEPT ![t] = sections]
Then(t, more)  == Goes(t, more \o Tail(todo[t]))
Arg(t)         == Head(todo[t])[2]
Fail(t)        == Goes(t, <<[Last(todo[t]) EXCEPT ![2] = FALSE]>>)
MayFail(what)  == what \in config.failing
Less(n)        == IF n > 0 THEN n - 1 ELSE 0
\* Seeded fault: a wake lock is never released.
ReleaseNothing == UNCHANGED wake_lock_cnt
releaseWakeLock == wake_lock_cnt' = Less(wake_lock_cnt)

(***************************************************************************)
(* Calls on the engines.  A call asks the engine's thread to leave its     *)
(* loop, without a mutex, and then waits for the mutex the thread has      *)
(* while it is in the loop.                                                *)
(***************************************************************************)
Stage1(call) == <<<<"exit">>, <<call>>>>
Stage2(engines, call) ==
  [i \in 1..(2 * Cardinality(engines)) |->
     <<IF i % 2 = 1 THEN "quit" ELSE call, SetToSeq(engines)[(i + 1) \div 2]>>]

StopEngines    == Stage1("gslStop") \o Stage2(config.second, "await")
RestartEngines == Stage1("gslRestart") \o Stage2(config.second, "await")
StartEngines   == Stage1("gslStart") \o <<<<"capiStart">>>>
UnloadEngines  == Stage1("gslClose") \o Stage2(config.second, "join")

MutexFree      == ~At(Gsl, "buffer") /\ ~At(Gsl, "drain")
IsEngineActive == eng_state \in {"ACTIVE", "DETECTED", "BUFFERING"}

Exit(t) ==
  /\ At(t, "exit")
  /\ exit_buffering' = TRUE
  /\ Then(t, <<>>)
  /\ UNCHANGED <<eng_state, capi, wake_lock_cnt>>

AfterOld == IF eng_state = "NONE" THEN wake_lock_cnt ELSE Less(wake_lock_cnt)

\* LoadSoundModel() of the stream's first engine, or of one that takes the
\* place of another, whose thread releases the wake lock when it ends; and
\* LoadSoundModel() after ReconfigureDetectionGraph().
LoadNew(t) ==
  /\ At(t, "gslLoad") /\ Arg(t) = "new" /\ todo[Gsl] = <<>>
  /\ exit_buffering' = TRUE
  /\ \/ /\ eng_state' = "LOADED"
        /\ wake_lock_cnt' = AfterOld
        /\ Then(t, <<>>)
     \/ /\ MayFail("load")
        /\ eng_state' = "NONE"
        /\ wake_lock_cnt' = Less(AfterOld)
        /\ Then(t, <<<<"loadFails", "new">>>>)
  /\ UNCHANGED capi

LoadAgain(t) ==
  /\ At(t, "gslLoad") /\ Arg(t) = "same" /\ MutexFree
  /\ exit_buffering' = TRUE
  /\ \/ eng_state' = "LOADED" /\ Then(t, <<>>)
     \/ MayFail("load") /\ UNCHANGED eng_state /\ Then(t, <<<<"loadFails", "same">>>>)
  /\ UNCHANGED <<capi, wake_lock_cnt>>

\* UnloadSoundModel(), ReconfigureDetectionGraph()
Close(t) ==
  /\ At(t, "gslClose") /\ MutexFree
  /\ eng_state' = "IDLE"
  /\ Then(t, <<>>)
  /\ UNCHANGED <<exit_buffering, capi, wake_lock_cnt>>

StartRecognition(t) ==
  /\ At(t, "gslStart") /\ MutexFree
  /\ \/ /\ eng_state' = "ACTIVE"
        /\ exit_buffering' = FALSE
        /\ Then(t, <<>>)
     \/ /\ MayFail("start")
        /\ eng_state' = "LOADED"
        /\ Then(t, <<<<"startFails">>>>)
        /\ UNCHANGED exit_buffering
  /\ UNCHANGED <<capi, wake_lock_cnt>>

StopRecognition(t) ==
  /\ At(t, "gslStop") /\ MutexFree
  /\ eng_state' = IF IsEngineActive THEN "LOADED" ELSE eng_state
  /\ Then(t, <<>>)
  /\ UNCHANGED <<exit_buffering, capi, wake_lock_cnt>>

\* RestartRecognition_l(): stops the session and starts it again.
SessionRestarts ==
  /\ eng_state' = IF IsEngineActive THEN "ACTIVE" ELSE eng_state
  /\ exit_buffering' = IF IsEngineActive THEN FALSE ELSE exit_buffering

SessionFails ==
  /\ MayFail("restart") /\ IsEngineActive
  /\ \/ UNCHANGED gsl
     \/ eng_state' = "LOADED" /\ exit_buffering' = FALSE

RestartRecognition(t) ==
  /\ At(t, "gslRestart") /\ MutexFree
  /\ \/ SessionRestarts /\ Then(t, <<>>)
     \/ SessionFails /\ Then(t, <<<<"restartFails">>>>)
  /\ UNCHANGED <<capi, wake_lock_cnt>>

\* StopRecognition() and RestartRecognition() of a second stage engine, and
\* UnloadSoundModel(), which waits for the end of its thread.
Quit(t) ==
  /\ At(t, "quit")
  /\ processing_started' = [processing_started EXCEPT ![Arg(t)] = FALSE]
  /\ capi_exit' = [capi_exit EXCEPT ![Arg(t)] = TRUE]
  /\ Then(t, <<>>)
  /\ UNCHANGED <<gsl, accepted, wake_lock_cnt>>

Await(t) ==
  /\ \/ At(t, "await") /\ ~At(Arg(t), "run")
     \/ At(t, "join") /\ todo[Arg(t)] = <<>>
  /\ Then(t, <<>>)
  /\ UNCHANGED <<gsl, capi, wake_lock_cnt>>

StartSoundEngine(t) ==
  /\ At(t, "capiStart")
  /\ processing_started' = [k \in Engines |-> FALSE]
  /\ capi_exit' = [k \in Engines |-> FALSE]
  /\ Then(t, <<>>)
  /\ UNCHANGED <<gsl, accepted, wake_lock_cnt>>

\* SetDetected(true): the thread does not hear it when it is not waiting.
SetDetected(t) ==
  LET k == Arg(t) IN
  /\ At(t, "engage") /\ ~At(k, "run")
  /\ processing_started' = [processing_started EXCEPT ![k] = TRUE]
  /\ capi_exit' = IF processing_started[k] THEN capi_exit ELSE [capi_exit EXCEPT ![k] = FALSE]
  /\ todo' = [todo EXCEPT ![t] = Tail(@),
                          ![k] = IF @ = <<>> /\ ~processing_started[k] THEN <<<<"run">>>> ELSE @]
  /\ UNCHANGED <<gsl, accepted, wake_lock_cnt>>

(***************************************************************************)
(* The first stage: EventProcessingThread, StartBuffering.                 *)
(***************************************************************************)
Capture == config.capture \/ config.second # {}
\* Seeded fault: the thread keeps the wake lock of its event.
EndsAwake == Goes(Gsl, <<>>) /\ UNCHANGED wake_lock_cnt
Ends    == Goes(Gsl, <<>>) /\ releaseWakeLock
Tell(t, what) == Goes(t, <<<<"poll", what>>, <<IF t = Gsl THEN "answer" ELSE "done", TRUE>>>>)

\* HandleSessionCallBack(): the DSP's event.  The thread does not hear it
\* when it is not waiting.
Detect ==
  /\ eng_state = "ACTIVE" /\ MutexFree
  /\ "detection" \in Overlap \/ \A t \in Engines \cup {Gsl, Timer} : todo[t] = <<>>
  /\ eng_state' = "DETECTED"
  /\ accepted' = {}
  /\ wake_lock_cnt' = wake_lock_cnt + 1
  /\ todo' = [todo EXCEPT ![Gsl] = IF @ = <<>> THEN <<<<"woken">>>> ELSE @]
  /\ UNCHANGED <<exit_buffering, processing_started, capi_exit>>

Skip ==
  /\ At(Gsl, "woken") /\ eng_state # "DETECTED"
  /\ Ends
  /\ UNCHANGED <<gsl, capi>>

NoBuffering ==
  /\ At(Gsl, "woken") /\ eng_state = "DETECTED" /\ ~Capture
  /\ Tell(Gsl, "gmm")
  /\ UNCHANGED <<gsl, capi, wake_lock_cnt>>

StartBuffering ==
  /\ At(Gsl, "woken") /\ eng_state = "DETECTED" /\ Capture
  /\ eng_state' = "BUFFERING"
  /\ Goes(Gsl, <<<<"buffer">>>>)
  /\ UNCHANGED <<exit_buffering, capi, wake_lock_cnt>>

\* the keyword is in the buffer
Buffered ==
  /\ At(Gsl, "buffer") /\ ~exit_buffering /\ eng_state = "BUFFERING"
  /\ Tell(Gsl, "gmm")
  /\ UNCHANGED <<gsl, capi, wake_lock_cnt>>

\* Seeded fault: the loop does not look at exit_buffering_.
IgnoresExit ==
  /\ At(Gsl, "buffer") \/ At(Gsl, "drain")
  /\ eng_state # "BUFFERING"
  /\ Ends
  /\ UNCHANGED <<gsl, capi>>

StopBuffering ==
  /\ At(Gsl, "buffer") \/ At(Gsl, "drain")
  /\ exit_buffering \/ eng_state # "BUFFERING"
  /\ Ends
  /\ UNCHANGED <<gsl, capi>>

Answered ==
  /\ At(Gsl, "answer") /\ Arg(Gsl)
  /\ IF Capture THEN Goes(Gsl, <<<<"drain">>>>) /\ UNCHANGED wake_lock_cnt ELSE Ends
  /\ UNCHANGED <<gsl, capi>>

Refused ==
  /\ At(Gsl, "answer") /\ ~Arg(Gsl)
  /\ SessionRestarts \/ SessionFails
  /\ Ends
  /\ UNCHANGED capi

(***************************************************************************)
(* The second stage: BufferThreadLoop, StartKeywordDetection,              *)
(* StartUserVerification.                                                  *)
(***************************************************************************)
Judge(k, verdict) ==
  /\ At(k, "run") /\ ~capi_exit[k]
  /\ capi_exit' = [capi_exit EXCEPT ![k] = @ \/ verdict = "success"]
  /\ accepted' = IF verdict = "success" THEN accepted \cup {k} ELSE accepted
  /\ Tell(k, verdict)
  /\ UNCHANGED <<gsl, processing_started, wake_lock_cnt>>

Interrupted(k) ==
  /\ At(k, "run") /\ capi_exit[k]
  /\ processing_started' = [processing_started EXCEPT ![k] = FALSE]
  /\ Goes(k, <<>>)
  /\ UNCHANGED <<gsl, capi_exit, accepted, wake_lock_cnt>>

Judged(k) ==
  /\ At(k, "done")
  /\ processing_started' = [processing_started EXCEPT ![k] = FALSE]
  /\ Goes(k, <<>>)
  /\ UNCHANGED <<gsl, capi_exit, accepted, wake_lock_cnt>>

EngineCall(t) ==
  \/ Exit(t) \/ LoadNew(t) \/ LoadAgain(t) \/ Close(t) \/ StartRecognition(t) \/ StopRecognition(t)
  \/ RestartRecognition(t) \/ Quit(t) \/ Await(t) \/ StartSoundEngine(t) \/ SetDetected(t)

FirstStage  == \/ Skip \/ NoBuffering \/ StartBuffering \/ Buffered \/ StopBuffering
               \/ Answered \/ Refused
SecondStage(k) ==
  \/ \E verdict \in {"success", "reject"} : Judge(k, verdict)
  \/ Interrupted(k) \/ Judged(k)

InitEngines ==
  /\ config \in Configs
  /\ todo = [t \in Threads |-> <<>>]
  /\ eng_state = "NONE" /\ exit_buffering = FALSE
  /\ processing_started = [k \in Engines |-> FALSE]
  /\ capi_exit = [k \in Engines |-> FALSE]
  /\ accepted = {}
  /\ wake_lock_cnt = 0
==============================================================================
