------------------------------ MODULE StreamPCM ------------------------------
(***************************************************************************)
(* The calls on PCM streams, as the sections of code that run while        *)
(* mStreamMutex is held.  A call that needs the list of active devices     *)
(* gives its stream's mutex up, takes mActiveStreamMutex and then the      *)
(* stream's mutex again, so it has two sections; nothing is looked at      *)
(* again in the second one.  The same calls are made by clients and by the *)
(* thread that handles restarts of the sound card (module SoundCard).      *)
(*                                                                         *)
(* Every stream has one session and plays on, or records from, one device  *)
(* that all streams share.                                                 *)
(***************************************************************************)
EXTENDS Integers, FiniteSets, Sequences

CONSTANTS Streams, Clients, Ssr, None,
          Input,       \* the streams that record
          MaxQueue     \* bound on msgQ

Threads == Clients \cup {Ssr}

ASSUME ThreadsAssumption == Ssr \notin Clients /\ None \notin Threads \cup Streams
ASSUME StreamsAssumption == IsFiniteSet(Streams) /\ Input \subseteq Streams
ASSUME QueueAssumption == MaxQueue \in Nat \ {0}

VARIABLES
  currentState, cachedState, isPaused, \* of every stream
  frontEnd,             \* the streams whose session owns a front end
  graph,                \* the session's PCM and graph on the DSP
  deviceCount, deviceStartStopCount,
  active_devices,       \* the streams registered for the device
  dsp,                  \* is the DSP up?
  cardState, msgQ,      \* what ResourceManager knows of that, and will know
  activeMutex,          \* who holds mActiveStreamMutex across sections
  todo, on,             \* of every thread: the sections to run, on which stream
  told                  \* what the last successful call told the stream's client

stream  == <<currentState, cachedState, isPaused>>
session == <<frontEnd, graph>>
device  == <<deviceCount, deviceStartStopCount, active_devices>>
card    == <<dsp, cardState, msgQ>>

At(t, section) == todo[t] # <<>> /\ Head(todo[t]) = section
Goes(t, sections) == /\ todo' = [todo EXCEPT ![t] = sections]
                     /\ on' = IF sections = <<>> THEN [on EXCEPT ![t] = None] ELSE on
Then(t, more)  == Goes(t, more \o Tail(todo[t]))
Set(f, s, v)   == [f EXCEPT ![s] = v]
Tell(t, what)  == told' = IF t = Ssr \/ told[on[t]] = "closed" THEN told
                          ELSE Set(told, on[t], what)
Is(s, states)  == currentState[s] \in states
Less(n)        == IF n > 0 THEN n - 1 ELSE 0

(***************************************************************************)
(* What the session answers: the plugin says ENETRESET while the DSP is    *)
(* down, and a PCM that was open when it went down is of no use any more.  *)
(***************************************************************************)
Answer(s) == IF ~dsp THEN "reset" ELSE IF graph[s] = "dead" THEN "error" ELSE "ok"
Runs(s)   == dsp /\ graph[s] = "running"

\* if (rm->cardState != CARD_STATUS_OFFLINE) rm->ssrHandler(CARD_STATUS_OFFLINE);
Report == msgQ' = IF cardState = "offline" \/ Len(msgQ) = MaxQueue
                  THEN msgQ ELSE Append(msgQ, "offline")

(***************************************************************************)
(* open().  A client whose open() fails deletes the stream; the restart    *)
(* thread goes to the end of its handler.                                  *)
(***************************************************************************)
Abandon(t) == Goes(t, IF t = Ssr THEN <<"upExit">> ELSE <<"delete">>)

OpenSession(t) ==
  LET s == on[t] IN
  /\ At(t, "open") /\ cardState # "offline" /\ Is(s, {"IDLE"})
  /\ \/ /\ frontEnd' = frontEnd \cup {s}
        /\ deviceCount' = deviceCount + 1
        /\ currentState' = Set(currentState, s, "INIT")
        /\ Then(t, <<>>)
     \/ /\ ~dsp
        /\ Abandon(t)
        /\ UNCHANGED <<frontEnd, deviceCount, currentState>>
  /\ UNCHANGED <<cachedState, isPaused, graph, deviceStartStopCount, active_devices,
                 card, activeMutex, told>>

OpenSkipped(t) ==
  /\ At(t, "open")
  /\ cardState = "offline" \/ ~Is(on[t], {"IDLE"})
  /\ IF cardState # "offline" /\ Is(on[t], {"INIT"}) THEN Then(t, <<>>) ELSE Abandon(t)
  /\ UNCHANGED <<stream, session, device, card, activeMutex, told>>

(***************************************************************************)
(* start().  The session of an output is started in the first section, the *)
(* session of an input in the second.                                      *)
(***************************************************************************)
StartFails(t) == Goes(t, IF t = Ssr THEN <<"relock", "upExit">> ELSE <<>>)

StartOffline(t) ==
  /\ At(t, "start") /\ cardState = "offline"
  /\ cachedState' = Set(cachedState, on[t], "STARTED")
  /\ Then(t, <<>>)
  /\ Tell(t, "started")
  /\ UNCHANGED <<currentState, isPaused, session, device, card, activeMutex>>

StartInput(t) ==
  /\ At(t, "start") /\ cardState # "offline"
  /\ on[t] \in Input /\ Is(on[t], {"INIT", "STOPPED"})
  /\ deviceStartStopCount' = deviceStartStopCount + 1
  /\ Then(t, <<"started">>)
  /\ UNCHANGED <<stream, session, deviceCount, active_devices, card, activeMutex, told>>

StartOutput(t) ==
  LET s == on[t] IN
  /\ At(t, "start") /\ cardState # "offline"
  /\ s \notin Input /\ Is(s, {"INIT", "STOPPED"})
  /\ \/ /\ Answer(s) = "ok"
        /\ deviceStartStopCount' = deviceStartStopCount + 1
        /\ graph' = Set(graph, s, "running")
        /\ currentState' = Set(currentState, s, "STARTED")
        /\ Then(t, <<"started">>)
        /\ Tell(t, "started")
        /\ UNCHANGED <<cachedState, msgQ>>
     \/ /\ Answer(s) = "reset"
        /\ cachedState' = Set(cachedState, s, "STARTED")
        /\ Report
        /\ Then(t, <<>>)
        /\ Tell(t, "started")
        /\ UNCHANGED <<currentState, graph, deviceStartStopCount>>
     \/ /\ Answer(s) = "error"
        /\ StartFails(t)
        /\ UNCHANGED <<currentState, cachedState, graph, deviceStartStopCount, msgQ, told>>
  /\ UNCHANGED <<isPaused, frontEnd, deviceCount, active_devices, dsp, cardState, activeMutex>>

StartSkipped(t) ==
  /\ At(t, "start") /\ cardState # "offline"
  /\ \/ Is(on[t], {"STARTED"}) /\ Then(t, <<>>) /\ Tell(t, "started")
     \/ Is(on[t], {"IDLE", "PAUSED"}) /\ StartFails(t) /\ UNCHANGED told
  /\ UNCHANGED <<stream, session, device, card, activeMutex>>

\* Seeded fault: the stream is not registered for its device.
RegisterNothing(t) ==
  /\ At(t, "started") /\ on[t] \notin Input /\ activeMutex = None
  /\ Then(t, <<>>)
  /\ UNCHANGED <<stream, session, device, card, activeMutex, told>>

RegisterOutput(t) ==
  /\ At(t, "started") /\ on[t] \notin Input /\ activeMutex = None
  /\ active_devices' = active_devices \cup {on[t]}
  /\ Then(t, <<>>)
  /\ UNCHANGED <<stream, session, deviceCount, deviceStartStopCount, card, activeMutex, told>>

RegisterInput(t) ==
  LET s == on[t] IN
  /\ At(t, "started") /\ s \in Input /\ activeMutex = None
  /\ \/ /\ Answer(s) = "ok"
        /\ graph' = Set(graph, s, "running")
        /\ currentState' = Set(currentState, s, "STARTED")
        /\ active_devices' = active_devices \cup {s}
        /\ Then(t, <<>>)
        /\ Tell(t, "started")
        /\ UNCHANGED <<cachedState, deviceStartStopCount, msgQ>>
     \/ /\ Answer(s) = "reset"
        /\ cachedState' = Set(cachedState, s, "STARTED")
        /\ Report
        /\ deviceStartStopCount' = Less(deviceStartStopCount)
        /\ Then(t, <<>>)
        /\ Tell(t, "started")
        /\ UNCHANGED <<currentState, graph, active_devices>>
     \/ /\ Answer(s) = "error"
        /\ deviceStartStopCount' = Less(deviceStartStopCount)
        /\ StartFails(t)
        /\ UNCHANGED <<currentState, cachedState, graph, active_devices, msgQ, told>>
  /\ UNCHANGED <<isPaused, frontEnd, deviceCount, dsp, cardState, activeMutex>>

(***************************************************************************)
(* stop().                                                                 *)
(***************************************************************************)
Stop(t) ==
  /\ At(t, "stop")
  /\ IF Is(on[t], {"STARTED", "PAUSED"}) THEN Then(t, <<"stopped">>) ELSE Then(t, <<>>)
  /\ Tell(t, "open")
  /\ UNCHANGED <<stream, session, device, card, activeMutex>>

\* Seeded fault: the device keeps running.
StopSessionOnly(t) ==
  LET s == on[t] IN
  /\ At(t, "stopped") /\ activeMutex = None
  /\ currentState' = Set(currentState, s, "STOPPED")
  /\ active_devices' = active_devices \ {s}
  /\ graph' = IF graph[s] = "running" THEN Set(graph, s, "opened") ELSE graph
  /\ Then(t, <<>>)
  /\ UNCHANGED <<cachedState, isPaused, frontEnd, deviceCount, deviceStartStopCount, card,
                 activeMutex, told>>

Stopped(t) ==
  LET s == on[t] IN
  /\ At(t, "stopped") /\ activeMutex = None
  /\ currentState' = Set(currentState, s, "STOPPED")
  /\ active_devices' = active_devices \ {s}
  /\ graph' = IF graph[s] = "running" THEN Set(graph, s, "opened") ELSE graph
  /\ deviceStartStopCount' = Less(deviceStartStopCount)
  /\ Then(t, <<>>)
  /\ UNCHANGED <<cachedState, isPaused, frontEnd, deviceCount, card, activeMutex, told>>

(***************************************************************************)
(* close().  A stream that plays is stopped first, with its mutex given up *)
(* around that.                                                            *)
(***************************************************************************)
\* Seeded fault: the front end is not given back.
KeepFrontEnd(s) ==
  /\ UNCHANGED frontEnd
  /\ graph' = IF s \in frontEnd THEN Set(graph, s, "none") ELSE graph
  /\ deviceCount' = Less(deviceCount)
  /\ deviceStartStopCount' = IF deviceCount = 1 THEN 0 ELSE deviceStartStopCount
  /\ currentState' = Set(currentState, s, "IDLE")

CloseSession(s) ==
  /\ frontEnd' = frontEnd \ {s}
  /\ graph' = IF s \in frontEnd THEN Set(graph, s, "none") ELSE graph
  /\ deviceCount' = Less(deviceCount)
  /\ deviceStartStopCount' = IF deviceCount = 1 THEN 0 ELSE deviceStartStopCount
  /\ currentState' = Set(currentState, s, "IDLE")

CloseSkipped(t) ==
  /\ At(t, "close")
  /\ \/ Is(on[t], {"IDLE"}) /\ Then(t, <<>>)
     \/ Is(on[t], {"STARTED", "PAUSED"}) /\ Then(t, <<"stop", "closed">>)
  /\ UNCHANGED <<stream, session, device, card, activeMutex, told>>

Close(t) ==
  /\ \/ At(t, "closed")
     \/ At(t, "close") /\ Is(on[t], {"INIT", "STOPPED"})
  /\ CloseSession(on[t])
  /\ Then(t, <<>>)
  /\ UNCHANGED <<cachedState, isPaused, active_devices, card, activeMutex, told>>

\* setCachedState(STREAM_IDLE)
Uncache(t) ==
  /\ At(t, "uncache")
  /\ cachedState' = Set(cachedState, on[t], "IDLE")
  /\ Then(t, <<>>)
  /\ UNCHANGED <<currentState, isPaused, session, device, card, activeMutex, told>>

(***************************************************************************)
(* pause() and resume().  A stream is paused whatever its state was; it is *)
(* in STREAM_STARTED again only after the first write that follows         *)
(* resume().                                                               *)
(***************************************************************************)
Pause(t) ==
  LET s == on[t]
      offline == cardState = "offline"
  IN  /\ At(t, "pause")
      /\ offline \/ isPaused[s] \/ Runs(s)
      /\ cachedState' = IF offline THEN Set(cachedState, s, "PAUSED") ELSE cachedState
      /\ isPaused' = Set(isPaused, s, TRUE)
      /\ currentState' = Set(currentState, s, "PAUSED")
      /\ Then(t, <<>>)
      /\ Tell(t, "paused")
      /\ UNCHANGED <<session, device, card, activeMutex>>

PauseFails(t) ==
  /\ At(t, "pause")
  /\ ~(cardState = "offline" \/ isPaused[on[t]] \/ Runs(on[t]))
  /\ Then(t, <<>>)
  /\ UNCHANGED <<stream, session, device, card, activeMutex, told>>

Resume(t) ==
  LET s == on[t]
      offline == cardState = "offline"
  IN  /\ At(t, "resume")
      /\ offline \/ Runs(s)
      /\ cachedState' = IF offline THEN Set(cachedState, s, "STARTED") ELSE cachedState
      /\ isPaused' = Set(isPaused, s, isPaused[s] /\ offline)
      /\ Then(t, <<>>)
      /\ Tell(t, "started")
      /\ UNCHANGED <<currentState, session, device, card, activeMutex>>

ResumeFails(t) ==
  /\ At(t, "resume")
  /\ cardState # "offline" /\ ~Runs(on[t])
  /\ Then(t, <<>>)
  /\ UNCHANGED <<stream, session, device, card, activeMutex, told>>

(***************************************************************************)
(* write(), and read() of an input.  Data for a card that is off, or for a *)
(* stream that waits for it, is dropped.                                   *)
(***************************************************************************)
Write(t) ==
  LET s == on[t]
      passes == /\ cardState # "offline" /\ cachedState[s] = "IDLE"
                /\ Is(s, IF s \in Input THEN {"STARTED"} ELSE {"STARTED", "PAUSED"})
      resumed == passes /\ Runs(s) /\ Is(s, {"PAUSED"}) /\ ~isPaused[s]
  IN  /\ At(t, "write")
      /\ Then(t, IF resumed THEN <<"rewrite", "written">> ELSE <<>>)
      /\ IF passes /\ ~dsp THEN Report ELSE UNCHANGED msgQ
      /\ UNCHANGED <<stream, session, device, dsp, cardState, activeMutex, told>>

Rewrite(t) ==
  /\ At(t, "rewrite") /\ activeMutex = None
  /\ active_devices' = active_devices \cup {on[t]}
  /\ Then(t, <<>>)
  /\ UNCHANGED <<stream, session, deviceCount, deviceStartStopCount, card, activeMutex, told>>

\* currentState = STREAM_STARTED, after both mutexes were given up.
Written(t) ==
  /\ At(t, "written")
  /\ currentState' = Set(currentState, on[t], "STARTED")
  /\ Then(t, <<>>)
  /\ UNCHANGED <<cachedState, isPaused, session, device, card, activeMutex, told>>

(***************************************************************************)
(* ssrDownHandler() and ssrUpHandler(), called with mActiveStreamMutex     *)
(* held, which they give up around stop() and start().                     *)
(***************************************************************************)
\* Seeded fault: the list's mutex is kept while the stream is stopped.
DownKeepsMutex(t) ==
  LET s == on[t] IN
  /\ At(t, "down")
  /\ cachedState' = IF cachedState[s] = "IDLE" THEN Set(cachedState, s, currentState[s]) ELSE cachedState
  /\ Then(t, IF Is(s, {"IDLE"}) THEN <<"downExit">> ELSE <<"close", "downExit">>)
  /\ UNCHANGED <<currentState, isPaused, session, device, card, activeMutex, told>>

\* Seeded fault: what the client asked for while the card was off is lost.
DownRecaches(t) ==
  LET s == on[t] IN
  /\ At(t, "down")
  /\ cachedState' = Set(cachedState, s, currentState[s])
  /\ \/ Is(s, {"INIT", "STOPPED"}) /\ Then(t, <<"close", "downExit">>) /\ UNCHANGED activeMutex
     \/ Is(s, {"STARTED", "PAUSED"}) /\ Then(t, <<"stop", "relock", "close", "downExit">>)
        /\ activeMutex' = None
     \/ Is(s, {"IDLE"}) /\ Then(t, <<"downExit">>) /\ UNCHANGED activeMutex
  /\ UNCHANGED <<currentState, isPaused, session, device, card, told>>

Down(t) ==
  LET s == on[t] IN
  /\ At(t, "down")
  /\ cachedState' = IF cachedState[s] = "IDLE" THEN Set(cachedState, s, currentState[s]) ELSE cachedState
  /\ \/ Is(s, {"INIT", "STOPPED"}) /\ Then(t, <<"close", "downExit">>) /\ UNCHANGED activeMutex
     \/ Is(s, {"STARTED", "PAUSED"}) /\ Then(t, <<"stop", "relock", "close", "downExit">>)
        /\ activeMutex' = None
     \/ Is(s, {"IDLE"}) /\ Then(t, <<"downExit">>) /\ UNCHANGED activeMutex
  /\ UNCHANGED <<currentState, isPaused, session, device, card, told>>

DownExit(t) ==
  /\ At(t, "downExit")
  /\ currentState' = Set(currentState, on[t], "IDLE")
  /\ Then(t, <<>>)
  /\ UNCHANGED <<cachedState, isPaused, session, device, card, activeMutex, told>>

Up(t) ==
  LET c == cachedState[on[t]] IN
  /\ At(t, "up")
  /\ \/ c \in {"IDLE", "STOPPED"} /\ Then(t, <<"upExit">>)
     \/ c = "INIT" /\ Then(t, <<"open", "upExit">>)
     \/ c = "STARTED" /\ Then(t, <<"open", "unlock", "start", "relock", "upExit">>)
     \/ c = "PAUSED" /\ Then(t, <<"open", "unlock", "start", "relock", "repause", "upExit">>)
  /\ UNCHANGED <<stream, session, device, card, activeMutex, told>>

Repause(t) ==
  /\ At(t, "repause")
  /\ Then(t, IF Is(on[t], {"STARTED"}) THEN <<"pause">> ELSE <<>>)
  /\ UNCHANGED <<stream, session, device, card, activeMutex, told>>

UpExit(t) ==
  /\ At(t, "upExit")
  /\ cachedState' = Set(cachedState, on[t], "IDLE")
  /\ Then(t, <<>>)
  /\ UNCHANGED <<currentState, isPaused, session, device, card, activeMutex, told>>

Unlock(t) ==
  /\ At(t, "unlock")
  /\ activeMutex' = None
  /\ Then(t, <<>>)
  /\ UNCHANGED <<stream, session, device, card, told>>

Relock(t) ==
  /\ At(t, "relock") /\ activeMutex = None
  /\ activeMutex' = t
  /\ Then(t, <<>>)
  /\ UNCHANGED <<stream, session, device, card, told>>

(* A section of one of the calls, run by thread t. *)
Section(t) ==
  \/ OpenSession(t) \/ OpenSkipped(t)
  \/ StartOffline(t) \/ StartInput(t) \/ StartOutput(t) \/ StartSkipped(t)
  \/ RegisterOutput(t) \/ RegisterInput(t)
  \/ Stop(t) \/ Stopped(t)
  \/ CloseSkipped(t) \/ Close(t) \/ Uncache(t)
  \/ Pause(t) \/ PauseFails(t) \/ Resume(t) \/ ResumeFails(t)
  \/ Write(t) \/ Rewrite(t) \/ Written(t)
  \/ Down(t) \/ DownExit(t) \/ Up(t) \/ Repause(t) \/ UpExit(t)
  \/ Unlock(t) \/ Relock(t)

InitPCM ==
  /\ currentState = [s \in Streams |-> "IDLE"]
  /\ cachedState = [s \in Streams |-> "IDLE"]
  /\ isPaused = [s \in Streams |-> FALSE]
  /\ frontEnd = {}
  /\ graph = [s \in Streams |-> "none"]
  /\ deviceCount = 0 /\ deviceStartStopCount = 0
  /\ active_devices = {}
  /\ dsp = TRUE
  /\ cardState = "online" /\ msgQ = <<>>
  /\ activeMutex = None
  /\ todo = [t \in Threads |-> <<>>]
  /\ on = [t \in Threads |-> None]
  /\ told = [s \in Streams |-> "none"]
==============================================================================
