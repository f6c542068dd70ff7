------------------------------ MODULE SoundCard ------------------------------
(***************************************************************************)
(* Restarts of the DSP while clients use PCM streams.  The sound card      *)
(* monitor, and every call that gets ENETRESET, put messages on msgQ; one  *)
(* thread (ssrHandlingLoop) takes them and walks the registered streams,   *)
(* closing them when the card goes off and bringing them back when it is   *)
(* on again.  Clients keep calling meanwhile.                              *)
(***************************************************************************)
EXTENDS StreamPCM

CONSTANTS
  MaxRestarts,  \* bound: how often the DSP goes down
  Overlap,      \* the calls that may be in progress during a walk, "dsp" for
                \* the DSP going down during one
  Reentrant,    \* may two clients be in calls on one stream at the same time?
  PauseIdle     \* may a client pause a stream that a restart has closed?

Calls == {"open", "start", "stop", "close", "pause", "resume", "write"}

ASSUME BoundsAssumption == MaxRestarts \in Nat
ASSUME SwitchesAssumption == /\ Overlap \subseteq Calls \cup {"dsp"}
                             /\ Reentrant \in BOOLEAN /\ PauseIdle \in BOOLEAN

VARIABLES
  listed, counted, \* the registered streams, and those whose users are counted
  prevState,       \* of ssrHandlingLoop
  pending,         \* the registered streams its walk has not visited
  heard,           \* is the DSP up, according to the monitor's last message?
  restarts,
  overlapping      \* the clients in a call that may overlap a walk

walk == <<prevState, pending>>
env  == <<heard, restarts>>
pcm  == <<stream, session, device, card, activeMutex, todo, on, told>>
vars == <<pcm, listed, counted, walk, env, overlapping>>

Rests    == pending = {} /\ todo[Ssr] = <<>> /\ activeMutex # Ssr
Settled  == Rests /\ msgQ = <<>>
Inside(s) == {t \in Clients : todo[t] # <<>> /\ on[t] = s}

(***************************************************************************)
(* The clients.  They call in an order the API allows; what they may       *)
(* assume is what the last call told them.                                 *)
(***************************************************************************)
Program(c) ==
  CASE c = "open"  -> <<"open", "count">>
    [] c = "close" -> <<"uncache", "close", "deactivate", "delete">>
    [] OTHER       -> <<c>>

Legal(c, s) ==
  CASE c = "open"   -> s \notin listed
    [] c = "start"  -> told[s] = "open"
    [] c = "stop"   -> told[s] \in {"started", "paused"}
    [] c = "close"  -> told[s] \in {"open", "started", "paused"}
    [] c = "pause"  -> told[s] = "started" /\ (PauseIdle \/ Is(s, {"STARTED"}))
    [] c = "resume" -> told[s] = "paused"
    [] c = "write"  -> told[s] = "started"

Call(t, c, s) ==
  /\ todo[t] = <<>>
  /\ Legal(c, s)
  /\ Reentrant \/ Inside(s) = {}
  /\ c \in Overlap \/ Settled
  /\ c = "open" => activeMutex = None
  /\ todo' = [todo EXCEPT ![t] = Program(c)]
  /\ on' = [on EXCEPT ![t] = s]
  /\ overlapping' = IF c \in Overlap THEN overlapping \cup {t} ELSE overlapping
  /\ listed' = IF c = "open" THEN listed \cup {s} ELSE listed
  /\ pending' = IF c = "open" /\ pending # {} THEN pending \cup {s} ELSE pending
  /\ told' = IF c = "close" THEN Set(told, s, "closed") ELSE told
  /\ UNCHANGED <<stream, session, device, card, activeMutex, counted, prevState, env>>

\* Seeded fault: the stream's users are never counted.
CountNothing(t) ==
  /\ At(t, "count")
  /\ Then(t, <<>>)
  /\ Tell(t, "open")
  /\ UNCHANGED <<stream, session, device, card, activeMutex, listed, counted, walk, env>>

\* initStreamUserCounter()
Count(t) ==
  /\ At(t, "count")
  /\ counted' = counted \cup {on[t]}
  /\ Then(t, <<>>)
  /\ Tell(t, "open")
  /\ UNCHANGED <<stream, session, device, card, activeMutex, listed, walk, env>>

\* deactivateStreamUserCounter()
Deactivate(t) ==
  /\ At(t, "deactivate")
  /\ counted' = counted \ {on[t]}
  /\ Then(t, <<>>)
  /\ UNCHANGED <<stream, session, device, card, activeMutex, told, listed, walk, env>>

\* Seeded fault: the walk's iterator may stand on the deleted stream.
DeleteUnseen(t) ==
  LET s == on[t] IN
  /\ At(t, "delete") /\ activeMutex = None
  /\ \A u \in Threads \ {t} : todo[u] = <<>> \/ on[u] # s
  /\ listed' = listed \ {s}
  /\ counted' = counted \ {s}
  /\ currentState' = Set(currentState, s, "IDLE")
  /\ cachedState' = Set(cachedState, s, "IDLE")
  /\ isPaused' = Set(isPaused, s, FALSE)
  /\ told' = Set(told, s, "none")
  /\ Then(t, <<>>)
  /\ UNCHANGED <<session, device, card, activeMutex, walk, env>>

(***************************************************************************)
(* The end of pal_stream_close(), and of a pal_stream_open() that failed:  *)
(* the users of the stream are waited for and the stream is deleted.  The  *)
(* destructor takes it off mActiveStreams and nothing else; the next       *)
(* stream of that name is a new object.                                    *)
(***************************************************************************)
Delete(t) ==
  LET s == on[t] IN
  /\ At(t, "delete") /\ activeMutex = None
  /\ \A u \in Threads \ {t} : todo[u] = <<>> \/ on[u] # s
  /\ listed' = listed \ {s}
  /\ counted' = counted \ {s}
  /\ pending' = pending \ {s}
  /\ currentState' = Set(currentState, s, "IDLE")
  /\ cachedState' = Set(cachedState, s, "IDLE")
  /\ isPaused' = Set(isPaused, s, FALSE)
  /\ told' = Set(told, s, "none")
  /\ Then(t, <<>>)
  /\ UNCHANGED <<session, device, card, activeMutex, prevState, env>>

(***************************************************************************)
(* The restart thread.                                                     *)
(***************************************************************************)
Undisturbed == \A t \in Clients : todo[t] # <<>> => t \in overlapping

Take ==
  LET state == Head(msgQ) IN
  /\ msgQ # <<>> /\ Rests /\ activeMutex = None /\ Undisturbed
  /\ msgQ' = Tail(msgQ)
  /\ cardState' = state
  /\ \/ /\ listed = {}
        /\ prevState' = state
        /\ UNCHANGED <<activeMutex, pending, todo>>
     \/ /\ listed # {} /\ state = prevState
        /\ UNCHANGED <<activeMutex, pending, todo, prevState>>
     \/ /\ listed # {} /\ state # prevState
        /\ pending' = listed
        /\ activeMutex' = IF state = "offline" THEN Ssr ELSE None
        /\ todo' = IF state = "offline" THEN todo ELSE [todo EXCEPT ![Ssr] = <<"relock">>]
        /\ UNCHANGED prevState
  /\ UNCHANGED <<stream, session, device, dsp, on, told, listed, counted, env, overlapping>>

Visit(s) ==
  /\ s \in pending /\ todo[Ssr] = <<>> /\ activeMutex = Ssr
  /\ pending' = pending \ {s}
  /\ todo' = IF s \notin counted THEN todo
             ELSE [todo EXCEPT ![Ssr] = <<IF cardState = "offline" THEN "down" ELSE "up">>]
  /\ on' = IF s \in counted THEN [on EXCEPT ![Ssr] = s] ELSE on
  /\ UNCHANGED <<stream, session, device, card, activeMutex, told, listed, counted,
                 prevState, env, overlapping>>

EndWalk ==
  /\ pending = {} /\ todo[Ssr] = <<>> /\ activeMutex = Ssr
  /\ activeMutex' = None
  /\ prevState' = cardState
  /\ UNCHANGED <<stream, session, device, card, todo, on, told, listed, counted, pending, env, overlapping>>

(***************************************************************************)
(* The DSP and the monitor.  The DSP takes longer to come back than the    *)
(* monitor takes to notice that it is gone.                                *)
(***************************************************************************)
DspDown ==
  /\ dsp /\ heard /\ restarts < MaxRestarts
  /\ "dsp" \in Overlap \/ (Settled /\ prevState = "online")
  /\ dsp' = FALSE
  /\ graph' = [s \in Streams |-> IF graph[s] = "none" THEN "none" ELSE "dead"]
  /\ restarts' = restarts + 1
  /\ UNCHANGED <<stream, frontEnd, device, cardState, msgQ, activeMutex, todo, on, told,
                 listed, counted, walk, heard, overlapping>>

DspUp ==
  /\ ~dsp /\ ~heard
  /\ dsp' = TRUE
  /\ UNCHANGED <<stream, session, device, cardState, msgQ, activeMutex, todo, on, told,
                 listed, counted, walk, env, overlapping>>

Notice ==
  /\ heard # dsp
  /\ heard' = dsp
  /\ msgQ' = Append(msgQ, IF dsp THEN "online" ELSE "offline")
  /\ UNCHANGED <<stream, session, device, dsp, cardState, activeMutex, todo, on, told,
                 listed, counted, walk, restarts, overlapping>>

Run(t) == Section(t) /\ UNCHANGED <<listed, counted, walk, env>>
Client(t) == /\ Run(t) \/ Count(t) \/ Deactivate(t) \/ Delete(t)
             /\ overlapping' = {u \in overlapping : todo'[u] # <<>>}
Walk == (Run(Ssr) /\ UNCHANGED overlapping) \/ Take \/ EndWalk \/ \E s \in Streams : Visit(s)

Init ==
  /\ InitPCM
  /\ listed = {} /\ counted = {}
  /\ prevState = "online" /\ pending = {}
  /\ heard = TRUE /\ restarts = 0
  /\ overlapping = {}

Next ==
  \/ \E t \in Clients, c \in Calls, s \in Streams : Call(t, c, s)
  \/ \E t \in Clients : Client(t)
  \/ Walk
  \/ DspDown \/ DspUp \/ Notice

(***************************************************************************)
(* A call that was begun goes on, the restart thread runs, and the DSP is  *)
(* brought back.  Nobody is obliged to call.                               *)
(***************************************************************************)
Fairness == /\ \A t \in Clients : WF_vars(Client(t))
            /\ WF_vars(Walk)
            /\ WF_vars(DspUp) /\ WF_vars(Notice)

Spec == Init /\ [][Next]_vars /\ Fairness

------------------------------------------------------------------------------
(* Type invariant. *)
TypeOK ==
  /\ currentState \in [Streams -> {"IDLE", "INIT", "STARTED", "PAUSED", "STOPPED"}]
  /\ cachedState \in [Streams -> {"IDLE", "INIT", "STARTED", "PAUSED", "STOPPED"}]
  /\ isPaused \in [Streams -> BOOLEAN]
  /\ frontEnd \subseteq Streams /\ active_devices \subseteq Streams
  /\ graph \in [Streams -> {"none", "opened", "running", "dead"}]
  /\ deviceCount \in Nat /\ deviceStartStopCount \in Nat
  /\ cardState \in {"online", "offline"} /\ prevState \in {"online", "offline"}
  /\ activeMutex \in {Ssr, None}
  /\ pending \subseteq listed /\ counted \subseteq listed
  /\ on \in [Threads -> Streams \cup {None}]
  /\ overlapping \subseteq {t \in Clients : todo[t] # <<>>}
  /\ told \in [Streams -> {"none", "open", "started", "paused", "closed"}]

Quiet == Rests /\ activeMutex = None /\ \A t \in Clients : todo[t] = <<>>

(***************************************************************************)
(* The device is open once for every open stream and started once for      *)
(* every stream that plays; a count that is too low turns the device off   *)
(* under somebody else's stream, one that is too high never turns it off.  *)
(***************************************************************************)
CountsExact ==
  Quiet => /\ deviceCount = Cardinality({s \in Streams : ~Is(s, {"IDLE"})})
           /\ deviceStartStopCount = Cardinality({s \in Streams : Is(s, {"STARTED", "PAUSED"})})

(***************************************************************************)
(* Device switches act on the registered streams: those that play, and no  *)
(* stream that was deleted.                                                *)
(***************************************************************************)
RegisteredExact ==
  Quiet => active_devices = {s \in listed : Is(s, {"STARTED", "PAUSED"})}

(***************************************************************************)
(* A stream leaves nothing behind when it is deleted.                      *)
(***************************************************************************)
NothingLeft == \A s \in Streams \ listed : s \notin frontEnd /\ s \notin active_devices

(***************************************************************************)
(* When the restart is over, a stream that is in STREAM_STARTED has a      *)
(* graph that runs: none was overlooked.                                   *)
(***************************************************************************)
StartedRuns ==
  Quiet /\ Settled /\ dsp /\ heard => \A s \in Streams : Is(s, {"STARTED"}) => graph[s] = "running"

(***************************************************************************)
(* The restart thread never waits for mActiveStreamMutex while it holds    *)
(* it.  "Stream mutex is not taken before calling stream specific API in   *)
(* resource manager to avoid deadlock issues between stream and active     *)
(* stream mutex from ResourceManager" (~StreamPCM).                        *)
(***************************************************************************)
NeverWaitsForItself ==
  activeMutex = Ssr /\ todo[Ssr] # <<>> => Head(todo[Ssr]) \notin {"relock", "started", "stopped"}

(***************************************************************************)
(* A stream that is stopped stays so until its client starts it: "Stop the *)
(* stream" (PalApi.h), and a restart brings back what was there.           *)
(***************************************************************************)
StopIsKept == \A s \in Streams : Quiet /\ told[s] = "open" => ~Is(s, {"STARTED", "PAUSED"})

(***************************************************************************)
(* A stream whose client was told that it is started, or paused, is so in  *)
(* the end, also when the card was off at that time or goes off later:     *)
(* "hal shouldn't be informed of failure because we have cached the state  *)
(* and will start from STARTED state during SSR up Handling"               *)
(* (StreamPCM::start).                                                     *)
(***************************************************************************)
PlaysAgain ==
  \A s \in Streams : told[s] \in {"started", "paused"} ~>
     (told[s] \notin {"started", "paused"} \/ (Is(s, {"STARTED", "PAUSED"}) /\ graph[s] = "running"))
==============================================================================
