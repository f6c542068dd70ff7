------------------------------- MODULE A2dpRoute -------------------------------
(***************************************************************************)
(* Playback streams that are routed to a Bluetooth headset. The framework  *)
(* suspends and resumes the headset (a call takes the radio), and connects *)
(* and disconnects it, on one thread: BtA2dp and the ResourceManager move  *)
(* the streams to the speaker and back. On another thread the client       *)
(* opens, starts, pauses and routes its streams.                           *)
(***************************************************************************)
EXTENDS Naturals, Sequences, FiniteSets, FiniteSetsExt

CONSTANTS
  Streams,     \* the client's streams
  Offload,     \* those of them that are compressed or offloaded
  Pausing,     \* those the client pauses
  Hasty        \* may the framework and the client act in the middle of each other's calls?

A2dpAssumption == Offload \subseteq Streams /\ Pausing \subseteq Streams /\ Hasty \in BOOLEAN

Devices == {"speaker", "a2dp"}
Runs    == {"STARTED", "PAUSED"}

VARIABLES
  state, paused,   \* currentState, isPaused
  susp,            \* suspendedDevIds
  muted, held,     \* a2dpMuted, a2dpPaused
  silent,          \* is the stream's mute module on?
  route,           \* what a device switch changes: of each stream "devs" (mDevices); of each
                   \* device "opens" and "starts" (deviceCount, deviceStartStopCount); "reg",
                   \* active_devices; of the headset "bt" (a2dpState), "sessions"
                   \* (totalActiveSessionRequests), "playing", the Bluetooth stack's own stream
  suspended,       \* a2dp_suspended
  up,              \* does the Bluetooth stack have a link?
  asked, wait,     \* what the client asked for last: devices, and a pause
  job, list,       \* the framework's sections, the streams they are about
  call, plan       \* the client's sections, what they are about

stream == <<state, paused>>
marks  == <<susp, muted, held>>
client == <<asked, wait>>
btCall == <<job, list>>
vars == <<stream, marks, silent, route, suspended, up, client, btCall, call, plan>>

Nothing == [s |-> "none", D |-> {}, disc |-> {}, conn |-> {}, ready |-> FALSE, silence |-> FALSE]

Init ==
  /\ state = [s \in Streams |-> "IDLE"] /\ paused = [s \in Streams |-> FALSE]
  /\ susp = [s \in Streams |-> {}]
  /\ muted = [s \in Streams |-> FALSE] /\ held = [s \in Streams |-> FALSE]
  /\ silent = [s \in Streams |-> FALSE]
  /\ route = [devs |-> [s \in Streams |-> {}], opens |-> [d \in Devices |-> 0],
              starts |-> [d \in Devices |-> 0], reg |-> {},
              bt |-> "DISCONNECTED", sessions |-> 0, playing |-> FALSE]
  /\ suspended = FALSE /\ up = FALSE
  /\ asked = [s \in Streams |-> {}] /\ wait = [s \in Streams |-> FALSE]
  /\ job = <<>> /\ list = {} /\ call = <<>> /\ plan = Nothing

------------------------------------------------------------------------------
(* Steps of a route. *)
Put(f, S, v)  == [s \in Streams |-> IF s \in S THEN v ELSE f[s]]
On(s)         == state[s] # "IDLE"
Graph(s)      == state[s] \notin {"IDLE", "INIT"}   \* is the stream's graph open?
Less(n)       == IF n > 0 THEN n - 1 ELSE 0

Ready == ~suspended /\ route.bt # "DISCONNECTED" /\ up       \* BtA2dp::isDeviceReady()

(* BtA2dp::start(): the first session starts the Bluetooth stack. *)
CanStart(r, d) ==
  d = "a2dp" => ~suspended /\ (r.bt = "STARTED" \/ r.sessions > 0 \/ up)

StartDevice(r, d) ==
  IF d # "a2dp" THEN [r EXCEPT !.starts[d] = @ + 1]
  ELSE [r EXCEPT !.starts[d] = @ + 1, !.sessions = @ + 1,
                 !.bt = IF r.sessions = 0 THEN "STARTED" ELSE @,
                 !.playing = @ \/ (r.bt # "STARTED" /\ r.sessions = 0)]

(* BtA2dp::stop(): the last session stops it. *)
StopDevice(r, d) ==
  IF d # "a2dp" THEN [r EXCEPT !.starts[d] = Less(@)]
  ELSE LET last == r.bt = "STARTED" /\ Less(r.sessions) = 0
       IN [r EXCEPT !.starts[d] = Less(@), !.sessions = Less(@),
                    !.bt = IF last THEN "STOPPED" ELSE @, !.playing = @ /\ ~last]

OpenDevice(r, d)  == [r EXCEPT !.opens[d] = @ + 1]
CloseDevice(r, d) == [r EXCEPT !.opens[d] = Less(@), !.starts[d] = IF r.opens[d] <= 1 THEN 0 ELSE @]

(* Seeded fault: a stream that is not started leaves its device running. *)
LeavesRunning(r, s, d) ==
  IF d \notin r.devs[s] THEN r
  ELSE LET gone == [r EXCEPT !.devs[s] = @ \ {d}]
       IN IF ~On(s) THEN gone
          ELSE CloseDevice([(IF state[s] = "STARTED" THEN StopDevice(gone, d) ELSE gone)
                             EXCEPT !.reg = IF state[s] = "STOPPED" THEN @ ELSE @ \ {<<d, s>>}], d)

(* disconnectStreamDevice_l() *)
Disconnect(r, s, d) ==
  IF d \notin r.devs[s] THEN r
  ELSE LET gone == [r EXCEPT !.devs[s] = @ \ {d}]
       IN IF ~On(s) THEN gone
          ELSE CloseDevice([(IF state[s] \in Runs THEN StopDevice(gone, d) ELSE gone)
                             EXCEPT !.reg = IF state[s] = "STOPPED" THEN @ ELSE @ \ {<<d, s>>}], d)

(* connectStreamDevice_l(): a device that does not start is closed and     *)
(* dropped.                                                                *)
Connects(r, s, d) == d \in r.devs[s] \/ state[s] \notin Runs \/ CanStart(r, d)

Connect(r, s, d) ==
  IF d \in r.devs[s] \/ ~Connects(r, s, d) THEN r
  ELSE LET come == [r EXCEPT !.devs[s] = @ \cup {d}]
       IN IF ~On(s) THEN come
          ELSE LET open == OpenDevice(come, d)
                   run  == IF state[s] \in Runs THEN StartDevice(open, d) ELSE open
               IN [run EXCEPT !.reg = IF state[s] = "STOPPED" THEN @ ELSE @ \cup {<<d, s>>}]

(* streamDevSwitch(): all of the first list are disconnected, then all of  *)
(* the second connected, with every stream's mutex held. A headset that is *)
(* not ready is refused if it is the only device asked for. The status is  *)
(* that of the last connection made.                                       *)
Alive(L)   == {p \in L : On(p[1])}
Refused(L) == {p[2] : p \in Alive(L)} = {"a2dp"} /\ ~Ready

Parted(disc)         == FoldSet(LAMBDA p, r : Disconnect(r, p[1], p[2]), route, Alive(disc))
Switched(disc, conn) == IF Refused(conn) THEN route
                        ELSE FoldSet(LAMBDA p, r : Connect(r, p[1], p[2]), Parted(disc), Alive(conn))
Statuses(disc, conn) == IF Refused(conn) THEN {FALSE}
                        ELSE IF Alive(conn) = {} THEN {TRUE}
                        ELSE {Connects(Parted(disc), p[1], p[2]) : p \in Alive(conn)}

------------------------------------------------------------------------------
(* The framework's calls. *)
Section(q, name) == q # <<>> /\ Head(q) = name
Turn             == Hasty \/ call = <<>>

(* PAL_PARAM_ID_DEVICE_CONNECTION: closing the source forgets its sessions *)
Connection ==
  /\ job = <<>> /\ Turn
  /\ \/ /\ route.bt = "DISCONNECTED" /\ up
        /\ Hasty \/ \A s \in Streams : On(s) => "a2dp" \notin route.devs[s] \cup susp[s] \cup asked[s]
        /\ route' = [route EXCEPT !.bt = "CONNECTED"]
     \/ /\ route.bt # "DISCONNECTED" /\ ~up
        /\ route' = [route EXCEPT !.bt = "DISCONNECTED", !.sessions = 0, !.playing = FALSE]
  /\ UNCHANGED <<stream, marks, silent, suspended, up, client, btCall, call, plan>>

(* PAL_PARAM_ID_BT_A2DP_SUSPENDED, on and off: the flag is changed before  *)
(* any stream is.                                                          *)
Suspend ==
  /\ job = <<>> /\ Turn /\ ~suspended
  /\ Hasty \/ \A s \in Streams : state[s] # "INIT"
  /\ suspended' = TRUE
  /\ job' = IF route.bt = "DISCONNECTED" THEN <<>> ELSE <<"mark">>
  /\ UNCHANGED <<stream, marks, silent, route, up, client, list, call, plan>>

Resume ==
  /\ job = <<>> /\ Turn /\ suspended
  /\ Hasty \/ \A s \in Streams : state[s] # "INIT"
  /\ suspended' = FALSE
  /\ \/ /\ route.bt = "DISCONNECTED" \/ (route.sessions > 0 /\ ~up)
        /\ UNCHANGED <<route, job>>
     \/ /\ route.bt # "DISCONNECTED" /\ (route.sessions > 0 => up)
        /\ route' = [route EXCEPT !.playing = @ \/ route.sessions > 0]
        /\ job' = <<"collect">>
  /\ UNCHANGED <<stream, marks, silent, up, client, list, call, plan>>

(* a2dpSuspend(), under mActiveStreamMutex: streams that play on the       *)
(* headset alone are muted, and paused if they are offloaded.              *)
Mark ==
  /\ Section(job, "mark") /\ Turn
  /\ LET L     == {s \in Streams : On(s) /\ "a2dp" \in route.devs[s]}
         combo == {s \in L : "speaker" \in route.devs[s]}
         alone == {s \in L \ combo : ~muted[s]}
         pause == {s \in alone \cap Offload : ~paused[s] /\ Graph(s)}
     IN /\ list' = L
        /\ susp' = Put(Put(susp, combo, Devices), alone, {"a2dp"})
        /\ muted' = Put(muted, {s \in alone : Graph(s)}, TRUE)
        /\ silent' = Put(silent, {s \in alone : Graph(s)}, TRUE)
        /\ held' = Put(held, pause, TRUE)
        /\ paused' = Put(paused, pause, TRUE)
        /\ state' = Put(state, pause, "PAUSED")
        /\ job' = IF L = {} THEN <<"quiet">> ELSE <<"force", "unpause", "quiet">>
  /\ UNCHANGED <<route, suspended, up, client, call, plan>>

(* forceDeviceSwitch() to the speaker, after the DSP has drained. *)
Force ==
  /\ Section(job, "force") /\ Turn
  /\ route' = Switched({<<s, "a2dp">> : s \in list}, {<<s, "speaker">> : s \in list})
  /\ job' = Tail(job)
  /\ UNCHANGED <<stream, marks, silent, suspended, up, client, list, call, plan>>

Unpause ==
  /\ Section(job, "unpause") /\ Turn
  /\ LET back == {s \in list \cap Offload : held[s] /\ state[s] # "STARTED" /\ Graph(s)}
     IN held' = Put(held, back, FALSE) /\ paused' = Put(paused, back, FALSE)
  /\ job' = Tail(job)
  /\ UNCHANGED <<state, susp, muted, silent, route, suspended, up, client, list, call, plan>>

(* audio_source_suspend(): the Bluetooth stack stops. *)
StackSuspends ==
  /\ Section(job, "quiet") /\ Turn
  /\ route' = [route EXCEPT !.playing = FALSE]
  /\ job' = <<>> /\ list' = {}
  /\ UNCHANGED <<stream, marks, silent, suspended, up, client, call, plan>>

(* a2dpResume(), under mActiveStreamMutex: every stream that was moved     *)
(* away goes back; one that was on both devices keeps the speaker.         *)
Collect ==
  /\ Section(job, "collect") /\ Turn
  /\ list' = {s \in Streams : On(s) /\ "a2dp" \in susp[s]}
  /\ job' = IF list' = {} THEN <<>> ELSE <<"restore", "unmute">>
  /\ UNCHANGED <<stream, marks, silent, route, suspended, up, client, call, plan>>

Restore ==
  /\ Section(job, "restore") /\ Turn
  /\ LET disc == {p \in list \X Devices : p[2] \in route.devs[p[1]] /\ susp[p[1]] = {"a2dp"}}
         conn == {<<s, "a2dp">> : s \in list}
     IN /\ route' = Switched(disc, conn)
        /\ \E ok \in Statuses(disc, conn) :
             /\ job' = IF ok THEN Tail(job) ELSE <<>>
             /\ list' = IF ok THEN list ELSE {}
  /\ UNCHANGED <<stream, marks, silent, suspended, up, client, call, plan>>

(* Seeded fault: the streams of a combination stay marked. *)
UnmutesFew ==
  /\ Section(job, "unmute") /\ Turn
  /\ LET back == {s \in list : On(s) /\ "speaker" \notin susp[s]} \ Offload
     IN /\ susp' = Put(susp, back, {})
        /\ muted' = [s \in Streams |-> IF s \in back THEN ~Graph(s) ELSE muted[s]]
        /\ silent' = Put(silent, {s \in back : Graph(s)}, FALSE)
  /\ job' = <<>> /\ list' = {}
  /\ UNCHANGED <<stream, held, route, suspended, up, client, call, plan>>

(* The streams are heard again. *)
Unmute ==
  /\ Section(job, "unmute") /\ Turn
  /\ LET back == {s \in list : On(s)}
     IN /\ susp' = Put(susp, back, {})
        /\ muted' = [s \in Streams |-> IF s \in back THEN ~Graph(s) ELSE muted[s]]
        /\ silent' = Put(silent, {s \in back : Graph(s)}, FALSE)
  /\ job' = <<>> /\ list' = {}
  /\ UNCHANGED <<stream, held, route, suspended, up, client, call, plan>>

(* The headset comes into range and leaves it. *)
Link ==
  /\ job = <<>> /\ (Hasty \/ up \/ route.bt = "DISCONNECTED")
  /\ up' = ~up
  /\ UNCHANGED <<stream, marks, silent, route, suspended, client, btCall, call, plan>>

------------------------------------------------------------------------------
(* The client's calls. *)
May == call = <<>> /\ (Hasty \/ job = <<>>)

OpenStream(s, D) ==
  /\ May /\ ~On(s)
  /\ "a2dp" \in D => route.bt # "DISCONNECTED"
  /\ state' = [state EXCEPT ![s] = "INIT"] /\ paused' = [paused EXCEPT ![s] = FALSE]
  /\ susp' = [susp EXCEPT ![s] = {}]
  /\ muted' = [muted EXCEPT ![s] = FALSE] /\ held' = [held EXCEPT ![s] = FALSE]
  /\ silent' = [silent EXCEPT ![s] = FALSE]
  /\ route' = FoldSet(LAMBDA d, r : OpenDevice(r, d),
                       [route EXCEPT !.devs[s] = D, !.reg = @ \ (Devices \X {s})], D)
  /\ asked' = [asked EXCEPT ![s] = D] /\ wait' = [wait EXCEPT ![s] = FALSE]
  /\ UNCHANGED <<suspended, up, btCall, call, plan>>

(* start(), first handleBTDeviceNotReady(): a headset that is suspended is *)
(* left for the speaker, to be taken back by a2dpResume(). Devices that do *)
(* not start are dropped.                                                  *)
StartStream(s) ==
  /\ May /\ state[s] \in {"INIT", "STOPPED"}
  /\ Hasty \/ "a2dp" \notin route.devs[s] \/ route.bt # "DISCONNECTED"
  /\ LET D      == route.devs[s]
         leaves == suspended /\ "a2dp" \in D
         moved  == IF ~leaves THEN route
                   ELSE LET r == [CloseDevice(route, "a2dp") EXCEPT !.devs[s] = {"speaker"}]
                        IN IF "speaker" \in D THEN r ELSE OpenDevice(r, "speaker")
         works  == {d \in moved.devs[s] : CanStart(moved, d)}
         kept   == FoldSet(LAMBDA d, r : CloseDevice(r, d),
                           [moved EXCEPT !.devs[s] = works], moved.devs[s] \ works)
     IN /\ susp' = IF leaves THEN [susp EXCEPT ![s] = IF D = Devices THEN D ELSE {"a2dp"}] ELSE susp
        /\ \/ /\ works = {}
              /\ route' = kept
              /\ UNCHANGED <<state, call, plan>>
           \/ /\ works # {}
              /\ route' = FoldSet(LAMBDA d, r : StartDevice(r, d), kept, works)
              /\ state' = [state EXCEPT ![s] = "STARTED"]
              /\ call' = <<"register">>
              /\ plan' = [Nothing EXCEPT !.s = s, !.silence = leaves /\ D = {"a2dp"} /\ ~muted[s]]
        /\ LET mute == leaves /\ D = {"a2dp"} /\ ~muted[s]
           IN IF mute THEN muted' = [muted EXCEPT ![s] = TRUE] /\ silent' = [silent EXCEPT ![s] = TRUE]
              ELSE UNCHANGED <<muted, silent>>
  /\ UNCHANGED <<paused, held, suspended, up, client, btCall>>

(* The second half of start(), once mStreamMutex was given up. *)
Register ==
  /\ Section(call, "register")
  /\ route' = [route EXCEPT !.reg = @ \cup (route.devs[plan.s] \X {plan.s})]
  /\ call' = <<>> /\ plan' = Nothing
  /\ UNCHANGED <<stream, marks, silent, suspended, up, client, btCall>>

Ended(s) ==
  FoldSet(LAMBDA d, r : StopDevice(r, d),
          [route EXCEPT !.reg = @ \ (Devices \X {s})], route.devs[s])

StopStream(s) ==
  /\ May /\ state[s] \in Runs
  /\ state' = [state EXCEPT ![s] = "STOPPED"]
  /\ route' = Ended(s)
  /\ UNCHANGED <<paused, marks, silent, suspended, up, client, btCall, call, plan>>

(* close() and the destructor. *)
CloseStream(s) ==
  /\ May /\ On(s)
  /\ state' = [state EXCEPT ![s] = "IDLE"]
  /\ LET r == IF state[s] \in Runs THEN Ended(s) ELSE route
     IN route' = FoldSet(LAMBDA d, q : CloseDevice(q, d), [r EXCEPT !.devs[s] = {}], route.devs[s])
  /\ susp' = [susp EXCEPT ![s] = {}] /\ asked' = [asked EXCEPT ![s] = {}]
  /\ muted' = [muted EXCEPT ![s] = FALSE] /\ held' = [held EXCEPT ![s] = FALSE]
  /\ silent' = [silent EXCEPT ![s] = FALSE] /\ wait' = [wait EXCEPT ![s] = FALSE]
  /\ paused' = [paused EXCEPT ![s] = FALSE]
  /\ UNCHANGED <<suspended, up, btCall, call, plan>>

PauseStream(s) ==
  /\ May /\ s \in Pausing /\ state[s] \in Runs /\ ~wait[s]
  /\ state' = [state EXCEPT ![s] = "PAUSED"] /\ paused' = [paused EXCEPT ![s] = TRUE]
  /\ wait' = [wait EXCEPT ![s] = TRUE]
  /\ UNCHANGED <<marks, silent, route, suspended, up, asked, btCall, call, plan>>

ResumeStream(s) ==
  /\ May /\ state[s] = "PAUSED" /\ wait[s]
  /\ paused' = [paused EXCEPT ![s] = FALSE] /\ wait' = [wait EXCEPT ![s] = FALSE]
  /\ UNCHANGED <<state, marks, silent, route, suspended, up, asked, btCall, call, plan>>

(* write(): the first data after a resume. *)
WriteStream(s) ==
  /\ May /\ state[s] = "PAUSED" /\ ~paused[s]
  /\ route.devs[s] = {"a2dp"} => ~suspended
  /\ state' = [state EXCEPT ![s] = "STARTED"]
  /\ route' = [route EXCEPT !.reg = @ \cup (route.devs[s] \X {s})]
  /\ UNCHANGED <<paused, marks, silent, suspended, up, client, btCall, call, plan>>

(* switchDevice(), while it holds mActiveStreamMutex: which devices are    *)
(* ready, and what has to change.                                          *)
PlanSwitch(s, D) ==
  /\ May /\ On(s) /\ (Hasty \/ state[s] # "INIT")
  /\ LET ready == {d \in D : d = "a2dp" => Ready}
         waits == D \ ready # {} /\ "speaker" \notin D
     IN /\ susp' = IF waits THEN [susp EXCEPT ![s] = D \ ready] ELSE susp
        /\ \/ ready = {} /\ UNCHANGED <<call, plan>>
           \/ /\ ready # {}
              /\ call' = <<"switch", "done">>
              /\ plan' = [s |-> s, D |-> D, ready |-> "a2dp" \in ready, silence |-> FALSE,
                          disc |-> {s} \X (route.devs[s] \ D), conn |-> {s} \X ready]
  /\ asked' = [asked EXCEPT ![s] = D]
  /\ UNCHANGED <<stream, muted, held, silent, route, suspended, up, wait, btCall>>

DoSwitch ==
  /\ Section(call, "switch")
  /\ route' = Switched(plan.disc, plan.conn)
  /\ call' = Tail(call)
  /\ UNCHANGED <<stream, marks, silent, suspended, up, client, btCall, plan>>

(* The rest of switchDevice(), whatever the switch has come to. *)
EndSwitch ==
  /\ Section(call, "done")
  /\ LET s == plan.s
     IN /\ susp' = [susp EXCEPT ![s] = IF plan.D = Devices /\ ~plan.ready THEN Devices ELSE {}]
        /\ muted' = [muted EXCEPT ![s] = FALSE]
        /\ silent' = [silent EXCEPT ![s] = @ /\ ~muted[s]]
  /\ call' = <<>> /\ plan' = Nothing
  /\ UNCHANGED <<stream, held, route, suspended, up, client, btCall>>

Framework == Connection \/ Suspend \/ Resume \/ Mark \/ Force \/ Unpause \/ StackSuspends
                \/ Collect \/ Restore \/ Unmute

Client ==
  \/ \E s \in Streams, D \in SUBSET Devices \ {{}} : OpenStream(s, D) \/ PlanSwitch(s, D)
  \/ \E s \in Streams : StartStream(s) \/ StopStream(s) \/ CloseStream(s) \/ PauseStream(s)
                          \/ ResumeStream(s) \/ WriteStream(s)
  \/ Register \/ DoSwitch \/ EndSwitch

Next == Framework \/ Client \/ Link

Spec == Init /\ [][Next]_vars

------------------------------------------------------------------------------
TypeOK ==
  /\ state \in [Streams -> {"IDLE", "INIT", "STARTED", "PAUSED", "STOPPED"}]
  /\ susp \in [Streams -> SUBSET Devices]
  /\ route.devs \in [Streams -> SUBSET Devices]
  /\ route.bt \in {"DISCONNECTED", "CONNECTED", "STARTED", "STOPPED"}

Quiet == job = <<>> /\ call = <<>>

(***************************************************************************)
(* Between calls a device is open, and runs, once for every stream on it;  *)
(* the registered pairs are those of the streams that run; the headset's   *)
(* sessions are the streams that play on it, and its stack runs while      *)
(* there are any.                                                          *)
(***************************************************************************)
CountsExact ==
  Quiet =>
    /\ \A d \in Devices :
         /\ route.opens[d] = Cardinality({s \in Streams : On(s) /\ d \in route.devs[s]})
         /\ route.starts[d] = Cardinality({s \in Streams : state[s] \in Runs /\ d \in route.devs[s]})
    /\ \A s \in Streams : state[s] \in Runs => {d \in Devices : <<d, s>> \in route.reg} = route.devs[s]
    /\ route.bt # "DISCONNECTED" => route.sessions = route.starts["a2dp"]
    /\ route.bt # "DISCONNECTED" /\ up /\ ~suspended => (route.playing <=> route.sessions > 0)

(***************************************************************************)
(* When the headset is there and not suspended, every stream that plays is *)
(* heard, on the devices the client asked for.                             *)
(***************************************************************************)
RoutesRight ==
  Quiet /\ ~suspended /\ up /\ route.bt # "DISCONNECTED" =>
    \A s \in Streams : state[s] \in Runs => ~silent[s] /\ ("a2dp" \in asked[s] => "a2dp" \in route.devs[s])

(***************************************************************************)
(* A stream is paused when, and only when, its client has it so.           *)
(***************************************************************************)
PauseKept == Quiet => \A s \in Streams : state[s] \in Runs => (paused[s] <=> wait[s])
================================================================================
