--------------------------- MODULE AcousticContext ---------------------------
(***************************************************************************)
(* Acoustic context detection: the streams' state machines, the engine all *)
(* of them share, its thread of detection events, each stream's thread     *)
(* that tells its client, the restart of the DSP, and the moves of all     *)
(* streams when the capture profile changes. One context and its model are *)
(* enough to tell the streams' thresholds apart. A stream's call runs      *)
(* under its mStreamMutex, the engine's operations under the engine's.     *)
(***************************************************************************)
EXTENDS Integers, FiniteSets, FiniteSetsExt

CONSTANTS
  Streams,
  Thresholds,   \* what a client may ask a context's confidence to be (all below 100)
  Hasty         \* may the calls come at any moment, and the DSP refuse one?

ContextAssumption == Thresholds \subseteq 1..99 /\ Hasty \in BOOLEAN

VARIABLES
  str,     \* of each stream: its state and what it keeps
  eng,     \* the engine
  dev,     \* the capture device: how often it is open, and started
  queue,   \* is there an event in the engine's queue?
  evt,     \* the streams the engine's thread has yet to tell
  moved,   \* the streams disconnected from the device, mStreamMutex held
  joining, \* have all been, and do they take the device again?
  down,    \* is the DSP down?
  joins    \* the stream whose call joins the engine's thread, and what it is about

vars == <<str, eng, dev, queue, evt, moved, joining, down, joins>>

Gone == [st |-> "GONE", restore |-> "NONE", paused |-> FALSE, hush |-> FALSE, opened |-> FALSE,
         on |-> FALSE, active |-> FALSE, ctx |-> FALSE, rec |-> 0, cached |-> FALSE,
         thread |-> "waits", defer |-> FALSE, asks |-> FALSE]

NoEngine == [state |-> "IDLE", open |-> FALSE, attached |-> {}, runs |-> FALSE, count |-> 0,
             info |-> [s \in Streams |-> 0], cum |-> 0, loaded |-> FALSE, thr |-> 0,
             apart |-> 0, wired |-> FALSE]

Init ==
  /\ str = [s \in Streams |-> Gone] /\ eng = NoEngine /\ dev = [open |-> 0, start |-> 0]
  /\ queue = FALSE /\ evt = {} /\ moved = {} /\ joining = FALSE /\ down = FALSE /\ joins = <<>>

World == [str |-> str, eng |-> eng, dev |-> dev]
Becomes(w) == str' = w.str /\ eng' = w.eng /\ dev' = w.dev
At(w, s) == w.str[s]
Put(w, s, x) == [w EXCEPT !.str[s] = x]
To(w, s, q) == [w EXCEPT !.str[s].st = q]

------------------------------------------------------------------------------
(* The device's counts.                                                    *)
Less(n) == IF n > 0 THEN n - 1 ELSE 0
DevOn(d)    == [open |-> d.open + 1, start |-> d.start + 1]
DevOff(d)   == [open |-> Less(d.open), start |-> Less(d.start)]
DevClosed(d) == [d EXCEPT !.open = Less(@)]

(***************************************************************************)
(* The engine. Its operations skip the session while other streams are     *)
(* attached; a changed model or threshold restarts it under them.          *)
(***************************************************************************)
Others(e, s) == e.attached \ {s} # {}
Lowest(info) == LET T == {info[s] : s \in Streams} \ {0} IN IF T = {} THEN 0 ELSE Min(T)
Lower(a, b)  == IF a = 0 \/ b < a THEN b ELSE a

StartEngine(e) == IF e.state = "ACTIVE" THEN e ELSE [e EXCEPT !.state = "ACTIVE", !.runs = TRUE]

StopEngine(e, s) ==
  IF Others(e, s) THEN e ELSE [e EXCEPT !.state = "LOADED", !.runs = FALSE]

HandleMultiStreamLoadUnload(e) ==
  [e EXCEPT !.loaded = (e.count > 0), !.thr = e.cum,
            !.runs = (e.state = "ACTIVE"), !.state = IF @ = "ACTIVE" THEN @ ELSE "LOADED"]

UpdateModelCount(e, n) == [e EXCEPT !.count = @ + n]

AddEventInfoForStream(e, s, t) ==
  IF t = 0 THEN e ELSE [e EXCEPT !.info[s] = t, !.cum = Lower(@, t)]

RemoveEventInfoForStream(e, s) ==
  LET info == [e.info EXCEPT ![s] = 0] IN [e EXCEPT !.info = info, !.cum = Lowest(info)]

(* A context that is new to the cumulative map takes its threshold from    *)
(* past the end of the client's array: any value.                          *)
UpdateEventInfoForStream(e, s, t) ==
  LET info == [e.info EXCEPT ![s] = t]
  IN IF t = 0 THEN {e}
     ELSE {[e EXCEPT !.info = info, !.cum = Lower(c, Lowest(info))] :
             c \in IF e.cum # 0 THEN {e.cum} ELSE Thresholds}

SetupEngine(e, s, t) ==
  LET f == AddEventInfoForStream(UpdateModelCount(e, 1), s, t)
      g == IF ~Others(e, s)
           THEN [f EXCEPT !.open = TRUE, !.thr = f.cum, !.loaded = (f.count = 1),
                          !.state = "LOADED", !.wired = TRUE]
           ELSE IF f.count = 1 \/ f.cum # e.cum THEN HandleMultiStreamLoadUnload(f) ELSE f
  IN {<<[g EXCEPT !.attached = @ \cup {s}], TRUE>>}
       \cup (IF Hasty THEN {<<f, FALSE>>} ELSE {})

ReconfigureEngine(e, s, t) ==
  {IF f.cum # e.cum THEN HandleMultiStreamLoadUnload(f) ELSE f :
     f \in UpdateEventInfoForStream(e, s, t)}

(* The last stream joins the thread between the two parts of this.         *)
Leaves(e, s, t) ==
  IF t = 0 THEN UpdateModelCount(e, -1) ELSE RemoveEventInfoForStream(UpdateModelCount(e, -1), s)

TeardownLast(e, s) ==
  [e EXCEPT !.open = FALSE, !.loaded = FALSE, !.thr = 0, !.state = "IDLE", !.wired = FALSE,
            !.runs = FALSE, !.attached = @ \ {s}]

TeardownEngine(e, s, t) ==
  LET f == Leaves(e, s, t)
      g == IF f.count = 0 \/ f.cum # e.cum THEN HandleMultiStreamLoadUnload(f) ELSE f
  IN [g EXCEPT !.attached = @ \ {s}]

(* The session leaves the device with the last of its streams and takes    *)
(* the new one with the last that comes back.                              *)
DisconnectSessionDevice(e) ==
  [e EXCEPT !.apart = @ + 1,
            !.wired = IF e.apart + 1 = Cardinality(e.attached) THEN FALSE ELSE @]

ConnectSessionDevice(e) ==
  [e EXCEPT !.apart = Less(@), !.wired = IF Less(e.apart) = 0 THEN TRUE ELSE @]

------------------------------------------------------------------------------
(***************************************************************************)
(* The pieces of the streams' state machines: each takes the world to the  *)
(* world after it, or to the set of those that may come of it.             *)
(***************************************************************************)
(* cv_.notify_one() is for a thread that waits.                            *)
NotifyOne(x) == IF x.thread = "waits" THEN [x EXCEPT !.thread = "due"] ELSE x
NotifyOrDefer(x) == IF x.thread = "calls" THEN [x EXCEPT !.defer = TRUE] ELSE NotifyOne(x)

(* ACDLoaded starts: with the state to restore it is DETECTED at once.     *)
Started(w, s) ==
  LET x == At(w, s)
      y == [x EXCEPT !.opened = TRUE, !.on = TRUE,
                     !.st = IF x.restore = "DETECTED" \/ x.cached THEN "DETECTED" ELSE "ACTIVE",
                     !.restore = IF @ = "DETECTED" THEN "NONE" ELSE @]
      z == IF x.restore # "DETECTED" /\ x.cached THEN NotifyOne(y) ELSE y
      d == IF x.opened THEN [w.dev EXCEPT !.start = @ + 1] ELSE DevOn(w.dev)
  IN IF x.paused THEN {<<w, TRUE>>}
     ELSE {<<[w EXCEPT !.str[s] = z, !.dev = d, !.eng = StartEngine(@)], TRUE>>, <<w, FALSE>>}
            \cup (IF Hasty
                  THEN {<<[w EXCEPT !.str[s].opened = TRUE,
                                    !.dev.open = IF x.opened THEN @ ELSE @ + 1], FALSE>>}
                  ELSE {})

(* ACDActive stops the engine and the device.                              *)
Stopped(w, s) ==
  [w EXCEPT !.eng = StopEngine(@, s), !.dev = DevOff(@),
            !.str[s].opened = FALSE, !.str[s].on = FALSE, !.str[s].st = "LOADED"]

(* The end of ACDActive's handler.                                         *)
Tail(w, s) ==
  IF At(w, s).restore = "DETECTED"
  THEN [w EXCEPT !.str[s].st = "DETECTED", !.str[s].restore = "NONE"] ELSE w

(* UNLOAD_SOUND_MODEL: what listens is stopped first.                      *)
Halted(w, s) ==
  LET x == At(w, s) IN
  IF x.st = "ACTIVE" \/ (x.st = "DETECTED" /\ ~x.paused) THEN Stopped(w, s) ELSE To(w, s, "LOADED")

Unload(w, s) ==
  LET h == Halted(w, s)
  IN [h EXCEPT !.eng = TeardownEngine(@, s, At(h, s).rec), !.str[s].st = "IDLE"]

Configured(w, s, t) ==
  LET v == [w EXCEPT !.str[s].ctx = TRUE, !.str[s].rec = IF t = 0 THEN @ ELSE t]
      r == At(v, s).rec
  IN IF At(w, s).st = "IDLE"
     THEN {<<[v EXCEPT !.eng = g[1], !.str[s].st = IF g[2] THEN "LOADED" ELSE @], g[2]>> :
             g \in SetupEngine(v.eng, s, r)}
     ELSE {<<[v EXCEPT !.eng = g], TRUE>> : g \in ReconfigureEngine(v.eng, s, r)}

------------------------------------------------------------------------------
(* The client and the resource manager call between the DSP's restarts,    *)
(* and never on a stream whose mutex is held.                              *)
Restarted == \A s \in Streams : str[s].st \in {"GONE"} \cup (IF down THEN {"SSR"} ELSE
                                  {"IDLE", "LOADED", "ACTIVE", "DETECTED"})
Joiner == IF joins = <<>> THEN {} ELSE {joins[1]}     \* holds its mutex meanwhile
Calm == moved = {} /\ (Hasty \/ joins = <<>>)
Free(s) == str[s].st # "GONE" /\ Calm /\ s \notin Joiner /\ (Hasty \/ Restarted)

(* The engine loses its only listener while another stream stays attached. *)
Deserts(s) == Others(eng, s) /\ \A o \in eng.attached \ {s} : ~str[o].on
LastOf(s) == s \in eng.attached /\ ~Others(eng, s)

(* A thread that tells the client of one detection is not told of another. *)
Deaf(s) == str[s].cached /\ str[s].thread = "calls"

Rest == <<queue, evt, moved, joining, down, joins>>

Open(s) ==
  /\ str[s].st = "GONE" /\ Calm
  /\ Hasty \/ ~down
  /\ \E p \in BOOLEAN : str' = [str EXCEPT ![s] = [Gone EXCEPT !.st = "IDLE", !.paused = p,
                                                               !.hush = p]]
  /\ UNCHANGED <<eng, dev, Rest>>

(* A recognition configuration names a threshold, a context list none (0). *)
Configure(s, t) ==
  /\ Free(s) /\ str[s].st # "SSR"
  /\ Hasty \/ (IF str[s].ctx THEN str[s].rec # 0 /\ t <= str[s].rec ELSE t # 0)
  /\ \E r \in Configured(World, s, t) :
       Becomes(IF str[s].st = "DETECTED" THEN To(r[1], s, "DETECTED")
               ELSE IF str[s].st = "ACTIVE" THEN Tail(r[1], s) ELSE r[1])
  /\ UNCHANGED Rest

ConfigureSSR(s, t) ==
  /\ Free(s) /\ str[s].st = "SSR" /\ t # 0
  /\ Hasty \/ str[s].restore # "IDLE"
  /\ str' = [str EXCEPT ![s].ctx = TRUE, ![s].rec = t]
  /\ UNCHANGED <<eng, dev, Rest>>

(* A start that succeeds makes the stream active for its client.           *)
Asked(w, s) == [w EXCEPT !.str[s].active = TRUE, !.str[s].asks = TRUE]

Start(s) ==
  /\ Free(s) /\ str[s].st \in {"IDLE", "LOADED", "ACTIVE"}
  /\ Hasty \/ (str[s].st # "IDLE" /\ ~Deaf(s))
  /\ IF str[s].st = "LOADED"
     THEN \E r \in Started(World, s) : Becomes(IF r[2] THEN Asked(r[1], s) ELSE r[1])
     ELSE Becomes(Asked(IF str[s].st = "ACTIVE" THEN Tail(World, s) ELSE World, s))
  /\ UNCHANGED Rest

StartDetected(s) ==
  /\ Free(s) /\ str[s].st = "DETECTED"
  /\ Hasty \/ ~str[s].paused
  /\ Becomes(Asked(IF str[s].cached THEN Put(World, s, NotifyOrDefer(str[s]))
                   ELSE To(World, s, "ACTIVE"), s))
  /\ UNCHANGED Rest

StartSSR(s) ==
  /\ Free(s) /\ str[s].st = "SSR" /\ str[s].restore \in {"LOADED", "DETECTED"} /\ str[s].rec # 0
  /\ Hasty \/ ~Deaf(s)
  /\ Becomes(Asked(IF str[s].restore = "DETECTED" /\ str[s].cached
                   THEN Put(World, s, NotifyOne(str[s]))
                   ELSE [World EXCEPT !.str[s].restore = "ACTIVE"], s))
  /\ UNCHANGED Rest

(* STOP_RECOGNITION is refused during a restart, whatever the state.       *)
Quiet(w, s) == [w EXCEPT !.str[s].active = FALSE, !.str[s].asks = FALSE]

Stop(s) ==
  /\ Free(s) /\ str[s].st # "SSR"
  /\ Hasty \/ ~Deserts(s)
  /\ Becomes(Quiet(CASE str[s].st \in {"IDLE", "LOADED"} -> World
                     [] str[s].st = "DETECTED" /\ str[s].paused -> To(World, s, "LOADED")
                     [] OTHER -> Tail(Stopped(World, s), s), s))
  /\ UNCHANGED Rest

(* close() and the deletion of the stream: its thread ends when it returns *)
(* from the client's callback, what was kept for the client is freed.      *)
Closable(s) ==
  /\ Free(s) /\ str[s].thread # "calls"
  /\ Hasty \/ (s \notin evt /\ ~Deserts(s) /\ str[s].thread = "waits")

Close(s) ==
  /\ Closable(s) /\ ~LastOf(s)
  /\ Becomes(Put(IF str[s].st \in {"IDLE", "SSR"} THEN World ELSE Unload(World, s), s, Gone))
  /\ UNCHANGED Rest

(* The last stream's call joins the engine's thread, its own mutex held:   *)
(* the thread ends when it has told all the streams it has to tell.        *)
CloseJoins(s) ==
  /\ Closable(s) /\ LastOf(s) /\ joins = <<>>
  /\ LET h == Halted(World, s) IN Becomes([h EXCEPT !.eng = Leaves(@, s, At(h, s).rec)])
  /\ joins' = <<s, "close">>
  /\ UNCHANGED <<queue, evt, moved, joining, down>>

Joined(s) ==
  /\ s \in Joiner /\ evt = {}
  /\ LET w == [World EXCEPT !.eng = TeardownLast(@, s)]
     IN Becomes(IF joins[2] = "close" THEN Put(w, s, Gone) ELSE To(w, s, "SSR"))
  /\ joins' = <<>>
  /\ UNCHANGED <<queue, evt, moved, joining, down>>

Pause(s) ==
  /\ Free(s) /\ ~str[s].hush
  /\ Hasty \/ (str[s].st # "SSR" /\ ~Deserts(s))
  /\ LET v == [World EXCEPT !.str[s].hush = TRUE]
         p == [v EXCEPT !.str[s].paused = TRUE]
     IN Becomes(CASE str[s].st = "SSR" -> v
                  [] str[s].st \in {"IDLE", "LOADED"} -> p
                  [] str[s].st = "ACTIVE" -> Tail(Stopped(p, s), s)
                  [] OTHER -> To([Stopped(p, s) EXCEPT !.str[s].restore = "NONE"], s, "DETECTED"))
  /\ UNCHANGED Rest

(* ACDLoaded::RESUME starts for a client that did not stop meanwhile.      *)
Resumed(w, s) == IF At(w, s).active THEN Started(w, s) ELSE {<<w, TRUE>>}

Resume(s) ==
  /\ Free(s) /\ str[s].hush
  /\ Hasty \/ (str[s].st # "SSR" /\ ~Deaf(s))
  /\ LET v == [World EXCEPT !.str[s].hush = FALSE]
         p == [v EXCEPT !.str[s].paused = FALSE]
         q == To([p EXCEPT !.str[s].restore = "DETECTED"], s, "LOADED")
         R == CASE str[s].st = "SSR" -> {<<v, TRUE>>}
                [] str[s].st = "IDLE" -> {<<p, TRUE>>}
                [] str[s].st = "LOADED" -> Resumed(p, s)
                [] str[s].st = "ACTIVE" ->
                     IF eng.state = "ACTIVE" THEN {<<p, TRUE>>} ELSE Resumed(To(p, s, "LOADED"), s)
                [] OTHER -> Resumed(q, s)
     IN \E r \in R :
          /\ Hasty \/ r[2]
          /\ Hasty \/ str[s].st = "DETECTED" => r[1].str[s].restore = "NONE"
          /\ Becomes(IF str[s].st = "ACTIVE" THEN Tail(r[1], s) ELSE r[1])
  /\ UNCHANGED Rest

------------------------------------------------------------------------------
(***************************************************************************)
(* A new capture profile: each stream the engine knows leaves the device,  *)
(* then each takes it again. Its mutex is held from one to the other.      *)
(***************************************************************************)
Movable == {s \in Streams : str[s].st \in {"LOADED", "ACTIVE", "DETECTED"}}
Parted(s) ==
  [World EXCEPT !.eng = DisconnectSessionDevice(@), !.str[s].opened = FALSE, !.str[s].on = FALSE,
                !.dev = IF str[s].st = "LOADED" THEN DevClosed(@) ELSE DevOff(@)]

DisconnectDevice(s) ==
  /\ s \in Movable \ moved /\ ~joining /\ joins = <<>>
  /\ \/ Hasty \/ moved # {}
     \/ Restarted /\ \A o \in Movable : str[o].on
  /\ Becomes(Parted(s)) /\ moved' = moved \cup {s} /\ joining' = (Movable \subseteq moved \cup {s})
  /\ UNCHANGED <<queue, evt, down, joins>>

(* A stream that is not started takes the session's device alone, unless   *)
(* its client thinks it started.                                           *)
ConnectDevice(s) ==
  /\ s \in moved /\ joining
  /\ LET takes == str[s].st # "LOADED" \/ str[s].active
     IN Becomes([World EXCEPT !.eng = ConnectSessionDevice(@), !.str[s].opened = takes,
                              !.str[s].on = takes, !.dev = IF takes THEN DevOn(@) ELSE @])
  /\ moved' = moved \ {s} /\ joining' = (moved # {s})
  /\ UNCHANGED <<queue, evt, down, joins>>

------------------------------------------------------------------------------
(***************************************************************************)
(* A detection: the DSP's event is queued, the engine's thread finds the   *)
(* streams it is for and tells them one after the other without its lock.  *)
(***************************************************************************)
HandleSessionCallBack ==
  /\ eng.runs /\ eng.state = "ACTIVE" /\ ~down /\ ~queue
  /\ queue' = TRUE
  /\ UNCHANGED <<str, eng, dev, evt, moved, joining, down, joins>>

ParseEventAndNotifyClient ==
  /\ queue /\ evt = {} /\ eng.attached # {} /\ joins = <<>>
  /\ queue' = FALSE
  /\ evt' = {s \in Streams : eng.info[s] # 0}
  /\ UNCHANGED <<str, eng, dev, moved, joining, down, joins>>

Caches(x) == [x EXCEPT !.cached = TRUE]

SetEngineDetectionData(s) ==
  /\ s \in evt /\ s \notin moved /\ s \notin Joiner
  /\ LET x == str[s] IN
     Becomes(CASE x.st \in {"GONE", "IDLE", "SSR"} -> World
               [] x.st = "ACTIVE" ->
                    Tail(To(Put(World, s, NotifyOrDefer(Caches(x))), s, "DETECTED"), s)
               [] OTHER -> Put(World, s, Caches(x)))
  /\ evt' = evt \ {s}
  /\ UNCHANGED <<queue, moved, joining, down, joins>>

(* SendCachedEventData(): the callback runs without the lock; what came    *)
(* meanwhile and was deferred is told at once.                             *)
SendCachedEventData(s) ==
  /\ str[s].thread = "due" /\ str[s].cached
  /\ str' = [str EXCEPT ![s].thread = "calls", ![s].cached = FALSE, ![s].asks = FALSE]
  /\ UNCHANGED <<eng, dev, Rest>>

CallbackReturns(s) ==
  /\ str[s].thread = "calls"
  /\ str' = [str EXCEPT ![s] =
               IF @.defer /\ @.cached
               THEN [@ EXCEPT !.defer = FALSE, !.cached = FALSE, !.asks = FALSE]
               ELSE [@ EXCEPT !.thread = "waits"]]
  /\ UNCHANGED <<eng, dev, Rest>>

------------------------------------------------------------------------------
(***************************************************************************)
(* The DSP's restart: each stream is unloaded and remembers its state,     *)
(* then loads and starts again.                                            *)
(***************************************************************************)
Dsp ==
  /\ Calm /\ Restarted
  /\ down' = ~down
  /\ UNCHANGED <<str, eng, dev, queue, evt, moved, joining, joins>>

Remembers(x) ==
  CASE x.st = "DETECTED" -> "DETECTED" [] x.restore = "NONE" -> x.st [] OTHER -> x.restore

ssrDownHandler(s) ==
  /\ down /\ str[s].st \in {"IDLE", "LOADED", "ACTIVE", "DETECTED"} /\ joins = <<>>
  /\ Hasty \/ ((str[s].paused => str[s].st # "DETECTED") /\ (s \in evt => ~LastOf(s)))
  /\ LET h == Halted(World, s)
         w == IF str[s].st = "IDLE" THEN World
              ELSE IF LastOf(s) THEN [h EXCEPT !.eng = Leaves(@, s, At(h, s).rec)]
              ELSE Unload(World, s)
     IN Becomes([w EXCEPT !.str[s].restore = Remembers(str[s]),
                          !.str[s].st = IF LastOf(s) THEN @ ELSE "SSR"])
  /\ joins' = IF LastOf(s) THEN <<s, "restart">> ELSE <<>>
  /\ UNCHANGED <<queue, evt, moved, joining, down>>

ssrUpHandler(s) ==
  /\ ~down /\ str[s].st = "SSR" /\ joins = <<>>
  /\ Hasty \/ ~Deaf(s)
  /\ LET x == str[s]
         v == To(World, s, "IDLE")
         L == IF x.restore # "IDLE" /\ x.ctx THEN Configured(v, s, x.rec) ELSE {<<v, TRUE>>}
         S == UNION {IF r[2] /\ x.restore \in {"ACTIVE", "DETECTED"}
                     THEN Started(r[1], s) ELSE {r} : r \in L}
     IN \E r \in S :
          /\ Hasty \/ r[2]
          /\ Becomes(IF ~r[2] THEN r[1]
                     ELSE [r[1] EXCEPT !.str[s].restore = "NONE",
                                       !.str[s].st = IF r[1].str[s].restore = "DETECTED"
                                                     THEN "DETECTED" ELSE @])
  /\ UNCHANGED Rest

Next ==
  \/ \E s \in Streams :
       \/ Open(s) \/ Start(s) \/ StartDetected(s) \/ StartSSR(s) \/ Stop(s)
       \/ Close(s) \/ CloseJoins(s) \/ Joined(s) \/ Pause(s) \/ Resume(s) \/ DisconnectDevice(s) \/ ConnectDevice(s)
       \/ SetEngineDetectionData(s) \/ SendCachedEventData(s) \/ CallbackReturns(s)
       \/ ssrDownHandler(s) \/ ssrUpHandler(s)
       \/ \E t \in Thresholds \cup {0} : Configure(s, t) \/ ConfigureSSR(s, t)
  \/ HandleSessionCallBack \/ ParseEventAndNotifyClient \/ Dsp

Spec == Init /\ [][Next]_vars

------------------------------------------------------------------------------
TypeOK ==
  /\ \A s \in Streams :
       /\ str[s].st \in {"GONE", "IDLE", "LOADED", "ACTIVE", "DETECTED", "SSR"}
       /\ str[s].restore \in {"NONE", "IDLE", "LOADED", "ACTIVE", "DETECTED"}
       /\ str[s].thread \in {"waits", "due", "calls"}
  /\ eng.attached \subseteq Streams /\ eng.count \in 0..Cardinality(Streams)
  /\ dev.open \in Nat /\ dev.start \in Nat
  /\ evt \subseteq Streams /\ moved \subseteq Streams

(* Between restarts and moves the shared capture device is open, and       *)
(* started, as often as there are streams that opened and started it.      *)
CountsExact ==
  /\ dev.open = Cardinality({s \in Streams : str[s].opened})
  /\ dev.start = Cardinality({s \in Streams : str[s].on})

(* The engine runs exactly while a stream listens, with the model while a  *)
(* stream is attached, at the lowest of the attached streams' thresholds.  *)
RoutesRight ==
  (Restarted /\ moved = {} /\ joins = <<>>) =>
    /\ eng.runs = (\E s \in Streams : str[s].on)
    /\ (eng.attached # {}) = (eng.open /\ eng.loaded /\ eng.wired)
    /\ eng.thr = Lowest([s \in Streams |-> IF s \in eng.attached THEN str[s].rec ELSE 0])

(* A stream the resource manager paused for a concurrent stream has not    *)
(* got the microphone.                                                     *)
PauseKept == \A s \in Streams : str[s].hush => ~str[s].on

(* The thread that tells a client has something to tell, a stream that     *)
(* listens has told all it has, and a client that asked (again) for a      *)
(* detection that is there already is being told.                          *)
CallbacksRight ==
  \A s \in Streams :
    /\ str[s].thread = "due" => str[s].cached
    /\ str[s].st = "ACTIVE" => ~str[s].cached
    /\ (str[s].asks /\ str[s].cached /\ str[s].st = "DETECTED" /\ str[s].on) =>
         (str[s].thread = "due" \/ str[s].defer)

(* The engine's thread tells no stream that is gone.                       *)
NoOrphan == \A s \in evt : str[s].st # "GONE"

(* No call waits for a thread that waits for the call's own mutex.         *)
NeverBlocks == Joiner \cap evt = {}
=============================================================================
