------------------------------ MODULE PcmSession ------------------------------
(***************************************************************************)
(* The sessions of the PCM streams: the front ends they are lent, the      *)
(* mixer's graph of front ends and back ends with the back ends' metadata, *)
(* the PCM handles, the callbacks for the mixer's events, and what a       *)
(* started session votes for (the sleep monitor, the latency of the CPU).  *)
(* Mixer controls, payloads and key vectors are left out: they either      *)
(* exist or the call that needs them fails. A stream's steps hold the      *)
(* graph's mutex, which the keyword engines' sessions do not take.         *)
(***************************************************************************)
EXTENDS Integers, FiniteSets, FiniteSetsExt, Functions

CONSTANTS
  Plays, Records, Loops, Keywords,  \* playback, capture, loopback and VOICE_UI streams
  Lpm,                              \* the playbacks the CPU is kept awake for
  Outs, Ins,                        \* the devices of each direction, one back end each
  Ends,                             \* how many front ends each list has
  Hasty                             \* may steps part, drivers fail, streams restart?

SessionAssumption ==
  Lpm \subseteq Plays /\ Ends \in Nat \ {0} /\ Outs \cap Ins = {} /\ Hasty \in BOOLEAN

Streams == Plays \cup Records \cup Loops \cup Keywords
Devices == Outs \cup Ins
Lists   == {"playback", "record", "rxHostless", "txHostless"}
FrontEnds == Lists \X (1..Ends)

VARIABLES
  str,    \* of each stream: its state, its session's, and what the session keeps
  free,   \* the front ends no session was lent
  conn,   \* the mixer's graph: <<front end, back end>>
  meta,   \* the back ends that hold their device's metadata
  link,   \* the loopbacks: <<front end, front end>>
  map,    \* mixerEventCallbackMap
  regs,   \* mixerEventRegisterCount
  votes,  \* lpi_counter_ and nlpi_counter_
  kern,   \* what the sleep monitor was told last of each
  ioctls, \* what it is about to be told, mSleepMonitorMutex given up
  lpm,    \* pcmLpmRefCnt and the vote it stands for
  dev,    \* of each device: how often it is open, and started
  due     \* the stream whose callback the mixer's thread looked up
vars == <<str, free, conn, meta, link, map, regs, votes, kern, ioctls, lpm, dev, due>>

None == [st |-> "NONE", m |-> "IDLE", alloc |-> FALSE, fes |-> {}, be |-> {}, devs |-> {},
         open |-> {}, runs |-> {}, regd |-> FALSE, pause |-> FALSE, told |-> FALSE, wild |-> FALSE]

Init ==
  /\ str = [s \in Streams |-> None] /\ free = FrontEnds
  /\ conn = {} /\ meta = {} /\ link = {} /\ map = <<>> /\ regs = 0
  /\ votes = [lpi |-> 0, nlpi |-> 0] /\ kern = [lpi |-> FALSE, nlpi |-> FALSE] /\ ioctls = {}
  /\ lpm = [n |-> 0, on |-> FALSE]
  /\ dev = [d \in Devices |-> [open |-> 0, start |-> 0]] /\ due = {}

W == [str |-> str, free |-> free, conn |-> conn, meta |-> meta, link |-> link, map |-> map,
      regs |-> regs, votes |-> votes, kern |-> kern, ioctls |-> ioctls, lpm |-> lpm, dev |-> dev]
Becomes(w) ==
  /\ str' = w.str /\ free' = w.free /\ conn' = w.conn /\ meta' = w.meta /\ link' = w.link
  /\ map' = w.map /\ regs' = w.regs /\ votes' = w.votes /\ kern' = w.kern
  /\ ioctls' = w.ioctls /\ lpm' = w.lpm /\ dev' = w.dev /\ UNCHANGED due

Put(w, s, x) == [w EXCEPT !.str[s] = x]
Listed(w) == {s \in Streams : w.str[s].st # "NONE"}
Less(n) == IF n > 0 THEN n - 1 ELSE 0
Moved(w, D, field, n) ==
  [w EXCEPT !.dev = [d \in Devices |->
     IF d \notin D THEN @[d]
     ELSE IF field = "open" THEN [@[d] EXCEPT !.open = IF n > 0 THEN @ + 1 ELSE Less(@)]
     ELSE [@[d] EXCEPT !.start = IF n > 0 THEN @ + 1 ELSE Less(@)]]]

------------------------------------------------------------------------------
(* The lists of front ends: the last of a sorted list is lent.             *)
Wanted(s) == IF s \in Plays THEN {"playback"}
             ELSE IF s \in Loops THEN {"rxHostless", "txHostless"} ELSE {"record"}
Spare(w, l) == {f \in w.free : f[1] = l}
Last(F) == CHOOSE f \in F : \A g \in F : g[2] <= f[2]
allocateFrontEndIds(w, s) == {Last(Spare(w, l)) : l \in {k \in Wanted(s) : Spare(w, k) # {}}}
freeFrontEndIds(w, F) == [w EXCEPT !.free = @ \cup F]

Fits(f, d) == (d \in Outs) <=> (f[1] \in {"playback", "rxHostless"})
Rx(F) == CHOOSE f \in F : f[1] = "rxHostless"
Tx(F) == CHOOSE f \in F : f[1] = "txHostless"
Pair(s, F) == IF s \in Loops THEN {<<Tx(F), Rx(F)>>} ELSE {}

------------------------------------------------------------------------------
(* Votes.                                                                  *)
Counter(s) == IF s \in Keywords THEN "lpi" ELSE "nlpi"

(* The counter changes under the mutex, the sleep monitor is told without  *)
(* it. Steps under the graph's mutex tell it at once.                      *)
Tells(w, s, on) ==
  IF s \in Keywords THEN [w EXCEPT !.ioctls = (@ \ {<<s, ~on>>}) \cup {<<s, on>>}]
                    ELSE [w EXCEPT !.kern[Counter(s)] = on]
Quiet == Hasty \/ (ioctls = {} /\ \A t \in Streams : str[t].st # "OPENING")
voteSleepMonitor(w, s, vote) ==
  LET c == Counter(s)
      n == IF vote THEN w.votes[c] + 1 ELSE w.votes[c] - 1
      v == [w EXCEPT !.votes[c] = IF n < 0 THEN 0 ELSE n]
  IN IF vote /\ n = 1 THEN Tells(v, s, TRUE) ELSE IF ~vote /\ n = 0 THEN Tells(v, s, FALSE) ELSE v

KeepsAwake(w, s) ==
  IF s \in Lpm THEN [w EXCEPT !.lpm = [n |-> @.n + 1, on |-> TRUE]] ELSE w
LetsSleep(w, s) ==
  IF s \in Lpm THEN [w EXCEPT !.lpm = [n |-> Less(@.n), on |-> (Less(@.n) > 0)]] ELSE w

(* The mixer's callbacks: one for each front end, the newest.              *)
Unmap(g, F) == [f \in DOMAIN g \ F |-> g[f]]
registerMixerEventCallback(w, s) ==
  LET F == w.str[s].fes
  IN [w EXCEPT !.map = [f \in DOMAIN @ \cup F |-> IF f \in F THEN s ELSE @[f]], !.regs = @ + 1]
DeregistersLast(w, s) ==  \* seeded fault: the count falls, the callback stays
  IF w.regs = 0 THEN w ELSE [w EXCEPT !.regs = @ - 1]
deregisterMixerEventCallback(w, s) ==
  IF w.regs = 0 THEN w
  ELSE [w EXCEPT !.map = Unmap(@, w.str[s].fes), !.regs = @ - 1]

------------------------------------------------------------------------------
(* The graph.                                                              *)
(* Every front end is connected to each of its back ends, whose metadata   *)
(* is written again; a loopback's front ends are linked as well.           *)
Edges(F, D) == {p \in F \X D : Fits(p[1], p[2])}
Linked(w, s) == [w EXCEPT !.link = @ \cup Pair(s, w.str[s].fes)]
Unlinked(w, s) == [w EXCEPT !.link = @ \ Pair(s, w.str[s].fes)]
Connected(w, s) ==
  LET x == w.str[s] IN [w EXCEPT !.conn = @ \cup Edges(x.fes, x.be), !.meta = @ \cup x.be]
(* A back end's metadata is cleared with the last stream that has the      *)
(* device open.                                                            *)
Unconnected(w, s) ==
  LET x == w.str[s]
  IN [w EXCEPT !.conn = @ \ (x.fes \X x.be),
               !.meta = @ \ {d \in x.devs \cap x.be : w.dev[d].open <= 1}]

(* Any other stream's device clears its metadata when no other listed      *)
(* stream has it; a loopback's leaves it in place.                         *)
ClearsAlways(w, s, d) ==  \* seeded fault: the metadata goes with any stream
  [w EXCEPT !.conn = @ \ (w.str[s].fes \X {d}), !.str[s].be = @ \ {d}, !.meta = @ \ {d}]
DisconnectSessionDevice(w, s, d) ==
  LET last == Cardinality({t \in Listed(w) : d \in w.str[t].devs}) <= 1
  IN [w EXCEPT !.conn = @ \ (w.str[s].fes \X {d}), !.str[s].be = @ \ {d},
               !.meta = IF last THEN @ \ {d} ELSE @]
DisconnectLoop(w, s, d) ==
  [Unlinked(w, s) EXCEPT !.conn = @ \ (w.str[s].fes \X {d}), !.str[s].be = @ \ {d}]
Disconnects(w, s, d) == IF s \in Loops THEN DisconnectLoop(w, s, d) ELSE DisconnectSessionDevice(w, s, d)
SetupSessionDevice(w, d) == [w EXCEPT !.meta = @ \cup {d}]
ConnectSessionDevice(w, s, d) ==
  [w EXCEPT !.conn = @ \cup Edges(w.str[s].fes, {d}), !.str[s].be = @ \cup {d}]
ConnectLoop(w, s, d) == Linked(ConnectSessionDevice(w, s, d), s)
Connects(w, s, d) == IF s \in Loops THEN ConnectLoop(w, s, d) ELSE ConnectSessionDevice(w, s, d)

------------------------------------------------------------------------------
(* A session's operations.                                                 *)
Opens == {"no front end", "no graph", "yes"}
SessionOpen(w, s, o) ==
  LET x == w.str[s]
      F == allocateFrontEndIds(w, s)
      full == Cardinality(F) < Cardinality(Wanted(s))
      lent == [Put(w, s, [x EXCEPT !.fes = F, !.be = x.devs, !.alloc = ~full])
                 EXCEPT !.free = @ \ F]
      graph == Linked(Connected(lent, s), s)
  IN CASE full            -> lent
       [] o = "no graph"  -> [w EXCEPT !.str[s].fes = F, !.str[s].be = x.devs]
       [] OTHER ->
            IF s \in Plays \cup Keywords
            THEN [registerMixerEventCallback(graph, s) EXCEPT !.str[s].regd = TRUE] ELSE graph
Full(w, s) == \E l \in Wanted(s) : Spare(w, l) = {}

(* What a start comes to: the handle, the modules, the DSP. A capture's    *)
(* failure to run is overwritten by the status of its volume.              *)
Starts == {"no handle", "half a handle", "no module", "does not run", "runs"}
Opened(x) == IF x.m = "IDLE" THEN [x EXCEPT !.m = "OPENED", !.open = x.fes] ELSE x
Fails(s, o) == o \in {"no handle", "half a handle", "no module"} \/ (o = "does not run" /\ s \in Plays)
KeepsVote(w, s, o) ==  \* seeded fault: a start that fails keeps its vote
  LET x == w.str[s]
      v == voteSleepMonitor(w, s, TRUE)
      y == [Opened(x) EXCEPT !.m = "STARTED"]
  IN IF o = "runs" THEN KeepsAwake(Put(v, s, [y EXCEPT !.runs = x.fes, !.pause = x.regd /\ s \in Plays]), s)
     ELSE Put(v, s, Opened(x))
SessionStart(w, s, o) ==
  LET x == w.str[s]
      v == voteSleepMonitor(w, s, TRUE)
      y == Opened(x)
      tried == [y EXCEPT !.m = "STARTED"]
      done == CASE o = "no handle"     -> v
                [] o = "half a handle" -> Put(v, s, [x EXCEPT !.open = {Rx(x.fes)}])
                [] o = "no module"     -> Put(v, s, y)
                [] o = "does not run"  -> KeepsAwake(Put(v, s, tried), s)
                [] OTHER -> KeepsAwake(Put(v, s, [tried EXCEPT !.runs = x.fes, !.pause = x.regd /\ s \in Plays]), s)
  IN IF Fails(s, o) THEN voteSleepMonitor(done, s, FALSE) ELSE done
CanStart(x, s, o) ==
  /\ (o \in {"no handle", "half a handle"} => x.m = "IDLE")
  /\ (o = "half a handle" => s \in Loops /\ Hasty)
  /\ (o = "does not run" /\ s \notin Plays => Hasty)

(* It needs the first back end's name to take the pause's event back.      *)
SessionStop(w, s, ok) ==
  LET x == w.str[s]
      y == [x EXCEPT !.m = "STOPPED", !.runs = {}, !.pause = @ /\ ~ok,
                     !.wild = @ \/ (x.pause /\ ok /\ x.be = {})]
  IN voteSleepMonitor(Put(w, s, y), s, FALSE)

(* The handle's driver may fail to close: then the callback stays.         *)
SessionClose(w, s, ok) ==
  LET x == w.str[s]
      y == [x EXCEPT !.m = "IDLE", !.alloc = FALSE, !.open = {}, !.runs = {}, !.be = {},
                     !.told = FALSE]
      gone == LetsSleep(Unconnected(Unlinked(w, s), s), s)
      off == IF x.regd /\ ok
             THEN [deregisterMixerEventCallback(gone, s) EXCEPT !.str[s] = [y EXCEPT !.regd = FALSE]]
             ELSE Put(gone, s, y)
  IN IF x.alloc THEN freeFrontEndIds(off, x.fes) ELSE w

(* The buffer a client maps: a missing handle is answered with errno, and  *)
(* that is a success.                                                      *)
GivesEarly(w, s, ok) ==  \* seeded fault: the buffer is given before the handle is ready
  IF w.str[s].m # "IDLE" THEN w ELSE Put(w, s, [w.str[s] EXCEPT !.told = TRUE])
createMmapBuffer(w, s, ok) ==
  LET x == w.str[s]
  IN IF x.m # "IDLE" THEN w
     ELSE Put(w, s, IF ok THEN [Opened(x) EXCEPT !.told = TRUE] ELSE [x EXCEPT !.told = Hasty])

------------------------------------------------------------------------------
(* The streams' operations.                                                *)
Devs(s) == IF s \in Plays THEN {{d} : d \in Outs}
              ELSE IF s \in Loops THEN {{o, i} : o \in Outs, i \in Ins} ELSE {{i} : i \in Ins}
Create(s) ==
  /\ str[s].st = "NONE"
  /\ \E D \in Devs(s) : Becomes(Put(W, s, [None EXCEPT !.st = "IDLE", !.devs = D]))

(* The graph's mutex is given up between the session and the devices, one  *)
(* of which may fail to open.                                              *)
OpensDevices(w, s) ==
  LET x == w.str[s] IN Put(Moved(w, x.devs, "open", 1), s, [x EXCEPT !.st = "INIT"])
Open(s) ==
  /\ str[s].st = "IDLE" /\ ~str[s].alloc
  /\ \E o \in Opens :
       /\ (o = "no front end") <=> Full(W, s)
       /\ Full(W, s) /\ ~Hasty => \A l \in Wanted(s) : Spare(W, l) = {}
       /\ LET w == SessionOpen(W, s, o)
              dead == Put(w, s, [w.str[s] EXCEPT !.st = "REFUSED"])
          IN Becomes(IF o # "yes" THEN dead
                     ELSE Put(w, s, [w.str[s] EXCEPT !.st = "OPENING"]))
OpenDevices(s) ==
  /\ str[s].st = "OPENING"
  /\ \/ Becomes(OpensDevices(W, s))
     \/ Hasty /\ Becomes(Put(W, s, [str[s] EXCEPT !.st = "REFUSED"]))

(* A playback parts with a device that does not start, and fails without   *)
(* any; a capture starts on what it has.                                   *)
StartsWithout(s) == TRUE  \* seeded fault: no device is not a failure
HasDevice(s) == s \in Plays => str[s].devs # {}
Start(s) ==
  LET x == str[s]
      on(w) == Moved(w, x.devs, "start", 1)
  IN /\ Quiet /\ x.st \in {"INIT", "STOPPED"} /\ (s \in Lpm /\ ~Hasty => x.m # "STOPPED" /\ x.m # "STARTED")
     /\ \/ /\ s \in Plays
           /\ \E d \in x.devs :
                LET w == Moved(Disconnects(W, s, d), {d}, "open", -1)
                IN Becomes([w EXCEPT !.str[s].devs = @ \ {d}])
        \/ /\ HasDevice(s)
           /\ \E o \in Starts :
                /\ CanStart(x, s, o)
                /\ (s \in Lpm /\ ~Hasty => o = "runs")
                /\ LET w == SessionStart(on(W), s, o)
                       y == [w.str[s] EXCEPT !.wild = @ \/ (x.be = {})]
                   IN Becomes(IF Fails(s, o) THEN Put(Moved(w, x.devs, "start", -1), s, y)
                              ELSE Put(w, s, [y EXCEPT !.st = "STARTED"]))
Stop(s) ==
  /\ Quiet /\ str[s].st = "STARTED"
  /\ \E ok \in BOOLEAN :
       LET w == SessionStop(Moved(W, str[s].devs, "start", -1), s, ok)
       IN Becomes(Put(w, s, [w.str[s] EXCEPT !.st = "STOPPED"]))

Close(s) ==
  LET x == str[s]
  IN /\ Quiet /\ x.st \in {"INIT", "STARTED", "STOPPED"} /\ (s \in Lpm /\ ~Hasty => x.m # "IDLE" /\ x.m # "OPENED")
     /\ \E ok \in {TRUE} \cup {~Hasty} :
          LET halted == IF x.st = "STARTED" THEN SessionStop(Moved(W, x.devs, "start", -1), s, TRUE) ELSE W
              w == Moved(SessionClose(halted, s, ok), x.devs, "open", -1)
          IN Becomes(Put(w, s, [w.str[s] EXCEPT !.st = "CLOSED"]))

(* A stream is deleted once closed, or once its opening failed.            *)
Delete(s) ==
  /\ str[s].st \in {"CLOSED", "REFUSED"} /\ (Hasty \/ s \notin due)
  /\ Becomes(Put(W, s, [None EXCEPT !.wild = str[s].wild]))

(* A switch parts an opened stream from one device and joins it to         *)
(* another; a device that refuses leaves the stream without.               *)
Switch(s) ==
  LET x == str[s]
      plays == x.st = "STARTED"
  IN /\ Quiet /\ x.st \in {"INIT", "STARTED", "STOPPED"}
     /\ \E d \in x.devs, e \in Devices \ x.devs :
          LET p == Disconnects(W, s, d)
              q == Moved(IF plays THEN Moved(p, {d}, "start", -1) ELSE p, {d}, "open", -1)
              r == [q EXCEPT !.str[s].devs = @ \ {d}]
              t == SetupSessionDevice(Moved(r, {e}, "open", 1), e)
              u == IF plays THEN Moved(t, {e}, "start", 1) ELSE t
              j == Connects(u, s, e)
          IN /\ (d \in Outs) <=> (e \in Outs)
             /\ \/ Becomes([j EXCEPT !.str[s].devs = @ \cup {e}])
                \/ Hasty /\ Becomes([r EXCEPT !.meta = @ \cup {e}])

MapBuffer(s) ==
  /\ s \in Plays \cup Keywords /\ str[s].st = "INIT"
  /\ \E ok \in BOOLEAN : W # createMmapBuffer(W, s, ok) /\ Becomes(createMmapBuffer(W, s, ok))

------------------------------------------------------------------------------
(* The sleep monitor is told; the mixer's thread calls back.               *)
Told(p) ==
  /\ p \in ioctls /\ ioctls' = ioctls \ {p} /\ kern' = [kern EXCEPT ![Counter(p[1])] = p[2]]
  /\ UNCHANGED <<str, free, conn, meta, link, map, regs, votes, lpm, dev, due>>
LooksUp(f) ==
  /\ f \in DOMAIN map /\ due = {} /\ due' = {map[f]}
  /\ UNCHANGED <<str, free, conn, meta, link, map, regs, votes, kern, ioctls, lpm, dev>>
CallsBack ==
  /\ due # {} /\ due' = {}
  /\ UNCHANGED <<str, free, conn, meta, link, map, regs, votes, kern, ioctls, lpm, dev>>

Next ==
  \/ \E s \in Streams :
       \/ Create(s) \/ Open(s) \/ OpenDevices(s) \/ Start(s) \/ Stop(s) \/ Close(s)
       \/ Delete(s) \/ Switch(s) \/ MapBuffer(s)
  \/ \E p \in ioctls : Told(p)
  \/ \E f \in FrontEnds : LooksUp(f)
  \/ CallsBack

Spec == Init /\ [][Next]_vars

------------------------------------------------------------------------------
TypeOK ==
  /\ free \subseteq FrontEnds /\ conn \subseteq FrontEnds \X Devices /\ meta \subseteq Devices
  /\ DOMAIN map \subseteq FrontEnds /\ regs \in Nat
  /\ \A s \in Streams :
       /\ str[s].st \in {"NONE", "IDLE", "REFUSED", "OPENING", "INIT", "STARTED", "STOPPED", "CLOSED"}
       /\ str[s].m \in {"IDLE", "OPENED", "STARTED", "STOPPED"}
       /\ str[s].fes \subseteq FrontEnds /\ str[s].devs \cup str[s].be \subseteq Devices

Held(s) == IF str[s].alloc THEN str[s].fes ELSE {}
Started == {s \in Streams : str[s].st = "STARTED"}

(* The sleep monitor hears of every started stream and of no other, the    *)
(* CPU is kept awake exactly while a stream that asks for it may run, the  *)
(* registered callbacks are counted, and every device is open and started  *)
(* once for each stream that has it so.                                    *)
CountsExact ==
  /\ votes.lpi = Cardinality(Started \cap Keywords)
  /\ votes.nlpi = Cardinality(Started \ Keywords)
  /\ ioctls = {} => \A c \in {"lpi", "nlpi"} : kern[c] = (votes[c] > 0)
  /\ lpm.on = (lpm.n > 0) /\ (\E s \in Started : s \in Lpm) => lpm.on
  /\ lpm.n <= Cardinality({s \in Lpm : str[s].alloc})
  /\ regs = Cardinality({s \in Streams : str[s].regd})
  /\ \A d \in Devices :
       /\ dev[d].open = Cardinality({s \in Streams : str[s].st \in {"INIT", "STARTED", "STOPPED"} /\ d \in str[s].devs})
       /\ dev[d].start = Cardinality({s \in Started : d \in str[s].devs})

(* No two sessions share a front end, a session's front ends are connected *)
(* to the back ends of its stream's devices, and a back end that anything  *)
(* is connected to still holds its metadata, whoever else left it.         *)
RoutesRight ==
  /\ \A s, t \in Streams : s # t => Held(s) \cap Held(t) = {}
  /\ \A s \in Streams : str[s].st \in {"INIT", "STARTED", "STOPPED"} =>
       {p[2] : p \in {q \in conn : q[1] \in str[s].fes}} = str[s].devs
  /\ \A p \in conn : p[2] \in meta
  /\ \A s \in Loops : str[s].st = "STARTED" => Pair(s, str[s].fes) \subseteq link

(* Every front end is free or lent to a stream that exists; a free one is  *)
(* connected to nothing, holds no handle, and nothing calls back for it.   *)
NoOrphan ==
  /\ free \cup UNION {Held(s) : s \in Streams} = FrontEnds
  /\ \A s \in Streams : Held(s) \cap free = {} /\ str[s].open \subseteq Held(s)
  /\ \A p \in conn : p[1] \notin free
  /\ \A f \in DOMAIN map : f \notin free
  /\ \A s \in Streams : str[s].m = "IDLE" => str[s].open = {}

(* A session that registered is the one the mixer's events for its front   *)
(* ends are handed to, and the stream an event is handed to exists.        *)
CallbacksRight ==
  /\ \A s \in Streams, f \in FrontEnds :
       str[s].regd /\ f \in str[s].fes => f \in DOMAIN map /\ map[f] = s
  /\ \A s \in due : str[s].st # "NONE"

(* A stream that was told it started runs, and a client that was given a   *)
(* buffer has the handle that moves it.                                    *)
PromisesKept ==
  \A s \in Streams : /\ str[s].st = "STARTED" => str[s].runs = str[s].fes
                     /\ str[s].told => str[s].open # {}

(* No step takes the first back end of a session that has none.            *)
NeverReadsPast == \A s \in Streams : ~str[s].wild

==============================================================================
