----------------------------- MODULE VoiceCall ------------------------------
(***************************************************************************)
(* The session of a voice call: the two front ends of its VSID, the back   *)
(* ends they are connected to, the sidetone, the microphone's occlusion    *)
(* event, the external echo reference, what the modem's graph was told,    *)
(* and how all of it follows the call through starts, stops, switches of   *)
(* its devices and restarts of the sound card. The call's stream is a      *)
(* StreamPCM in both directions.                                           *)
(***************************************************************************)
EXTENDS Integers, FiniteSets, Functions

CONSTANTS
  Calls, Second,     \* the calls; those on the second VSID
  Outs, Ins,         \* the devices of each direction
  External,          \* the outputs whose echo reference is external
  Mics, Ears,        \* the inputs with a sidetone path; the outputs that ask for one
  Hasty              \* may steps fail halfway, idle calls be switched, settings get lost?

CallAssumption ==
  /\ Second \subseteq Calls /\ External \cup Ears \subseteq Outs /\ Mics \subseteq Ins
  /\ Outs \cap Ins = {} /\ Hasty \in BOOLEAN

Devices == Outs \cup Ins
Modes   == 1..2
Vsid(c) == IF c \in Second THEN 2 ELSE 1

VARIABLES
  call,   \* of each call: its state, its devices, and what its session keeps
  conn,   \* the mixer's graph: <<VSID, back end>>
  meta,   \* the back ends that hold their device's metadata
  map,    \* mixerEventCallbackMap: of each VSID's front end, the calls to tell
  path,   \* the sidetone paths applied
  occ,    \* micOcclusionInfoMap
  votes,  \* nlpi_counter_
  ec,     \* extECRefCnt, and whether pcmEcTx is open
  dsp,    \* what each VSID's graph was told
  dev     \* of each device: how often it is open, and started
vars == <<call, conn, meta, map, path, occ, votes, ec, dsp, dev>>

Plain == [tty |-> FALSE, slow |-> FALSE, boost |-> FALSE]
None == [st |-> "NONE", devs |-> {}, fes |-> FALSE, be |-> {}, pcm |-> FALSE, runs |-> FALSE,
         side |-> 0, done |-> FALSE, regd |-> FALSE, ec |-> FALSE, boost |-> FALSE,
         tty |-> FALSE, asked |-> Plain, wild |-> FALSE]

Init ==
  /\ call = [c \in Calls |-> None] /\ conn = {} /\ meta = {} /\ map = <<>> /\ path = {}
  /\ occ = {} /\ votes = 0 /\ ec = [n |-> 0, up |-> FALSE]
  /\ dsp = [v \in Modes |-> Plain] /\ dev = [d \in Devices |-> [open |-> 0, start |-> 0]]

W == [call |-> call, conn |-> conn, meta |-> meta, map |-> map, path |-> path, occ |-> occ,
      votes |-> votes, ec |-> ec, dsp |-> dsp, dev |-> dev]
Becomes(w) ==
  /\ call' = w.call /\ conn' = w.conn /\ meta' = w.meta /\ map' = w.map /\ path' = w.path
  /\ occ' = w.occ /\ votes' = w.votes /\ ec' = w.ec /\ dsp' = w.dsp /\ dev' = w.dev

Less(n) == IF n > 0 THEN n - 1 ELSE 0
Moved(w, D, field, n) ==
  [w EXCEPT !.dev = [d \in Devices |->
     IF d \notin D THEN @[d]
     ELSE IF field = "open" THEN [@[d] EXCEPT !.open = IF n > 0 THEN @ + 1 ELSE Less(@)]
     ELSE [@[d] EXCEPT !.start = IF n > 0 THEN @ + 1 ELSE Less(@)]]]
RxOf(D) == D \cap Outs
TxOf(D) == D \cap Ins
Tells(w, c) == [w EXCEPT !.dsp[Vsid(c)] = [@ EXCEPT !.boost = w.call[c].boost, !.tty = @ \/ w.call[c].tty]]

------------------------------------------------------------------------------
(* The external echo reference: counted over all sessions, started by the  *)
(* first. A failure is not passed on, and empties the count.               *)
checkAndSetExtEC(w, c, on, ok) ==
  IF on THEN IF ok \/ w.ec.n > 0
             THEN [w EXCEPT !.ec = [n |-> @.n + 1, up |-> TRUE], !.call[c].ec = TRUE]
             ELSE [w EXCEPT !.ec.n = 0]
  ELSE [w EXCEPT !.ec = [n |-> Less(@.n), up |-> @.up /\ Less(@.n) > 0], !.call[c].ec = FALSE]
setExtECRef(w, c, D, on, ok) ==
  IF D \cap External # {} THEN checkAndSetExtEC(w, c, on, ok) ELSE w

(* The sidetone, for the first microphone of the call that has a path.     *)
setSidetone(w, c, on) ==
  LET M == w.call[c].devs \cap Mics
  IN IF M = {} THEN w
     ELSE IF on THEN [w EXCEPT !.path = @ \cup M, !.call[c].side = @ + 1]
     ELSE [w EXCEPT !.path = @ \ M, !.call[c].side = @ - 1]
SidetoneOff(w, c) == IF w.call[c].side > 0 THEN setSidetone(w, c, FALSE) ELSE w
SidetoneOn(w, c)  == IF w.call[c].side = 0 THEN setSidetone(w, c, TRUE) ELSE w

(* The event of the microphone's occlusion is asked of the first back end  *)
(* of the session's list, empty or not.                                    *)
Occludes(w, c) ==
  IF ~w.call[c].regd THEN w
  ELSE [w EXCEPT !.call[c].done = TRUE, !.occ = @ \cup {c},
                 !.call[c].wild = @ \/ TxOf(w.call[c].be) = {}]
Unoccludes(w, c) ==
  IF ~w.call[c].done THEN w
  ELSE [w EXCEPT !.call[c].done = FALSE, !.occ = @ \ {c},
                 !.call[c].wild = @ \/ TxOf(w.call[c].be) = {}]

------------------------------------------------------------------------------
(* The front ends of a VSID are lent from a copy of their list: they never *)
(* run out, and every call of the VSID has the same.                       *)
allocateVoiceFrontEndIds(w, c) == [w EXCEPT !.call[c].fes = TRUE]
freeFrontEndIds(w, c) == [w EXCEPT !.call[c].fes = FALSE, !.call[c].pcm = FALSE]

registerMixerEventCallback(w, c) ==
  [w EXCEPT !.map = [v \in DOMAIN @ \cup {Vsid(c)} |-> IF v = Vsid(c) THEN c ELSE @[v]],
            !.call[c].regd = TRUE]
deregisterMixerEventCallback(w, c) ==
  [w EXCEPT !.map = [v \in DOMAIN @ \ {Vsid(c)} |-> @[v]], !.call[c].regd = FALSE]

(* The graph is made, and taken apart, only for a call with two devices.   *)
Connected(w, c) ==
  LET D == w.call[c].devs
  IN IF Cardinality(D) # 2 THEN w
     ELSE [w EXCEPT !.conn = @ \cup ({Vsid(c)} \X D), !.meta = @ \cup D]
Unconnected(w, c) ==
  LET x == w.call[c]
      last == {d \in x.devs \cap x.be : w.dev[d].open <= 1}
  IN IF Cardinality(x.devs) # 2 THEN w
     ELSE [w EXCEPT !.conn = @ \ ({Vsid(c)} \X x.be), !.meta = @ \ last,
                    !.call[c].wild = @ \/ RxOf(x.be) = {} \/ TxOf(x.be) = {}]

SessionOpen(w, c, ok) ==
  LET lent == [allocateVoiceFrontEndIds(w, c) EXCEPT !.call[c].be = w.call[c].devs]
  IN IF ok THEN registerMixerEventCallback(Connected(lent, c), c)
     ELSE [w EXCEPT !.call[c].be = w.call[c].devs]

KeepsCallback(w, c, ok) ==  \* seeded fault: a close leaves the mixer's callback
  freeFrontEndIds(Unconnected(w, c), c)
SessionClose(w, c, ok) ==
  LET gone == Unconnected(w, c)
      off == IF gone.call[c].regd /\ ok THEN deregisterMixerEventCallback(gone, c) ELSE gone
  IN [freeFrontEndIds(off, c) EXCEPT !.dsp[Vsid(c)] = Plain, !.call[c].runs = FALSE]

------------------------------------------------------------------------------
(* What a start comes to. "no converter": the payload of the receive path  *)
(* fails, and the function returns without taking anything back.           *)
Starts == {"no handle", "no module", "no converter", "does not run", "runs"}
TakesBack(w, c, D) ==
  [setExtECRef(w, c, D, FALSE, TRUE) EXCEPT
     !.votes = @ - 1, !.call[c].pcm = FALSE, !.call[c].runs = FALSE]
SessionStart(w, c, o, e) ==
  LET D == w.call[c].devs
      v == [w EXCEPT !.votes = @ + 1]
      r == setExtECRef(v, c, D, TRUE, e)
      told == [Tells(r, c) EXCEPT !.call[c].pcm = TRUE, !.call[c].be = D]
      on == Occludes(SidetoneOn([told EXCEPT !.call[c].runs = TRUE], c), c)
  IN IF RxOf(D) = {} THEN w
     ELSE CASE o = "runs"         -> on
            [] o = "no converter" -> told
            [] OTHER             -> TakesBack(r, c, D)

(* A call without an output keeps its echo reference and its event.        *)
StopsQuietly(w, c) ==  \* seeded fault: the sidetone outlives the call
  LET x == w.call[c]
  IN [Unoccludes(setExtECRef(w, c, x.devs, FALSE, TRUE), c) EXCEPT !.votes = Less(@), !.call[c].runs = FALSE]
SessionStop(w, c) ==
  LET x == w.call[c]
      quiet == [SidetoneOff(w, c) EXCEPT !.votes = Less(@), !.call[c].runs = FALSE]
  IN IF RxOf(x.devs) = {} THEN quiet
     ELSE Unoccludes(setExtECRef(quiet, c, x.devs, FALSE, TRUE), c)

------------------------------------------------------------------------------
(* A device leaves a call: the session's lists hold that device alone.     *)
LeavesEdge(w, c, d) ==  \* seeded fault: a device that leaves stays connected
  setExtECRef(IF d \in Ins THEN Unoccludes(SidetoneOff([w EXCEPT !.call[c].be = {d}], c), c)
              ELSE [w EXCEPT !.call[c].be = {d}], c, {d}, FALSE, TRUE)
DisconnectSessionDevice(w, c, d) ==
  LET last == Cardinality({b \in Calls : d \in w.call[b].devs}) <= 1
      v == [w EXCEPT !.call[c].be = {d}]
      u == IF d \in Ins THEN Unoccludes(SidetoneOff(v, c), c) ELSE v
      t == [u EXCEPT !.conn = @ \ {<<Vsid(c), d>>}, !.meta = IF last THEN @ \ {d} ELSE @]
  IN setExtECRef(t, c, {d}, FALSE, TRUE)

SetupSessionDevice(w, c, d, e) ==
  setExtECRef([w EXCEPT !.meta = @ \cup {d}, !.call[c].be = {d}], c, {d}, TRUE, e)

(* It joins: setSessionParameters() fills both lists again.                *)
setSessionParameters(w, c) == [w EXCEPT !.call[c].be = w.call[c].devs]
ConnectSessionDevice(w, c, d) ==
  LET v == [setSessionParameters(w, c) EXCEPT !.conn = @ \cup {<<Vsid(c), d>>}]
  IN IF d \in Outs THEN IF d \in Ears THEN SidetoneOn(v, c) ELSE v
     ELSE LET u == Occludes(v, c)
          IN IF \E o \in RxOf(u.call[c].devs) : u.dev[o].open > 0 THEN SidetoneOn(u, c) ELSE u

disconnectStreamDevice(w, c, d) ==
  LET v == DisconnectSessionDevice(w, c, d)
      u == IF w.call[c].st = "STARTED" THEN Moved(v, {d}, "start", -1) ELSE v
  IN [Moved(u, {d}, "open", -1) EXCEPT !.call[c].devs = @ \ {d}]

(* A device that fails to connect is taken off the call again.             *)
connectStreamDevice(w, c, d, ok) ==
  LET v == [Moved(w, {d}, "open", 1) EXCEPT !.call[c].devs = @ \cup {d}]
      u == SetupSessionDevice(v, c, d, TRUE)
      t == IF w.call[c].st = "STARTED" THEN Moved(u, {d}, "start", 1) ELSE u
  IN IF ok THEN ConnectSessionDevice(t, c, d)
     ELSE [u EXCEPT !.dev = w.dev, !.call[c].devs = w.call[c].devs]

------------------------------------------------------------------------------
(* The calls.                                                              *)
Create(c) ==
  /\ call[c].st = "NONE"
  /\ \E o \in Outs, i \in Ins, tty \in BOOLEAN :
       call' = [call EXCEPT ![c] = [None EXCEPT !.st = "IDLE", !.devs = {o, i}, !.tty = tty,
                                                !.asked.tty = tty, !.wild = call[c].wild]]
  /\ UNCHANGED <<conn, meta, map, path, occ, votes, ec, dsp, dev>>

Open(c) ==
  /\ call[c].st = "IDLE"
  /\ \E ok \in BOOLEAN :
       LET w == SessionOpen(W, c, ok)
       IN Becomes(IF ok THEN Moved([w EXCEPT !.call[c].st = "INIT"], w.call[c].devs, "open", 1)
                  ELSE [w EXCEPT !.call[c].st = "REFUSED"])

(* Nothing closes the handles of a call that was stopped.                  *)
Start(c) ==
  LET x == call[c]
  IN /\ x.st = "INIT" \/ (x.st = "STOPPED" /\ Hasty)
     /\ \E o \in Starts, e \in {TRUE} \cup {~Hasty} :
          /\ (o = "no converter" => Hasty) /\ (x.pcm => o = "no handle")
          /\ LET on == Moved(W, x.devs, "start", 1)
                 w == SessionStart(on, c, o, e)
             IN Becomes(IF o = "runs" /\ RxOf(x.devs) # {} THEN [w EXCEPT !.call[c].st = "STARTED"]
                        ELSE Moved(w, x.devs, "start", -1))

Halted(w, c) ==
  IF w.call[c].st = "STARTED" THEN Moved(SessionStop(w, c), w.call[c].devs, "start", -1) ELSE w
Stop(c) ==
  /\ call[c].st = "STARTED" /\ Becomes([Halted(W, c) EXCEPT !.call[c].st = "STOPPED"])

Closed(w, c, ok) == Moved(SessionClose(Halted(w, c), c, ok), w.call[c].devs, "open", -1)
Close(c) ==
  /\ call[c].st \in {"INIT", "STARTED", "STOPPED"}
  /\ \E ok \in {TRUE} \cup {~Hasty} : Becomes([Closed(W, c, ok) EXCEPT !.call[c].st = "CLOSED"])

Delete(c) ==
  /\ call[c].st \in {"CLOSED", "REFUSED"}
  /\ Becomes([W EXCEPT !.call[c] = [None EXCEPT !.wild = call[c].wild]])

(* The sound card goes and comes back: a call is closed, and opened and    *)
(* started again with what its session still knows.                        *)
Forgets(x) == x.asked.slow \/ x.asked.tty # x.tty
Restart(c) ==
  /\ call[c].st = "STARTED" /\ (Hasty \/ ~Forgets(call[c]))
  /\ Becomes([Closed(W, c, TRUE) EXCEPT !.call[c].st = "IDLE"])

(* A switch: the devices that go leave first, the new ones join after.     *)
Gone(w, c, D) ==
  LET go == w.call[c].devs \ D
      v == IF RxOf(go) # {} THEN disconnectStreamDevice(w, c, CHOOSE d \in RxOf(go) : TRUE) ELSE w
  IN IF TxOf(go) # {} THEN disconnectStreamDevice(v, c, CHOOSE d \in TxOf(go) : TRUE) ELSE v
Come(w, c, D, ok) ==
  LET new == D \ w.call[c].devs
      v == IF RxOf(new) # {} THEN connectStreamDevice(w, c, CHOOSE d \in RxOf(new) : TRUE, ok) ELSE w
  IN IF TxOf(new) # {} THEN connectStreamDevice(v, c, CHOOSE d \in TxOf(new) : TRUE, TRUE) ELSE v
SwitchDevice(c) ==
  /\ call[c].st = "STARTED" \/ (Hasty /\ call[c].st \in {"INIT", "STOPPED"})
  /\ \E o \in Outs, i \in Ins, ok \in {TRUE} \cup {~Hasty} :
       /\ {o, i} # call[c].devs
       /\ Becomes(Come(Gone(W, c, {o, i}), c, {o, i}, ok))

(* What the client asks of a call that runs. The session remembers the     *)
(* boost, which every key vector carries, and neither TTY nor slow talk.   *)
Parameters == {"tty", "slow", "boost"}
SetParameter(c) ==
  /\ call[c].st = "STARTED"
  /\ \E p \in Parameters, v \in BOOLEAN :
       LET w == [W EXCEPT !.call[c].asked[p] = v, !.dsp[Vsid(c)][p] = v]
       IN Becomes(IF p = "boost" THEN [w EXCEPT !.call[c].boost = v] ELSE w)
SetVolume(c) ==
  /\ call[c].st = "STARTED" /\ Becomes([W EXCEPT !.dsp[Vsid(c)].boost = call[c].boost])

(* Muting asks for the first of the session's front ends, lent or not.     *)
Mute(c) ==
  /\ call[c].st # "NONE" /\ (call[c].st \in {"IDLE", "REFUSED", "CLOSED"} => Hasty)
  /\ Becomes([W EXCEPT !.call[c].wild = @ \/ ~call[c].fes])

Step(c) ==
  \/ Create(c) \/ Open(c) \/ Start(c) \/ Stop(c) \/ Close(c) \/ Delete(c) \/ Restart(c)
  \/ SwitchDevice(c) \/ SetParameter(c) \/ SetVolume(c) \/ Mute(c)
Next == \E c \in Calls : Step(c)
Spec == Init /\ [][Next]_vars

------------------------------------------------------------------------------
(* The shape of the state.                                                 *)
TypeOK ==
  /\ \A c \in Calls :
       /\ call[c].st \in {"NONE", "IDLE", "REFUSED", "INIT", "STARTED", "STOPPED", "CLOSED"}
       /\ call[c].devs \subseteq Devices /\ call[c].be \subseteq Devices /\ call[c].side \in Int
  /\ conn \subseteq Modes \X Devices /\ meta \subseteq Devices /\ path \subseteq Mics
  /\ DOMAIN map \subseteq Modes /\ occ \subseteq Calls /\ votes \in Nat /\ ec.n \in Nat
  /\ dsp \in [Modes -> [Parameters -> BOOLEAN]] /\ DOMAIN dev = Devices

Open_(c) == call[c].st \in {"INIT", "STARTED", "STOPPED"}
Runs(c)  == call[c].st = "STARTED"

(* As many votes, device starts and opens, and users of the echo reference *)
(* as there are calls to hold them, and a sidetone at most once for each.  *)
CountsExact ==
  /\ votes = Cardinality({c \in Calls : Runs(c)})
  /\ ec.n = Cardinality({c \in Calls : call[c].ec}) /\ (ec.up <=> ec.n > 0)
  /\ \A d \in Devices :
       /\ dev[d].open = Cardinality({c \in Calls : Open_(c) /\ d \in call[c].devs})
       /\ dev[d].start = Cardinality({c \in Calls : Runs(c) /\ d \in call[c].devs})
  /\ \A c \in Calls : call[c].side \in 0..1

(* Each VSID's front ends lead to the devices of its call and nowhere      *)
(* else, a running call's back ends hold their metadata, and the echo      *)
(* reference is up for a call whose output needs one.                      *)
RoutesRight ==
  /\ conn = {p \in Modes \X Devices : \E c \in Calls : Open_(c) /\ Vsid(c) = p[1] /\ p[2] \in call[c].devs}
  /\ \A c \in Calls : Runs(c) => call[c].devs \subseteq meta
  /\ \A c \in Calls : Runs(c) /\ call[c].devs \cap External # {} => ec.up

(* What a call leaves behind: no sidetone, no occlusion entry, no callback *)
(* of a call that is closed.                                               *)
NoOrphan ==
  /\ \A m \in path : \E c \in Calls : Runs(c) /\ m \in call[c].devs
  /\ \A c \in occ : Runs(c)
  /\ \A v \in DOMAIN map : Open_(map[v])

(* A running call's graph holds what its client asked for last, also after *)
(* a restart of the sound card.                                            *)
PromisesKept == \A c \in Calls : Runs(c) => dsp[Vsid(c)] = call[c].asked

(* No step reads the first element of a list that is empty.                *)
NeverReadsPast == \A c \in Calls : ~call[c].wild
=============================================================================
