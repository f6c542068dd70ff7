---------------------------- MODULE CommonStream ----------------------------
(***************************************************************************)
(* StreamCommon, and the ultrasound stream built on it. Opening opens a    *)
(* session and the devices; starting starts the devices and then the       *)
(* session; the card may go and come back. The ultrasound stream also      *)
(* keeps a gain: high beside a playback on the speaker, low without, and   *)
(* muted before it stops. The gain is set by the stream's own start and    *)
(* stop, outside the calls they make, and by whoever registers a device.   *)
(***************************************************************************)
EXTENDS Integers, Sequences, FiniteSets

CONSTANTS
  Upds, Others,  \* the ultrasound streams, and the others
  MaxDowns,      \* how often the sound card goes
  Hasty          \* may devices fail, clients call out of turn, and calls overlap?

CommonAssumption ==
  /\ Upds \cap Others = {} /\ IsFiniteSet(Upds \cup Others)
  /\ MaxDowns \in Nat /\ Hasty \in BOOLEAN

None    == "none"
Streams == Upds \cup Others
Devices == {"ultrasound", "mic"}
DevsOf(s) == IF s \in Upds THEN <<"ultrasound", "mic">> ELSE <<"mic">>
Used(s)   == {DevsOf(s)[i] : i \in DOMAIN DevsOf(s)}
Last(s)   == DevsOf(s)[Len(DevsOf(s))]

VARIABLES
  str,     \* of each stream: its states, its session, its gain, and what its client asked last
  devs,    \* of each device: deviceCount and deviceStartStopCount
  reg,     \* active_devices
  op,      \* the part of its own start or stop each ultrasound stream is yet to do
  speaker, \* is a playback registered on the speaker?
  card, work, downs
vars == <<str, devs, reg, op, speaker, card, work, downs>>

New == [st |-> "IDLE", cached |-> "IDLE", sess |-> FALSE, run |-> FALSE,
        gain |-> "mute", dsp |-> "mute", ask |-> None]
NoOp == [at |-> None, gain |-> "mute"]
Idle == [kind |-> None, todo |-> {}, s |-> {}, at |-> None]

Init ==
  /\ str = [s \in Streams |-> New] /\ devs = [d \in Devices |-> [open |-> 0, start |-> 0]] /\ reg = {}
  /\ op = [s \in Streams |-> NoOp] /\ speaker = FALSE /\ card = "ON" /\ work = Idle /\ downs = 0

W == [str |-> str, devs |-> devs, reg |-> reg]
Becomes(w) == str' = w.str /\ devs' = w.devs /\ reg' = w.reg
Less(n) == IF n > 0 THEN n - 1 ELSE 0
Opens(w, D)  == [w EXCEPT !.devs = [d \in Devices |-> IF d \in D THEN [w.devs[d] EXCEPT !.open = @ + 1] ELSE w.devs[d]]]
Shuts(w, D)  == [w EXCEPT !.devs = [d \in Devices |-> IF d \in D THEN [w.devs[d] EXCEPT !.open = Less(@)] ELSE w.devs[d]]]
Starts(w, D) == [w EXCEPT !.devs = [d \in Devices |-> IF d \in D THEN [w.devs[d] EXCEPT !.start = @ + 1] ELSE w.devs[d]]]
Stops(w, D)  == [w EXCEPT !.devs = [d \in Devices |-> IF d \in D THEN [w.devs[d] EXCEPT !.start = Less(@)] ELSE w.devs[d]]]
Running(x) == x.st \in {"STARTED", "PAUSED"}

------------------------------------------------------------------------------
(* StreamCommon. A device that fails to open leaves the session, and the   *)
(* devices before it, open, and the stream idle.                           *)
open(w, s, ok) ==
  IF card = "OFF" \/ w.str[s].st # "IDLE" THEN w
  ELSE LET v == [w EXCEPT !.str[s].sess = TRUE, !.str[s].dsp = "mute"]
       IN IF ok THEN [Opens(v, Used(s)) EXCEPT !.str[s].st = "INIT"]
          ELSE Opens(v, Used(s) \ {Last(s)})

(* The devices are all tried, and the last one's result counts. A session  *)
(* that fails stops them again.                                            *)
start_device(w, s, failed) == Starts(w, Used(s) \ failed)
startSession(w, s, ok) == IF ok THEN [w EXCEPT !.str[s].run = TRUE] ELSE Stops(w, Used(s))
Registered(w, s) == [w EXCEPT !.reg = @ \cup {<<d, s>> : d \in Used(s)}]
start(w, s, failed, ok) ==
  IF card = "OFF" THEN [w EXCEPT !.str[s].cached = "STARTED"]
  ELSE IF w.str[s].st \notin {"INIT", "STOPPED"} THEN w
  ELSE LET v == start_device(w, s, failed)
       IN IF Last(s) \in failed THEN v
          ELSE IF ok THEN [startSession(v, s, ok) EXCEPT !.str[s].st = "STARTED"]
          ELSE startSession(v, s, ok)

LeavesDevice(w, s) == [w EXCEPT !.str[s].run = FALSE]  \* seeded fault: a stop leaves the devices started
SessionStop(w, s) == [Stops(w, Used(s)) EXCEPT !.str[s].run = FALSE]
stop(w, s) ==
  IF ~Running(w.str[s]) THEN w
  ELSE [SessionStop(w, s) EXCEPT !.str[s].st = "STOPPED", !.reg = {p \in @ : p[2] # s}]
close(w, s) ==
  IF w.str[s].st = "IDLE" THEN w
  ELSE [Shuts(stop(w, s), Used(s)) EXCEPT !.str[s].sess = FALSE, !.str[s].run = FALSE, !.str[s].st = "IDLE"]

------------------------------------------------------------------------------
(* The ultrasound stream's gain. What is remembered is not sent again; one *)
(* gain goes to another by way of the mute.                                *)
setUltraSoundGain_l(w, s, g) ==
  IF w.str[s].gain = g THEN w ELSE [w EXCEPT !.str[s].gain = g, !.str[s].dsp = g]
Wanted == IF speaker THEN "high" ELSE "low"
Busy(s) == op[s].at # None

(* start() gives up the mutex to register the devices, in the order of the *)
(* locks. An ultrasound stream's start then looks at the active devices,   *)
(* and sets the gain when all else is done; stop() mutes, and then stops.  *)
AfterStart(s) == IF s \in Upds THEN [at |-> "gain", gain |-> Wanted] ELSE NoOp
Registers(s) ==
  /\ op[s].at = "register" /\ work.s # {s}
  /\ Becomes(Registered(W, s)) /\ op' = [op EXCEPT ![s] = AfterStart(s)]
  /\ UNCHANGED <<speaker, card, work, downs>>
Gains(s) ==
  /\ op[s].at = "gain" /\ work.s # {s}
  /\ Becomes(setUltraSoundGain_l(W, s, op[s].gain))
  /\ op' = [op EXCEPT ![s] = NoOp]
  /\ UNCHANGED <<speaker, card, work, downs>>
Mutes(w, s) == IF s \in Upds /\ Running(w.str[s]) THEN setUltraSoundGain_l(w, s, "mute") ELSE w
StopsAfter(s) ==
  /\ op[s].at = "stop" /\ work.s # {s}
  /\ Becomes(stop(W, s)) /\ op' = [op EXCEPT ![s] = NoOp]
  /\ UNCHANGED <<speaker, card, work, downs>>

(* Playback comes to the speaker and leaves it; setUltrasoundGain() of the *)
(* ResourceManager tells the ultrasound stream, if it is active.           *)
Tells(w, g) ==
  LET A == {s \in Upds : w.str[s].st = "STARTED"}
  IN IF A = {} THEN w ELSE setUltraSoundGain_l(w, CHOOSE s \in A : TRUE, g)
MutesOnly(g) == "mute"  \* seeded fault: the gain is muted and not set again
After(g) == g
Speaker ==
  /\ Hasty \/ (\A s \in Streams : ~Busy(s) /\ work.kind = None)
  /\ speaker' = ~speaker
  /\ Becomes(Tells(W, IF speaker THEN After("low") ELSE "high"))
  /\ UNCHANGED <<op, card, work, downs>>

------------------------------------------------------------------------------
(* The clients.                                                            *)
Calm == Hasty \/ work.kind = None
Asks(w, s, a) == Becomes([w EXCEPT !.str[s].ask = a]) /\ UNCHANGED <<speaker, card, work, downs>>
Open(s) ==
  /\ Calm /\ str[s].ask = None /\ card = "ON" /\ ~Busy(s)
  /\ \E ok \in {TRUE} \cup IF Hasty THEN {FALSE} ELSE {} :
       Asks(open(W, s, ok), s, IF ok THEN "INIT" ELSE None)
  /\ UNCHANGED op
Start(s) ==
  /\ Calm /\ str[s].ask \in {"INIT", "STOPPED"} /\ ~Busy(s)
  /\ (card = "OFF" /\ ~Hasty => str[s].cached = "INIT")
  /\ \E failed \in SUBSET (IF Hasty THEN Used(s) ELSE {}), ok \in BOOLEAN :
       LET w == start(W, s, failed, ok)
           done == card = "OFF" \/ w.str[s].st = "STARTED"
       IN /\ Asks(w, s, IF done THEN "STARTED" ELSE str[s].ask)
          /\ op' = [op EXCEPT ![s] = IF w.str[s].st = "STARTED" THEN [NoOp EXCEPT !.at = "register"] ELSE NoOp]
Stop(s) ==
  /\ Calm /\ str[s].ask = "STARTED" /\ (Hasty \/ (card = "ON" /\ ~Busy(s)))
  /\ IF s \in Upds
     THEN Asks(Mutes(W, s), s, "STOPPED") /\ op' = [op EXCEPT ![s].at = "stop"]
     ELSE Asks(stop(W, s), s, "STOPPED") /\ UNCHANGED op
Close(s) ==  \* and the stream is deleted
  /\ Calm /\ str[s].ask # None /\ ~Busy(s)
  /\ LET w == close(Mutes(W, s), s) IN Becomes([w EXCEPT !.str[s] = [New EXCEPT !.sess = w.str[s].sess]])
  /\ UNCHANGED <<op, speaker, card, work, downs>>

------------------------------------------------------------------------------
(* The restart of the card.                                                *)
Goes ==
  /\ card = "ON" /\ work.kind = None /\ downs < MaxDowns
  /\ card' = "OFF" /\ downs' = downs + 1 /\ work' = [Idle EXCEPT !.kind = "down", !.todo = Streams]
  /\ UNCHANGED <<str, devs, reg, op, speaker>>
Returns ==
  /\ card = "OFF" /\ work.kind = None
  /\ card' = "ON" /\ work' = [Idle EXCEPT !.kind = "up", !.todo = Streams]
  /\ UNCHANGED <<str, devs, reg, op, speaker, downs>>
Finishes ==
  /\ work.kind # None /\ work.todo = {} /\ work.s = {} /\ work' = Idle
  /\ UNCHANGED <<str, devs, reg, op, speaker, card, downs>>
Turn(s, at) == work' = [work EXCEPT !.todo = @ \ {s}, !.s = IF at = "done" THEN {} ELSE {s}, !.at = at]
At(s, kind, at) == work.kind = kind /\ work.s = {s} /\ work.at = at

(* The state is remembered unless the client asked for more since; then    *)
(* the stream is stopped and closed, its mutex given up between.           *)
ssrDownHandler(s) ==
  /\ work.kind = "down" /\ work.s = {} /\ s \in work.todo /\ (Hasty \/ ~Busy(s))
  /\ str' = [str EXCEPT ![s].cached = IF @ = "IDLE" THEN str[s].st ELSE @]
  /\ Turn(s, IF Running(str[s]) THEN "stop" ELSE IF str[s].st = "IDLE" THEN "done" ELSE "close")
  /\ UNCHANGED <<devs, reg, op, speaker, card, downs>>
DownStops(s) ==
  /\ At(s, "down", "stop")
  /\ Becomes(stop(Mutes(W, s), s)) /\ Turn(s, "close") /\ UNCHANGED <<op, speaker, card, downs>>
DownCloses(s) ==
  /\ At(s, "down", "close")
  /\ Becomes([close(W, s) EXCEPT !.str[s].st = "IDLE"])
  /\ Turn(s, "done") /\ UNCHANGED <<op, speaker, card, downs>>

ForgetsStart(c) == FALSE  \* seeded fault: a stream that ran is only opened
Restarts(c) == c \in {"STARTED", "PAUSED"}
ssrUpHandler(s) ==
  /\ work.kind = "up" /\ work.s = {} /\ s \in work.todo
  /\ IF str[s].cached \in {"INIT", "STARTED", "PAUSED"}
     THEN \E ok \in {TRUE} \cup IF Hasty THEN {FALSE} ELSE {} :
            LET w == open(W, s, ok)
                more == w.str[s].st = "INIT" /\ Restarts(str[s].cached)
            IN /\ Becomes(IF more THEN w ELSE [w EXCEPT !.str[s].cached = "IDLE"])
               /\ Turn(s, IF more THEN "start" ELSE "done")
     ELSE str' = [str EXCEPT ![s].cached = "IDLE"] /\ Turn(s, "done") /\ UNCHANGED <<devs, reg>>
  /\ UNCHANGED <<op, speaker, card, downs>>
UpStarts(s) ==
  /\ At(s, "up", "start")
  /\ LET w == IF str[s].st = "INIT" THEN Registered(start(W, s, {}, TRUE), s) ELSE W
         v == IF s \in Upds THEN setUltraSoundGain_l(w, s, Wanted) ELSE w
     IN Becomes([v EXCEPT !.str[s].cached = "IDLE"])
  /\ Turn(s, "done") /\ UNCHANGED <<op, speaker, card, downs>>

Step(s) ==
  \/ Open(s) \/ Start(s) \/ Stop(s) \/ Close(s) \/ Registers(s) \/ Gains(s) \/ StopsAfter(s)
  \/ ssrDownHandler(s) \/ DownStops(s) \/ DownCloses(s) \/ ssrUpHandler(s) \/ UpStarts(s)
Next == Goes \/ Returns \/ Finishes \/ Speaker \/ \E s \in Streams : Step(s)
Spec == Init /\ [][Next]_vars

------------------------------------------------------------------------------
(* The shape of the state.                                                 *)
TypeOK ==
  /\ \A s \in Streams : str[s].st \in {"IDLE", "INIT", "STARTED", "STOPPED"} /\ str[s].gain \in {"mute", "low", "high"}
  /\ \A d \in Devices : devs[d].open \in Nat /\ devs[d].start \in Nat
  /\ reg \subseteq Devices \X Streams /\ card \in {"ON", "OFF"} /\ downs \in 0..MaxDowns

(* A device is opened once for each open stream on it, started once for    *)
(* each that runs; a stream that is idle has no session.                   *)
CountsExact ==
  /\ \A d \in Devices :
       /\ devs[d].open = Cardinality({s \in Streams : d \in Used(s) /\ str[s].st # "IDLE"})
       /\ devs[d].start = Cardinality({s \in Streams : d \in Used(s) /\ str[s].st = "STARTED"})
  /\ \A s \in Streams : str[s].sess <=> str[s].st # "IDLE"

(* Exactly the devices of the streams that run are registered as active,   *)
(* once a start has got as far as that.                                    *)
RoutesRight ==
  \A s \in Streams, d \in Devices :
    op[s].at # "register" => (<<d, s>> \in reg <=> d \in Used(s) /\ str[s].st = "STARTED")

(* Once the restart is over a stream is what its client was told it is.    *)
PromisesKept ==
  work.kind = None /\ card = "ON" =>
    \A s \in Streams :
      ~Busy(s) => /\ str[s].ask = "STARTED" => str[s].run
                  /\ str[s].ask \in {"INIT", "STOPPED", None} => ~str[s].run

(* An ultrasound stream that runs has, on the processor, the gain for what *)
(* plays beside it; one that was stopped was muted.                        *)
Adapts ==
  \A s \in Upds : work.kind = None /\ ~Busy(s) =>
    /\ str[s].st = "STARTED" => str[s].dsp = Wanted
    /\ str[s].st = "STOPPED" => str[s].dsp = "mute"
=============================================================================
