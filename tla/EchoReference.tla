---------------------------- MODULE EchoReference ----------------------------
(***************************************************************************)
(* What a capture stream must know of the playback beside it: the          *)
(* ResourceManager counts, for each capture stream, the playback streams   *)
(* on each device whose echo it has to cancel, and makes the stream's      *)
(* session take the device as its echo reference while there are any. The  *)
(* proximity detector's gain follows the playback devices the same way.    *)
(* Registrations are serialized by mActiveStreamMutex.                     *)
(***************************************************************************)
EXTENDS Naturals, FiniteSets, FiniteSetsExt

CONSTANTS
  Rx, Tx,      \* playback and capture streams
  Apart,       \* may playback streams be on different devices at a time?
  Loose,       \* may a stream wait open but not started while others start, stop and move?
  Fails        \* may a session refuse a reference?

EchoAssumption ==
  Rx \cap Tx = {} /\ Apart \in BOOLEAN /\ Loose \in BOOLEAN /\ Fails \in BOOLEAN

Devices == {"speaker", "handset"}
Out     == "none"        \* PAL_DEVICE_OUT_MIN: no reference

VARIABLES
  state,     \* of every stream: "closed", "INIT", "STARTED" (not registered yet), "active", "STOPPED"
  at,        \* of a playback stream: its device
  reg,       \* active_devices: pairs of a playback stream and its device
  ecCount,   \* ec_ref_count_map: of each capture stream, its count for each device
  ecRef,     \* ecRefDevId of the capture stream's session
  gain       \* the gain of the ultrasound stream, which is active all along

vars == <<state, at, reg, ecCount, ecRef, gain>>

Open(s)     == state[s] # "closed"
OnDevice(d) == {r \in Rx : Open(r) /\ at[r] = d}           \* deviceCount
Playing(d)  == {r \in Rx : <<r, d>> \in reg /\ state[r] \in {"STARTED", "active"}}

GainOf(d) == IF d = "speaker" THEN "high" ELSE "low"

(* The gain setUltrasoundGain() chooses for the devices that are active. *)
GainFor(pairs) ==
  IF \E p \in pairs : p[2] = "speaker" THEN "high" ELSE IF pairs # {} THEN "low" ELSE "mute"

Init ==
  /\ state = [s \in Rx \cup Tx |-> "closed"]
  /\ at \in [Rx -> Devices] /\ (Apart \/ \A r, q \in Rx : at[r] = at[q])
  /\ reg = {}
  /\ ecCount = [t \in Tx |-> [d \in Devices |-> 0]]
  /\ ecRef = [t \in Tx |-> Out]
  /\ gain = "mute"

------------------------------------------------------------------------------
(***************************************************************************)
(* SessionAlsaPcm::setECRef(): what it makes of the counts and references, *)
(* as a record. A session that has another reference gives it up, with its *)
(* counts, before it takes the new one. If the mixer refuses that, for a   *)
(* stream of no, registerDevice() takes back what it counted for it.       *)
(***************************************************************************)
Take(e, t, d, no) ==
  LET left == IF e.ref[t] = Out THEN e.cnt ELSE [e.cnt EXCEPT ![t][e.ref[t]] = 0]
  IN IF e.ref[t] = d THEN e
     ELSE IF t \in no THEN [e EXCEPT !.cnt = [left EXCEPT ![t][d] = 0]]
     ELSE [cnt |-> left, ref |-> [e.ref EXCEPT ![t] = d]]

Refusing == IF Fails THEN SUBSET Tx ELSE {{}}

(* A reference to another device is kept. *)
Leave(e, t, d) == IF e.ref[t] \in {Out, d} THEN [e EXCEPT !.ref[t] = Out] ELSE e

Echo == [cnt |-> ecCount, ref |-> ecRef]
Sets(e) == ecCount' = e.cnt /\ ecRef' = e.ref

Capturing == {t \in Tx : state[t] = "active"}      \* getConcurrentTxStream_l()

(* registerDevice() of a playback stream: the first one on the device sets *)
(* the reference of every capture stream.                                  *)
Register(e, r, d, no) ==
  FoldSet(LAMBDA t, f :
            LET up == [f EXCEPT !.cnt[t][d] = @ + 1]
            IN IF up.cnt[t][d] > 1 THEN up ELSE Take(up, t, d, no),
          e, Capturing)

(* Seeded fault: the first one that stops takes the reference away. *)
DropsReference(e, r, d) ==
  FoldSet(LAMBDA t, f :
            IF f.cnt[t][d] = 0 THEN f ELSE Leave([f EXCEPT !.cnt[t][d] = @ - 1], t, d),
          e, Capturing)

(* deregisterDevice(): a capture stream without a count is skipped. *)
Deregister(e, r, d) ==
  FoldSet(LAMBDA t, f :
            IF f.cnt[t][d] = 0 THEN f
            ELSE LET down == [f EXCEPT !.cnt[t][d] = @ - 1]
                 IN IF down.cnt[t][d] > 0 THEN down ELSE Leave(down, t, d),
          e, Capturing)

------------------------------------------------------------------------------
(* The streams' calls. Unless Loose, a stream opens and starts, or stops   *)
(* and closes, while the others are active or closed.                      *)
Alone(s) == Loose \/ \A q \in (Rx \cup Tx) \ {s} : state[q] \in {"closed", "active"}

OpenStream(s) ==
  /\ ~Open(s) /\ Alone(s)
  /\ state' = [state EXCEPT ![s] = "INIT"]
  /\ UNCHANGED <<at, reg, ecCount, ecRef, gain>>

StartRx(r) ==
  /\ r \in Rx /\ state[r] \in {"INIT", "STOPPED"}
  /\ Loose \/ state[r] = "INIT"
  /\ state' = [state EXCEPT ![r] = "STARTED"]
  /\ UNCHANGED <<at, reg, ecCount, ecRef, gain>>

(* The second half of start(). A device that is registered already is left *)
(* as it is, except for the gain.                                          *)
RegisterRx(r) ==
  /\ r \in Rx /\ state[r] = "STARTED"
  /\ LET d == at[r]
     IN /\ reg' = reg \cup {<<r, d>>}
        /\ \E no \in Refusing : Sets(IF <<r, d>> \in reg THEN Echo ELSE Register(Echo, r, d, no))
        /\ gain' = IF Cardinality(OnDevice(d)) = 1 THEN GainOf(d) ELSE gain
  /\ state' = [state EXCEPT ![r] = "active"]
  /\ UNCHANGED at

StopRx(r) ==
  /\ r \in Rx /\ state[r] = "active" /\ Alone(r)
  /\ LET d == at[r]
     IN /\ reg' = reg \ {<<r, d>>}
        /\ Sets(IF <<r, d>> \in reg THEN Deregister(Echo, r, d) ELSE Echo)
        /\ gain' = IF Cardinality(OnDevice(d)) = 1 THEN GainFor(reg') ELSE gain
  /\ state' = [state EXCEPT ![r] = "STOPPED"]
  /\ UNCHANGED at

CloseStream(s) ==
  /\ state[s] \in {"INIT", "STOPPED"} /\ (Loose \/ state[s] = "STOPPED")
  /\ state' = [state EXCEPT ![s] = "closed"]
  /\ reg' = {p \in reg : p[1] # s}
  /\ UNCHANGED <<at, ecCount, ecRef, gain>>

(* start() of a capture stream: it takes the device of an active playback  *)
(* stream as its reference, and counts the streams that play there.        *)
StartTx(t) ==
  /\ t \in Tx /\ state[t] \in {"INIT", "STOPPED"}
  /\ Loose \/ state[t] = "INIT"
  /\ \/ /\ \A d \in Devices : Playing(d) = {}
        /\ UNCHANGED <<ecCount, ecRef>>
     \/ \E d \in {e \in Devices : Playing(e) # {}}, no \in Refusing :
          Sets(Take([Echo EXCEPT !.cnt[t][d] = @ + Cardinality(Playing(d))], t, d, no))
  /\ state' = [state EXCEPT ![t] = "active"]
  /\ UNCHANGED <<at, reg, gain>>

StopTx(t) ==
  /\ t \in Tx /\ state[t] = "active" /\ Alone(t)
  /\ ecCount' = [ecCount EXCEPT ![t] = [d \in Devices |-> 0]]
  /\ ecRef' = [ecRef EXCEPT ![t] = Out]
  /\ state' = [state EXCEPT ![t] = "STOPPED"]
  /\ UNCHANGED <<at, reg, gain>>

(***************************************************************************)
(* streamDevSwitch() moves streams to another device, all of them unless   *)
(* they may be apart: they are disconnected one after the other, then      *)
(* connected. A stopped stream is not registered. The detector's gain is   *)
(* muted by the last to leave a device and set by the first on the other.  *)
(***************************************************************************)
Move(S, d) ==
  /\ S # {} /\ \A r \in S : Open(r) /\ at[r] # d
  /\ Apart \/ S = {r \in Rx : Open(r)}
  /\ Loose \/ \A r \in S : state[r] \in {"STARTED", "active"}
  /\ LET from  == {r \in S : state[r] # "STOPPED" /\ <<r, at[r]>> \in reg}
         to    == {r \in S : state[r] # "STOPPED"}
         left  == FoldSet(LAMBDA r, e : Deregister(e, r, at[r]), Echo, from)
         first == OnDevice(d) = {}
     IN /\ reg' = {p \in reg : p[1] \notin from} \cup (to \X {d})
        /\ \E no \in Refusing : Sets(FoldSet(LAMBDA r, e : Register(e, r, d, no), left, to))
        /\ gain' = IF first /\ to # {} THEN GainOf(d)
                   ELSE IF \E e \in Devices : OnDevice(e) \subseteq S /\ OnDevice(e) \cap from # {}
                        THEN "mute" ELSE gain
  /\ at' = IF Apart THEN [r \in Rx |-> IF r \in S THEN d ELSE at[r]] ELSE [r \in Rx |-> d]
  /\ UNCHANGED state

Next ==
  \/ \E s \in Rx \cup Tx : OpenStream(s) \/ CloseStream(s)
  \/ \E r \in Rx : StartRx(r) \/ RegisterRx(r) \/ StopRx(r)
  \/ \E t \in Tx : StartTx(t) \/ StopTx(t)
  \/ \E S \in SUBSET Rx, d \in Devices : Move(S, d)

Spec == Init /\ [][Next]_vars

------------------------------------------------------------------------------
TypeOK ==
  /\ reg \subseteq Rx \X Devices
  /\ ecRef \in [Tx -> Devices \cup {Out}]
  /\ gain \in {"mute", "low", "high"}

(***************************************************************************)
(* A capture stream's count for a device is the number of playback streams *)
(* registered there; there is none for a capture stream that is not        *)
(* running.                                                                *)
(***************************************************************************)
CountsExact ==
  \A t \in Tx, d \in Devices :
    ecCount[t][d] = IF state[t] = "active" THEN Cardinality({r \in Rx : <<r, d>> \in reg}) ELSE 0

(***************************************************************************)
(* A capture stream cancels the echo of a device that plays, whenever one  *)
(* does, and refers to none that is silent. The detector's gain is that of *)
(* the devices that play.                                                  *)
(***************************************************************************)
RoutesRight ==
  /\ \A t \in Capturing :
       IF reg = {} THEN ecRef[t] = Out ELSE ecRef[t] \in {p[2] : p \in reg}
  /\ gain = GainFor(reg)
================================================================================
