--------------------------- MODULE ChargerListener ---------------------------
(***************************************************************************)
(* While a charger is plugged in and the speaker plays, PAL limits the     *)
(* speaker's module and sets the power chip's bit for boosting both. A     *)
(* library that comes and goes with ResourceManager looks up the charger   *)
(* when it comes, and has a thread wait for the kernel's messages about    *)
(* it; clients may tell ResourceManager too. The thread's two events are   *)
(* both registered with the pipe's descriptor (addEvent() passes the first *)
(* entry of its table), so a message is taken for the word to quit; and    *)
(* what it says of the charger is the opposite (ONLINE is 0).              *)
(***************************************************************************)
EXTENDS Integers, FiniteSets

CONSTANTS
  Streams,  \* the streams on the speaker
  Hasty     \* may the limiter fail, a stream start beside a charger?

ChargerAssumption == IsFiniteSet(Streams) /\ Hasty \in BOOLEAN

VARIABLES
  usb, bit,       \* the charger's presence, the power chip's bit
  told,           \* did a client tell PAL of the charger since it last changed?
  life,           \* is the library out, in or on its way out?
  thr, news,      \* where its thread is; is there a message for it?
  online, boost,  \* is_charger_online_ and is_concurrent_boost_state_
  str,            \* of each stream: is it open or started on the speaker?
  limited         \* was the speaker's module told to limit?
vars == <<usb, bit, told, life, thr, news, online, boost, str, limited>>

Tells == [online : BOOLEAN, boost : BOOLEAN]
Init ==
  /\ usb \in BOOLEAN /\ bit \in BOOLEAN /\ told = FALSE /\ life = "out" /\ thr = "none" /\ news = FALSE
  /\ online = FALSE /\ boost = FALSE /\ str = [s \in Streams |-> "none"] /\ limited = FALSE

Playing     == {s \in Streams : str[s] = "started"}
deviceCount == Cardinality({s \in Streams : str[s] # "none"})

(* The socket is there with the library.                                   *)
Plug(heard) ==
  /\ (heard => life = "in") /\ usb' = ~usb /\ told' = FALSE /\ news' = (news \/ heard)
  /\ UNCHANGED <<bit, life, thr, online, boost, str, limited>>

------------------------------------------------------------------------------
(* ResourceManager's side. The limiter's parameter and the write of the    *)
(* bit may fail.                                                           *)
chargerListenerSetBoostState(value, ok) ==
  IF ok THEN bit' = value /\ boost' = value ELSE UNCHANGED <<bit, boost>>
setDeviceParamConfig(c, set, written) ==
  IF Playing = {} \/ ~set THEN boost' = c.boost /\ UNCHANGED <<bit, limited>>
  ELSE /\ limited' = c.online
       /\ IF c.boost # c.online /\ written THEN bit' = c.online /\ boost' = c.online
          ELSE boost' = c.boost /\ UNCHANGED bit
setParameter(c, set, written) ==
  IF online = c.online THEN UNCHANGED <<bit, online, boost, limited>>
  ELSE online' = c.online /\ setDeviceParamConfig(c, set, written)

(* Nothing plays yet. The two fields are not initialised before.           *)
getInitialStatus(held) ==
  online' = ~usb /\ boost' = IF held.online = ~usb THEN held.boost ELSE bit
chargerListenerInit(ok, held) ==
  /\ life = "out" /\ life' = "in" /\ news' = FALSE /\ told' = FALSE
  /\ (held.online \/ held.boost => Hasty)
  /\ IF ok THEN thr' = "waits" /\ getInitialStatus(held)
           ELSE online' = held.online /\ boost' = held.boost /\ UNCHANGED thr
  /\ UNCHANGED <<usb, bit, str, limited>>

(* A client that watches the charger itself tells what it has read.        *)
pal_set_param(set, written) ==
  /\ life = "in" /\ (~set => Hasty) /\ told' = TRUE
  /\ setParameter([online |-> usb, boost |-> bit], set, written)
  /\ UNCHANGED <<usb, life, thr, news, str>>

(* The message stays where it is; the pipe that is read instead is empty,  *)
(* and the empty word counts as the one to quit.                           *)
chargerMonitor ==
  /\ thr = "waits" /\ news /\ thr' = "over"
  /\ UNCHANGED <<usb, bit, told, life, news, online, boost, str, limited>>

(* The thread is told to end, and waited for.                              *)
chargerListenerDeinit ==
  /\ life = "in" /\ deviceCount = 0 /\ life' = "ends"
  /\ UNCHANGED <<usb, bit, told, thr, news, online, boost, str, limited>>
Joined ==
  /\ life = "ends" /\ life' = "out" /\ thr' = "none" /\ news' = FALSE
  /\ UNCHANGED <<usb, bit, told, online, boost, str, limited>>

------------------------------------------------------------------------------
(* A stream on the speaker opens, starts, stops and closes it. Stopping it *)
(* takes the bit back only when nobody has the speaker open any more.      *)
Open(s) ==
  /\ life = "in" /\ str[s] = "none" /\ str' = [str EXCEPT ![s] = "open"]
  /\ UNCHANGED <<usb, bit, told, life, thr, news, online, boost, limited>>
Start(s) ==
  /\ str[s] = "open" /\ (Hasty \/ Playing # {} \/ ~online)
  /\ str' = [str EXCEPT ![s] = "started"] /\ limited' = (limited /\ Playing # {})
  /\ UNCHANGED <<usb, bit, told, life, thr, news, online, boost>>
Stop(s, written) ==
  /\ str[s] = "started" /\ str' = [str EXCEPT ![s] = "open"]
  /\ IF deviceCount = 0 /\ online /\ boost THEN chargerListenerSetBoostState(FALSE, written)
     ELSE UNCHANGED <<bit, boost>>
  /\ UNCHANGED <<usb, told, life, thr, news, online, limited>>
Close(s) ==
  /\ str[s] = "open" /\ str' = [str EXCEPT ![s] = "none"]
  /\ UNCHANGED <<usb, bit, told, life, thr, news, online, boost, limited>>

Next ==
  \/ \E heard \in BOOLEAN : Plug(heard)
  \/ \E ok \in BOOLEAN, held \in Tells : chargerListenerInit(ok, held)
  \/ \E set, written \in BOOLEAN : pal_set_param(set, written)
  \/ chargerMonitor \/ chargerListenerDeinit \/ Joined
  \/ \E s \in Streams : Open(s) \/ Start(s) \/ Close(s) \/ \E written \in BOOLEAN : Stop(s, written)
Spec == Init /\ [][Next]_vars

------------------------------------------------------------------------------
TypeOK ==
  /\ {usb, bit, told, news, online, boost, limited} \subseteq BOOLEAN
  /\ life \in {"out", "in", "ends"} /\ thr \in {"none", "waits", "over"}
  /\ str \in [Streams -> {"none", "open", "started"}]

(* The thread lives only while the library is there, and streams that the  *)
(* library's end would cut off from the power chip do not outlive it.      *)
NoOrphan == (life = "out" => thr = "none") /\ (life # "in" => deviceCount = 0)

(***************************************************************************)
(* Once a client has told, PAL knows of the charger that is there and      *)
(* believes in no bit that is not set, and a speaker that plays is limited *)
(* as long as there is a charger, and no longer.                           *)
(***************************************************************************)
Adapts ==
  life = "in" /\ told => online = usb /\ (boost => bit) /\ (Playing # {} => limited = online)
==============================================================================
