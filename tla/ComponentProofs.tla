--------------------------- MODULE ComponentProofs ---------------------------
(***************************************************************************)
(* What holds of the components that run beside the streams, each by       *)
(* itself, for every value of its constants: the charger listener, the     *)
(* handler of a signal, PAL's own start and end, the streams of a voice    *)
(* call, the service in front of PAL, and the common and the ultrasound    *)
(* streams. An instance gives each of them a name; a theorem is about one  *)
(* of them, and the constants and variables here are theirs.               *)
(***************************************************************************)
EXTENDS Integers, Sequences, FiniteSets, FiniteSetTheorems, SequenceTheorems, TLAPS

CONSTANTS
  Hasty,                  \* of every component
  Streams,                \* of the charger listener
  Threads, MaxSignals,    \* of the signal handler
  MaxUsers, MaxChanges,   \* of PAL's start and end
  Records, Musics, Ends, MaxDowns,  \* of the streams of a call
  Clients, Handles, Joins, MaxFds, MaxDevices,  \* of the service in front of PAL
  Upds, Others            \* of the common and the ultrasound streams

VARIABLES
  usb, bit, told, life, thr, news, online, boost, str, limited,
  action, lock, th, jobs, reg, handle, count,
  refs, users, rm, ctx, job, mixer, event, closed, monitor, fd, leaving, card, worker, msgQ, thrown,
  votes, work, downs,
  alive, sess, link, obj, pal, fds, calls, ev, death, seen,
  devs, op, speaker

------------------------------------------------------------------------------
(***************************************************************************)
(* The charger listener. Its library comes and goes with ResourceManager,  *)
(* a client tells of the charger, streams start and stop on the speaker.   *)
(***************************************************************************)
Charger == INSTANCE ChargerListener

(***************************************************************************)
(* The library's thread is there only with the library, and so are the     *)
(* streams;                                                                *)
(***************************************************************************)
ChargerInv ==
  /\ Charger!TypeOK
  /\ life = "out" => thr = "none"
  /\ life # "in" => \A s \in Streams : str[s] = "none"

(***************************************************************************)
(* the bit that PAL believes in is set, and the speaker's limiter goes     *)
(* with the charger PAL knows.                                             *)
(***************************************************************************)
LimiterInv ==
  /\ boost => bit
  /\ Charger!Playing # {} => limited = online
  /\ life = "in" /\ told => online = usb

(***************************************************************************)
(* No stream has the speaker open exactly when the device's count is zero. *)
(***************************************************************************)
LEMMA SpeakerFree ==
  ASSUME Charger!ChargerAssumption
  PROVE  Charger!deviceCount = 0 <=> \A s \in Streams : str[s] = "none"
<1> DEFINE On == {s \in Streams : str[s] # "none"}
<1>0. IsFiniteSet(Streams)
  BY DEF Charger!ChargerAssumption, Charger!IsFiniteSet, IsFiniteSet
<1>1. IsFiniteSet(On)
  BY <1>0, FS_Subset
<1>2. Cardinality(On) = 0 <=> On = {}
  BY <1>1, FS_EmptySet
<1>3. On = {} <=> \A s \in Streams : str[s] = "none"
  OBVIOUS
<1>4. Charger!Cardinality(On) = Cardinality(On)
  BY DEF Charger!Cardinality, Cardinality
<1> QED
  BY <1>2, <1>3, <1>4 DEF Charger!deviceCount

(***************************************************************************)
(* Both hold at first,                                                     *)
(***************************************************************************)
LEMMA ChargerStarts == Charger!Init => ChargerInv /\ LimiterInv
  BY DEF Charger!Init, ChargerInv, LimiterInv, Charger!TypeOK, Charger!Playing

(***************************************************************************)
(* the first after every step,                                             *)
(***************************************************************************)
LEMMA ChargerGoesOn ==
  ASSUME Charger!ChargerAssumption, ChargerInv, [Charger!Next]_(Charger!vars)
  PROVE  ChargerInv'
<1> USE DEF ChargerInv, Charger!TypeOK
<1>1. ASSUME NEW heard \in BOOLEAN, Charger!Plug(heard) PROVE ChargerInv'
  BY <1>1 DEF Charger!Plug
<1>2. ASSUME NEW ok \in BOOLEAN, NEW held \in Charger!Tells,
             Charger!chargerListenerInit(ok, held)
      PROVE  ChargerInv'
  BY <1>2 DEF Charger!chargerListenerInit, Charger!getInitialStatus, Charger!Tells
<1>3. ASSUME NEW set \in BOOLEAN, NEW written \in BOOLEAN, Charger!pal_set_param(set, written)
      PROVE  ChargerInv'
  BY <1>3 DEF Charger!pal_set_param, Charger!setParameter, Charger!setDeviceParamConfig
<1>4. CASE Charger!chargerMonitor
  BY <1>4 DEF Charger!chargerMonitor
<1>5. CASE Charger!chargerListenerDeinit
  BY <1>5, SpeakerFree DEF Charger!chargerListenerDeinit
<1>6. CASE Charger!Joined
  BY <1>6 DEF Charger!Joined
<1>7. ASSUME NEW s \in Streams, Charger!Open(s) \/ Charger!Start(s) \/ Charger!Close(s)
      PROVE  ChargerInv'
  BY <1>7 DEF Charger!Open, Charger!Start, Charger!Close
<1>8. ASSUME NEW s \in Streams, NEW written \in BOOLEAN, Charger!Stop(s, written)
      PROVE  ChargerInv'
  BY <1>8 DEF Charger!Stop, Charger!chargerListenerSetBoostState
<1>9. CASE UNCHANGED Charger!vars
  BY <1>9 DEF Charger!vars
<1> QED
  BY <1>1, <1>2, <1>3, <1>4, <1>5, <1>6, <1>7, <1>8, <1>9 DEF Charger!Next

(***************************************************************************)
(* and the second if the limiter does not fail and no stream starts beside *)
(* a charger.                                                              *)
(***************************************************************************)
LEMMA LimiterGoesOn ==
  ASSUME ~Hasty, ChargerInv, LimiterInv, [Charger!Next]_(Charger!vars)
  PROVE  LimiterInv'
<1> USE DEF ChargerInv, Charger!TypeOK, LimiterInv, Charger!Playing
<1>1. ASSUME NEW heard \in BOOLEAN, Charger!Plug(heard) PROVE LimiterInv'
  BY <1>1 DEF Charger!Plug
<1>2. ASSUME NEW ok \in BOOLEAN, NEW held \in Charger!Tells,
             Charger!chargerListenerInit(ok, held)
      PROVE  LimiterInv'
  BY <1>2 DEF Charger!chargerListenerInit, Charger!getInitialStatus, Charger!Tells
<1>3. ASSUME NEW set \in BOOLEAN, NEW written \in BOOLEAN, Charger!pal_set_param(set, written)
      PROVE  LimiterInv'
  BY <1>3 DEF Charger!pal_set_param, Charger!setParameter, Charger!setDeviceParamConfig
<1>4. CASE Charger!chargerMonitor
  BY <1>4 DEF Charger!chargerMonitor
<1>5. CASE Charger!chargerListenerDeinit
  BY <1>5 DEF Charger!chargerListenerDeinit
<1>6. CASE Charger!Joined
  BY <1>6 DEF Charger!Joined
<1>7. ASSUME NEW s \in Streams, Charger!Open(s) \/ Charger!Start(s) \/ Charger!Close(s)
      PROVE  LimiterInv'
  BY <1>7 DEF Charger!Open, Charger!Start, Charger!Close
<1>8. ASSUME NEW s \in Streams, NEW written \in BOOLEAN, Charger!Stop(s, written)
      PROVE  LimiterInv'
  BY <1>8 DEF Charger!Stop, Charger!chargerListenerSetBoostState
<1>9. CASE UNCHANGED Charger!vars
  BY <1>9 DEF Charger!vars
<1> QED
  BY <1>1, <1>2, <1>3, <1>4, <1>5, <1>6, <1>7, <1>8, <1>9 DEF Charger!Next

(***************************************************************************)
(* The charger listener's fields keep their types.                         *)
(***************************************************************************)
THEOREM ChargerTypes ==
  ASSUME Charger!ChargerAssumption
  PROVE  Charger!Spec => []Charger!TypeOK
<1>1. ChargerInv => Charger!TypeOK
  BY DEF ChargerInv
<1> QED
  BY ChargerStarts, ChargerGoesOn, <1>1, PTL DEF Charger!Spec

(***************************************************************************)
(* The charger listener's thread does not outlive its library, nor the     *)
(* streams on the speaker (chargerListenerDeinit), whatever fails.         *)
(***************************************************************************)
THEOREM ChargerNoOrphan ==
  ASSUME Charger!ChargerAssumption
  PROVE  Charger!Spec => []Charger!NoOrphan
<1>1. ChargerInv => Charger!NoOrphan
  BY SpeakerFree DEF ChargerInv, Charger!NoOrphan
<1> QED
  BY ChargerStarts, ChargerGoesOn, <1>1, PTL DEF Charger!Spec

(***************************************************************************)
(* Once a client has told of the charger the limiter and the boost go with *)
(* it (setDeviceParamConfig, Speaker's start and stop), however streams    *)
(* come and go. What the hypothesis excludes is the limiter's parameter    *)
(* failing, after which it is not set again, and a first stream that       *)
(* starts with a charger known.                                            *)
(***************************************************************************)
THEOREM ChargerAdapts ==
  ASSUME Charger!ChargerAssumption, ~Hasty
  PROVE  Charger!Spec => []Charger!Adapts
<1>1. ChargerInv /\ LimiterInv => Charger!Adapts
  BY DEF ChargerInv, LimiterInv, Charger!Adapts
<1> QED
  BY ChargerStarts, ChargerGoesOn, LimiterGoesOn, <1>1, PTL DEF Charger!Spec


------------------------------------------------------------------------------
(***************************************************************************)
(* The signal handler. A signal comes to a thread, which tells AGM, raises *)
(* the signal for the debugger's handler and leaves a job that registers   *)
(* PAL's handler anew; the handler waits for the job that the last signal  *)
(* left.                                                                   *)
(***************************************************************************)
Signals == INSTANCE SignalHandler

(***************************************************************************)
(* What a job passes while its handler is not yet registered.              *)
(***************************************************************************)
Due == {"begins", "sleeps", "waits"}

(***************************************************************************)
(* No thread and no job is stuck: the hypothesis that no signal comes      *)
(* within another is used here.                                            *)
(***************************************************************************)
SignalType ==
  /\ action \in {"custom", "default"} /\ lock \in {"free", "job"} \cup Threads
  /\ th \in [Threads -> [at : {"none", "enters", "told", "keeps"}, job : {0} \cup Signals!Jobs]]
  /\ jobs \in [Signals!Jobs -> {"none", "begins", "sleeps", "waits", "set", "over"}]
  /\ reg \in {0} \cup Signals!Jobs /\ handle \in {0} \cup Signals!Jobs
  /\ count \in [came : 0..MaxSignals, told : Nat, handled : Nat]

(***************************************************************************)
(* Only one thread is in the handler, and it has the lock from when it     *)
(* tells AGM until it leaves. The debugger's handler is in place exactly   *)
(* while one job is on its way to put PAL's back, and that job is not the  *)
(* one the handler waits for: the job waited for is past the lock the      *)
(* handler holds.                                                          *)
(***************************************************************************)
SignalInv ==
  /\ \A t, u \in Threads : th[t].at # "none" /\ th[u].at # "none" => t = u
  /\ \A t \in Threads :
       /\ lock = t <=> th[t].at \in {"told", "keeps"}
       /\ th[t].at \in {"enters", "told"} => action = "custom"
       /\ th[t].at = "keeps" => /\ th[t].job \in Signals!Jobs /\ th[t].job # handle
                                /\ jobs[th[t].job] \in Due
                                /\ action = "default"
  /\ lock = "job" => reg # 0 /\ jobs[reg] = "set"
  /\ \A j \in Signals!Jobs :
       /\ reg = j <=> jobs[j] \in {"sleeps", "waits", "set"}
       /\ jobs[j] = "set" => lock = "job"
       /\ jobs[j] \in Due => action = "default"
  /\ \A j, k \in Signals!Jobs : jobs[j] \in Due /\ jobs[k] \in Due => j = k
  /\ action = "default" => \E j \in Signals!Jobs : jobs[j] \in Due
  /\ handle # 0 => jobs[handle] # "none"

(***************************************************************************)
(* A signal that has come is handled except the one that is, and AGM was   *)
(* told of it except when it has only entered.                             *)
(***************************************************************************)
Unhandled == \E t \in Threads : th[t].at \in {"enters", "told"}
Entered == \E t \in Threads : th[t].at = "enters"
CountInv ==
  /\ count.came = count.handled + IF Unhandled THEN 1 ELSE 0
  /\ count.told + (IF Entered THEN 1 ELSE 0) <= count.came

(***************************************************************************)
(* Every step keeps the types,                                             *)
(***************************************************************************)
LEMMA SignalTypeStep ==
  ASSUME Signals!SignalAssumption, ~Hasty, SignalType, SignalInv, [Signals!Next]_(Signals!vars)
  PROVE  SignalType'
<1>0. MaxSignals \in Nat /\ {"free", "job"} \cap Threads = {}
  BY DEF Signals!SignalAssumption
<1> USE <1>0
<1> USE DEF Signals!Jobs, Due, SignalType, SignalInv, Signals!Outside
<1>1. ASSUME NEW t \in Threads, Signals!customSignalHandler(t)
      PROVE  SignalType'
  BY SMTT(30), <1>1 DEF Signals!customSignalHandler
<1>2. ASSUME NEW t \in Threads, Signals!invokeDefaultHandler(t)
      PROVE  SignalType'
  BY <1>2 DEF Signals!invokeDefaultHandler, Signals!Raised
<1>3. ASSUME NEW t \in Threads, Signals!Keeps(t)
      PROVE  SignalType'
  BY <1>3 DEF Signals!Keeps
<1>4. ASSUME NEW t \in Threads \cup {"job"}, Signals!Arrives(t)
      PROVE  SignalType'
  <2>1. t \in Threads /\ count.came + 1 \in 0..MaxSignals
    BY <1>4 DEF Signals!Arrives
  <2>2. count' \in [came : 0..MaxSignals, told : Nat, handled : Nat]
    <3>1. \/ count' = [count EXCEPT !.came = @ + 1, !.handled = @ + 1]
          \/ count' = [count EXCEPT !.came = @ + 1]
      BY <1>4, <2>1 DEF Signals!Arrives, Signals!Handled
    <3>2. count.handled + 1 \in Nat
      OBVIOUS
    <3>3. count \in [came : 0..MaxSignals, told : Nat, handled : Nat]
      OBVIOUS
    <3> HIDE DEF SignalType, SignalInv
    <3>4. CASE count' = [count EXCEPT !.came = @ + 1, !.handled = @ + 1]
      BY <2>1, <3>2, <3>3, <3>4
    <3>5. CASE count' = [count EXCEPT !.came = @ + 1]
      BY <2>1, <3>3, <3>5
    <3> QED
      BY <3>1, <3>4, <3>5
  <2>3. th' = th \/ th' = [th EXCEPT ![t].at = IF lock = t THEN "stuck" ELSE "enters"]
    BY <1>4, <2>1 DEF Signals!Arrives, Signals!Handled
  <2>4. lock # t
    BY <1>4, <2>1 DEF Signals!Arrives, Signals!Rests
  <2> QED
    BY SMTT(30), <1>4, <2>1, <2>2, <2>3, <2>4 DEF Signals!Arrives, Signals!Handled
<1>5. ASSUME NEW j \in Signals!Jobs, Signals!asyncRegister(j)
      PROVE  SignalType'
  BY <1>5 DEF Signals!asyncRegister
<1>6. ASSUME NEW j \in Signals!Jobs, NEW pending \in BOOLEAN, Signals!Awake(j, pending)
      PROVE  SignalType'
  BY <1>6 DEF Signals!Awake
<1>7. ASSUME NEW j \in Signals!Jobs, Signals!registerSignalHandler(j)
      PROVE  SignalType'
  BY <1>7 DEF Signals!registerSignalHandler
<1>8. ASSUME NEW j \in Signals!Jobs, Signals!Registered(j)
      PROVE  SignalType'
  BY <1>8 DEF Signals!Registered
<1>9. ASSUME UNCHANGED Signals!vars
      PROVE  SignalType'
  BY <1>9 DEF Signals!vars
<1> QED
  BY <1>1, <1>2, <1>3, <1>4, <1>5, <1>6, <1>7, <1>8, <1>9 DEF Signals!Next

(***************************************************************************)
(* who is where,                                                           *)
(***************************************************************************)
LEMMA SignalStep ==
  ASSUME Signals!SignalAssumption, ~Hasty, SignalType, SignalInv, [Signals!Next]_(Signals!vars)
  PROVE  SignalInv'
<1>0. MaxSignals \in Nat /\ {"free", "job"} \cap Threads = {}
  BY DEF Signals!SignalAssumption
<1> USE <1>0
<1> USE DEF Signals!Jobs, Due, SignalType, SignalInv, Signals!Outside
<1>1. ASSUME NEW t \in Threads, Signals!customSignalHandler(t)
      PROVE  SignalInv'
  BY <1>1 DEF Signals!customSignalHandler
<1>2. ASSUME NEW t \in Threads, Signals!invokeDefaultHandler(t)
      PROVE  SignalInv'
  BY <1>2 DEF Signals!invokeDefaultHandler, Signals!Raised
<1>3. ASSUME NEW t \in Threads, Signals!Keeps(t)
      PROVE  SignalInv'
  BY <1>3 DEF Signals!Keeps
<1>4. ASSUME NEW t \in Threads \cup {"job"}, Signals!Arrives(t)
      PROVE  SignalInv'
  <2>1. t \in Threads /\ Signals!Rests /\ lock # t
    BY <1>4 DEF Signals!Arrives, Signals!Rests
  <2>2. CASE action = "default"
    BY <1>4, <2>1, <2>2 DEF Signals!Arrives, Signals!Handled
  <2>3. CASE action # "default"
    <3>1. th' = [th EXCEPT ![t].at = "enters"] /\ UNCHANGED <<action, lock, jobs, reg, handle>>
      BY <1>4, <2>1, <2>3 DEF Signals!Arrives, Signals!Handled
    <3>2. \A u \in Threads : th'[u].at = IF u = t THEN "enters" ELSE "none"
      BY <2>1, <3>1 DEF Signals!Rests
    <3> QED
      BY <2>1, <2>3, <3>1, <3>2
  <2> QED
    BY <2>2, <2>3
<1>5. ASSUME NEW j \in Signals!Jobs, Signals!asyncRegister(j)
      PROVE  SignalInv'
  BY <1>5 DEF Signals!asyncRegister
<1>6. ASSUME NEW j \in Signals!Jobs, NEW pending \in BOOLEAN, Signals!Awake(j, pending)
      PROVE  SignalInv'
  BY <1>6 DEF Signals!Awake
<1>7. ASSUME NEW j \in Signals!Jobs, Signals!registerSignalHandler(j)
      PROVE  SignalInv'
  BY <1>7 DEF Signals!registerSignalHandler
<1>8. ASSUME NEW j \in Signals!Jobs, Signals!Registered(j)
      PROVE  SignalInv'
  BY <1>8 DEF Signals!Registered
<1>9. ASSUME UNCHANGED Signals!vars
      PROVE  SignalInv'
  BY <1>9 DEF Signals!vars
<1> QED
  BY <1>1, <1>2, <1>3, <1>4, <1>5, <1>6, <1>7, <1>8, <1>9 DEF Signals!Next

(***************************************************************************)
(* and the counts.                                                         *)
(***************************************************************************)
LEMMA CountStep ==
  ASSUME Signals!SignalAssumption, ~Hasty, SignalType, SignalInv, CountInv,
         [Signals!Next]_(Signals!vars)
  PROVE  CountInv'
<1>0. MaxSignals \in Nat /\ {"free", "job"} \cap Threads = {}
  BY DEF Signals!SignalAssumption
<1> USE <1>0
<1> USE DEF SignalType, CountInv
<1>count. /\ count.came \in Nat /\ count.told \in Nat /\ count.handled \in Nat
      /\ count = [came |-> count.came, told |-> count.told, handled |-> count.handled]
  OBVIOUS
<1>1. ASSUME NEW t \in Threads, Signals!customSignalHandler(t)
      PROVE  CountInv'
  <2>1. /\ Unhandled /\ Unhandled' /\ Entered /\ ~Entered'
    BY <1>1 DEF Signals!customSignalHandler, Unhandled, Entered, SignalInv
  <2>2. count' = [came |-> count.came, told |-> count.told + 1, handled |-> count.handled]
    BY <1>count, <1>1 DEF Signals!customSignalHandler
  <2> QED
    BY <1>count, <2>1, <2>2
<1>2. ASSUME NEW t \in Threads, Signals!invokeDefaultHandler(t)
      PROVE  CountInv'
  <2>1. /\ Unhandled /\ ~Unhandled' /\ ~Entered'
    BY <1>2 DEF Signals!invokeDefaultHandler, Unhandled, Entered, SignalInv
  <2>2. count' = [came |-> count.came, told |-> count.told, handled |-> count.handled + 1]
    BY <1>count, <1>2 DEF Signals!invokeDefaultHandler, Signals!Raised
  <2> QED
    BY <1>count, <2>1, <2>2
<1>3. ASSUME NEW t \in Threads, Signals!Keeps(t)
      PROVE  CountInv'
  <2>1. /\ Unhandled' = Unhandled /\ Entered' = Entered
    BY <1>3 DEF Signals!Keeps, Signals!Outside, Unhandled, Entered, SignalInv
  <2> QED
    BY <1>count, <1>3, <2>1 DEF Signals!Keeps
<1>4. ASSUME NEW t \in Threads \cup {"job"}, Signals!Arrives(t)
      PROVE  CountInv'
  <2>1. t \in Threads /\ Signals!Rests /\ ~Unhandled /\ ~Entered
    BY <1>4 DEF Signals!Arrives, Signals!Rests, Unhandled, Entered
  <2>2. CASE action = "default"
    <3>1. count' = [came |-> count.came + 1, told |-> count.told, handled |-> count.handled + 1]
      BY <1>count, <1>4, <2>2 DEF Signals!Arrives, Signals!Handled
    <3>2. ~Unhandled' /\ ~Entered'
      BY <1>4, <2>1, <2>2 DEF Signals!Arrives, Signals!Handled, Unhandled, Entered
    <3> QED
      BY <1>count, <2>1, <3>1, <3>2
  <2>3. CASE action # "default"
    <3>1. count' = [came |-> count.came + 1, told |-> count.told, handled |-> count.handled]
      BY <1>count, <1>4, <2>3 DEF Signals!Arrives, Signals!Handled
    <3>2. Unhandled' /\ Entered'
      BY <1>4, <2>1, <2>3 DEF Signals!Arrives, Signals!Handled, Signals!Rests, SignalInv,
         Unhandled, Entered
    <3> QED
      BY <1>count, <2>1, <3>1, <3>2
  <2> QED
    BY <2>2, <2>3
<1>5. ASSUME UNCHANGED <<th, count>>
      PROVE  CountInv'
  BY <1>5 DEF Unhandled, Entered
<1> QED
  BY <1>1, <1>2, <1>3, <1>4, <1>5
  DEF Signals!Next, Signals!vars, Signals!asyncRegister, Signals!Awake,
      Signals!registerSignalHandler, Signals!Registered

(***************************************************************************)
(* They hold at first,                                                     *)
(***************************************************************************)
LEMMA SignalStart ==
  ASSUME Signals!SignalAssumption, Signals!Init
  PROVE  SignalType /\ SignalInv /\ CountInv
<1>0. MaxSignals \in Nat /\ {"free", "job"} \cap Threads = {}
  BY DEF Signals!SignalAssumption
<1> USE <1>0
<1> USE DEF Signals!Init, Signals!Outside, Signals!Jobs
<1>1. SignalType
  BY DEF SignalType
<1>2. SignalInv
  BY DEF SignalInv, Due
<1>3. CountInv
  BY DEF CountInv, Unhandled, Entered
<1> QED
  BY <1>1, <1>2, <1>3

(***************************************************************************)
(* and say what the component promises.                                    *)
(***************************************************************************)
LEMMA SignalProps ==
  ASSUME Signals!SignalAssumption, SignalType, SignalInv, CountInv
  PROVE  Signals!TypeOK /\ Signals!CallbacksRight /\ Signals!PromisesKept /\ Signals!NeverBlocks
<1>0. MaxSignals \in Nat /\ {"free", "job"} \cap Threads = {}
  BY DEF Signals!SignalAssumption
<1> USE <1>0
<1> USE DEF SignalType, Signals!Jobs
<1>1. Signals!TypeOK
  <2>1. count.told \in 0..MaxSignals /\ count.handled \in 0..MaxSignals
    BY DEF CountInv
  <2> QED
    BY <2>1 DEF Signals!TypeOK
<1>2. Signals!CallbacksRight
  BY DEF Signals!CallbacksRight, Signals!Rests, CountInv, Unhandled
<1>3. Signals!PromisesKept
  BY DEF Signals!PromisesKept, SignalInv, Due
<1>4. Signals!NeverBlocks
  BY DEF Signals!NeverBlocks, SignalInv, Due
<1> QED
  BY <1>1, <1>2, <1>3, <1>4

(***************************************************************************)
(* Together: the invariant of a process in which no signal comes while     *)
(* another one is handled.                                                 *)
(***************************************************************************)
LEMMA SignalInvariant ==
  ASSUME Signals!SignalAssumption, ~Hasty
  PROVE  Signals!Spec => [](SignalType /\ SignalInv /\ CountInv)
  BY SignalTypeStep, SignalStep, CountStep, SignalStart, PTL DEF Signals!Spec

(***************************************************************************)
(* The handler, its lock and the jobs keep their types.                    *)
(***************************************************************************)
THEOREM SignalTypes ==
  ASSUME Signals!SignalAssumption, ~Hasty
  PROVE  Signals!Spec => []Signals!TypeOK
  BY SignalInvariant, SignalProps, PTL DEF Signals!Spec

(***************************************************************************)
(* Every signal reaches the debugger's handler once and AGM is told of     *)
(* none twice (customSignalHandler, invokeDefaultHandler).                 *)
(***************************************************************************)
THEOREM SignalCallbacks ==
  ASSUME Signals!SignalAssumption, ~Hasty
  PROVE  Signals!Spec => []Signals!CallbacksRight
  BY SignalInvariant, SignalProps, PTL DEF Signals!Spec

(***************************************************************************)
(* PAL's handler is in place again whenever no thread and no job is on its *)
(* way to register it (asyncRegister, registerSignalHandler).              *)
(***************************************************************************)
THEOREM SignalPromises ==
  ASSUME Signals!SignalAssumption, ~Hasty
  PROVE  Signals!Spec => []Signals!PromisesKept
  BY SignalInvariant, SignalProps, PTL DEF Signals!Spec

(***************************************************************************)
(* The handler of a signal never waits, in the assignment to sAsyncHandle, *)
(* for a job that waits for the lock it holds. The hypothesis excludes a   *)
(* signal that comes within the handling of another, which does block (and *)
(* which a run shows).                                                     *)
(***************************************************************************)
THEOREM SignalNeverBlocks ==
  ASSUME Signals!SignalAssumption, ~Hasty
  PROVE  Signals!Spec => []Signals!NeverBlocks
  BY SignalInvariant, SignalProps, PTL DEF Signals!Spec


------------------------------------------------------------------------------
(***************************************************************************)
(* PAL's own start and end. pal_init() and pal_deinit() count their        *)
(* callers; the first starts the threads of ResourceManager, the last ends *)
(* them one by one.                                                        *)
(***************************************************************************)
Lifecycle == INSTANCE PalLifecycle

(***************************************************************************)
(* The shape of the state, and that the count is that of the callers who   *)
(* were told of success.                                                   *)
(***************************************************************************)
FlagType ==
  /\ rm \in BOOLEAN /\ ctx \in BOOLEAN /\ event \in BOOLEAN /\ closed \in BOOLEAN
  /\ fd \in BOOLEAN /\ leaving \in BOOLEAN
  /\ job \in {"none", "mixer", "monitor", "worker"}
  /\ mixer \in {"none", "waits", "over"} /\ worker \in {"none", "waits", "over"}
  /\ monitor \in {"none", "tries", "reads", "polls", "ON", "OFF", "over"}

LifeType ==
  /\ refs \in 0..MaxUsers /\ users = refs /\ thrown = FALSE
  /\ FlagType /\ card \in [says : {"ON", "OFF", "LEAVE"}, news : BOOLEAN, changes :
       0..MaxChanges]
  /\ msgQ \in Seq({"ON", "OFF", "NONE"})

(***************************************************************************)
(* What the monitor has still to tell the worker.                          *)
(***************************************************************************)
Undelivered == (IF monitor \in {"ON", "OFF"} THEN 1 ELSE 0) + (IF card.news
  /\ card.says # "LEAVE" THEN 1 ELSE 0)

(***************************************************************************)
(* While anybody counts, everything is there and nobody was told to leave. *)
(* While nobody does and the last call is over, nothing is. In between the *)
(* last pal_deinit() waits for the threads in turn: the monitor it waits   *)
(* for is over or has the word to leave before it, and the worker ends by  *)
(* a message that is behind all others.                                    *)
(***************************************************************************)
LifeInv ==
  /\ refs > 0 =>
       /\ job = "none" /\ rm /\ ctx /\ mixer = "waits" /\ worker = "waits"
       /\ monitor \notin {"none", "over"}
       /\ ~leaving /\ ~closed /\ card.says # "LEAVE" /\ (fd <=> monitor # "tries")
       /\ msgQ \in Seq({"ON", "OFF"})
  /\ refs = 0 /\ job = "none" =>
       /\ ~rm /\ mixer = "none" /\ worker = "none" /\ monitor = "none" /\ msgQ = <<>>
       /\ ~closed => ~leaving /\ ~fd /\ card.says # "LEAVE"
  /\ job # "none" => closed
  /\ job = "mixer" =>
       /\ mixer # "none" /\ monitor = "polls" /\ ~card.news /\ fd /\ ~leaving
       /\ worker = "waits" /\ card.says # "LEAVE"
       /\ msgQ \in Seq({"ON", "OFF"})
  /\ job = "monitor" => monitor = "over" \/ (monitor = "polls" /\ card.says = "LEAVE"
       /\ card.news)
  /\ job = "monitor" => leaving /\ worker = "waits" /\ msgQ \in Seq({"ON", "OFF"})
       /\ card.says = "LEAVE"
  /\ job = "worker" => worker # "none" /\ monitor = "over" /\ leaving /\ card.says = "LEAVE"
  /\ Len(msgQ) + Undelivered <= card.changes + IF job = "worker" THEN 1 ELSE 0

(***************************************************************************)
(* Every step keeps the shape                                              *)
(***************************************************************************)
LEMMA LifeTypeStep ==
  ASSUME Lifecycle!LifecycleAssumption, ~Hasty, LifeType, LifeInv,
         [Lifecycle!Next]_(Lifecycle!vars)
  PROVE  LifeType'
<1> USE DEF Lifecycle!LifecycleAssumption
<1>1. ASSUME NEW fails, Lifecycle!pal_init(fails)
      PROVE  LifeType'
  <2>1. /\ job = "none" /\ refs < MaxUsers /\ refs' = refs + 1 /\ users' = users + 1
        /\ UNCHANGED <<job, event, closed, fd, leaving, card, msgQ, thrown>>
        /\ refs = 0 => ~closed
    BY <1>1 DEF Lifecycle!pal_init
  <2>2. /\ refs \in Nat /\ refs' \in 0..MaxUsers /\ refs' > 0 /\ users' = refs'
        /\ refs > 0 \/ refs = 0
    BY <2>1 DEF LifeType
  <2>3. CASE refs > 0
    <3>1. UNCHANGED <<rm, ctx, mixer, monitor, worker>>
      BY <1>1, <2>3 DEF Lifecycle!pal_init
    <3> QED
      BY <2>1, <2>2, <2>3, <3>1 DEF LifeType, FlagType
  <2>4. CASE refs = 0
    <3>0. fails = "nothing"
      BY <1>1 DEF Lifecycle!pal_init
    <3>1. ~(refs > 0 \/ (fails = "creation" /\ ~rm))
      BY <2>4, <3>0
    <3>2. Lifecycle!Starts /\ ctx' = (fails # "context manager")
      BY <1>1, <3>1 DEF Lifecycle!pal_init
    <3>3. rm' /\ ctx' /\ mixer' = "waits" /\ monitor' = "tries" /\ worker' = "waits"
      BY <3>0, <3>2 DEF Lifecycle!Starts
    <3>4. rm' \in BOOLEAN /\ ctx' \in BOOLEAN
      BY <3>2 DEF Lifecycle!Starts
    <3> QED
      BY <2>1, <2>2, <2>4, <3>3, <3>4 DEF LifeType, FlagType
  <2> QED
    BY <2>2, <2>3, <2>4
<1>2. ASSUME Lifecycle!pal_deinit
      PROVE  LifeType'
  <2>1. /\ job = "none" /\ refs > 0 /\ refs' = refs - 1 /\ users' = users - 1
        /\ UNCHANGED <<mixer, event, monitor, fd, leaving, card, worker, msgQ, thrown>>
    BY <1>2 DEF Lifecycle!pal_deinit, LifeType
  <2>2. /\ refs \in Nat /\ refs' \in 0..MaxUsers /\ users' = refs'
    BY <2>1 DEF LifeType
  <2>3. CASE refs = 1
    <3>1. /\ rm' = TRUE /\ ctx' = FALSE /\ closed' = TRUE /\ job' = "mixer"
          /\ monitor = "polls" /\ ~card.news /\ refs' = 0
      BY <1>2, <2>1, <2>3 DEF Lifecycle!pal_deinit, Lifecycle!Last, Lifecycle!Calm
    <3> QED
      BY <2>1, <2>2, <2>3, <3>1 DEF LifeType, FlagType
  <2>4. CASE refs # 1
    <3>1. UNCHANGED <<rm, ctx, closed, job>> /\ refs' > 0
      BY <1>2, <2>1, <2>2, <2>4 DEF Lifecycle!pal_deinit, Lifecycle!Last
    <3> QED
      BY <2>1, <2>2, <2>4, <3>1 DEF LifeType, FlagType
  <2> QED
    BY <2>3, <2>4
<1>3. ASSUME Lifecycle!JoinsMixer
      PROVE  LifeType'
  BY <1>3 DEF Lifecycle!JoinsMixer, LifeInv, LifeType, FlagType
<1>4. ASSUME Lifecycle!JoinsMonitor
      PROVE  LifeType'
  BY <1>4 DEF Lifecycle!JoinsMonitor, LifeInv, LifeType, FlagType
<1>5. ASSUME Lifecycle!JoinsWorker
      PROVE  LifeType'
  <2>1. Len(<<>>) = 0 /\ <<>> \in Seq({"ON", "OFF"}) /\ <<>> \in Seq({"ON", "OFF", "NONE"})
    OBVIOUS
  <2>2. /\ job = "worker" /\ worker = "over" /\ thrown' = FALSE
        /\ job' = "none" /\ rm' = FALSE /\ msgQ' = <<>>
        /\ mixer' = "none" /\ monitor' = "none" /\ worker' = "none"
        /\ UNCHANGED <<refs, users, ctx, event, closed, fd, leaving, card>>
    BY <1>5 DEF Lifecycle!JoinsWorker, LifeType, LifeInv
  <2>3. refs = 0 /\ closed
    BY <2>2 DEF LifeType, LifeInv
  <2> QED
    BY <2>1, <2>2, <2>3 DEF LifeType, FlagType
<1>6. ASSUME Lifecycle!Event
      PROVE  LifeType'
  BY <1>6 DEF Lifecycle!Event, Lifecycle!ends, LifeInv, LifeType, FlagType
<1>7. ASSUME Lifecycle!mixerEventWaitThreadLoop
      PROVE  LifeType'
  <2>1. FlagType'
    BY ZenonT(60), <1>7 DEF Lifecycle!mixerEventWaitThreadLoop, Lifecycle!ends, LifeType,
       FlagType
  <2> QED
    BY <1>7, <2>1 DEF Lifecycle!mixerEventWaitThreadLoop, Lifecycle!ends, LifeType
<1>8. ASSUME Lifecycle!Changes
      PROVE  LifeType'
  BY <1>8 DEF Lifecycle!Changes, Lifecycle!ends, LifeInv, LifeType, FlagType
<1>9. ASSUME NEW found \in BOOLEAN, Lifecycle!Opens(found)
      PROVE  LifeType'
  BY <1>9 DEF Lifecycle!Opens, Lifecycle!ends, LifeInv, LifeType, FlagType
<1>10. ASSUME Lifecycle!Reads
      PROVE  LifeType'
  BY <1>10 DEF Lifecycle!Reads, Lifecycle!ends, LifeInv, LifeType, FlagType
<1>11. ASSUME Lifecycle!Polls
      PROVE  LifeType'
  BY ZenonT(60), <1>11 DEF Lifecycle!Polls, Lifecycle!ends, LifeInv, LifeType, FlagType
<1>12. ASSUME Lifecycle!ssrHandler
      PROVE  LifeType'
  BY <1>12 DEF Lifecycle!ssrHandler, Lifecycle!ends, LifeInv, LifeType, FlagType
<1>13. ASSUME Lifecycle!ssrHandlingLoop
      PROVE  LifeType'
  BY <1>13 DEF Lifecycle!ssrHandlingLoop, Lifecycle!ends, LifeInv, LifeType, FlagType
<1>14. ASSUME UNCHANGED Lifecycle!vars
      PROVE  LifeType'
  BY <1>14 DEF Lifecycle!vars, LifeType, FlagType, LifeInv, Undelivered
<1> QED
  BY <1>1, <1>2, <1>3, <1>4, <1>5, <1>6, <1>7, <1>8, <1>9, <1>10, <1>11, <1>12, <1>13, <1>14
     DEF Lifecycle!Next

(***************************************************************************)
(* and what is there.                                                      *)
(***************************************************************************)
LEMMA LifeStep ==
  ASSUME Lifecycle!LifecycleAssumption, ~Hasty, LifeType, LifeInv,
         [Lifecycle!Next]_(Lifecycle!vars)
  PROVE  LifeInv'
<1> USE DEF Lifecycle!LifecycleAssumption
<1>1. ASSUME NEW fails, Lifecycle!pal_init(fails)
      PROVE  LifeInv'
  <2>1. /\ job = "none" /\ refs < MaxUsers /\ refs' = refs + 1 /\ users' = users + 1
        /\ UNCHANGED <<job, event, closed, fd, leaving, card, msgQ, thrown>>
        /\ refs = 0 => ~closed
    BY <1>1 DEF Lifecycle!pal_init
  <2>2. /\ refs \in Nat /\ refs' \in 0..MaxUsers /\ refs' > 0 /\ users' = refs'
        /\ refs > 0 \/ refs = 0
    BY <2>1 DEF LifeType
  <2>3. CASE refs > 0
    <3>1. UNCHANGED <<rm, ctx, mixer, monitor, worker>>
      BY <1>1, <2>3 DEF Lifecycle!pal_init
    <3> QED
      BY <2>1, <2>2, <2>3, <3>1 DEF LifeType, FlagType, LifeInv, Undelivered
  <2>4. CASE refs = 0
    <3>0. fails = "nothing"
      BY <1>1 DEF Lifecycle!pal_init
    <3>1. ~(refs > 0 \/ (fails = "creation" /\ ~rm))
      BY <2>4, <3>0
    <3>2. Lifecycle!Starts /\ ctx' = (fails # "context manager")
      BY <1>1, <3>1 DEF Lifecycle!pal_init
    <3>3. rm' /\ ctx' /\ mixer' = "waits" /\ monitor' = "tries" /\ worker' = "waits"
      BY <3>0, <3>2 DEF Lifecycle!Starts
    <3>4. rm' \in BOOLEAN /\ ctx' \in BOOLEAN
      BY <3>2 DEF Lifecycle!Starts
    <3> QED
      BY <2>1, <2>2, <2>4, <3>3, <3>4 DEF LifeType, FlagType, LifeInv, Undelivered
  <2> QED
    BY <2>2, <2>3, <2>4
<1>2. ASSUME Lifecycle!pal_deinit
      PROVE  LifeInv'
  <2>1. /\ job = "none" /\ refs > 0 /\ refs' = refs - 1 /\ users' = users - 1
        /\ UNCHANGED <<mixer, event, monitor, fd, leaving, card, worker, msgQ, thrown>>
    BY <1>2 DEF Lifecycle!pal_deinit, LifeType
  <2>2. /\ refs \in Nat /\ refs' \in 0..MaxUsers /\ users' = refs'
    BY <2>1 DEF LifeType
  <2>3. CASE refs = 1
    <3>1. /\ rm' = TRUE /\ ctx' = FALSE /\ closed' = TRUE /\ job' = "mixer"
          /\ monitor = "polls" /\ ~card.news /\ refs' = 0
      BY <1>2, <2>1, <2>3 DEF Lifecycle!pal_deinit, Lifecycle!Last, Lifecycle!Calm
    <3> QED
      BY <2>1, <2>2, <2>3, <3>1 DEF LifeType, FlagType, LifeInv, Undelivered
  <2>4. CASE refs # 1
    <3>1. UNCHANGED <<rm, ctx, closed, job>> /\ refs' > 0
      BY <1>2, <2>1, <2>2, <2>4 DEF Lifecycle!pal_deinit, Lifecycle!Last
    <3> QED
      BY <2>1, <2>2, <2>4, <3>1 DEF LifeType, FlagType, LifeInv, Undelivered
  <2> QED
    BY <2>3, <2>4
<1>3. ASSUME Lifecycle!JoinsMixer
      PROVE  LifeInv'
  BY <1>3 DEF Lifecycle!JoinsMixer, LifeType, FlagType, LifeInv, Undelivered
<1>4. ASSUME Lifecycle!JoinsMonitor
      PROVE  LifeInv'
  BY <1>4 DEF Lifecycle!JoinsMonitor, LifeType, FlagType, LifeInv, Undelivered
<1>5. ASSUME Lifecycle!JoinsWorker
      PROVE  LifeInv'
  <2>1. Len(<<>>) = 0 /\ <<>> \in Seq({"ON", "OFF"}) /\ <<>> \in Seq({"ON", "OFF", "NONE"})
    OBVIOUS
  <2>2. /\ job = "worker" /\ worker = "over" /\ thrown' = FALSE
        /\ job' = "none" /\ rm' = FALSE /\ msgQ' = <<>>
        /\ mixer' = "none" /\ monitor' = "none" /\ worker' = "none"
        /\ UNCHANGED <<refs, users, ctx, event, closed, fd, leaving, card>>
    BY <1>5 DEF Lifecycle!JoinsWorker, LifeType, LifeInv
  <2>3. refs = 0 /\ closed
    BY <2>2 DEF LifeType, LifeInv
  <2> QED
    BY <2>1, <2>2, <2>3 DEF LifeType, FlagType, LifeInv, Undelivered
<1>6. ASSUME Lifecycle!Event
      PROVE  LifeInv'
  BY <1>6 DEF Lifecycle!Event, Lifecycle!ends, LifeType, FlagType, LifeInv, Undelivered
<1>7. ASSUME Lifecycle!mixerEventWaitThreadLoop
      PROVE  LifeInv'
  BY <1>7 DEF Lifecycle!mixerEventWaitThreadLoop, Lifecycle!ends, LifeType, FlagType,
     LifeInv, Undelivered
<1>8. ASSUME Lifecycle!Changes
      PROVE  LifeInv'
  BY <1>8 DEF Lifecycle!Changes, Lifecycle!ends, LifeType, FlagType, LifeInv, Undelivered
<1>9. ASSUME NEW found \in BOOLEAN, Lifecycle!Opens(found)
      PROVE  LifeInv'
  BY <1>9 DEF Lifecycle!Opens, Lifecycle!ends, LifeType, FlagType, LifeInv, Undelivered
<1>10. ASSUME Lifecycle!Reads
      PROVE  LifeInv'
  BY <1>10 DEF Lifecycle!Reads, Lifecycle!ends, LifeType, FlagType, LifeInv, Undelivered
<1>11. ASSUME Lifecycle!Polls
      PROVE  LifeInv'
  BY <1>11 DEF Lifecycle!Polls, Lifecycle!ends, LifeType, FlagType, LifeInv, Undelivered
<1>12. ASSUME Lifecycle!ssrHandler
      PROVE  LifeInv'
  BY <1>12 DEF Lifecycle!ssrHandler, Lifecycle!ends, LifeType, FlagType, LifeInv,
     Undelivered
<1>13. ASSUME Lifecycle!ssrHandlingLoop
      PROVE  LifeInv'
  BY <1>13 DEF Lifecycle!ssrHandlingLoop, Lifecycle!ends, LifeType, FlagType, LifeInv,
     Undelivered
<1>14. ASSUME UNCHANGED Lifecycle!vars
      PROVE  LifeInv'
  BY <1>14 DEF Lifecycle!vars, LifeType, FlagType, LifeInv, Undelivered
<1> QED
  BY <1>1, <1>2, <1>3, <1>4, <1>5, <1>6, <1>7, <1>8, <1>9, <1>10, <1>11, <1>12, <1>13, <1>14
     DEF Lifecycle!Next

(***************************************************************************)
(* Both hold at first,                                                     *)
(***************************************************************************)
LEMMA LifeStart ==
  ASSUME Lifecycle!LifecycleAssumption, Lifecycle!Init
  PROVE  LifeType /\ LifeInv
<1> USE DEF Lifecycle!LifecycleAssumption
<1> USE DEF Lifecycle!Init
<1>1. Len(<<>>) = 0 /\ <<>> \in Seq({"ON", "OFF"}) /\ <<>> \in Seq({"ON", "OFF", "NONE"})
  OBVIOUS
<1>2. FlagType
  BY DEF FlagType
<1>3. card \in [says : {"ON", "OFF", "LEAVE"}, news : BOOLEAN, changes : 0..MaxChanges]
  OBVIOUS
<1>4. LifeType
  BY <1>1, <1>2, <1>3 DEF LifeType
<1>5. LifeInv
  BY <1>1 DEF LifeInv, Undelivered
<1> QED
  BY <1>4, <1>5

(***************************************************************************)
(* and say what the component promises.                                    *)
(***************************************************************************)
LEMMA LifeProps ==
  ASSUME Lifecycle!LifecycleAssumption, LifeType, LifeInv
  PROVE  Lifecycle!TypeOK /\ Lifecycle!CountsExact /\ Lifecycle!PromisesKept
           /\ Lifecycle!NoOrphan /\ Lifecycle!NeverBlocks
<1> USE DEF Lifecycle!LifecycleAssumption
<1>1. Lifecycle!TypeOK
  <2>1. Len(msgQ) <= MaxChanges + 1
    BY DEF LifeType, LifeInv, Undelivered
  <2>2. /\ refs \in 0..MaxUsers /\ users \in 0..MaxUsers /\ card.says \in {"ON", "OFF", "LEAVE"}
        /\ thrown \in BOOLEAN
    BY DEF LifeType
  <2> QED
    BY <2>1, <2>2 DEF Lifecycle!TypeOK, LifeType, FlagType
<1>2. Lifecycle!CountsExact /\ Lifecycle!PromisesKept
  BY DEF Lifecycle!CountsExact, Lifecycle!PromisesKept, LifeType, LifeInv
<1>3. Lifecycle!NoOrphan
  BY DEF Lifecycle!NoOrphan, LifeInv
<1>4. Lifecycle!NeverBlocks
  BY DEF Lifecycle!NeverBlocks, LifeType, LifeInv
<1> QED
  BY <1>1, <1>2, <1>3, <1>4

(***************************************************************************)
(* Together: the invariant of a process whose start does not fail, in      *)
(* which PAL is not started again once it has ended, and does not end      *)
(* while the monitor has news.                                             *)
(***************************************************************************)
LEMMA LifeInvariant ==
  ASSUME Lifecycle!LifecycleAssumption, ~Hasty
  PROVE  Lifecycle!Spec => [](LifeType /\ LifeInv)
  BY LifeTypeStep, LifeStep, LifeStart, PTL DEF Lifecycle!Spec

(***************************************************************************)
(* The flags of pal_init() and of ResourceManager's threads and the        *)
(* message queue keep their types, and the queue holds no more messages    *)
(* than the card changed.                                                  *)
(***************************************************************************)
THEOREM LifeTypes ==
  ASSUME Lifecycle!LifecycleAssumption, ~Hasty
  PROVE  Lifecycle!Spec => []Lifecycle!TypeOK
  BY LifeInvariant, LifeProps, PTL DEF Lifecycle!Spec

(***************************************************************************)
(* pal_init_ref_cnt is the number of callers who have PAL.                 *)
(***************************************************************************)
THEOREM LifeCounts ==
  ASSUME Lifecycle!LifecycleAssumption, ~Hasty
  PROVE  Lifecycle!Spec => []Lifecycle!CountsExact
  BY LifeInvariant, LifeProps, PTL DEF Lifecycle!Spec

(***************************************************************************)
(* Who was told of success has ResourceManager, the context manager and    *)
(* every thread until its own pal_deinit().                                *)
(***************************************************************************)
THEOREM LifePromises ==
  ASSUME Lifecycle!LifecycleAssumption, ~Hasty
  PROVE  Lifecycle!Spec => []Lifecycle!PromisesKept
  BY LifeInvariant, LifeProps, PTL DEF Lifecycle!Spec

(***************************************************************************)
(* The last pal_deinit() leaves no thread and no message behind.           *)
(***************************************************************************)
THEOREM LifeNoOrphan ==
  ASSUME Lifecycle!LifecycleAssumption, ~Hasty
  PROVE  Lifecycle!Spec => []Lifecycle!NoOrphan
  BY LifeInvariant, LifeProps, PTL DEF Lifecycle!Spec

(***************************************************************************)
(* The last pal_deinit() waits for no thread that waits for something gone *)
(* by, nor for one that was never started.                                 *)
(***************************************************************************)
THEOREM LifeNeverBlocks ==
  ASSUME Lifecycle!LifecycleAssumption, ~Hasty
  PROVE  Lifecycle!Spec => []Lifecycle!NeverBlocks
  BY LifeInvariant, LifeProps, PTL DEF Lifecycle!Spec


------------------------------------------------------------------------------
(***************************************************************************)
(* The streams of a call: they record it or play music into it. The sound  *)
(* card may go and come back under them; a worker closes all of them and   *)
(* reopens those that were open.                                           *)
(***************************************************************************)
InCall == INSTANCE InCallStream

(***************************************************************************)
(* What a stream is, or will be again, agrees with what its client was     *)
(* told. One that the client stopped is not reopened after a restart.      *)
(***************************************************************************)
AsTold(ask, q) == IF ask = "STOPPED" THEN q \in {"STOPPED", "IDLE"} ELSE q = ask
InCallRunning       == {"STARTED", "PAUSED"}

(***************************************************************************)
(* A stream that no restart is about has its own state; one that the       *)
(* worker has closed is closed.                                            *)
(***************************************************************************)
InCallSettled(s) ==
  \/ card = "ON" /\ work.kind = "none"
  \/ work.kind = "down" /\ s \in work.todo
  \/ work.kind = "up" /\ s \notin work.todo /\ s \notin work.s
InCallShut(s) ==
  \/ card = "OFF" /\ work.kind = "none"
  \/ work.kind = "down" /\ s \notin work.todo /\ s \notin work.s
  \/ work.kind = "up" /\ s \in work.todo

InCallRec ==
  [st : InCall!States, cached : InCall!States, fe : BOOLEAN, pcm : BOOLEAN, run : BOOLEAN,
   paused : BOOLEAN, ask : InCall!States, vol : 0..2, dsp : 0..2, wild : BOOLEAN]
InCallType ==
  /\ str \in [InCall!Streams -> InCallRec]
  /\ votes \in Nat /\ card \in {"ON", "OFF"} /\ downs \in 0..MaxDowns
  /\ work \in [kind : {"none", "down", "up"}, todo : SUBSET InCall!Streams, s :
       SUBSET InCall!Streams,
               at : {"none", "done", "stop", "close", "open", "start", "pause"}]

(***************************************************************************)
(* The worker is in the calls of one stream at most, and goes with the     *)
(* card.                                                                   *)
(***************************************************************************)
WorkerInv ==
  /\ work.s \cap work.todo = {} /\ \A s, t \in work.s : s = t
  /\ work.kind = "none" => work.todo = {} /\ work.s = {}
  /\ work.kind = "down" => card = "OFF"
  /\ work.kind = "up" => card = "ON"
  /\ work.kind = "up" /\ work.s # {} => work.at \in {"open", "start", "pause"}

(***************************************************************************)
(* Of a stream: its front end goes with its state, its session with its    *)
(* running; and what the client was told is its state, or what the restart *)
(* remembers of it.                                                        *)
(***************************************************************************)
InCallStreamInv(s) ==
  /\ str[s].fe <=> str[s].st # "IDLE"
  /\ str[s].run <=> str[s].st \in InCallRunning
  /\ str[s].run => str[s].pcm
  /\ ~str[s].wild
  /\ card = "ON" /\ s \in Records /\ str[s].run => str[s].dsp = str[s].vol
  /\ InCallSettled(s) => str[s].cached = "IDLE" /\ AsTold(str[s].ask, str[s].st)
  /\ ~InCallSettled(s) => AsTold(str[s].ask, str[s].cached)
  /\ InCallShut(s) => str[s].st = "IDLE"
  /\ work.kind = "up" /\ s \in work.s =>
       /\ work.at = "open" => str[s].st = "IDLE"
            /\ str[s].cached \in {"INIT"} \cup InCallRunning
       /\ work.at = "start" => str[s].st = "INIT" /\ str[s].cached \in InCallRunning
       /\ work.at = "pause" => str[s].st = "STARTED" /\ str[s].cached = "PAUSED"

(***************************************************************************)
(* A front end is kept for a stream that will be reopened: the restart     *)
(* finds one for each.                                                     *)
(***************************************************************************)
HoldsEnd(x) == x.fe \/ x.cached # "IDLE"
InCallVoteInv ==
  /\ votes = Cardinality({s \in InCall!Streams : str[s].run})
  /\ Cardinality({s \in Records : HoldsEnd(str[s])}) <= Ends
  /\ Cardinality({s \in Musics : HoldsEnd(str[s])}) <= Ends

(***************************************************************************)
(* What an open does: nothing, or the stream takes a front end and its     *)
(* client is told.                                                         *)
(***************************************************************************)
LEMMA InCallOpenMoves ==
  ASSUME ~Hasty, InCallType, NEW s \in InCall!Streams, InCall!Open(s)
  PROVE  /\ card = "ON" /\ work.kind = "none" /\ UNCHANGED <<votes, card, work, downs>>
         /\ str[s].ask = "IDLE" /\ str[s].st = "IDLE"
         /\ \/ str' = str
            \/ /\ InCall!Spare(InCall!W, s) # 0
               /\ str' = [str EXCEPT ![s] = [@ EXCEPT !.st = "INIT", !.fe = TRUE,
                    !.ask = "INIT"]]
<1>1. /\ card = "ON" /\ work.kind = "none" /\ str[s].ask = "IDLE" /\ str[s].st = "IDLE"
  BY DEF InCall!Open, InCall!Calm
<1>2. CASE InCall!Spare(InCall!W, s) = 0
  <2>1. InCall!OpenIt(InCall!W, s) = InCall!W
    BY <1>1, <1>2 DEF InCall!OpenIt
  <2>2. InCall!Client(InCall!W, s)
    BY <1>1, <2>1 DEF InCall!Open, InCall!W
  <2> QED
    BY <1>1, <2>2 DEF InCall!Client, InCall!Becomes, InCall!W
<1>3. CASE InCall!Spare(InCall!W, s) # 0
  <2> DEFINE w == [str |-> [str EXCEPT ![s] = [@ EXCEPT !.st = "INIT", !.fe = TRUE]],
               votes |-> votes]
  <2>1. InCall!OpenIt(InCall!W, s) = w
    BY <1>1, <1>3 DEF InCall!OpenIt, InCall!W, InCallType, InCallRec
  <2>2. w.str[s].st = "INIT"
    BY DEF InCallType, InCallRec, InCallRec
  <2>3. InCall!Asks(w, s, "INIT")
    BY <1>1, <2>1, <2>2 DEF InCall!Open
  <2> QED
    BY <1>1, <1>3, <2>3 DEF InCall!Asks, InCall!Client, InCall!Becomes, InCallType,
       InCallRec
<1> QED
  BY <1>2, <1>3

(***************************************************************************)
(* What a start makes of a stream, with the card and without.              *)
(***************************************************************************)
LEMMA InCallStartsIt ==
  ASSUME InCallType, NEW s \in InCall!Streams, card = "ON", str[s].st \in {"INIT", "STOPPED"}
  PROVE  InCall!StartIt(InCall!W, s, TRUE) =
           [str |-> [str EXCEPT ![s] = [@ EXCEPT !.pcm = TRUE, !.run = TRUE,
             !.dsp = IF s \in Records THEN str[s].vol ELSE str[s].dsp,
                                                 !.st = "STARTED"]], votes |-> votes + 1]
<1> DEFINE r == [str[s] EXCEPT !.pcm = TRUE, !.run = TRUE,
             !.dsp = IF s \in Records THEN str[s].vol ELSE str[s].dsp]
           x == [str |-> [str EXCEPT ![s] = r], votes |-> votes + 1]
<1>1. InCall!SessionStart(InCall!W, s, TRUE) = x
  BY DEF InCall!SessionStart, InCall!W, InCallType, InCallRec
<1>2. InCall!StartIt(InCall!W, s, TRUE) = [x EXCEPT !.str[s].st = "STARTED"]
  BY <1>1 DEF InCall!StartIt, InCall!W
<1>3. [x EXCEPT !.str[s].st = "STARTED"]
       = [str |-> [str EXCEPT ![s] = [r EXCEPT !.st = "STARTED"]], votes |-> votes + 1]
  <2> HIDE DEF r
  <2> QED
    BY DEF InCallType
<1> QED
  BY <1>2, <1>3

(***************************************************************************)
(* What a client's start does: without the card it is remembered, with it  *)
(* the session runs and votes, or only has its handle.                     *)
(***************************************************************************)
LEMMA InCallStartMoves ==
  ASSUME ~Hasty, InCallType, NEW s \in InCall!Streams, InCall!Start(s)
  PROVE  /\ work.kind = "none" /\ UNCHANGED <<card, work, downs>>
         /\ str[s].ask \in {"INIT", "STOPPED"}
         /\ \/ /\ card = "OFF" /\ str[s].cached = "INIT" /\ votes' = votes
               /\ str' = [str EXCEPT ![s] = [@ EXCEPT !.cached = "STARTED", !.ask = "STARTED"]]
            \/ /\ card = "ON" /\ str[s].st \in {"INIT", "STOPPED"} /\ votes' = votes
               /\ str' = [str EXCEPT ![s] = [@ EXCEPT !.pcm = TRUE]]
            \/ /\ card = "ON" /\ str[s].st \in {"INIT", "STOPPED"} /\ votes' = votes + 1
               /\ str' = [str EXCEPT ![s] = [@ EXCEPT !.pcm = TRUE, !.run = TRUE,
                    !.dsp = IF s \in Records THEN str[s].vol ELSE str[s].dsp,
                                                      !.st = "STARTED", !.ask = "STARTED"]]
<1>1. /\ work.kind = "none" /\ str[s].ask \in {"INIT", "STOPPED"}
      /\ card = "OFF" => str[s].cached = "INIT"
      /\ card = "ON" => str[s].st \in {"INIT", "STOPPED"}
  BY DEF InCall!Start
<1>2. PICK ok \in BOOLEAN :
        IF InCall!Started(InCall!W, s, ok) THEN InCall!Asks(InCall!StartIt(InCall!W, s, ok), s,
          "STARTED")
        ELSE InCall!Client(InCall!StartIt(InCall!W, s, ok), s)
  BY DEF InCall!Start
<1>3. CASE card = "OFF"
  <2> DEFINE w == [str |-> [str EXCEPT ![s] = [@ EXCEPT !.cached = "STARTED"]], votes |-> votes]
  <2>1. InCall!StartIt(InCall!W, s, ok) = w
    BY <1>3 DEF InCall!StartIt, InCall!W, InCallType, InCallRec
  <2>2. InCall!Asks(w, s, "STARTED")
    BY <1>2, <1>3, <2>1 DEF InCall!Started
  <2> QED
    BY <1>1, <1>3, <2>2 DEF InCall!Asks, InCall!Client, InCall!Becomes, InCallType,
       InCallRec
<1>4. CASE card = "ON" /\ ok
  <2> DEFINE w == [str |-> [str EXCEPT ![s] = [@ EXCEPT !.pcm = TRUE, !.run = TRUE,
               !.dsp = IF s \in Records THEN str[s].vol ELSE str[s].dsp,
                                                       !.st = "STARTED"]], votes |-> votes + 1]
  <2>1. InCall!StartIt(InCall!W, s, ok) = w
    BY <1>1, <1>4, InCallStartsIt
  <2>2. InCall!Asks(w, s, "STARTED")
    BY <1>1, <1>2, <1>4, <2>1 DEF InCall!Started, InCall!W
  <2> QED
    BY <1>1, <1>4, <2>2 DEF InCall!Asks, InCall!Client, InCall!Becomes, InCallType,
       InCallRec
<1>5. CASE card = "ON" /\ ~ok
  <2> DEFINE w == [str |-> [str EXCEPT ![s] = [@ EXCEPT !.pcm = TRUE]], votes |-> votes]
  <2>1. InCall!StartIt(InCall!W, s, ok) = w
    BY <1>1, <1>5 DEF InCall!StartIt, InCall!SessionStart, InCall!W, InCallType, InCallRec
  <2>2. InCall!Client(w, s)
    BY <1>1, <1>2, <1>5, <2>1 DEF InCall!Started, InCall!W
  <2> QED
    BY <1>1, <1>5, <2>2 DEF InCall!Client, InCall!Becomes
<1> QED
  BY <1>3, <1>4, <1>5 DEF InCallType, InCallRec, InCallRec

(***************************************************************************)
(* What a client's stop does: the stream stops and its vote is taken back. *)
(***************************************************************************)
LEMMA InCallStopMoves ==
  ASSUME ~Hasty, InCallType, NEW s \in InCall!Streams, InCall!Stop(s)
  PROVE  /\ work.kind = "none" /\ card = "ON" /\ UNCHANGED <<card, work, downs>>
         /\ str[s].ask \in {"STARTED", "PAUSED"}
         /\ \/ str[s].st \notin InCallRunning
            \/ /\ votes' = InCall!Less(votes)
               /\ str' = [str EXCEPT ![s] = [@ EXCEPT !.run = FALSE, !.st = "STOPPED",
                    !.ask = "STOPPED"]]
<1>1. /\ work.kind = "none" /\ card = "ON" /\ str[s].ask \in {"STARTED", "PAUSED"}
      /\ InCall!Asks(InCall!StopIt(InCall!W, s, TRUE), s, "STOPPED")
  BY DEF InCall!Stop, InCall!Calm
<1>2. CASE str[s].st \in InCallRunning
  <2> DEFINE w == [str |-> [str EXCEPT ![s] = [@ EXCEPT !.run = FALSE, !.st = "STOPPED"]],
               votes |-> InCall!Less(votes)]
  <2>1. InCall!StopIt(InCall!W, s, TRUE) = w
    BY <1>2 DEF InCall!StopIt, InCall!SessionStop, InCall!W, InCallType, InCallRunning
  <2>2. InCall!Asks(w, s, "STOPPED")
    BY <1>1, <2>1
  <2> QED
    BY <1>1, <2>2 DEF InCall!Asks, InCall!Client, InCall!Becomes, InCallType, InCallRec
<1> QED
  BY <1>1, <1>2 DEF InCall!Asks, InCall!Client

(***************************************************************************)
(* What a close makes of a stream: one that runs is stopped first, and all *)
(* that its session held is given up.                                      *)
(***************************************************************************)
LEMMA InCallClosesIt ==
  ASSUME InCallType, NEW s \in InCall!Streams
  PROVE  InCall!CloseIt(InCall!W, s) =
           IF str[s].st = "IDLE" THEN InCall!W
           ELSE [str |-> [str EXCEPT ![s] = [@ EXCEPT !.fe = FALSE, !.pcm = FALSE,
             !.run = FALSE, !.dsp = 0, !.st = "IDLE"]],
                 votes |-> IF str[s].st \in InCallRunning THEN InCall!Less(votes) ELSE votes]
<1>1. CASE str[s].st \in InCallRunning
  <2> DEFINE w == [str |-> [str EXCEPT ![s] = [@ EXCEPT !.run = FALSE, !.st = "STOPPED"]],
               votes |-> InCall!Less(votes)]
  <2>1. InCall!StopIt(InCall!W, s, TRUE) = w
    BY <1>1 DEF InCall!StopIt, InCall!SessionStop, InCall!W, InCallType, InCallRunning
  <2>2. InCall!CloseIt(InCall!W, s) = [InCall!SessionClose(w, s) EXCEPT !.str[s].st = "IDLE"]
    BY <1>1, <2>1 DEF InCall!CloseIt, InCall!W, InCallRunning
  <2> DEFINE x == [str |-> [str EXCEPT ![s] = [@ EXCEPT !.run = FALSE, !.st = "STOPPED",
               !.fe = FALSE, !.pcm = FALSE, !.run = FALSE, !.dsp = 0]],
                   votes |-> InCall!Less(votes)]
  <2>3. InCall!SessionClose(w, s) = x
    BY DEF InCall!SessionClose, InCallType, InCallRec
  <2>4. [x EXCEPT !.str[s].st = "IDLE"] =
          [str |-> [str EXCEPT ![s] = [@ EXCEPT !.fe = FALSE, !.pcm = FALSE, !.run = FALSE,
            !.dsp = 0, !.st = "IDLE"]],
           votes |-> InCall!Less(votes)]
    <3> DEFINE y == [str[s] EXCEPT !.run = FALSE, !.st = "STOPPED", !.fe = FALSE, !.pcm = FALSE,
                 !.run = FALSE, !.dsp = 0]
               z == [str[s] EXCEPT !.fe = FALSE, !.pcm = FALSE, !.run = FALSE, !.dsp = 0,
                 !.st = "IDLE"]
    <3>1. [y EXCEPT !.st = "IDLE"] = z
      BY DEF InCallType, InCallRec, InCallRec
    <3>2. x = [str |-> [str EXCEPT ![s] = y], votes |-> InCall!Less(votes)]
      OBVIOUS
    <3> HIDE DEF x, y, z
    <3>3. [x EXCEPT !.str[s].st = "IDLE"]
           = [str |-> [str EXCEPT ![s] = [y EXCEPT !.st = "IDLE"]],
             votes |-> InCall!Less(votes)]
      BY <3>2 DEF InCallType, InCallRec
    <3> QED
      BY <3>1, <3>3 DEF z
  <2> QED
    BY <1>1, <2>2, <2>3, <2>4 DEF InCallRunning
<1>2. CASE str[s].st \notin InCallRunning /\ str[s].st # "IDLE"
  <2>1. InCall!StopIt(InCall!W, s, TRUE) = InCall!W
    BY <1>2 DEF InCall!StopIt, InCall!W, InCallRunning
  <2>2. InCall!CloseIt(InCall!W,
          s) = [InCall!SessionClose(InCall!W, s) EXCEPT !.str[s].st = "IDLE"]
    BY <1>2, <2>1 DEF InCall!CloseIt, InCall!W
  <2> DEFINE x == [str |-> [str EXCEPT ![s] = [@ EXCEPT !.fe = FALSE, !.pcm = FALSE,
               !.run = FALSE, !.dsp = 0]], votes |-> votes]
  <2>3. InCall!SessionClose(InCall!W, s) = x
    BY DEF InCall!SessionClose, InCallType, InCall!W
  <2>4. [x EXCEPT !.str[s].st = "IDLE"] =
          [str |-> [str EXCEPT ![s] = [@ EXCEPT !.fe = FALSE, !.pcm = FALSE, !.run = FALSE,
            !.dsp = 0, !.st = "IDLE"]], votes |-> votes]
    BY DEF InCallType, InCallRec, InCallRec
  <2> QED
    BY <1>2, <2>2, <2>3, <2>4
<1>3. CASE str[s].st = "IDLE"
  BY <1>3 DEF InCall!CloseIt, InCall!W
<1> QED
  BY <1>1, <1>2, <1>3

(***************************************************************************)
(* What a client's close does: the stream is new again.                    *)
(***************************************************************************)
LEMMA InCallCloseMoves ==
  ASSUME ~Hasty, InCallType, NEW s \in InCall!Streams, InCallStreamInv(s), InCall!Close(s)
  PROVE  /\ work.kind = "none" /\ card = "ON" /\ UNCHANGED <<card, work, downs>>
         /\ votes' = IF str[s].st \in InCallRunning THEN InCall!Less(votes) ELSE votes
         /\ \E y \in InCallRec :
              /\ str' = [str EXCEPT ![s] = y]
              /\ y.st = "IDLE" /\ y.cached = "IDLE" /\ y.ask = "IDLE" /\ ~y.fe /\ ~y.run
              /\ ~y.wild
<1> DEFINE v == InCall!CloseIt(InCall!W, s)
           y == [InCall!New EXCEPT !.wild = @ \/ str[s].wild, !.fe = v.str[s].fe]
<1>1. /\ work.kind = "none" /\ card = "ON" /\ UNCHANGED <<card, work, downs>>
      /\ InCall!Becomes([v EXCEPT !.str[s] = y])
  BY DEF InCall!Close, InCall!Calm
<1>2. str[s].wild = FALSE /\ (str[s].st = "IDLE" => str[s].fe = FALSE)
  BY DEF InCallStreamInv, InCallType, InCallRec
<1>3. /\ v.str[s].fe = FALSE /\ [v EXCEPT !.str[s] = y] = [str |-> [str EXCEPT ![s] = y],
           votes |-> v.votes]
      /\ v.votes = IF str[s].st \in InCallRunning THEN InCall!Less(votes) ELSE votes
  <2> HIDE DEF y
  <2>1. CASE str[s].st = "IDLE"
    <3>1. v = [str |-> str, votes |-> votes]
      BY <2>1, InCallClosesIt DEF InCall!W
    <3> HIDE DEF v
    <3> QED
      BY <1>2, <2>1, <3>1 DEF InCallType, InCallRunning
  <2>2. CASE str[s].st # "IDLE"
    <3> DEFINE m == IF str[s].st \in InCallRunning THEN InCall!Less(votes) ELSE votes
               z == [str EXCEPT ![s] = [@ EXCEPT !.fe = FALSE, !.pcm = FALSE, !.run = FALSE,
                 !.dsp = 0, !.st = "IDLE"]]
    <3>1. v = [str |-> z, votes |-> m]
      BY <2>2, InCallClosesIt
    <3> HIDE DEF m, v
    <3>2. v.str[s].fe = FALSE /\ [v EXCEPT !.str[s] = y] = [str |-> [str EXCEPT ![s] = y],
            votes |-> v.votes]
      BY <3>1 DEF InCallType, InCallRec
    <3>3. v.votes = m
      BY <3>1
    <3> QED
      BY <3>2, <3>3 DEF m
  <2> QED
    BY <2>1, <2>2
<1>4. /\ y \in InCallRec /\ y.st = "IDLE" /\ y.cached = "IDLE" /\ y.ask = "IDLE" /\ ~y.fe
      /\ ~y.run /\ ~y.wild
  <2> HIDE DEF v
  <2>1. (InCall!New.wild \/ str[s].wild) = FALSE
    BY <1>2 DEF InCall!New
  <2>2. y = [InCall!New EXCEPT !.wild = FALSE, !.fe = FALSE]
    BY <1>3, <2>1
  <2> HIDE DEF y
  <2>3. InCall!New \in InCallRec
    BY DEF InCall!New, InCallRec, InCall!States
  <2>4. y \in InCallRec
    BY <2>2, <2>3 DEF InCallRec
  <2>5. /\ y.st = "IDLE" /\ y.cached = "IDLE" /\ y.ask = "IDLE" /\ y.fe = FALSE /\ y.run = FALSE
        /\ y.wild = FALSE
    BY <2>2 DEF InCall!New
  <2> QED
    BY <2>4, <2>5
<1> HIDE DEF v, y
<1>6. InCall!Becomes([str |-> [str EXCEPT ![s] = y], votes |-> v.votes])
  BY <1>1, <1>3
<1> QED
  BY <1>1, <1>3, <1>4, <1>6 DEF InCall!Becomes

(***************************************************************************)
(* What a pause does: without the card it is remembered.                   *)
(***************************************************************************)
LEMMA InCallPauseMoves ==
  ASSUME ~Hasty, InCallType, NEW s \in InCall!Streams, InCallStreamInv(s), InCall!Pause(s)
  PROVE  /\ work.kind = "none" /\ str[s].ask = "STARTED"
         /\ UNCHANGED <<votes, card, work, downs>>
         /\ \/ /\ card = "OFF" /\ str[s].cached = "STARTED"
               /\ str' = [str EXCEPT ![s] = [@ EXCEPT !.cached = "PAUSED", !.paused = TRUE,
                    !.ask = "PAUSED"]]
            \/ /\ card = "ON" /\ str[s].st = "STARTED"
               /\ \/ str' = str
                  \/ str' = [str EXCEPT ![s] = [@ EXCEPT !.paused = TRUE, !.st = "PAUSED",
                       !.ask = "PAUSED"]]
<1>1. /\ work.kind = "none" /\ str[s].ask = "STARTED"
           /\ (card = "OFF" => str[s].cached = "STARTED")
      /\ card = "ON" => str[s].st = "STARTED" /\ str[s].fe
  BY DEF InCall!Pause, InCallStreamInv, InCallSettled, AsTold
<1>2. PICK ok \in {TRUE} \cup {card = "OFF"} :
        IF ok THEN InCall!Asks(InCall!PauseIt(InCall!W, s, ok), s,
          "PAUSED") ELSE InCall!Client(InCall!PauseIt(InCall!W, s, FALSE), s)
  BY DEF InCall!Pause
<1>3. CASE card = "OFF"
  <2> DEFINE w == [str |-> [str EXCEPT ![s] = [@ EXCEPT !.cached = "PAUSED", !.paused = TRUE]],
               votes |-> votes]
  <2>1. InCall!PauseIt(InCall!W, s, ok) = w
    BY <1>3 DEF InCall!PauseIt, InCall!W, InCallType, InCallRec
  <2>2. InCall!Asks(w, s, "PAUSED")
    BY <1>2, <1>3, <2>1
  <2> QED
    BY <1>1, <1>3, <2>2 DEF InCall!Asks, InCall!Client, InCall!Becomes, InCallType,
       InCallRec
<1>4. CASE card = "ON" /\ ok
  <2> DEFINE w == [str |-> [str EXCEPT ![s] = [@ EXCEPT !.paused = TRUE, !.st = "PAUSED"]],
               votes |-> votes]
  <2>1. InCall!PauseIt(InCall!W, s, ok) = w
    BY <1>1, <1>4 DEF InCall!PauseIt, InCall!W, InCallType, InCallRec
  <2>2. InCall!Asks(w, s, "PAUSED")
    BY <1>2, <1>4, <2>1
  <2> QED
    BY <1>1, <1>4, <2>2 DEF InCall!Asks, InCall!Client, InCall!Becomes, InCallType,
       InCallRec
<1>5. CASE card = "ON" /\ ~ok
  <2>1. InCall!PauseIt(InCall!W, s, FALSE) = InCall!W
    BY <1>5 DEF InCall!PauseIt, InCall!W
  <2>2. InCall!Client(InCall!W, s)
    BY <1>2, <1>5, <2>1
  <2>3. UNCHANGED <<str, votes, card, work, downs>>
    BY <2>2 DEF InCall!Client, InCall!Becomes, InCall!W
  <2> QED
    BY <1>1, <1>5, <2>3
<1> QED
  BY <1>3, <1>4, <1>5 DEF InCallType

(***************************************************************************)
(* What a resume does: without the card it is remembered.                  *)
(***************************************************************************)
LEMMA InCallResumeMoves ==
  ASSUME ~Hasty, InCallType, NEW s \in InCall!Streams, InCallStreamInv(s), InCall!Resume(s)
  PROVE  /\ work.kind = "none" /\ str[s].ask = "PAUSED"
         /\ UNCHANGED <<votes, card, work, downs>>
         /\ \/ /\ card = "OFF" /\ str[s].cached = "PAUSED"
               /\ str' = [str EXCEPT ![s] = [@ EXCEPT !.cached = "STARTED", !.ask = "STARTED"]]
            \/ /\ card = "ON" /\ str[s].st = "PAUSED"
               /\ \/ str' = str
                  \/ str' = [str EXCEPT ![s] = [@ EXCEPT !.paused = FALSE, !.st = "STARTED",
                       !.ask = "STARTED"]]
<1>1. /\ work.kind = "none" /\ str[s].ask = "PAUSED"
           /\ (card = "OFF" => str[s].cached = "PAUSED")
      /\ card = "ON" => str[s].st = "PAUSED" /\ str[s].fe
  BY DEF InCall!Resume, InCallStreamInv, InCallSettled, AsTold
<1>2. PICK ok \in {TRUE} \cup {card = "OFF"} :
        IF ok THEN InCall!Asks(InCall!ResumeIt(InCall!W, s, ok), s,
          "STARTED") ELSE InCall!Client(InCall!ResumeIt(InCall!W, s, FALSE), s)
  BY DEF InCall!Resume
<1>3. CASE card = "OFF"
  <2> DEFINE w == [str |-> [str EXCEPT ![s] = [@ EXCEPT !.cached = "STARTED"]], votes |-> votes]
  <2>1. InCall!ResumeIt(InCall!W, s, ok) = w
    BY <1>3 DEF InCall!ResumeIt, InCall!W, InCallType, InCallRec
  <2>2. InCall!Asks(w, s, "STARTED")
    BY <1>2, <1>3, <2>1
  <2> QED
    BY <1>1, <1>3, <2>2 DEF InCall!Asks, InCall!Client, InCall!Becomes, InCallType,
       InCallRec
<1>4. CASE card = "ON" /\ ok
  <2> DEFINE w == [str |-> [str EXCEPT ![s] = [@ EXCEPT !.paused = FALSE, !.st = "STARTED"]],
               votes |-> votes]
  <2>1. InCall!ResumeIt(InCall!W, s, ok) = w
    BY <1>1, <1>4 DEF InCall!ResumeIt, InCall!W, InCallType, InCallRec
  <2>2. InCall!Asks(w, s, "STARTED")
    BY <1>2, <1>4, <2>1
  <2> QED
    BY <1>1, <1>4, <2>2 DEF InCall!Asks, InCall!Client, InCall!Becomes, InCallType,
       InCallRec
<1>5. CASE card = "ON" /\ ~ok
  <2>1. InCall!ResumeIt(InCall!W, s, FALSE) = InCall!W
    BY <1>5 DEF InCall!ResumeIt, InCall!W
  <2>2. InCall!Client(InCall!W, s)
    BY <1>2, <1>5, <2>1
  <2>3. UNCHANGED <<str, votes, card, work, downs>>
    BY <2>2 DEF InCall!Client, InCall!Becomes, InCall!W
  <2> QED
    BY <1>1, <1>5, <2>3
<1> QED
  BY <1>3, <1>4, <1>5 DEF InCallType

(***************************************************************************)
(* What a volume does: it is remembered, and a stream that was started     *)
(* before takes it at once.                                                *)
(***************************************************************************)
LEMMA InCallVolumeMoves ==
  ASSUME InCallType, NEW s \in InCall!Streams, InCall!SetVolume(s)
  PROVE  /\ UNCHANGED <<votes, card, work, downs>>
         /\ \E v \in 1..2 :
              IF card = "ON" /\ str[s].st \notin {"IDLE",
                "INIT"} THEN str' = [str EXCEPT ![s] = [@ EXCEPT !.vol = v, !.dsp = v]]
              ELSE str' = [str EXCEPT ![s] = [@ EXCEPT !.vol = v]]
<1>1. PICK v \in 1..2 :
        LET w == [InCall!W EXCEPT !.str[s].vol = v]
        IN InCall!Client(IF card = "ON"
             /\ str[s].st \notin {"IDLE", "INIT"} THEN [w EXCEPT !.str[s].dsp = v] ELSE w, s)
  BY DEF InCall!SetVolume
<1>2. CASE card = "ON" /\ str[s].st \notin {"IDLE", "INIT"}
  BY <1>1, <1>2 DEF InCall!Client, InCall!Becomes, InCall!W, InCallType, InCallRec
<1>3. CASE ~(card = "ON" /\ str[s].st \notin {"IDLE", "INIT"})
  BY <1>1, <1>3 DEF InCall!Client, InCall!Becomes, InCall!W, InCallType, InCallRec
<1> QED
  BY <1>2, <1>3

(***************************************************************************)
(* A transfer finds the handle that the start opened, and changes nothing. *)
(***************************************************************************)
LEMMA InCallTransferMoves ==
  ASSUME InCallType, NEW s \in InCall!Streams, InCallStreamInv(s), InCall!Transfer(s)
  PROVE  UNCHANGED <<str, votes, card, work, downs>>
<1>1. str[s].pcm
  BY DEF InCallStreamInv, InCallRunning, InCall!Transfer
<1>2. (str[s].wild \/ (s \in Records /\ ~str[s].pcm)) = str[s].wild
  BY <1>1 DEF InCallType, InCallRec
<1>3. InCall!Client([InCall!W EXCEPT !.str[s].wild = str[s].wild], s)
  BY <1>2 DEF InCall!Transfer, InCall!W
<1> QED
  BY <1>3 DEF InCall!Client, InCall!Becomes, InCall!W, InCallType, InCallRec

(***************************************************************************)
(* The worker, the card gone, stops a stream that ran.                     *)
(***************************************************************************)
LEMMA InCallDownMoves ==
  ASSUME InCallType, NEW s \in InCall!Streams, InCall!DownStops(s)
  PROVE  /\ work.kind = "down" /\ work.s = {s}
         /\ work' = [work EXCEPT !.todo = @ \ {s}, !.s = {s}, !.at = "close"]
         /\ UNCHANGED <<card, downs>>
         /\ \/ str[s].st \notin InCallRunning /\ UNCHANGED <<str, votes>>
            \/ /\ str[s].st \in InCallRunning
               /\ votes' = InCall!Less(votes)
               /\ str' = [str EXCEPT ![s] = [@ EXCEPT !.run = FALSE, !.st = "STOPPED"]]
<1>1. /\ InCall!Becomes(InCall!StopIt(InCall!W, s, TRUE)) /\ work.kind = "down" /\ work.s = {s}
      /\ UNCHANGED <<card, downs>>
      /\ work' = [work EXCEPT !.todo = @ \ {s}, !.s = {s}, !.at = "close"]
  BY DEF InCall!DownStops, InCall!Goes_
<1>2. CASE str[s].st \in InCallRunning
  <2>1. InCall!StopIt(InCall!W, s, TRUE) =
          [str |-> [str EXCEPT ![s] = [@ EXCEPT !.run = FALSE, !.st = "STOPPED"]],
            votes |-> InCall!Less(votes)]
    BY <1>2 DEF InCall!StopIt, InCall!SessionStop, InCall!W, InCallType, InCallRec,
       InCallRunning
  <2> DEFINE z == [str EXCEPT ![s] = [@ EXCEPT !.run = FALSE, !.st = "STOPPED"]]
  <2>2. InCall!Becomes([str |-> z, votes |-> InCall!Less(votes)])
    BY <1>1, <2>1
  <2>3. str' = z /\ votes' = InCall!Less(votes)
    <3> HIDE DEF z
    <3> QED
      BY <2>2 DEF InCall!Becomes
  <2> QED
    BY <1>1, <1>2, <2>3
<1>3. CASE str[s].st \notin InCallRunning
  BY <1>1, <1>3 DEF InCall!StopIt, InCall!Becomes, InCall!W, InCallRunning
<1> QED
  BY <1>2, <1>3

(***************************************************************************)
(* The worker, the card gone, closes a stream.                             *)
(***************************************************************************)
LEMMA InCallDownCloseMoves ==
  ASSUME InCallType, NEW s \in InCall!Streams, InCallStreamInv(s), InCall!DownCloses(s)
  PROVE  /\ work.kind = "down" /\ work.s = {s}
         /\ work' = [work EXCEPT !.todo = @ \ {s}, !.s = {}, !.at = "done"]
         /\ UNCHANGED <<card, downs>>
         /\ votes' = IF str[s].st \in InCallRunning THEN InCall!Less(votes) ELSE votes
         /\ \E y \in InCallRec :
              /\ str' = [str EXCEPT ![s] = y]
              /\ y.st = "IDLE" /\ ~y.fe /\ ~y.run /\ y.cached = str[s].cached
              /\ y.ask = str[s].ask /\ y.wild = str[s].wild
<1> DEFINE v == InCall!CloseIt(InCall!W, s)
<1>1. /\ InCall!Becomes([v EXCEPT !.str[s].st = "IDLE"]) /\ work.kind = "down" /\ work.s = {s}
      /\ UNCHANGED <<card, downs>>
      /\ work' = [work EXCEPT !.todo = @ \ {s}, !.s = {}, !.at = "done"]
  BY DEF InCall!DownCloses, InCall!Goes_
<1>2. CASE str[s].st = "IDLE"
  <2>1. v = [str |-> str, votes |-> votes]
    BY <1>2, InCallClosesIt DEF InCall!W
  <2>2. [v EXCEPT !.str[s].st = "IDLE"] = [str |-> [str EXCEPT ![s] = str[s]], votes |-> votes]
    BY <1>2, <2>1 DEF InCallType, InCallRec
  <2>3. str[s] \in InCallRec /\ ~str[s].fe /\ ~str[s].run
    BY <1>2 DEF InCallType, InCallStreamInv, InCallRunning
  <2> QED
    BY <1>1, <1>2, <2>2, <2>3 DEF InCall!Becomes, InCallRunning
<1>3. CASE str[s].st # "IDLE"
  <2> DEFINE m == IF str[s].st \in InCallRunning THEN InCall!Less(votes) ELSE votes
             y == [str[s] EXCEPT !.fe = FALSE, !.pcm = FALSE, !.run = FALSE, !.dsp = 0,
               !.st = "IDLE"]
  <2>1. v = [str |-> [str EXCEPT ![s] = y], votes |-> m]
    BY <1>3, InCallClosesIt
  <2>2. /\ y \in InCallRec /\ y.st = "IDLE" /\ y.fe = FALSE /\ y.run = FALSE
        /\ y.cached = str[s].cached /\ y.ask = str[s].ask /\ y.wild = str[s].wild
    <3>1. str[s] \in InCallRec
      BY DEF InCallType
    <3>2. y \in InCallRec
      <4> DEFINE x == [str[s] EXCEPT !.fe = FALSE, !.pcm = FALSE, !.run = FALSE]
      <4>1. x \in InCallRec
        BY <3>1 DEF InCallRec
      <4>2. y = [x EXCEPT !.dsp = 0, !.st = "IDLE"]
        OBVIOUS
      <4>3. "IDLE" \in InCall!States /\ 0 \in 0..2
        BY DEF InCall!States
      <4> HIDE DEF x, y
      <4> QED
        BY <4>1, <4>2, <4>3 DEF InCallRec
    <3>3. /\ y.st = "IDLE" /\ y.fe = FALSE /\ y.run = FALSE
          /\ y.cached = str[s].cached /\ y.ask = str[s].ask /\ y.wild = str[s].wild
      BY <3>1 DEF InCallRec
    <3> QED
      BY <3>2, <3>3
  <2> HIDE DEF y, v, m
  <2>3. [v EXCEPT !.str[s].st = "IDLE"] = [str |-> [str EXCEPT ![s] = y], votes |-> m]
    BY <2>1, <2>2 DEF InCallType, InCallRec
  <2>4. str' = [str EXCEPT ![s] = y] /\ votes' = m
    BY <1>1, <2>3 DEF InCall!Becomes
  <2> QED
    BY <1>1, <2>2, <2>4 DEF m
<1> QED
  BY <1>2, <1>3

(***************************************************************************)
(* The worker, the card back, opens a stream and starts it next if it ran. *)
(***************************************************************************)
LEMMA InCallUpOpenMoves ==
  ASSUME ~Hasty, InCallType, NEW s \in InCall!Streams, InCall!UpOpens(s), InCallStreamInv(s),
         WorkerInv, InCall!Spare(InCall!W, s) # 0
  PROVE  /\ work.kind = "up" /\ work.s = {s} /\ work.at = "open" /\ str[s].st = "IDLE"
         /\ UNCHANGED <<votes, card, downs>>
         /\ \/ /\ str[s].cached \in InCallRunning
               /\ str' = [str EXCEPT ![s] = [@ EXCEPT !.st = "INIT", !.fe = TRUE]]
               /\ work' = [work EXCEPT !.todo = @ \ {s}, !.s = {s}, !.at = "start"]
            \/ /\ str[s].cached = "INIT"
               /\ str' = [str EXCEPT ![s] = [@ EXCEPT !.st = "INIT", !.fe = TRUE,
                    !.cached = "IDLE"]]
               /\ work' = [work EXCEPT !.todo = @ \ {s}, !.s = {}, !.at = "done"]
<1>1. /\ work.kind = "up" /\ work.s = {s} /\ work.at = "open" /\ UNCHANGED <<card, downs>>
      /\ card = "ON"
      /\ str[s].st = "IDLE" /\ str[s].cached \in {"INIT"} \cup InCallRunning
  BY DEF InCall!UpOpens, WorkerInv, InCallStreamInv
<1> DEFINE z == [str EXCEPT ![s] = [@ EXCEPT !.st = "INIT", !.fe = TRUE]]
           w == [str |-> z, votes |-> votes]
<1>2. InCall!OpenIt(InCall!W, s) = w
  BY <1>1 DEF InCall!OpenIt, InCall!W, InCallType, InCallRec
<1>3. z[s].st = "INIT"
  BY DEF InCallType, InCallRec
<1>4. CASE str[s].cached \in InCallRunning
  <2>1. InCall!Starts(str[s].cached)
    BY <1>4 DEF InCall!Starts, InCallRunning
  <2>2. InCall!Becomes(w) /\ InCall!Goes_(s, "start")
    BY <1>2, <1>3, <2>1 DEF InCall!UpOpens
  <2> HIDE DEF z
  <2>3. str' = z /\ votes' = votes
    BY <2>2 DEF InCall!Becomes
  <2> QED
    BY <1>1, <1>4, <2>2, <2>3 DEF InCall!Goes_, z
<1>5. CASE str[s].cached = "INIT"
  <2>1. ~InCall!Starts(str[s].cached)
    BY <1>5 DEF InCall!Starts
  <2>2. InCall!Forgets(w, s)
    BY <1>2, <1>3, <2>1 DEF InCall!UpOpens
  <2>3. [w EXCEPT !.str[s].cached = "IDLE"]
         = [str |-> [str EXCEPT ![s] = [@ EXCEPT !.st = "INIT", !.fe = TRUE,
           !.cached = "IDLE"]],
            votes |-> votes]
    BY DEF InCallType, InCallRec
  <2> DEFINE y == [str EXCEPT ![s] = [@ EXCEPT !.st = "INIT", !.fe = TRUE, !.cached = "IDLE"]]
  <2>4. InCall!Becomes([str |-> y, votes |-> votes]) /\ InCall!Goes_(s, "done")
    BY <2>2, <2>3 DEF InCall!Forgets
  <2> HIDE DEF y
  <2>5. str' = y /\ votes' = votes
    BY <2>4 DEF InCall!Becomes
  <2> QED
    BY <1>1, <1>5, <2>4, <2>5 DEF InCall!Goes_, y
<1> QED
  BY <1>1, <1>4, <1>5

(***************************************************************************)
(* The worker, the card back, starts a stream and pauses it next if it was *)
(* paused.                                                                 *)
(***************************************************************************)
LEMMA InCallUpStartMoves ==
  ASSUME ~Hasty, InCallType, NEW s \in InCall!Streams, InCall!UpStarts(s), InCallStreamInv(s),
         WorkerInv
  PROVE  /\ work.kind = "up" /\ work.s = {s} /\ work.at = "start" /\ str[s].st = "INIT"
         /\ votes' = votes + 1 /\ UNCHANGED <<card, downs>>
         /\ \/ /\ str[s].cached = "PAUSED"
               /\ str' = [str EXCEPT ![s] = [@ EXCEPT !.pcm = TRUE, !.run = TRUE,
                    !.dsp = IF s \in Records THEN str[s].vol ELSE str[s].dsp,
                                                      !.st = "STARTED"]]
               /\ work' = [work EXCEPT !.todo = @ \ {s}, !.s = {s}, !.at = "pause"]
            \/ /\ str[s].cached = "STARTED"
               /\ str' = [str EXCEPT ![s] = [@ EXCEPT !.pcm = TRUE, !.run = TRUE,
                    !.dsp = IF s \in Records THEN str[s].vol ELSE str[s].dsp,
                                                      !.st = "STARTED", !.cached = "IDLE"]]
               /\ work' = [work EXCEPT !.todo = @ \ {s}, !.s = {}, !.at = "done"]
<1>1. /\ work.kind = "up" /\ work.s = {s} /\ work.at = "start" /\ UNCHANGED <<card, downs>>
      /\ card = "ON"
      /\ str[s].st = "INIT" /\ str[s].cached \in InCallRunning
  BY DEF InCall!UpStarts, WorkerInv, InCallStreamInv
<1> DEFINE x == [str[s] EXCEPT !.pcm = TRUE, !.run = TRUE,
             !.dsp = IF s \in Records THEN str[s].vol ELSE str[s].dsp,
                               !.st = "STARTED"]
           w == [str |-> [str EXCEPT ![s] = x], votes |-> votes + 1]
<1>2. InCall!StartIt(InCall!W, s, TRUE) = w
  BY <1>1, InCallStartsIt
<1>3. x.st = "STARTED"
  BY DEF InCallType, InCallRec
<1>4. CASE str[s].cached = "PAUSED"
  <2>1. InCall!Becomes(w) /\ InCall!Goes_(s, "pause")
    <3> HIDE DEF x
    <3>1. w.str[s].st = "STARTED"
      BY <1>3 DEF InCallType
    <3> HIDE DEF w
    <3> QED
      BY <1>2, <1>4, <3>1 DEF InCall!UpStarts
  <2> HIDE DEF x
  <2>2. str' = [str EXCEPT ![s] = x] /\ votes' = votes + 1
    BY <2>1 DEF InCall!Becomes
  <2> QED
    BY <1>1, <1>4, <2>1, <2>2 DEF InCall!Goes_, x
<1>5. CASE str[s].cached = "STARTED"
  <2>1. InCall!Forgets(w, s)
    <3> HIDE DEF x
    <3> QED
      BY <1>2, <1>3, <1>5 DEF InCall!UpStarts, InCallType
  <2> DEFINE y == [x EXCEPT !.cached = "IDLE"]
  <2>2. [w EXCEPT !.str[s].cached = "IDLE"]
         = [str |-> [str EXCEPT ![s] = y], votes |-> votes + 1]
    <3> HIDE DEF x
    <3> QED
      BY DEF InCallType
  <2>3. /\ InCall!Becomes([str |-> [str EXCEPT ![s] = y], votes |-> votes + 1])
        /\ InCall!Goes_(s, "done")
    BY <2>1, <2>2 DEF InCall!Forgets
  <2> HIDE DEF y
  <2>4. str' = [str EXCEPT ![s] = y] /\ votes' = votes + 1
    BY <2>3 DEF InCall!Becomes
  <2> QED
    BY <1>1, <1>5, <2>3, <2>4 DEF InCall!Goes_, y
<1> QED
  BY <1>1, <1>4, <1>5 DEF InCallRunning

(***************************************************************************)
(* The worker, the card back, pauses a stream that was paused.             *)
(***************************************************************************)
LEMMA InCallUpPauseMoves ==
  ASSUME ~Hasty, InCallType, NEW s \in InCall!Streams, InCall!UpPauses(s), InCallStreamInv(s),
         WorkerInv
  PROVE  /\ work.kind = "up" /\ work.s = {s} /\ work.at = "pause" /\ str[s].st = "STARTED"
         /\ str[s].cached = "PAUSED"
         /\ UNCHANGED <<votes, card, downs>>
         /\ str' = [str EXCEPT ![s] = [@ EXCEPT !.paused = TRUE, !.st = "PAUSED",
              !.cached = "IDLE"]]
         /\ work' = [work EXCEPT !.todo = @ \ {s}, !.s = {}, !.at = "done"]
<1>1. /\ work.kind = "up" /\ work.s = {s} /\ work.at = "pause" /\ UNCHANGED <<card, downs>>
      /\ card = "ON"
      /\ str[s].st = "STARTED" /\ str[s].cached = "PAUSED" /\ str[s].fe
  BY DEF InCall!UpPauses, WorkerInv, InCallStreamInv
<1> DEFINE x == [str[s] EXCEPT !.paused = TRUE, !.st = "PAUSED"]
           w == [str |-> [str EXCEPT ![s] = x], votes |-> votes]
<1>2. InCall!PauseIt(InCall!W, s, TRUE) = w
  BY <1>1 DEF InCall!PauseIt, InCall!W, InCallType, InCallRec
<1>3. InCall!Forgets(w, s)
  BY <1>2 DEF InCall!UpPauses
<1> DEFINE y == [x EXCEPT !.cached = "IDLE"]
<1>4. [w EXCEPT !.str[s].cached = "IDLE"] = [str |-> [str EXCEPT ![s] = y], votes |-> votes]
  <2> HIDE DEF x
  <2> QED
    BY DEF InCallType
<1>5. /\ InCall!Becomes([str |-> [str EXCEPT ![s] = y], votes |-> votes])
      /\ InCall!Goes_(s, "done")
  BY <1>3, <1>4 DEF InCall!Forgets
<1> HIDE DEF y
<1>6. str' = [str EXCEPT ![s] = y] /\ votes' = votes
  BY <1>5 DEF InCall!Becomes
<1> QED
  BY <1>1, <1>5, <1>6 DEF InCall!Goes_, y

(***************************************************************************)
(* What every state of the streams of a call has.                          *)
(***************************************************************************)
InCallInv == InCallType /\ WorkerInv /\ (\A s \in InCall!Streams : InCallStreamInv(s))
  /\ InCallVoteInv

(***************************************************************************)
(* A finite set and the same set with one member more, or less: their      *)
(* sizes.                                                                  *)
(***************************************************************************)
LEMMA OneMoved ==
  ASSUME NEW S, IsFiniteSet(S), NEW A \in SUBSET S, NEW B \in SUBSET S, NEW s \in S,
         \A t \in S : t # s => (t \in A <=> t \in B)
  PROVE  /\ Cardinality(A) \in Nat /\ Cardinality(B) \in Nat
         /\ (s \in A <=> s \in B) => Cardinality(B) = Cardinality(A)
         /\ s \in B /\ s \notin A => Cardinality(B) = Cardinality(A) + 1
         /\ s \in A /\ s \notin B => Cardinality(A) = Cardinality(B) + 1
<1>1. IsFiniteSet(A) /\ IsFiniteSet(B)
  BY FS_Subset
<1>2. Cardinality(A) \in Nat /\ Cardinality(B) \in Nat
  BY <1>1, FS_CardinalityType
<1>3. ASSUME s \in A <=> s \in B PROVE Cardinality(B) = Cardinality(A)
  <2>1. A = B
    BY <1>3
  <2> QED
    BY <2>1
<1>4. ASSUME s \in B, s \notin A PROVE Cardinality(B) = Cardinality(A) + 1
  <2>1. B = A \cup {s}
    BY <1>4
  <2> QED
    BY <1>1, <1>4, <2>1, FS_AddElement
<1>5. ASSUME s \in A, s \notin B PROVE Cardinality(A) = Cardinality(B) + 1
  <2>1. A = B \cup {s}
    BY <1>5
  <2> QED
    BY <1>1, <1>5, <2>1, FS_AddElement
<1> QED
  BY <1>2, <1>3, <1>4, <1>5

(***************************************************************************)
(* There are finitely many streams, and none records the call and plays    *)
(* into it.                                                                *)
(***************************************************************************)
LEMMA InCallFinite ==
  ASSUME InCall!InCallAssumption
  PROVE  /\ IsFiniteSet(Records) /\ IsFiniteSet(Musics) /\ IsFiniteSet(InCall!Streams)
         /\ Ends \in Nat /\ Records \cap Musics = {} /\ InCall!Streams = Records \cup Musics
<1>1. IsFiniteSet(Records) /\ IsFiniteSet(Musics)
  BY DEF InCall!InCallAssumption, InCall!IsFiniteSet, IsFiniteSet
<1>2. IsFiniteSet(Records \cup Musics)
  BY <1>1, FS_Union
<1> QED
  BY <1>1, <1>2 DEF InCall!InCallAssumption, InCall!Streams

(***************************************************************************)
(* If an operation moves the vote exactly as it moves the stream's         *)
(* session, and takes up a front end for no stream that held none, the     *)
(* counts stay right.                                                      *)
(***************************************************************************)
LEMMA InCallVotesFollow ==
  ASSUME InCall!InCallAssumption, InCallInv, NEW s \in InCall!Streams,
         \A t \in InCall!Streams : t # s => str'[t] = str[t],
         \/ votes' = votes /\ (str'[s].run <=> str[s].run)
         \/ votes' = votes + 1 /\ str'[s].run /\ ~str[s].run
         \/ votes' = InCall!Less(votes) /\ ~str'[s].run /\ str[s].run,
         HoldsEnd(str'[s]) => HoldsEnd(str[s])
  PROVE  InCallVoteInv'
<1>1. votes' = Cardinality({t \in InCall!Streams : str'[t].run})
  <2> DEFINE A == {t \in InCall!Streams : str[t].run}
             B == {t \in InCall!Streams : str'[t].run}
  <2>1. /\ A \in SUBSET InCall!Streams /\ B \in SUBSET InCall!Streams
        /\ \A t \in InCall!Streams : t # s => (t \in A <=> t \in B)
        /\ s \in A <=> str[s].run
        /\ s \in B <=> str'[s].run
    OBVIOUS
  <2>2. votes = Cardinality(A)
    BY DEF InCallInv, InCallVoteInv
  <2> HIDE DEF A, B
  <2>3. /\ Cardinality(A) \in Nat /\ Cardinality(B) \in Nat
        /\ (s \in A <=> s \in B) => Cardinality(B) = Cardinality(A)
        /\ s \in B /\ s \notin A => Cardinality(B) = Cardinality(A) + 1
        /\ s \in A /\ s \notin B => Cardinality(A) = Cardinality(B) + 1
    BY <2>1, OneMoved, InCallFinite
  <2>4. votes' = Cardinality(B)
    BY <2>1, <2>2, <2>3 DEF InCall!Less
  <2> QED
    BY <2>4 DEF B
<1>2. ASSUME NEW K, K \in {Records, Musics}
      PROVE  Cardinality({t \in K : HoldsEnd(str'[t])}) <= Ends
  <2> DEFINE A == {t \in K : HoldsEnd(str[t])}
             B == {t \in K : HoldsEnd(str'[t])}
  <2>1. IsFiniteSet(K) /\ K \subseteq InCall!Streams
    BY <1>2, InCallFinite
  <2>2. B \subseteq A /\ A \subseteq K
    BY <2>1
  <2>3. IsFiniteSet(A)
    BY <2>1, <2>2, FS_Subset
  <2>4. Cardinality(A) <= Ends
    BY <1>2 DEF InCallInv, InCallVoteInv
  <2>5. IsFiniteSet(B) /\ Cardinality(B) <= Cardinality(A)
    BY <2>2, <2>3, FS_Subset
  <2>6. Cardinality(A) \in Nat /\ Cardinality(B) \in Nat
    BY <2>3, <2>5, FS_CardinalityType
  <2> HIDE DEF A, B
  <2>7. Cardinality(B) <= Ends
    BY <2>4, <2>5, <2>6, InCallFinite
  <2> QED
    BY <2>7 DEF B
<1> QED
  BY <1>1, <1>2 DEF InCallVoteInv

(***************************************************************************)
(* The front ends left are those of the list less the streams of the kind  *)
(* that have one.                                                          *)
(***************************************************************************)
LEMMA InCallSpareOf ==
  ASSUME InCall!InCallAssumption, InCallInv, NEW s \in InCall!Streams
  PROVE  /\ InCall!Kin(s) \in {Records, Musics} /\ s \in InCall!Kin(s)
         /\ InCall!Spare(InCall!W, s) = Ends - Cardinality({t \in InCall!Kin(s) : str[t].fe})
         /\ Cardinality({t \in InCall!Kin(s) : str[t].fe}) \in Nat
         /\ Cardinality({t \in InCall!Kin(s) : str[t].fe}) <= Ends
         /\ HoldsEnd(str[s]) /\ ~str[s].fe => InCall!Spare(InCall!W, s) # 0
<1> DEFINE K == InCall!Kin(s)
           A == {t \in K : str[t].fe}
           H == {t \in K : HoldsEnd(str[t])}
<1>1. K \in {Records, Musics} /\ s \in K
  BY InCallFinite DEF InCall!Kin
<1>2. IsFiniteSet(K)
  BY <1>1, InCallFinite
<1>3. A \subseteq H /\ H \subseteq K
  BY DEF HoldsEnd
<1>4. IsFiniteSet(H) /\ IsFiniteSet(A) /\ Cardinality(A) <= Cardinality(H)
  BY <1>2, <1>3, FS_Subset
<1>5. Cardinality(A) \in Nat /\ Cardinality(H) \in Nat
  BY <1>4, FS_CardinalityType
<1>6. Cardinality(H) <= Ends
  BY <1>1 DEF InCallInv, InCallVoteInv
<1>7. InCall!Spare(InCall!W, s) = Ends - Cardinality(A)
  BY DEF InCall!Spare, InCall!W, InCall!Cardinality, Cardinality
<1>8. ASSUME HoldsEnd(str[s]), ~str[s].fe PROVE Cardinality(A) < Ends
  <2>1. A # H
    BY <1>1, <1>8
  <2>2. Cardinality(A) # Cardinality(H)
    BY <1>3, <1>4, <2>1, FS_Subset
  <2> QED
    BY <1>4, <1>5, <1>6, <2>2, InCallFinite
<1> HIDE DEF A, H, K
<1>9. Cardinality(A) <= Ends /\ (HoldsEnd(str[s]) /\ ~str[s].fe => Ends - Cardinality(A) # 0)
  BY <1>4, <1>5, <1>6, <1>8, InCallFinite
<1> QED
  BY <1>1, <1>5, <1>7, <1>9 DEF A, K

(***************************************************************************)
(* What no operation on a stream can disturb: what holds of another one.   *)
(***************************************************************************)
LEMMA InCallOthersStay ==
  ASSUME NEW t \in InCall!Streams, InCallStreamInv(t), str'[t] = str[t], card' = card,
         work'.kind = work.kind,
         t \in work'.todo <=> t \in work.todo, t \in work'.s <=> t \in work.s, t \notin work.s
           \/ work'.at = work.at
  PROVE  InCallStreamInv(t)'
  BY DEF InCallStreamInv, InCallSettled, InCallShut

(***************************************************************************)
(* Each operation keeps the invariant of its own stream and of the counts. *)
(* A start;                                                                *)
(***************************************************************************)
LEMMA InCallStartKeeps ==
  ASSUME InCall!InCallAssumption, ~Hasty, InCallInv, NEW s \in InCall!Streams, InCall!Start(s)
  PROVE  /\ InCallType' /\ InCallStreamInv(s)' /\ InCallVoteInv' /\ UNCHANGED <<card, work>>
         /\ \A t \in InCall!Streams : t # s => str'[t] = str[t]
<1>0. InCallType /\ WorkerInv /\ InCallStreamInv(s) /\ str[s] \in InCallRec
  BY DEF InCallInv, InCallType
<1>1. ASSUME card = "OFF",
             str[s].cached = "INIT",
             votes' = votes,
             work.kind = "none",
             UNCHANGED <<card, work, downs>>,
             str' = [str EXCEPT ![s] = [@ EXCEPT !.cached = "STARTED", !.ask = "STARTED"]]
      PROVE  /\ InCallType' /\ InCallStreamInv(s)' /\ InCallVoteInv' /\ UNCHANGED <<card, work>>
             /\ \A t \in InCall!Streams : t # s => str'[t] = str[t]
  <2>2. InCallType'
    <3>1. str'[s] \in InCallRec
      BY <1>0, <1>1 DEF InCallType, InCallRec, InCall!States
    <3>2. str' \in [InCall!Streams -> InCallRec]
      BY <1>0, <1>1, <3>1 DEF InCallType
    <3>3. votes' \in Nat /\ card' = card /\ downs' = downs
      BY <1>0, <1>1 DEF InCallType, InCall!Less, InCallRunning
    <3>4. work' = work
      BY <1>1
    <3> QED
      BY <1>0, <3>2, <3>3, <3>4 DEF InCallType
  <2>3. InCallStreamInv(s)'
    BY <1>0, <1>1 DEF InCallStreamInv, InCallType, InCallRec, InCallSettled, InCallShut,
       AsTold, InCallRunning, WorkerInv
  <2>4. \A t \in InCall!Streams : t # s => str'[t] = str[t]
    BY <1>0, <1>1 DEF InCallType
  <2>5. /\ \/ votes' = votes /\ (str'[s].run <=> str[s].run)
           \/ votes' = votes + 1 /\ str'[s].run /\ ~str[s].run
           \/ votes' = InCall!Less(votes) /\ ~str'[s].run /\ str[s].run
        /\ HoldsEnd(str'[s]) => HoldsEnd(str[s])
    BY <1>0, <1>1 DEF InCallType, InCallRec, HoldsEnd, InCallStreamInv, InCallRunning,
       InCallSettled, AsTold
  <2>6. InCallVoteInv'
    BY <2>4, <2>5, InCallVotesFollow
  <2> QED
    BY <1>1, <2>2, <2>3, <2>4, <2>6
<1>2. ASSUME card = "ON",
             str[s].st \in {"INIT", "STOPPED"},
             votes' = votes,
             work.kind = "none",
             UNCHANGED <<card, work, downs>>,
             str' = [str EXCEPT ![s] = [@ EXCEPT !.pcm = TRUE]]
      PROVE  /\ InCallType' /\ InCallStreamInv(s)' /\ InCallVoteInv' /\ UNCHANGED <<card, work>>
             /\ \A t \in InCall!Streams : t # s => str'[t] = str[t]
  <2>2. InCallType'
    <3>1. str'[s] \in InCallRec
      BY <1>0, <1>2 DEF InCallType, InCallRec, InCall!States
    <3>2. str' \in [InCall!Streams -> InCallRec]
      BY <1>0, <1>2, <3>1 DEF InCallType
    <3>3. votes' \in Nat /\ card' = card /\ downs' = downs
      BY <1>0, <1>2 DEF InCallType, InCall!Less, InCallRunning
    <3>4. work' = work
      BY <1>2
    <3> QED
      BY <1>0, <3>2, <3>3, <3>4 DEF InCallType
  <2>3. InCallStreamInv(s)'
    BY <1>0, <1>2 DEF InCallStreamInv, InCallType, InCallRec, InCallSettled, InCallShut,
       AsTold, InCallRunning, WorkerInv
  <2>4. \A t \in InCall!Streams : t # s => str'[t] = str[t]
    BY <1>0, <1>2 DEF InCallType
  <2>5. /\ \/ votes' = votes /\ (str'[s].run <=> str[s].run)
           \/ votes' = votes + 1 /\ str'[s].run /\ ~str[s].run
           \/ votes' = InCall!Less(votes) /\ ~str'[s].run /\ str[s].run
        /\ HoldsEnd(str'[s]) => HoldsEnd(str[s])
    BY <1>0, <1>2 DEF InCallType, InCallRec, HoldsEnd, InCallStreamInv, InCallRunning,
       InCallSettled, AsTold
  <2>6. InCallVoteInv'
    BY <2>4, <2>5, InCallVotesFollow
  <2> QED
    BY <1>2, <2>2, <2>3, <2>4, <2>6
<1>3. ASSUME card = "ON",
             str[s].st \in {"INIT", "STOPPED"},
             votes' = votes + 1,
             work.kind = "none",
             UNCHANGED <<card, work, downs>>,
             str' = [str EXCEPT ![s] = [@ EXCEPT !.pcm = TRUE, !.run = TRUE,
               !.dsp = IF s \in Records THEN str[s].vol ELSE str[s].dsp, !.st = "STARTED",
                 !.ask = "STARTED"]]
      PROVE  /\ InCallType' /\ InCallStreamInv(s)' /\ InCallVoteInv' /\ UNCHANGED <<card, work>>
             /\ \A t \in InCall!Streams : t # s => str'[t] = str[t]
  <2>2. InCallType'
    <3>1. str'[s] \in InCallRec
      BY <1>0, <1>3 DEF InCallType, InCallRec, InCall!States
    <3>2. str' \in [InCall!Streams -> InCallRec]
      BY <1>0, <1>3, <3>1 DEF InCallType
    <3>3. votes' \in Nat /\ card' = card /\ downs' = downs
      BY <1>0, <1>3 DEF InCallType, InCall!Less, InCallRunning
    <3>4. work' = work
      BY <1>3
    <3> QED
      BY <1>0, <3>2, <3>3, <3>4 DEF InCallType
  <2>3. InCallStreamInv(s)'
    BY <1>0, <1>3 DEF InCallStreamInv, InCallType, InCallRec, InCallSettled, InCallShut,
       AsTold, InCallRunning, WorkerInv
  <2>4. \A t \in InCall!Streams : t # s => str'[t] = str[t]
    BY <1>0, <1>3 DEF InCallType
  <2>5. /\ \/ votes' = votes /\ (str'[s].run <=> str[s].run)
           \/ votes' = votes + 1 /\ str'[s].run /\ ~str[s].run
           \/ votes' = InCall!Less(votes) /\ ~str'[s].run /\ str[s].run
        /\ HoldsEnd(str'[s]) => HoldsEnd(str[s])
    BY <1>0, <1>3 DEF InCallType, InCallRec, HoldsEnd, InCallStreamInv, InCallRunning,
       InCallSettled, AsTold
  <2>6. InCallVoteInv'
    BY <2>4, <2>5, InCallVotesFollow
  <2> QED
    BY <1>3, <2>2, <2>3, <2>4, <2>6
<1> QED
  BY <1>0, <1>1, <1>2, <1>3, InCallStartMoves

(***************************************************************************)
(* a stop;                                                                 *)
(***************************************************************************)
LEMMA InCallStopKeeps ==
  ASSUME InCall!InCallAssumption, ~Hasty, InCallInv, NEW s \in InCall!Streams, InCall!Stop(s)
  PROVE  /\ InCallType' /\ InCallStreamInv(s)' /\ InCallVoteInv' /\ UNCHANGED <<card, work>>
         /\ \A t \in InCall!Streams : t # s => str'[t] = str[t]
<1>0. InCallType /\ WorkerInv /\ InCallStreamInv(s) /\ str[s] \in InCallRec
  BY DEF InCallInv, InCallType
<1>s. str[s].st \in InCallRunning
  BY <1>0, InCallStopMoves DEF InCallStreamInv, InCallSettled, AsTold, InCallRunning
<1>1. /\ card = "ON"
      /\ work.kind = "none"
      /\ str[s].st \in InCallRunning
      /\ votes' = InCall!Less(votes)
      /\ UNCHANGED <<card, work, downs>>
      /\ str' = [str EXCEPT ![s] = [@ EXCEPT !.run = FALSE, !.st = "STOPPED",
           !.ask = "STOPPED"]]
  BY <1>0, <1>s, InCallStopMoves
<1>2. InCallType'
  <2>1. str'[s] \in InCallRec
    BY <1>0, <1>1 DEF InCallType, InCallRec, InCall!States
  <2>2. str' \in [InCall!Streams -> InCallRec]
    BY <1>0, <1>1, <2>1 DEF InCallType
  <2>3. votes' \in Nat /\ card' = card /\ downs' = downs
    BY <1>0, <1>1 DEF InCallType, InCall!Less, InCallRunning
  <2>4. work' = work
    BY <1>1
  <2> QED
    BY <1>0, <2>2, <2>3, <2>4 DEF InCallType
<1>3. InCallStreamInv(s)'
  BY <1>0, <1>1 DEF InCallStreamInv, InCallType, InCallRec, InCallSettled, InCallShut,
     AsTold, InCallRunning, WorkerInv
<1>4. \A t \in InCall!Streams : t # s => str'[t] = str[t]
  BY <1>0, <1>1 DEF InCallType
<1>5. /\ \/ votes' = votes /\ (str'[s].run <=> str[s].run)
         \/ votes' = votes + 1 /\ str'[s].run /\ ~str[s].run
         \/ votes' = InCall!Less(votes) /\ ~str'[s].run /\ str[s].run
      /\ HoldsEnd(str'[s]) => HoldsEnd(str[s])
  BY <1>0, <1>1 DEF InCallType, InCallRec, HoldsEnd, InCallStreamInv, InCallRunning,
     InCallSettled, AsTold
<1>6. InCallVoteInv'
  BY <1>4, <1>5, InCallVotesFollow
<1> QED
  BY <1>1, <1>2, <1>3, <1>4, <1>6

(***************************************************************************)
(* a close;                                                                *)
(***************************************************************************)
LEMMA InCallCloseKeeps ==
  ASSUME InCall!InCallAssumption, ~Hasty, InCallInv, NEW s \in InCall!Streams, InCall!Close(s)
  PROVE  /\ InCallType' /\ InCallStreamInv(s)' /\ InCallVoteInv' /\ UNCHANGED <<card, work>>
         /\ \A t \in InCall!Streams : t # s => str'[t] = str[t]
<1>0. InCallType /\ WorkerInv /\ InCallStreamInv(s) /\ str[s] \in InCallRec
  BY DEF InCallInv, InCallType
<1>1. /\ card = "ON"
      /\ work.kind = "none"
      /\ votes' = IF str[s].st \in InCallRunning THEN InCall!Less(votes) ELSE votes
      /\ UNCHANGED <<card, work, downs>>
  BY <1>0, InCallCloseMoves
<1>y. PICK y \in InCallRec : str' = [str EXCEPT ![s] = y] /\ y.st = "IDLE" /\ y.cached = "IDLE"
          /\ y.ask = "IDLE" /\ y.fe = FALSE /\ y.run = FALSE /\ y.wild = FALSE
  BY <1>0, InCallCloseMoves
<1>2. InCallType'
  <2>2. str' \in [InCall!Streams -> InCallRec]
    BY <1>0, <1>1, <1>y DEF InCallType
  <2>3. votes' \in Nat /\ card' = card /\ downs' = downs
    BY <1>0, <1>1, <1>y DEF InCallType, InCall!Less, InCallRunning
  <2>4. work' = work
    BY <1>1, <1>y
  <2> QED
    BY <1>0, <2>2, <2>3, <2>4 DEF InCallType
<1>3. InCallStreamInv(s)'
  BY <1>0, <1>1, <1>y DEF InCallStreamInv, InCallType, InCallRec, InCallSettled, InCallShut,
     AsTold, InCallRunning, WorkerInv
<1>4. \A t \in InCall!Streams : t # s => str'[t] = str[t]
  BY <1>0, <1>1, <1>y DEF InCallType
<1>5. /\ \/ votes' = votes /\ (str'[s].run <=> str[s].run)
         \/ votes' = votes + 1 /\ str'[s].run /\ ~str[s].run
         \/ votes' = InCall!Less(votes) /\ ~str'[s].run /\ str[s].run
      /\ HoldsEnd(str'[s]) => HoldsEnd(str[s])
  BY <1>0, <1>1, <1>y DEF InCallType, InCallRec, HoldsEnd, InCallStreamInv, InCallRunning,
     InCallSettled, AsTold
<1>6. InCallVoteInv'
  BY <1>4, <1>5, InCallVotesFollow
<1> QED
  BY <1>1, <1>y, <1>2, <1>3, <1>4, <1>6

(***************************************************************************)
(* a pause;                                                                *)
(***************************************************************************)
LEMMA InCallPauseKeeps ==
  ASSUME InCall!InCallAssumption, ~Hasty, InCallInv, NEW s \in InCall!Streams, InCall!Pause(s)
  PROVE  /\ InCallType' /\ InCallStreamInv(s)' /\ InCallVoteInv' /\ UNCHANGED <<card, work>>
         /\ \A t \in InCall!Streams : t # s => str'[t] = str[t]
<1>0. InCallType /\ WorkerInv /\ InCallStreamInv(s) /\ str[s] \in InCallRec
  BY DEF InCallInv, InCallType
<1>1. ASSUME card = "OFF",
             work.kind = "none",
             str[s].cached = "STARTED",
             votes' = votes,
             UNCHANGED <<card, work, downs>>,
             str' = [str EXCEPT ![s] = [@ EXCEPT !.cached = "PAUSED", !.paused = TRUE,
               !.ask = "PAUSED"]]
      PROVE  /\ InCallType' /\ InCallStreamInv(s)' /\ InCallVoteInv' /\ UNCHANGED <<card, work>>
             /\ \A t \in InCall!Streams : t # s => str'[t] = str[t]
  <2>2. InCallType'
    <3>1. str'[s] \in InCallRec
      BY <1>0, <1>1 DEF InCallType, InCallRec, InCall!States
    <3>2. str' \in [InCall!Streams -> InCallRec]
      BY <1>0, <1>1, <3>1 DEF InCallType
    <3>3. votes' \in Nat /\ card' = card /\ downs' = downs
      BY <1>0, <1>1 DEF InCallType, InCall!Less, InCallRunning
    <3>4. work' = work
      BY <1>1
    <3> QED
      BY <1>0, <3>2, <3>3, <3>4 DEF InCallType
  <2>3. InCallStreamInv(s)'
    BY <1>0, <1>1 DEF InCallStreamInv, InCallType, InCallRec, InCallSettled, InCallShut,
       AsTold, InCallRunning, WorkerInv
  <2>4. \A t \in InCall!Streams : t # s => str'[t] = str[t]
    BY <1>0, <1>1 DEF InCallType
  <2>5. /\ \/ votes' = votes /\ (str'[s].run <=> str[s].run)
           \/ votes' = votes + 1 /\ str'[s].run /\ ~str[s].run
           \/ votes' = InCall!Less(votes) /\ ~str'[s].run /\ str[s].run
        /\ HoldsEnd(str'[s]) => HoldsEnd(str[s])
    BY <1>0, <1>1 DEF InCallType, InCallRec, HoldsEnd, InCallStreamInv, InCallRunning,
       InCallSettled, AsTold
  <2>6. InCallVoteInv'
    BY <2>4, <2>5, InCallVotesFollow
  <2> QED
    BY <1>1, <2>2, <2>3, <2>4, <2>6
<1>2. ASSUME card = "ON",
             work.kind = "none",
             str[s].st = "STARTED",
             votes' = votes,
             UNCHANGED <<card, work, downs>>,
             str' = str
      PROVE  /\ InCallType' /\ InCallStreamInv(s)' /\ InCallVoteInv' /\ UNCHANGED <<card, work>>
             /\ \A t \in InCall!Streams : t # s => str'[t] = str[t]
  <2>2. InCallType'
    <3>2. str' \in [InCall!Streams -> InCallRec]
      BY <1>0, <1>2 DEF InCallType
    <3>3. votes' \in Nat /\ card' = card /\ downs' = downs
      BY <1>0, <1>2 DEF InCallType, InCall!Less, InCallRunning
    <3>4. work' = work
      BY <1>2
    <3> QED
      BY <1>0, <3>2, <3>3, <3>4 DEF InCallType
  <2>3. InCallStreamInv(s)'
    BY <1>0, <1>2 DEF InCallStreamInv, InCallType, InCallRec, InCallSettled, InCallShut,
       AsTold, InCallRunning, WorkerInv
  <2>4. \A t \in InCall!Streams : t # s => str'[t] = str[t]
    BY <1>0, <1>2 DEF InCallType
  <2>5. /\ \/ votes' = votes /\ (str'[s].run <=> str[s].run)
           \/ votes' = votes + 1 /\ str'[s].run /\ ~str[s].run
           \/ votes' = InCall!Less(votes) /\ ~str'[s].run /\ str[s].run
        /\ HoldsEnd(str'[s]) => HoldsEnd(str[s])
    BY <1>0, <1>2 DEF InCallType, InCallRec, HoldsEnd, InCallStreamInv, InCallRunning,
       InCallSettled, AsTold
  <2>6. InCallVoteInv'
    BY <2>4, <2>5, InCallVotesFollow
  <2> QED
    BY <1>2, <2>2, <2>3, <2>4, <2>6
<1>3. ASSUME card = "ON",
             work.kind = "none",
             str[s].st = "STARTED",
             votes' = votes,
             UNCHANGED <<card, work, downs>>,
             str' = [str EXCEPT ![s] = [@ EXCEPT !.paused = TRUE, !.st = "PAUSED",
               !.ask = "PAUSED"]]
      PROVE  /\ InCallType' /\ InCallStreamInv(s)' /\ InCallVoteInv' /\ UNCHANGED <<card, work>>
             /\ \A t \in InCall!Streams : t # s => str'[t] = str[t]
  <2>2. InCallType'
    <3>1. str'[s] \in InCallRec
      BY <1>0, <1>3 DEF InCallType, InCallRec, InCall!States
    <3>2. str' \in [InCall!Streams -> InCallRec]
      BY <1>0, <1>3, <3>1 DEF InCallType
    <3>3. votes' \in Nat /\ card' = card /\ downs' = downs
      BY <1>0, <1>3 DEF InCallType, InCall!Less, InCallRunning
    <3>4. work' = work
      BY <1>3
    <3> QED
      BY <1>0, <3>2, <3>3, <3>4 DEF InCallType
  <2>3. InCallStreamInv(s)'
    BY <1>0, <1>3 DEF InCallStreamInv, InCallType, InCallRec, InCallSettled, InCallShut,
       AsTold, InCallRunning, WorkerInv
  <2>4. \A t \in InCall!Streams : t # s => str'[t] = str[t]
    BY <1>0, <1>3 DEF InCallType
  <2>5. /\ \/ votes' = votes /\ (str'[s].run <=> str[s].run)
           \/ votes' = votes + 1 /\ str'[s].run /\ ~str[s].run
           \/ votes' = InCall!Less(votes) /\ ~str'[s].run /\ str[s].run
        /\ HoldsEnd(str'[s]) => HoldsEnd(str[s])
    BY <1>0, <1>3 DEF InCallType, InCallRec, HoldsEnd, InCallStreamInv, InCallRunning,
       InCallSettled, AsTold
  <2>6. InCallVoteInv'
    BY <2>4, <2>5, InCallVotesFollow
  <2> QED
    BY <1>3, <2>2, <2>3, <2>4, <2>6
<1> QED
  BY <1>0, <1>1, <1>2, <1>3, InCallPauseMoves

(***************************************************************************)
(* a resume;                                                               *)
(***************************************************************************)
LEMMA InCallResumeKeeps ==
  ASSUME InCall!InCallAssumption, ~Hasty, InCallInv, NEW s \in InCall!Streams, InCall!Resume(s)
  PROVE  /\ InCallType' /\ InCallStreamInv(s)' /\ InCallVoteInv' /\ UNCHANGED <<card, work>>
         /\ \A t \in InCall!Streams : t # s => str'[t] = str[t]
<1>0. InCallType /\ WorkerInv /\ InCallStreamInv(s) /\ str[s] \in InCallRec
  BY DEF InCallInv, InCallType
<1>1. ASSUME card = "OFF",
             work.kind = "none",
             str[s].cached = "PAUSED",
             votes' = votes,
             UNCHANGED <<card, work, downs>>,
             str' = [str EXCEPT ![s] = [@ EXCEPT !.cached = "STARTED", !.ask = "STARTED"]]
      PROVE  /\ InCallType' /\ InCallStreamInv(s)' /\ InCallVoteInv' /\ UNCHANGED <<card, work>>
             /\ \A t \in InCall!Streams : t # s => str'[t] = str[t]
  <2>2. InCallType'
    <3>1. str'[s] \in InCallRec
      BY <1>0, <1>1 DEF InCallType, InCallRec, InCall!States
    <3>2. str' \in [InCall!Streams -> InCallRec]
      BY <1>0, <1>1, <3>1 DEF InCallType
    <3>3. votes' \in Nat /\ card' = card /\ downs' = downs
      BY <1>0, <1>1 DEF InCallType, InCall!Less, InCallRunning
    <3>4. work' = work
      BY <1>1
    <3> QED
      BY <1>0, <3>2, <3>3, <3>4 DEF InCallType
  <2>3. InCallStreamInv(s)'
    BY <1>0, <1>1 DEF InCallStreamInv, InCallType, InCallRec, InCallSettled, InCallShut,
       AsTold, InCallRunning, WorkerInv
  <2>4. \A t \in InCall!Streams : t # s => str'[t] = str[t]
    BY <1>0, <1>1 DEF InCallType
  <2>5. /\ \/ votes' = votes /\ (str'[s].run <=> str[s].run)
           \/ votes' = votes + 1 /\ str'[s].run /\ ~str[s].run
           \/ votes' = InCall!Less(votes) /\ ~str'[s].run /\ str[s].run
        /\ HoldsEnd(str'[s]) => HoldsEnd(str[s])
    BY <1>0, <1>1 DEF InCallType, InCallRec, HoldsEnd, InCallStreamInv, InCallRunning,
       InCallSettled, AsTold
  <2>6. InCallVoteInv'
    BY <2>4, <2>5, InCallVotesFollow
  <2> QED
    BY <1>1, <2>2, <2>3, <2>4, <2>6
<1>2. ASSUME card = "ON",
             work.kind = "none",
             str[s].st = "PAUSED",
             votes' = votes,
             UNCHANGED <<card, work, downs>>,
             str' = str
      PROVE  /\ InCallType' /\ InCallStreamInv(s)' /\ InCallVoteInv' /\ UNCHANGED <<card, work>>
             /\ \A t \in InCall!Streams : t # s => str'[t] = str[t]
  <2>2. InCallType'
    <3>2. str' \in [InCall!Streams -> InCallRec]
      BY <1>0, <1>2 DEF InCallType
    <3>3. votes' \in Nat /\ card' = card /\ downs' = downs
      BY <1>0, <1>2 DEF InCallType, InCall!Less, InCallRunning
    <3>4. work' = work
      BY <1>2
    <3> QED
      BY <1>0, <3>2, <3>3, <3>4 DEF InCallType
  <2>3. InCallStreamInv(s)'
    BY <1>0, <1>2 DEF InCallStreamInv, InCallType, InCallRec, InCallSettled, InCallShut,
       AsTold, InCallRunning, WorkerInv
  <2>4. \A t \in InCall!Streams : t # s => str'[t] = str[t]
    BY <1>0, <1>2 DEF InCallType
  <2>5. /\ \/ votes' = votes /\ (str'[s].run <=> str[s].run)
           \/ votes' = votes + 1 /\ str'[s].run /\ ~str[s].run
           \/ votes' = InCall!Less(votes) /\ ~str'[s].run /\ str[s].run
        /\ HoldsEnd(str'[s]) => HoldsEnd(str[s])
    BY <1>0, <1>2 DEF InCallType, InCallRec, HoldsEnd, InCallStreamInv, InCallRunning,
       InCallSettled, AsTold
  <2>6. InCallVoteInv'
    BY <2>4, <2>5, InCallVotesFollow
  <2> QED
    BY <1>2, <2>2, <2>3, <2>4, <2>6
<1>3. ASSUME card = "ON",
             work.kind = "none",
             str[s].st = "PAUSED",
             votes' = votes,
             UNCHANGED <<card, work, downs>>,
             str' = [str EXCEPT ![s] = [@ EXCEPT !.paused = FALSE, !.st = "STARTED",
               !.ask = "STARTED"]]
      PROVE  /\ InCallType' /\ InCallStreamInv(s)' /\ InCallVoteInv' /\ UNCHANGED <<card, work>>
             /\ \A t \in InCall!Streams : t # s => str'[t] = str[t]
  <2>2. InCallType'
    <3>1. str'[s] \in InCallRec
      BY <1>0, <1>3 DEF InCallType, InCallRec, InCall!States
    <3>2. str' \in [InCall!Streams -> InCallRec]
      BY <1>0, <1>3, <3>1 DEF InCallType
    <3>3. votes' \in Nat /\ card' = card /\ downs' = downs
      BY <1>0, <1>3 DEF InCallType, InCall!Less, InCallRunning
    <3>4. work' = work
      BY <1>3
    <3> QED
      BY <1>0, <3>2, <3>3, <3>4 DEF InCallType
  <2>3. InCallStreamInv(s)'
    BY <1>0, <1>3 DEF InCallStreamInv, InCallType, InCallRec, InCallSettled, InCallShut,
       AsTold, InCallRunning, WorkerInv
  <2>4. \A t \in InCall!Streams : t # s => str'[t] = str[t]
    BY <1>0, <1>3 DEF InCallType
  <2>5. /\ \/ votes' = votes /\ (str'[s].run <=> str[s].run)
           \/ votes' = votes + 1 /\ str'[s].run /\ ~str[s].run
           \/ votes' = InCall!Less(votes) /\ ~str'[s].run /\ str[s].run
        /\ HoldsEnd(str'[s]) => HoldsEnd(str[s])
    BY <1>0, <1>3 DEF InCallType, InCallRec, HoldsEnd, InCallStreamInv, InCallRunning,
       InCallSettled, AsTold
  <2>6. InCallVoteInv'
    BY <2>4, <2>5, InCallVotesFollow
  <2> QED
    BY <1>3, <2>2, <2>3, <2>4, <2>6
<1> QED
  BY <1>0, <1>1, <1>2, <1>3, InCallResumeMoves

(***************************************************************************)
(* the worker's stop,                                                      *)
(***************************************************************************)
LEMMA InCallDownStopsKeeps ==
  ASSUME InCall!InCallAssumption, ~Hasty, InCallInv, NEW s \in InCall!Streams,
         InCall!DownStops(s)
  PROVE  /\ InCallType' /\ WorkerInv' /\ InCallStreamInv(s)' /\ InCallVoteInv' /\ card' = card
         /\ work'.kind = work.kind
         /\ work.s \subseteq {s} /\ work'.s \subseteq {s}
         /\ work'.todo \in {work.todo, work.todo \ {s}}
         /\ \A t \in InCall!Streams : t # s => str'[t] = str[t]
<1>0. InCallType /\ WorkerInv /\ InCallStreamInv(s) /\ str[s] \in InCallRec
  BY DEF InCallInv, InCallType
<1>1. ASSUME work.kind = "down",
             work.s = {s},
             card' = card,
             downs' = downs,
             work' = [work EXCEPT !.todo = @ \ {s}, !.s = {s}, !.at = "close"],
             str[s].st \notin InCallRunning,
             UNCHANGED <<str, votes>>
      PROVE  /\ InCallType' /\ WorkerInv' /\ InCallStreamInv(s)' /\ InCallVoteInv'
             /\ card' = card /\ work'.kind = work.kind
             /\ work.s \subseteq {s} /\ work'.s \subseteq {s}
             /\ work'.todo \in {work.todo, work.todo \ {s}}
             /\ \A t \in InCall!Streams : t # s => str'[t] = str[t]
  <2>2. InCallType'
    <3>2. str' \in [InCall!Streams -> InCallRec]
      BY <1>0, <1>1 DEF InCallType
    <3>3. votes' \in Nat /\ card' = card /\ downs' = downs
      BY <1>0, <1>1 DEF InCallType, InCall!Less, InCallRunning
    <3>4. /\ work'.kind = work.kind /\ work'.todo \subseteq work.todo /\ work'.s \in {{}, {s}}
          /\ work' \in [kind : {"none", "down", "up"}, todo : SUBSET InCall!Streams, s :
               SUBSET InCall!Streams,
                       at : {"none", "done", "stop", "close", "open", "start", "pause"}]
      BY <1>0, <1>1 DEF InCallType
    <3> QED
      BY <1>0, <3>2, <3>3, <3>4 DEF InCallType
  <2>w. WorkerInv'
    BY <1>0, <1>1 DEF WorkerInv, InCallType
  <2>3. InCallStreamInv(s)'
    BY <1>0, <1>1 DEF InCallStreamInv, InCallType, InCallRec, InCallSettled, InCallShut,
       AsTold, InCallRunning, WorkerInv
  <2>4. \A t \in InCall!Streams : t # s => str'[t] = str[t]
    BY <1>0, <1>1 DEF InCallType
  <2>5. /\ \/ votes' = votes /\ (str'[s].run <=> str[s].run)
           \/ votes' = votes + 1 /\ str'[s].run /\ ~str[s].run
           \/ votes' = InCall!Less(votes) /\ ~str'[s].run /\ str[s].run
        /\ HoldsEnd(str'[s]) => HoldsEnd(str[s])
    BY <1>0, <1>1 DEF InCallType, InCallRec, HoldsEnd, InCallStreamInv, InCallRunning,
       InCallSettled, AsTold
  <2>6. InCallVoteInv'
    BY <2>4, <2>5, InCallVotesFollow
  <2>7. /\ work'.kind = work.kind /\ work.s \subseteq {s} /\ work'.s \subseteq {s}
        /\ work'.todo \in {work.todo, work.todo \ {s}}
    BY <1>0, <1>1 DEF InCallType
  <2> QED
    BY <1>1, <2>2, <2>w, <2>3, <2>4, <2>6, <2>7
<1>2. ASSUME work.kind = "down",
             work.s = {s},
             card' = card,
             downs' = downs,
             work' = [work EXCEPT !.todo = @ \ {s}, !.s = {s}, !.at = "close"],
             str[s].st \in InCallRunning,
             votes' = InCall!Less(votes),
             str' = [str EXCEPT ![s] = [@ EXCEPT !.run = FALSE, !.st = "STOPPED"]]
      PROVE  /\ InCallType' /\ WorkerInv' /\ InCallStreamInv(s)' /\ InCallVoteInv'
             /\ card' = card /\ work'.kind = work.kind
             /\ work.s \subseteq {s} /\ work'.s \subseteq {s}
             /\ work'.todo \in {work.todo, work.todo \ {s}}
             /\ \A t \in InCall!Streams : t # s => str'[t] = str[t]
  <2>2. InCallType'
    <3>1. str'[s] \in InCallRec
      BY <1>0, <1>2 DEF InCallType, InCallRec, InCall!States
    <3>2. str' \in [InCall!Streams -> InCallRec]
      BY <1>0, <1>2, <3>1 DEF InCallType
    <3>3. votes' \in Nat /\ card' = card /\ downs' = downs
      BY <1>0, <1>2 DEF InCallType, InCall!Less, InCallRunning
    <3>4. /\ work'.kind = work.kind /\ work'.todo \subseteq work.todo /\ work'.s \in {{}, {s}}
          /\ work' \in [kind : {"none", "down", "up"}, todo : SUBSET InCall!Streams, s :
               SUBSET InCall!Streams,
                       at : {"none", "done", "stop", "close", "open", "start", "pause"}]
      BY <1>0, <1>2 DEF InCallType
    <3> QED
      BY <1>0, <3>2, <3>3, <3>4 DEF InCallType
  <2>w. WorkerInv'
    BY <1>0, <1>2 DEF WorkerInv, InCallType
  <2>3. InCallStreamInv(s)'
    BY <1>0, <1>2 DEF InCallStreamInv, InCallType, InCallRec, InCallSettled, InCallShut,
       AsTold, InCallRunning, WorkerInv
  <2>4. \A t \in InCall!Streams : t # s => str'[t] = str[t]
    BY <1>0, <1>2 DEF InCallType
  <2>5. /\ \/ votes' = votes /\ (str'[s].run <=> str[s].run)
           \/ votes' = votes + 1 /\ str'[s].run /\ ~str[s].run
           \/ votes' = InCall!Less(votes) /\ ~str'[s].run /\ str[s].run
        /\ HoldsEnd(str'[s]) => HoldsEnd(str[s])
    BY <1>0, <1>2 DEF InCallType, InCallRec, HoldsEnd, InCallStreamInv, InCallRunning,
       InCallSettled, AsTold
  <2>6. InCallVoteInv'
    BY <2>4, <2>5, InCallVotesFollow
  <2>7. /\ work'.kind = work.kind /\ work.s \subseteq {s} /\ work'.s \subseteq {s}
        /\ work'.todo \in {work.todo, work.todo \ {s}}
    BY <1>0, <1>2 DEF InCallType
  <2> QED
    BY <1>2, <2>2, <2>w, <2>3, <2>4, <2>6, <2>7
<1> QED
  BY <1>0, <1>1, <1>2, InCallDownMoves

(***************************************************************************)
(* and its close;                                                          *)
(***************************************************************************)
LEMMA InCallDownClosesKeeps ==
  ASSUME InCall!InCallAssumption, ~Hasty, InCallInv, NEW s \in InCall!Streams,
         InCall!DownCloses(s)
  PROVE  /\ InCallType' /\ WorkerInv' /\ InCallStreamInv(s)' /\ InCallVoteInv' /\ card' = card
         /\ work'.kind = work.kind
         /\ work.s \subseteq {s} /\ work'.s \subseteq {s}
         /\ work'.todo \in {work.todo, work.todo \ {s}}
         /\ \A t \in InCall!Streams : t # s => str'[t] = str[t]
<1>0. InCallType /\ WorkerInv /\ InCallStreamInv(s) /\ str[s] \in InCallRec
  BY DEF InCallInv, InCallType
<1>1. /\ work.kind = "down"
      /\ work.s = {s}
      /\ card' = card
      /\ downs' = downs
      /\ work' = [work EXCEPT !.todo = @ \ {s}, !.s = {}, !.at = "done"]
      /\ votes' = IF str[s].st \in InCallRunning THEN InCall!Less(votes) ELSE votes
  BY <1>0, InCallDownCloseMoves
<1>y. PICK y \in InCallRec : str' = [str EXCEPT ![s] = y] /\ y.st = "IDLE" /\ ~y.fe /\ ~y.run
          /\ y.cached = str[s].cached /\ y.ask = str[s].ask /\ y.wild = str[s].wild
  BY <1>0, InCallDownCloseMoves
<1>2. InCallType'
  <2>2. str' \in [InCall!Streams -> InCallRec]
    BY <1>0, <1>1, <1>y DEF InCallType
  <2>3. votes' \in Nat /\ card' = card /\ downs' = downs
    BY <1>0, <1>1, <1>y DEF InCallType, InCall!Less, InCallRunning
  <2>4. /\ work'.kind = work.kind /\ work'.todo \subseteq work.todo /\ work'.s \in {{}, {s}}
        /\ work' \in [kind : {"none", "down", "up"}, todo : SUBSET InCall!Streams, s :
             SUBSET InCall!Streams,
                     at : {"none", "done", "stop", "close", "open", "start", "pause"}]
    BY <1>0, <1>1, <1>y DEF InCallType
  <2> QED
    BY <1>0, <2>2, <2>3, <2>4 DEF InCallType
<1>w. WorkerInv'
  BY <1>0, <1>1, <1>y DEF WorkerInv, InCallType
<1>3. InCallStreamInv(s)'
  BY <1>0, <1>1, <1>y DEF InCallStreamInv, InCallType, InCallRec, InCallSettled, InCallShut,
     AsTold, InCallRunning, WorkerInv
<1>4. \A t \in InCall!Streams : t # s => str'[t] = str[t]
  BY <1>0, <1>1, <1>y DEF InCallType
<1>5. /\ \/ votes' = votes /\ (str'[s].run <=> str[s].run)
         \/ votes' = votes + 1 /\ str'[s].run /\ ~str[s].run
         \/ votes' = InCall!Less(votes) /\ ~str'[s].run /\ str[s].run
      /\ HoldsEnd(str'[s]) => HoldsEnd(str[s])
  BY <1>0, <1>1, <1>y DEF InCallType, InCallRec, HoldsEnd, InCallStreamInv, InCallRunning,
     InCallSettled, AsTold
<1>6. InCallVoteInv'
  BY <1>4, <1>5, InCallVotesFollow
<1>7. /\ work'.kind = work.kind /\ work.s \subseteq {s} /\ work'.s \subseteq {s}
      /\ work'.todo \in {work.todo, work.todo \ {s}}
  BY <1>0, <1>1, <1>y DEF InCallType
<1> QED
  BY <1>1, <1>y, <1>2, <1>w, <1>3, <1>4, <1>6, <1>7

(***************************************************************************)
(* the worker's open,                                                      *)
(***************************************************************************)
LEMMA InCallUpOpensKeeps ==
  ASSUME InCall!InCallAssumption, ~Hasty, InCallInv, NEW s \in InCall!Streams, InCall!UpOpens(s)
  PROVE  /\ InCallType' /\ WorkerInv' /\ InCallStreamInv(s)' /\ InCallVoteInv' /\ card' = card
         /\ work'.kind = work.kind
         /\ work.s \subseteq {s} /\ work'.s \subseteq {s}
         /\ work'.todo \in {work.todo, work.todo \ {s}}
         /\ \A t \in InCall!Streams : t # s => str'[t] = str[t]
<1>0. InCallType /\ WorkerInv /\ InCallStreamInv(s) /\ str[s] \in InCallRec
  BY DEF InCallInv, InCallType
<1>s. InCall!Spare(InCall!W, s) # 0
  <2>1. HoldsEnd(str[s]) /\ ~str[s].fe
    BY <1>0 DEF InCall!UpOpens, InCallStreamInv, HoldsEnd, WorkerInv, InCallRunning
  <2> QED
    BY <2>1, InCallSpareOf
<1>1. ASSUME work.kind = "up",
             work.s = {s},
             work.at = "open",
             card' = card,
             downs' = downs,
             votes' = votes,
             str[s].st = "IDLE",
             str[s].cached \in InCallRunning,
             work' = [work EXCEPT !.todo = @ \ {s}, !.s = {s}, !.at = "start"],
             str' = [str EXCEPT ![s] = [@ EXCEPT !.st = "INIT", !.fe = TRUE]]
      PROVE  /\ InCallType' /\ WorkerInv' /\ InCallStreamInv(s)' /\ InCallVoteInv'
             /\ card' = card /\ work'.kind = work.kind
             /\ work.s \subseteq {s} /\ work'.s \subseteq {s}
             /\ work'.todo \in {work.todo, work.todo \ {s}}
             /\ \A t \in InCall!Streams : t # s => str'[t] = str[t]
  <2>2. InCallType'
    <3>1. str'[s] \in InCallRec
      BY <1>0, <1>1 DEF InCallType, InCallRec, InCall!States
    <3>2. str' \in [InCall!Streams -> InCallRec]
      BY <1>0, <1>1, <3>1 DEF InCallType
    <3>3. votes' \in Nat /\ card' = card /\ downs' = downs
      BY <1>0, <1>1 DEF InCallType, InCall!Less, InCallRunning
    <3>4. /\ work'.kind = work.kind /\ work'.todo \subseteq work.todo /\ work'.s \in {{}, {s}}
          /\ work' \in [kind : {"none", "down", "up"}, todo : SUBSET InCall!Streams, s :
               SUBSET InCall!Streams,
                       at : {"none", "done", "stop", "close", "open", "start", "pause"}]
      BY <1>0, <1>1 DEF InCallType
    <3> QED
      BY <1>0, <3>2, <3>3, <3>4 DEF InCallType
  <2>w. WorkerInv'
    BY <1>0, <1>1 DEF WorkerInv, InCallType
  <2>3. InCallStreamInv(s)'
    BY <1>0, <1>1 DEF InCallStreamInv, InCallType, InCallRec, InCallSettled, InCallShut,
       AsTold, InCallRunning, WorkerInv
  <2>4. \A t \in InCall!Streams : t # s => str'[t] = str[t]
    BY <1>0, <1>1 DEF InCallType
  <2>5. /\ \/ votes' = votes /\ (str'[s].run <=> str[s].run)
           \/ votes' = votes + 1 /\ str'[s].run /\ ~str[s].run
           \/ votes' = InCall!Less(votes) /\ ~str'[s].run /\ str[s].run
        /\ HoldsEnd(str'[s]) => HoldsEnd(str[s])
    BY <1>0, <1>1 DEF InCallType, InCallRec, HoldsEnd, InCallStreamInv, InCallRunning,
       InCallSettled, AsTold
  <2>6. InCallVoteInv'
    BY <2>4, <2>5, InCallVotesFollow
  <2>7. /\ work'.kind = work.kind /\ work.s \subseteq {s} /\ work'.s \subseteq {s}
        /\ work'.todo \in {work.todo, work.todo \ {s}}
    BY <1>0, <1>1 DEF InCallType
  <2> QED
    BY <1>1, <2>2, <2>w, <2>3, <2>4, <2>6, <2>7
<1>2. ASSUME work.kind = "up",
             work.s = {s},
             work.at = "open",
             card' = card,
             downs' = downs,
             votes' = votes,
             str[s].st = "IDLE",
             str[s].cached = "INIT",
             work' = [work EXCEPT !.todo = @ \ {s}, !.s = {}, !.at = "done"],
             str' = [str EXCEPT ![s] = [@ EXCEPT !.st = "INIT", !.fe = TRUE, !.cached = "IDLE"]]
      PROVE  /\ InCallType' /\ WorkerInv' /\ InCallStreamInv(s)' /\ InCallVoteInv'
             /\ card' = card /\ work'.kind = work.kind
             /\ work.s \subseteq {s} /\ work'.s \subseteq {s}
             /\ work'.todo \in {work.todo, work.todo \ {s}}
             /\ \A t \in InCall!Streams : t # s => str'[t] = str[t]
  <2>2. InCallType'
    <3>1. str'[s] \in InCallRec
      BY <1>0, <1>2 DEF InCallType, InCallRec, InCall!States
    <3>2. str' \in [InCall!Streams -> InCallRec]
      BY <1>0, <1>2, <3>1 DEF InCallType
    <3>3. votes' \in Nat /\ card' = card /\ downs' = downs
      BY <1>0, <1>2 DEF InCallType, InCall!Less, InCallRunning
    <3>4. /\ work'.kind = work.kind /\ work'.todo \subseteq work.todo /\ work'.s \in {{}, {s}}
          /\ work' \in [kind : {"none", "down", "up"}, todo : SUBSET InCall!Streams, s :
               SUBSET InCall!Streams,
                       at : {"none", "done", "stop", "close", "open", "start", "pause"}]
      BY <1>0, <1>2 DEF InCallType
    <3> QED
      BY <1>0, <3>2, <3>3, <3>4 DEF InCallType
  <2>w. WorkerInv'
    BY <1>0, <1>2 DEF WorkerInv, InCallType
  <2>3. InCallStreamInv(s)'
    BY <1>0, <1>2 DEF InCallStreamInv, InCallType, InCallRec, InCallSettled, InCallShut,
       AsTold, InCallRunning, WorkerInv
  <2>4. \A t \in InCall!Streams : t # s => str'[t] = str[t]
    BY <1>0, <1>2 DEF InCallType
  <2>5. /\ \/ votes' = votes /\ (str'[s].run <=> str[s].run)
           \/ votes' = votes + 1 /\ str'[s].run /\ ~str[s].run
           \/ votes' = InCall!Less(votes) /\ ~str'[s].run /\ str[s].run
        /\ HoldsEnd(str'[s]) => HoldsEnd(str[s])
    BY <1>0, <1>2 DEF InCallType, InCallRec, HoldsEnd, InCallStreamInv, InCallRunning,
       InCallSettled, AsTold
  <2>6. InCallVoteInv'
    BY <2>4, <2>5, InCallVotesFollow
  <2>7. /\ work'.kind = work.kind /\ work.s \subseteq {s} /\ work'.s \subseteq {s}
        /\ work'.todo \in {work.todo, work.todo \ {s}}
    BY <1>0, <1>2 DEF InCallType
  <2> QED
    BY <1>2, <2>2, <2>w, <2>3, <2>4, <2>6, <2>7
<1> QED
  BY <1>0, <1>s, <1>1, <1>2, InCallUpOpenMoves

(***************************************************************************)
(* its start,                                                              *)
(***************************************************************************)
LEMMA InCallUpStartsKeeps ==
  ASSUME InCall!InCallAssumption, ~Hasty, InCallInv, NEW s \in InCall!Streams,
         InCall!UpStarts(s)
  PROVE  /\ InCallType' /\ WorkerInv' /\ InCallStreamInv(s)' /\ InCallVoteInv' /\ card' = card
         /\ work'.kind = work.kind
         /\ work.s \subseteq {s} /\ work'.s \subseteq {s}
         /\ work'.todo \in {work.todo, work.todo \ {s}}
         /\ \A t \in InCall!Streams : t # s => str'[t] = str[t]
<1>0. InCallType /\ WorkerInv /\ InCallStreamInv(s) /\ str[s] \in InCallRec
  BY DEF InCallInv, InCallType
<1>1. ASSUME work.kind = "up",
             work.s = {s},
             work.at = "start",
             card' = card,
             downs' = downs,
             votes' = votes + 1,
             str[s].st = "INIT",
             str[s].cached = "PAUSED",
             work' = [work EXCEPT !.todo = @ \ {s}, !.s = {s}, !.at = "pause"],
             str' = [str EXCEPT ![s] = [@ EXCEPT !.pcm = TRUE, !.run = TRUE,
               !.dsp = IF s \in Records THEN str[s].vol ELSE str[s].dsp, !.st = "STARTED"]]
      PROVE  /\ InCallType' /\ WorkerInv' /\ InCallStreamInv(s)' /\ InCallVoteInv'
             /\ card' = card /\ work'.kind = work.kind
             /\ work.s \subseteq {s} /\ work'.s \subseteq {s}
             /\ work'.todo \in {work.todo, work.todo \ {s}}
             /\ \A t \in InCall!Streams : t # s => str'[t] = str[t]
  <2>2. InCallType'
    <3>1. str'[s] \in InCallRec
      BY <1>0, <1>1 DEF InCallType, InCallRec, InCall!States
    <3>2. str' \in [InCall!Streams -> InCallRec]
      BY <1>0, <1>1, <3>1 DEF InCallType
    <3>3. votes' \in Nat /\ card' = card /\ downs' = downs
      BY <1>0, <1>1 DEF InCallType, InCall!Less, InCallRunning
    <3>4. /\ work'.kind = work.kind /\ work'.todo \subseteq work.todo /\ work'.s \in {{}, {s}}
          /\ work' \in [kind : {"none", "down", "up"}, todo : SUBSET InCall!Streams, s :
               SUBSET InCall!Streams,
                       at : {"none", "done", "stop", "close", "open", "start", "pause"}]
      BY <1>0, <1>1 DEF InCallType
    <3> QED
      BY <1>0, <3>2, <3>3, <3>4 DEF InCallType
  <2>w. WorkerInv'
    BY <1>0, <1>1 DEF WorkerInv, InCallType
  <2>3. InCallStreamInv(s)'
    BY <1>0, <1>1 DEF InCallStreamInv, InCallType, InCallRec, InCallSettled, InCallShut,
       AsTold, InCallRunning, WorkerInv
  <2>4. \A t \in InCall!Streams : t # s => str'[t] = str[t]
    BY <1>0, <1>1 DEF InCallType
  <2>5. /\ \/ votes' = votes /\ (str'[s].run <=> str[s].run)
           \/ votes' = votes + 1 /\ str'[s].run /\ ~str[s].run
           \/ votes' = InCall!Less(votes) /\ ~str'[s].run /\ str[s].run
        /\ HoldsEnd(str'[s]) => HoldsEnd(str[s])
    BY <1>0, <1>1 DEF InCallType, InCallRec, HoldsEnd, InCallStreamInv, InCallRunning,
       InCallSettled, AsTold
  <2>6. InCallVoteInv'
    BY <2>4, <2>5, InCallVotesFollow
  <2>7. /\ work'.kind = work.kind /\ work.s \subseteq {s} /\ work'.s \subseteq {s}
        /\ work'.todo \in {work.todo, work.todo \ {s}}
    BY <1>0, <1>1 DEF InCallType
  <2> QED
    BY <1>1, <2>2, <2>w, <2>3, <2>4, <2>6, <2>7
<1>2. ASSUME work.kind = "up",
             work.s = {s},
             work.at = "start",
             card' = card,
             downs' = downs,
             votes' = votes + 1,
             str[s].st = "INIT",
             str[s].cached = "STARTED",
             work' = [work EXCEPT !.todo = @ \ {s}, !.s = {}, !.at = "done"],
             str' = [str EXCEPT ![s] = [@ EXCEPT !.pcm = TRUE, !.run = TRUE,
               !.dsp = IF s \in Records THEN str[s].vol ELSE str[s].dsp, !.st = "STARTED",
                 !.cached = "IDLE"]]
      PROVE  /\ InCallType' /\ WorkerInv' /\ InCallStreamInv(s)' /\ InCallVoteInv'
             /\ card' = card /\ work'.kind = work.kind
             /\ work.s \subseteq {s} /\ work'.s \subseteq {s}
             /\ work'.todo \in {work.todo, work.todo \ {s}}
             /\ \A t \in InCall!Streams : t # s => str'[t] = str[t]
  <2>2. InCallType'
    <3>1. str'[s] \in InCallRec
      BY <1>0, <1>2 DEF InCallType, InCallRec, InCall!States
    <3>2. str' \in [InCall!Streams -> InCallRec]
      BY <1>0, <1>2, <3>1 DEF InCallType
    <3>3. votes' \in Nat /\ card' = card /\ downs' = downs
      BY <1>0, <1>2 DEF InCallType, InCall!Less, InCallRunning
    <3>4. /\ work'.kind = work.kind /\ work'.todo \subseteq work.todo /\ work'.s \in {{}, {s}}
          /\ work' \in [kind : {"none", "down", "up"}, todo : SUBSET InCall!Streams, s :
               SUBSET InCall!Streams,
                       at : {"none", "done", "stop", "close", "open", "start", "pause"}]
      BY <1>0, <1>2 DEF InCallType
    <3> QED
      BY <1>0, <3>2, <3>3, <3>4 DEF InCallType
  <2>w. WorkerInv'
    BY <1>0, <1>2 DEF WorkerInv, InCallType
  <2>3. InCallStreamInv(s)'
    BY <1>0, <1>2 DEF InCallStreamInv, InCallType, InCallRec, InCallSettled, InCallShut,
       AsTold, InCallRunning, WorkerInv
  <2>4. \A t \in InCall!Streams : t # s => str'[t] = str[t]
    BY <1>0, <1>2 DEF InCallType
  <2>5. /\ \/ votes' = votes /\ (str'[s].run <=> str[s].run)
           \/ votes' = votes + 1 /\ str'[s].run /\ ~str[s].run
           \/ votes' = InCall!Less(votes) /\ ~str'[s].run /\ str[s].run
        /\ HoldsEnd(str'[s]) => HoldsEnd(str[s])
    BY <1>0, <1>2 DEF InCallType, InCallRec, HoldsEnd, InCallStreamInv, InCallRunning,
       InCallSettled, AsTold
  <2>6. InCallVoteInv'
    BY <2>4, <2>5, InCallVotesFollow
  <2>7. /\ work'.kind = work.kind /\ work.s \subseteq {s} /\ work'.s \subseteq {s}
        /\ work'.todo \in {work.todo, work.todo \ {s}}
    BY <1>0, <1>2 DEF InCallType
  <2> QED
    BY <1>2, <2>2, <2>w, <2>3, <2>4, <2>6, <2>7
<1> QED
  BY <1>0, <1>1, <1>2, InCallUpStartMoves

(***************************************************************************)
(* and its pause;                                                          *)
(***************************************************************************)
LEMMA InCallUpPausesKeeps ==
  ASSUME InCall!InCallAssumption, ~Hasty, InCallInv, NEW s \in InCall!Streams,
         InCall!UpPauses(s)
  PROVE  /\ InCallType' /\ WorkerInv' /\ InCallStreamInv(s)' /\ InCallVoteInv' /\ card' = card
         /\ work'.kind = work.kind
         /\ work.s \subseteq {s} /\ work'.s \subseteq {s}
         /\ work'.todo \in {work.todo, work.todo \ {s}}
         /\ \A t \in InCall!Streams : t # s => str'[t] = str[t]
<1>0. InCallType /\ WorkerInv /\ InCallStreamInv(s) /\ str[s] \in InCallRec
  BY DEF InCallInv, InCallType
<1>1. /\ work.kind = "up"
      /\ work.s = {s}
      /\ work.at = "pause"
      /\ card' = card
      /\ downs' = downs
      /\ votes' = votes
      /\ str[s].st = "STARTED"
      /\ str[s].cached = "PAUSED"
      /\ work' = [work EXCEPT !.todo = @ \ {s}, !.s = {}, !.at = "done"]
      /\ str' = [str EXCEPT ![s] = [@ EXCEPT !.paused = TRUE, !.st = "PAUSED",
           !.cached = "IDLE"]]
  BY <1>0, InCallUpPauseMoves
<1>2. InCallType'
  <2>1. str'[s] \in InCallRec
    BY <1>0, <1>1 DEF InCallType, InCallRec, InCall!States
  <2>2. str' \in [InCall!Streams -> InCallRec]
    BY <1>0, <1>1, <2>1 DEF InCallType
  <2>3. votes' \in Nat /\ card' = card /\ downs' = downs
    BY <1>0, <1>1 DEF InCallType, InCall!Less, InCallRunning
  <2>4. /\ work'.kind = work.kind /\ work'.todo \subseteq work.todo /\ work'.s \in {{}, {s}}
        /\ work' \in [kind : {"none", "down", "up"}, todo : SUBSET InCall!Streams, s :
             SUBSET InCall!Streams,
                     at : {"none", "done", "stop", "close", "open", "start", "pause"}]
    BY <1>0, <1>1 DEF InCallType
  <2> QED
    BY <1>0, <2>2, <2>3, <2>4 DEF InCallType
<1>w. WorkerInv'
  BY <1>0, <1>1 DEF WorkerInv, InCallType
<1>3. InCallStreamInv(s)'
  BY <1>0, <1>1 DEF InCallStreamInv, InCallType, InCallRec, InCallSettled, InCallShut,
     AsTold, InCallRunning, WorkerInv
<1>4. \A t \in InCall!Streams : t # s => str'[t] = str[t]
  BY <1>0, <1>1 DEF InCallType
<1>5. /\ \/ votes' = votes /\ (str'[s].run <=> str[s].run)
         \/ votes' = votes + 1 /\ str'[s].run /\ ~str[s].run
         \/ votes' = InCall!Less(votes) /\ ~str'[s].run /\ str[s].run
      /\ HoldsEnd(str'[s]) => HoldsEnd(str[s])
  BY <1>0, <1>1 DEF InCallType, InCallRec, HoldsEnd, InCallStreamInv, InCallRunning,
     InCallSettled, AsTold
<1>6. InCallVoteInv'
  BY <1>4, <1>5, InCallVotesFollow
<1>7. /\ work'.kind = work.kind /\ work.s \subseteq {s} /\ work'.s \subseteq {s}
      /\ work'.todo \in {work.todo, work.todo \ {s}}
  BY <1>0, <1>1 DEF InCallType
<1> QED
  BY <1>1, <1>2, <1>w, <1>3, <1>4, <1>6, <1>7

(***************************************************************************)
(* What ssrDownHandler() does first: what the stream was is remembered.    *)
(***************************************************************************)
LEMMA InCallDownHandlerMoves ==
  ASSUME InCallType, NEW s \in InCall!Streams, InCall!ssrDownHandler(s), InCallStreamInv(s)
  PROVE  /\ work.kind = "down" /\ work.s = {} /\ s \in work.todo
         /\ UNCHANGED <<votes, card, downs>>
         /\ str' = [str EXCEPT ![s] = [@ EXCEPT !.cached = str[s].st]]
         /\ \/ str[s].st = "IDLE" /\ work' = [work EXCEPT !.todo = @ \ {s}, !.s = {},
              !.at = "done"]
            \/ \E at \in {"stop", "close"} :
                 work' = [work EXCEPT !.todo = @ \ {s}, !.s = {s}, !.at = at]
<1>1. /\ work.kind = "down" /\ work.s = {} /\ s \in work.todo
      /\ UNCHANGED <<votes, card, downs>>
  BY DEF InCall!ssrDownHandler
<1>2. str[s].cached = "IDLE"
  BY <1>1 DEF InCallStreamInv, InCallSettled
<1>3. str' = [str EXCEPT ![s] = [@ EXCEPT !.cached = str[s].st]]
  BY <1>2 DEF InCall!ssrDownHandler, InCallType, InCallRec
<1>4. \/ str[s].st = "IDLE" /\ work' = [work EXCEPT !.todo = @ \ {s}, !.s = {}, !.at = "done"]
      \/ \E at \in {"stop", "close"} :
           work' = [work EXCEPT !.todo = @ \ {s}, !.s = {s}, !.at = at]
  <2>1. InCall!Goes_(s, IF str[s].st \in {"STARTED",
          "PAUSED"} THEN "stop" ELSE IF str[s].st = "IDLE" THEN "done" ELSE "close")
    BY DEF InCall!ssrDownHandler
  <2>2. CASE str[s].st \in {"STARTED", "PAUSED"}
    BY <2>1, <2>2 DEF InCall!Goes_
  <2>3. CASE str[s].st = "IDLE"
    BY <2>1, <2>3 DEF InCall!Goes_
  <2>4. CASE str[s].st \notin {"IDLE", "STARTED", "PAUSED"}
    BY <2>1, <2>4 DEF InCall!Goes_
  <2> QED
    BY <2>2, <2>3, <2>4
<1> QED
  BY <1>1, <1>3, <1>4

(***************************************************************************)
(* What ssrUpHandler() does first: it goes on with a stream that was open, *)
(* and forgets the others.                                                 *)
(***************************************************************************)
LEMMA InCallUpHandlerMoves ==
  ASSUME InCallType, NEW s \in InCall!Streams, InCall!ssrUpHandler(s)
  PROVE  /\ work.kind = "up" /\ work.s = {} /\ s \in work.todo
         /\ UNCHANGED <<votes, card, downs>>
         /\ \/ /\ str[s].cached \in {"INIT", "STARTED", "PAUSED"} /\ str' = str
               /\ work' = [work EXCEPT !.todo = @ \ {s}, !.s = {s}, !.at = "open"]
            \/ /\ str[s].cached \notin {"INIT", "STARTED", "PAUSED"}
               /\ str' = [str EXCEPT ![s] = [@ EXCEPT !.cached = "IDLE"]]
               /\ work' = [work EXCEPT !.todo = @ \ {s}, !.s = {}, !.at = "done"]
<1>1. /\ work.kind = "up" /\ work.s = {} /\ s \in work.todo /\ UNCHANGED <<card, downs>>
  BY DEF InCall!ssrUpHandler
<1>2. CASE str[s].cached \in {"INIT", "STARTED", "PAUSED"}
  BY <1>1, <1>2 DEF InCall!ssrUpHandler, InCall!Goes_
<1>3. CASE str[s].cached \notin {"INIT", "STARTED", "PAUSED"}
  <2>1. InCall!Forgets(InCall!W, s)
    BY <1>3 DEF InCall!ssrUpHandler
  <2>2. [InCall!W EXCEPT !.str[s].cached = "IDLE"]
         = [str |-> [str EXCEPT ![s] = [@ EXCEPT !.cached = "IDLE"]], votes |-> votes]
    BY DEF InCall!W, InCallType
  <2> DEFINE y == [str EXCEPT ![s] = [@ EXCEPT !.cached = "IDLE"]]
  <2>3. InCall!Becomes([str |-> y, votes |-> votes]) /\ InCall!Goes_(s, "done")
    BY <2>1, <2>2 DEF InCall!Forgets
  <2> HIDE DEF y
  <2>4. str' = y /\ votes' = votes
    BY <2>3 DEF InCall!Becomes
  <2> QED
    BY <1>1, <1>3, <2>3, <2>4 DEF InCall!Goes_, y
<1> QED
  BY <1>2, <1>3

(***************************************************************************)
(* Both keep the invariant: the first,                                     *)
(***************************************************************************)
LEMMA InCallSsrDownHandlerKeeps ==
  ASSUME InCall!InCallAssumption, ~Hasty, InCallInv, NEW s \in InCall!Streams,
         InCall!ssrDownHandler(s)
  PROVE  /\ InCallType' /\ WorkerInv' /\ InCallStreamInv(s)' /\ InCallVoteInv' /\ card' = card
         /\ work'.kind = work.kind
         /\ work.s \subseteq {s} /\ work'.s \subseteq {s}
         /\ work'.todo \in {work.todo, work.todo \ {s}}
         /\ \A t \in InCall!Streams : t # s => str'[t] = str[t]
<1>0. InCallType /\ WorkerInv /\ InCallStreamInv(s) /\ str[s] \in InCallRec
  BY DEF InCallInv, InCallType
<1>1. ASSUME work.kind = "down",
             work.s = {},
             s \in work.todo,
             card' = card,
             downs' = downs,
             votes' = votes,
             str[s].st = "IDLE",
             work' = [work EXCEPT !.todo = @ \ {s}, !.s = {}, !.at = "done"],
             str' = [str EXCEPT ![s] = [@ EXCEPT !.cached = str[s].st]]
      PROVE  /\ InCallType' /\ WorkerInv' /\ InCallStreamInv(s)' /\ InCallVoteInv'
             /\ card' = card /\ work'.kind = work.kind
             /\ work.s \subseteq {s} /\ work'.s \subseteq {s}
             /\ work'.todo \in {work.todo, work.todo \ {s}}
             /\ \A t \in InCall!Streams : t # s => str'[t] = str[t]
  <2>2. InCallType'
    <3>1. str'[s] \in InCallRec
      BY <1>0, <1>1 DEF InCallType, InCallRec, InCall!States
    <3>2. str' \in [InCall!Streams -> InCallRec]
      BY <1>0, <1>1, <3>1 DEF InCallType
    <3>3. votes' \in Nat /\ card' = card /\ downs' = downs
      BY <1>0, <1>1 DEF InCallType, InCall!Less, InCallRunning
    <3>4. /\ work'.kind = work.kind /\ work'.todo \subseteq work.todo /\ work'.s \in {{}, {s}}
          /\ work' \in [kind : {"none", "down", "up"}, todo : SUBSET InCall!Streams, s :
               SUBSET InCall!Streams,
                       at : {"none", "done", "stop", "close", "open", "start", "pause"}]
      BY <1>0, <1>1 DEF InCallType
    <3> QED
      BY <1>0, <3>2, <3>3, <3>4 DEF InCallType
  <2>w. WorkerInv'
    BY <1>0, <1>1 DEF WorkerInv, InCallType
  <2>3. InCallStreamInv(s)'
    BY <1>0, <1>1 DEF InCallStreamInv, InCallType, InCallRec, InCallSettled, InCallShut,
       AsTold, InCallRunning, WorkerInv
  <2>4. \A t \in InCall!Streams : t # s => str'[t] = str[t]
    BY <1>0, <1>1 DEF InCallType
  <2>5. /\ \/ votes' = votes /\ (str'[s].run <=> str[s].run)
           \/ votes' = votes + 1 /\ str'[s].run /\ ~str[s].run
           \/ votes' = InCall!Less(votes) /\ ~str'[s].run /\ str[s].run
        /\ HoldsEnd(str'[s]) => HoldsEnd(str[s])
    BY <1>0, <1>1 DEF InCallType, InCallRec, HoldsEnd, InCallStreamInv, InCallRunning,
       InCallSettled, AsTold
  <2>6. InCallVoteInv'
    BY <2>4, <2>5, InCallVotesFollow
  <2>7. /\ work'.kind = work.kind /\ work.s \subseteq {s} /\ work'.s \subseteq {s}
        /\ work'.todo \in {work.todo, work.todo \ {s}}
    BY <1>0, <1>1 DEF InCallType
  <2> QED
    BY <1>1, <2>2, <2>w, <2>3, <2>4, <2>6, <2>7
<1>2. ASSUME work.kind = "down",
             work.s = {},
             s \in work.todo,
             card' = card,
             downs' = downs,
             votes' = votes,
             \E at \in {"stop", "close"} :
               work' = [work EXCEPT !.todo = @ \ {s}, !.s = {s}, !.at = at],
             str' = [str EXCEPT ![s] = [@ EXCEPT !.cached = str[s].st]]
      PROVE  /\ InCallType' /\ WorkerInv' /\ InCallStreamInv(s)' /\ InCallVoteInv'
             /\ card' = card /\ work'.kind = work.kind
             /\ work.s \subseteq {s} /\ work'.s \subseteq {s}
             /\ work'.todo \in {work.todo, work.todo \ {s}}
             /\ \A t \in InCall!Streams : t # s => str'[t] = str[t]
  <2>2. InCallType'
    <3>1. str'[s] \in InCallRec
      BY <1>0, <1>2 DEF InCallType, InCallRec, InCall!States
    <3>2. str' \in [InCall!Streams -> InCallRec]
      BY <1>0, <1>2, <3>1 DEF InCallType
    <3>3. votes' \in Nat /\ card' = card /\ downs' = downs
      BY <1>0, <1>2 DEF InCallType, InCall!Less, InCallRunning
    <3>4. /\ work'.kind = work.kind /\ work'.todo \subseteq work.todo /\ work'.s \in {{}, {s}}
          /\ work' \in [kind : {"none", "down", "up"}, todo : SUBSET InCall!Streams, s :
               SUBSET InCall!Streams,
                       at : {"none", "done", "stop", "close", "open", "start", "pause"}]
      <4>1. PICK at \in {"stop", "close"} :
              work' = [work EXCEPT !.todo = @ \ {s}, !.s = {s}, !.at = at]
        BY <1>2
      <4>2. work \in [kind : {"none", "down", "up"}, todo : SUBSET InCall!Streams, s :
              SUBSET InCall!Streams,
                      at : {"none", "done", "stop", "close", "open", "start", "pause"}]
        BY <1>0 DEF InCallType
      <4> QED
        BY <4>1, <4>2
    <3> QED
      BY <1>0, <3>2, <3>3, <3>4 DEF InCallType
  <2>w. WorkerInv'
    BY <1>0, <1>2 DEF WorkerInv, InCallType
  <2>3. InCallStreamInv(s)'
    BY <1>0, <1>2 DEF InCallStreamInv, InCallType, InCallRec, InCallSettled, InCallShut,
       AsTold, InCallRunning, WorkerInv
  <2>4. \A t \in InCall!Streams : t # s => str'[t] = str[t]
    BY <1>0, <1>2 DEF InCallType
  <2>5. /\ \/ votes' = votes /\ (str'[s].run <=> str[s].run)
           \/ votes' = votes + 1 /\ str'[s].run /\ ~str[s].run
           \/ votes' = InCall!Less(votes) /\ ~str'[s].run /\ str[s].run
        /\ HoldsEnd(str'[s]) => HoldsEnd(str[s])
    BY <1>0, <1>2 DEF InCallType, InCallRec, HoldsEnd, InCallStreamInv, InCallRunning,
       InCallSettled, AsTold
  <2>6. InCallVoteInv'
    BY <2>4, <2>5, InCallVotesFollow
  <2>7. /\ work'.kind = work.kind /\ work.s \subseteq {s} /\ work'.s \subseteq {s}
        /\ work'.todo \in {work.todo, work.todo \ {s}}
    BY <1>0, <1>2 DEF InCallType
  <2> QED
    BY <1>2, <2>2, <2>w, <2>3, <2>4, <2>6, <2>7
<1> QED
  BY <1>0, <1>1, <1>2, InCallDownHandlerMoves

(***************************************************************************)
(* and the second.                                                         *)
(***************************************************************************)
LEMMA InCallSsrUpHandlerKeeps ==
  ASSUME InCall!InCallAssumption, ~Hasty, InCallInv, NEW s \in InCall!Streams,
         InCall!ssrUpHandler(s)
  PROVE  /\ InCallType' /\ WorkerInv' /\ InCallStreamInv(s)' /\ InCallVoteInv' /\ card' = card
         /\ work'.kind = work.kind
         /\ work.s \subseteq {s} /\ work'.s \subseteq {s}
         /\ work'.todo \in {work.todo, work.todo \ {s}}
         /\ \A t \in InCall!Streams : t # s => str'[t] = str[t]
<1>0. InCallType /\ WorkerInv /\ InCallStreamInv(s) /\ str[s] \in InCallRec
  BY DEF InCallInv, InCallType
<1>1. ASSUME work.kind = "up",
             work.s = {},
             s \in work.todo,
             card' = card,
             downs' = downs,
             votes' = votes,
             str' = str,
             str[s].cached \in {"INIT", "STARTED", "PAUSED"},
             work' = [work EXCEPT !.todo = @ \ {s}, !.s = {s}, !.at = "open"]
      PROVE  /\ InCallType' /\ WorkerInv' /\ InCallStreamInv(s)' /\ InCallVoteInv'
             /\ card' = card /\ work'.kind = work.kind
             /\ work.s \subseteq {s} /\ work'.s \subseteq {s}
             /\ work'.todo \in {work.todo, work.todo \ {s}}
             /\ \A t \in InCall!Streams : t # s => str'[t] = str[t]
  <2>2. InCallType'
    <3>2. str' \in [InCall!Streams -> InCallRec]
      BY <1>0, <1>1 DEF InCallType
    <3>3. votes' \in Nat /\ card' = card /\ downs' = downs
      BY <1>0, <1>1 DEF InCallType, InCall!Less, InCallRunning
    <3>4. /\ work'.kind = work.kind /\ work'.todo \subseteq work.todo /\ work'.s \in {{}, {s}}
          /\ work' \in [kind : {"none", "down", "up"}, todo : SUBSET InCall!Streams, s :
               SUBSET InCall!Streams,
                       at : {"none", "done", "stop", "close", "open", "start", "pause"}]
      BY <1>0, <1>1 DEF InCallType
    <3> QED
      BY <1>0, <3>2, <3>3, <3>4 DEF InCallType
  <2>w. WorkerInv'
    BY <1>0, <1>1 DEF WorkerInv, InCallType
  <2>3. InCallStreamInv(s)'
    BY <1>0, <1>1 DEF InCallStreamInv, InCallType, InCallRec, InCallSettled, InCallShut,
       AsTold, InCallRunning, WorkerInv
  <2>4. \A t \in InCall!Streams : t # s => str'[t] = str[t]
    BY <1>0, <1>1 DEF InCallType
  <2>5. /\ \/ votes' = votes /\ (str'[s].run <=> str[s].run)
           \/ votes' = votes + 1 /\ str'[s].run /\ ~str[s].run
           \/ votes' = InCall!Less(votes) /\ ~str'[s].run /\ str[s].run
        /\ HoldsEnd(str'[s]) => HoldsEnd(str[s])
    BY <1>0, <1>1 DEF InCallType, InCallRec, HoldsEnd, InCallStreamInv, InCallRunning,
       InCallSettled, AsTold
  <2>6. InCallVoteInv'
    BY <2>4, <2>5, InCallVotesFollow
  <2>7. /\ work'.kind = work.kind /\ work.s \subseteq {s} /\ work'.s \subseteq {s}
        /\ work'.todo \in {work.todo, work.todo \ {s}}
    BY <1>0, <1>1 DEF InCallType
  <2> QED
    BY <1>1, <2>2, <2>w, <2>3, <2>4, <2>6, <2>7
<1>2. ASSUME work.kind = "up",
             work.s = {},
             s \in work.todo,
             card' = card,
             downs' = downs,
             votes' = votes,
             str[s].cached \notin {"INIT", "STARTED", "PAUSED"},
             work' = [work EXCEPT !.todo = @ \ {s}, !.s = {}, !.at = "done"],
             str' = [str EXCEPT ![s] = [@ EXCEPT !.cached = "IDLE"]]
      PROVE  /\ InCallType' /\ WorkerInv' /\ InCallStreamInv(s)' /\ InCallVoteInv'
             /\ card' = card /\ work'.kind = work.kind
             /\ work.s \subseteq {s} /\ work'.s \subseteq {s}
             /\ work'.todo \in {work.todo, work.todo \ {s}}
             /\ \A t \in InCall!Streams : t # s => str'[t] = str[t]
  <2>2. InCallType'
    <3>1. str'[s] \in InCallRec
      BY <1>0, <1>2 DEF InCallType, InCallRec, InCall!States
    <3>2. str' \in [InCall!Streams -> InCallRec]
      BY <1>0, <1>2, <3>1 DEF InCallType
    <3>3. votes' \in Nat /\ card' = card /\ downs' = downs
      BY <1>0, <1>2 DEF InCallType, InCall!Less, InCallRunning
    <3>4. /\ work'.kind = work.kind /\ work'.todo \subseteq work.todo /\ work'.s \in {{}, {s}}
          /\ work' \in [kind : {"none", "down", "up"}, todo : SUBSET InCall!Streams, s :
               SUBSET InCall!Streams,
                       at : {"none", "done", "stop", "close", "open", "start", "pause"}]
      BY <1>0, <1>2 DEF InCallType
    <3> QED
      BY <1>0, <3>2, <3>3, <3>4 DEF InCallType
  <2>w. WorkerInv'
    BY <1>0, <1>2 DEF WorkerInv, InCallType
  <2>3. InCallStreamInv(s)'
    <3>1. str[s].st = "IDLE" /\ card = "ON"
      BY <1>0, <1>2 DEF InCallStreamInv, InCallShut, WorkerInv
    <3>2. AsTold(str[s].ask, str[s].cached)
      BY <1>0, <1>2 DEF InCallStreamInv, InCallSettled
    <3>3. str[s].ask \in {"STOPPED", "IDLE"}
      BY <1>0, <1>2, <3>2 DEF AsTold, InCallRec, InCall!States
    <3>4. str'[s] = [str[s] EXCEPT !.cached = "IDLE"]
      BY <1>0, <1>2 DEF InCallType
    <3>5. /\ str'[s].fe = str[s].fe /\ str'[s].run = str[s].run /\ str'[s].pcm = str[s].pcm
          /\ str'[s].wild = str[s].wild /\ str'[s].dsp = str[s].dsp /\ str'[s].vol = str[s].vol
          /\ str'[s].st = "IDLE" /\ str'[s].ask = str[s].ask /\ str'[s].cached = "IDLE"
      BY <1>0, <3>1, <3>4 DEF InCallRec
    <3>6. work'.kind = "up" /\ work'.s = {} /\ work'.todo = work.todo \ {s}
      BY <1>0, <1>2 DEF InCallType
    <3> QED
      BY <1>0, <1>2, <3>1, <3>3, <3>5, <3>6 DEF InCallStreamInv, InCallSettled, InCallShut,
         AsTold, InCallRunning
  <2>4. \A t \in InCall!Streams : t # s => str'[t] = str[t]
    BY <1>0, <1>2 DEF InCallType
  <2>5. /\ \/ votes' = votes /\ (str'[s].run <=> str[s].run)
           \/ votes' = votes + 1 /\ str'[s].run /\ ~str[s].run
           \/ votes' = InCall!Less(votes) /\ ~str'[s].run /\ str[s].run
        /\ HoldsEnd(str'[s]) => HoldsEnd(str[s])
    BY <1>0, <1>2 DEF InCallType, InCallRec, HoldsEnd, InCallStreamInv, InCallRunning,
       InCallSettled, AsTold
  <2>6. InCallVoteInv'
    BY <2>4, <2>5, InCallVotesFollow
  <2>7. /\ work'.kind = work.kind /\ work.s \subseteq {s} /\ work'.s \subseteq {s}
        /\ work'.todo \in {work.todo, work.todo \ {s}}
    BY <1>0, <1>2 DEF InCallType
  <2> QED
    BY <1>2, <2>2, <2>w, <2>3, <2>4, <2>6, <2>7
<1> QED
  BY <1>0, <1>1, <1>2, InCallUpHandlerMoves

(***************************************************************************)
(* A volume keeps the invariant.                                           *)
(***************************************************************************)
LEMMA InCallSetVolumeKeeps ==
  ASSUME InCall!InCallAssumption, ~Hasty, InCallInv, NEW s \in InCall!Streams,
         InCall!SetVolume(s)
  PROVE  /\ InCallType' /\ InCallStreamInv(s)' /\ InCallVoteInv' /\ UNCHANGED <<card, work>>
         /\ \A t \in InCall!Streams : t # s => str'[t] = str[t]
<1>0. InCallType /\ WorkerInv /\ InCallStreamInv(s) /\ str[s] \in InCallRec
  BY DEF InCallInv, InCallType
<1>1. ASSUME votes' = votes,
             UNCHANGED <<card, work, downs>>,
             card = "ON",
             str[s].st \notin {"IDLE", "INIT"},
             \E v \in 1..2 : str' = [str EXCEPT ![s] = [@ EXCEPT !.vol = v, !.dsp = v]]
      PROVE  /\ InCallType' /\ InCallStreamInv(s)' /\ InCallVoteInv' /\ UNCHANGED <<card, work>>
             /\ \A t \in InCall!Streams : t # s => str'[t] = str[t]
  <2>2. InCallType'
    <3>1. str'[s] \in InCallRec
      <4>0. PICK v \in 1..2 : str' = [str EXCEPT ![s] = [@ EXCEPT !.vol = v, !.dsp = v]]
        BY <1>1
      <4>1. v \in 0..2
        OBVIOUS
      <4>2. str'[s] = [str[s] EXCEPT !.vol = v, !.dsp = v]
        BY <1>0, <4>0 DEF InCallType
      <4> QED
        BY <1>0, <4>1, <4>2 DEF InCallRec, InCall!States
    <3>2. str' \in [InCall!Streams -> InCallRec]
      BY <1>0, <1>1, <3>1 DEF InCallType
    <3>3. votes' \in Nat /\ card' = card /\ downs' = downs
      BY <1>0, <1>1 DEF InCallType, InCall!Less, InCallRunning
    <3>4. work' = work
      BY <1>1
    <3> QED
      BY <1>0, <3>2, <3>3, <3>4 DEF InCallType
  <2>3. InCallStreamInv(s)'
    BY <1>0, <1>1 DEF InCallStreamInv, InCallType, InCallRec, InCallSettled, InCallShut,
       AsTold, InCallRunning, WorkerInv
  <2>4. \A t \in InCall!Streams : t # s => str'[t] = str[t]
    BY <1>0, <1>1 DEF InCallType
  <2>5. /\ \/ votes' = votes /\ (str'[s].run <=> str[s].run)
           \/ votes' = votes + 1 /\ str'[s].run /\ ~str[s].run
           \/ votes' = InCall!Less(votes) /\ ~str'[s].run /\ str[s].run
        /\ HoldsEnd(str'[s]) => HoldsEnd(str[s])
    BY <1>0, <1>1 DEF InCallType, InCallRec, HoldsEnd, InCallStreamInv, InCallRunning,
       InCallSettled, AsTold
  <2>6. InCallVoteInv'
    BY <2>4, <2>5, InCallVotesFollow
  <2> QED
    BY <1>1, <2>2, <2>3, <2>4, <2>6
<1>2. ASSUME votes' = votes,
             UNCHANGED <<card, work, downs>>,
             ~(card = "ON" /\ str[s].st \notin {"IDLE", "INIT"}),
             \E v \in 1..2 : str' = [str EXCEPT ![s] = [@ EXCEPT !.vol = v]]
      PROVE  /\ InCallType' /\ InCallStreamInv(s)' /\ InCallVoteInv' /\ UNCHANGED <<card, work>>
             /\ \A t \in InCall!Streams : t # s => str'[t] = str[t]
  <2>2. InCallType'
    <3>1. str'[s] \in InCallRec
      BY <1>0, <1>2 DEF InCallType, InCallRec, InCall!States
    <3>2. str' \in [InCall!Streams -> InCallRec]
      BY <1>0, <1>2, <3>1 DEF InCallType
    <3>3. votes' \in Nat /\ card' = card /\ downs' = downs
      BY <1>0, <1>2 DEF InCallType, InCall!Less, InCallRunning
    <3>4. work' = work
      BY <1>2
    <3> QED
      BY <1>0, <3>2, <3>3, <3>4 DEF InCallType
  <2>3. InCallStreamInv(s)'
    BY <1>0, <1>2 DEF InCallStreamInv, InCallType, InCallRec, InCallSettled, InCallShut,
       AsTold, InCallRunning, WorkerInv
  <2>4. \A t \in InCall!Streams : t # s => str'[t] = str[t]
    BY <1>0, <1>2 DEF InCallType
  <2>5. /\ \/ votes' = votes /\ (str'[s].run <=> str[s].run)
           \/ votes' = votes + 1 /\ str'[s].run /\ ~str[s].run
           \/ votes' = InCall!Less(votes) /\ ~str'[s].run /\ str[s].run
        /\ HoldsEnd(str'[s]) => HoldsEnd(str[s])
    BY <1>0, <1>2 DEF InCallType, InCallRec, HoldsEnd, InCallStreamInv, InCallRunning,
       InCallSettled, AsTold
  <2>6. InCallVoteInv'
    BY <2>4, <2>5, InCallVotesFollow
  <2> QED
    BY <1>2, <2>2, <2>3, <2>4, <2>6
<1> QED
  BY <1>0, <1>1, <1>2, InCallVolumeMoves

(***************************************************************************)
(* An open takes a front end only if one is left, and then one more stream *)
(* holds one.                                                              *)
(***************************************************************************)
LEMMA InCallOpenKeeps ==
  ASSUME InCall!InCallAssumption, ~Hasty, InCallInv, NEW s \in InCall!Streams, InCall!Open(s)
  PROVE  /\ InCallType' /\ InCallStreamInv(s)' /\ InCallVoteInv' /\ UNCHANGED <<card, work>>
         /\ \A t \in InCall!Streams : t # s => str'[t] = str[t]
<1>0. InCallType /\ WorkerInv /\ InCallStreamInv(s) /\ str[s] \in InCallRec
  BY DEF InCallInv, InCallType
<1>1. /\ card = "ON" /\ work.kind = "none" /\ UNCHANGED <<votes, card, work, downs>>
      /\ str[s].ask = "IDLE" /\ str[s].st = "IDLE"
  BY <1>0, InCallOpenMoves
<1>2. ASSUME str' = str
      PROVE  /\ InCallType' /\ InCallStreamInv(s)' /\ InCallVoteInv' /\ UNCHANGED <<card, work>>
             /\ \A t \in InCall!Streams : t # s => str'[t] = str[t]
  <2>1. InCallType' /\ InCallStreamInv(s)' /\ InCallVoteInv'
    BY <1>0, <1>1, <1>2 DEF InCallType, InCallStreamInv, InCallSettled, InCallShut,
       InCallVoteInv, InCallInv
  <2> QED
    BY <1>1, <1>2, <2>1
<1>3. ASSUME InCall!Spare(InCall!W, s) # 0,
             str' = [str EXCEPT ![s] = [@ EXCEPT !.st = "INIT", !.fe = TRUE, !.ask = "INIT"]]
      PROVE  /\ InCallType' /\ InCallStreamInv(s)' /\ InCallVoteInv' /\ UNCHANGED <<card, work>>
             /\ \A t \in InCall!Streams : t # s => str'[t] = str[t]
  <2>1. str'[s] \in InCallRec
    BY <1>0, <1>1, <1>3 DEF InCallType, InCallRec, InCall!States
  <2>2. InCallType'
    BY <1>0, <1>1, <1>3, <2>1 DEF InCallType
  <2>3. InCallStreamInv(s)'
    BY <1>0, <1>1, <1>3 DEF InCallStreamInv, InCallType, InCallRec, InCallSettled,
       InCallShut, AsTold, InCallRunning, WorkerInv
  <2>4. \A t \in InCall!Streams : t # s => str'[t] = str[t]
    BY <1>0, <1>3 DEF InCallType
  <2>5. /\ str'[s].run = str[s].run
        /\ HoldsEnd(str'[s]) /\ ~HoldsEnd(str[s]) /\ ~str[s].fe
    BY <1>0, <1>1, <1>3 DEF InCallType, InCallRec, HoldsEnd, InCallStreamInv, InCallSettled
  <2>6. votes' = Cardinality({t \in InCall!Streams : str'[t].run})
    <3>1. \A t \in InCall!Streams : str'[t].run = str[t].run
      BY <2>4, <2>5
    <3>2. {t \in InCall!Streams : str'[t].run} = {t \in InCall!Streams : str[t].run}
      BY <3>1
    <3> QED
      BY <1>1, <3>2 DEF InCallInv, InCallVoteInv
  <2>7. ASSUME NEW K, K \in {Records, Musics}
        PROVE  Cardinality({t \in K : HoldsEnd(str'[t])}) <= Ends
    <3> DEFINE A == {t \in K : HoldsEnd(str[t])}
               B == {t \in K : HoldsEnd(str'[t])}
    <3>1. IsFiniteSet(K) /\ K \subseteq InCall!Streams
      BY <2>7, InCallFinite
    <3>2. Cardinality(A) <= Ends
      BY <2>7 DEF InCallInv, InCallVoteInv
    <3>3. ASSUME s \notin K PROVE Cardinality(B) <= Ends
      <4>1. B = A
        BY <2>4, <3>1, <3>3
      <4> QED
        BY <3>2, <4>1
    <3>4. ASSUME s \in K PROVE Cardinality(B) <= Ends
      <4>1. K = InCall!Kin(s)
        BY <2>7, <3>4, InCallFinite DEF InCall!Kin
      <4>2. \A t \in InCall!Streams : str[t].cached = "IDLE"
        BY <1>1 DEF InCallInv, InCallStreamInv, InCallSettled
      <4>3. A = {t \in InCall!Kin(s) : str[t].fe}
        BY <3>1, <4>1, <4>2 DEF HoldsEnd
      <4>4. Cardinality(A) \in Nat /\ InCall!Spare(InCall!W, s) = Ends - Cardinality(A)
        BY <4>3, InCallSpareOf
      <4>5. Cardinality(A) < Ends
        BY <1>3, <3>2, <4>4, InCallFinite
      <4>6. /\ A \in SUBSET K /\ B \in SUBSET K /\ \A t \in K : t # s => (t \in A <=> t \in B)
            /\ s \in B /\ s \notin A
        BY <2>4, <2>5, <3>1, <3>4
      <4> HIDE DEF A, B
      <4>7. Cardinality(B) = Cardinality(A) + 1
        BY <3>1, <3>4, <4>6, OneMoved
      <4> QED
        BY <4>4, <4>5, <4>7, InCallFinite
    <3> QED
      BY <3>3, <3>4
  <2>8. InCallVoteInv'
    BY <2>6, <2>7 DEF InCallVoteInv
  <2> QED
    BY <1>1, <2>2, <2>3, <2>4, <2>8
<1> QED
  BY <1>0, <1>2, <1>3, InCallOpenMoves

(***************************************************************************)
(* Every step on a stream keeps the invariant,                             *)
(***************************************************************************)
LEMMA InCallSteps ==
  ASSUME InCall!InCallAssumption, ~Hasty, InCallInv, NEW s \in InCall!Streams, InCall!Step(s)
  PROVE  InCallInv'
<1>0. /\ InCallType /\ WorkerInv /\ InCallStreamInv(s)
           /\ \A t \in InCall!Streams : InCallStreamInv(t)
  BY DEF InCallInv
<1>1. ASSUME InCallType', WorkerInv', InCallStreamInv(s)', InCallVoteInv', card' = card,
             work'.kind = work.kind,
             work.s \subseteq {s}, work'.s \subseteq {s},
               work'.todo \in {work.todo, work.todo \ {s}},
             \A t \in InCall!Streams : t # s => str'[t] = str[t]
      PROVE  InCallInv'
  <2>1. ASSUME NEW t \in InCall!Streams, t # s PROVE InCallStreamInv(t)'
    BY <1>0, <1>1, <2>1, InCallOthersStay
  <2> QED
    BY <1>1, <2>1 DEF InCallInv
<1>2. ASSUME InCallType', UNCHANGED <<card, work>>, InCallStreamInv(s)', InCallVoteInv',
             \A t \in InCall!Streams : t # s => str'[t] = str[t]
      PROVE  InCallInv'
  <2>1. ASSUME NEW t \in InCall!Streams, t # s PROVE InCallStreamInv(t)'
    BY <1>0, <1>2, <2>1, InCallOthersStay
  <2>2. WorkerInv'
    BY <1>0, <1>2 DEF WorkerInv
  <2> QED
    BY <1>2, <2>1, <2>2 DEF InCallInv
<1>3. CASE InCall!Open(s) \/ InCall!Start(s) \/ InCall!Stop(s) \/ InCall!Close(s)
  BY <1>2, <1>3, InCallOpenKeeps, InCallStartKeeps, InCallStopKeeps, InCallCloseKeeps
<1>4. CASE InCall!Pause(s) \/ InCall!Resume(s) \/ InCall!SetVolume(s)
  BY <1>2, <1>4, InCallPauseKeeps, InCallResumeKeeps, InCallSetVolumeKeeps
<1>5. CASE InCall!Transfer(s)
  <2>1. UNCHANGED <<str, votes, card, work, downs>>
    BY <1>0, <1>5, InCallTransferMoves
  <2> QED
    BY <1>0, <2>1 DEF InCallInv, InCallType, WorkerInv, InCallStreamInv, InCallSettled,
       InCallShut, InCallVoteInv
<1>6. CASE InCall!ssrDownHandler(s) \/ InCall!DownStops(s) \/ InCall!DownCloses(s)
  BY <1>1, <1>6, InCallSsrDownHandlerKeeps, InCallDownStopsKeeps, InCallDownClosesKeeps
<1>7. CASE InCall!ssrUpHandler(s) \/ InCall!UpOpens(s) \/ InCall!UpStarts(s)
          \/ InCall!UpPauses(s)
  BY <1>1, <1>7, InCallSsrUpHandlerKeeps, InCallUpOpensKeeps, InCallUpStartsKeeps,
     InCallUpPausesKeeps
<1> QED
  BY <1>3, <1>4, <1>5, <1>6, <1>7 DEF InCall!Step

(***************************************************************************)
(* and so does every step: the card may go only when no worker runs, and   *)
(* then every stream is settled.                                           *)
(***************************************************************************)
LEMMA InCallGoesOn ==
  ASSUME InCall!InCallAssumption, ~Hasty, InCallInv, [InCall!Next]_(InCall!vars)
  PROVE  InCallInv'
<1>0. MaxDowns \in Nat /\ InCallType /\ WorkerInv /\ InCallVoteInv
        /\ \A t \in InCall!Streams : InCallStreamInv(t)
  BY DEF InCallInv, InCall!InCallAssumption
<1>1. ASSUME UNCHANGED <<str, votes>>, InCallType', WorkerInv',
             \A t \in InCall!Streams : InCallStreamInv(t)'
      PROVE  InCallInv'
  BY <1>0, <1>1 DEF InCallInv, InCallVoteInv
<1>2. CASE InCall!Goes
  <2>1. InCallType'
    <3>1. downs + 1 \in 0..MaxDowns
      BY <1>0, <1>2 DEF InCall!Goes, InCallType
    <3>2. work' = [kind |-> "down", todo |-> InCall!Streams, s |-> {}, at |-> "none"]
      BY <1>2 DEF InCall!Goes, InCall!Idle
    <3>3. work' \in [kind : {"none", "down", "up"}, todo : SUBSET InCall!Streams,
                     s : SUBSET InCall!Streams,
                     at : {"none", "done", "stop", "close", "open", "start", "pause"}]
      BY <3>2
    <3> QED
      BY <1>0, <1>2, <3>1, <3>3 DEF InCall!Goes, InCallType
  <2>2. WorkerInv' /\ \A t \in InCall!Streams : InCallStreamInv(t)'
    BY <1>0, <1>2 DEF InCall!Goes, InCall!Idle, WorkerInv, InCallStreamInv, InCallSettled,
       InCallShut
  <2> QED
    BY <1>1, <1>2, <2>1, <2>2 DEF InCall!Goes
<1>3. CASE InCall!Returns
  <2>1. InCallType'
    BY <1>0, <1>3 DEF InCall!Returns, InCall!Idle, InCallType
  <2>2. WorkerInv' /\ \A t \in InCall!Streams : InCallStreamInv(t)'
    BY <1>0, <1>3 DEF InCall!Returns, InCall!Idle, WorkerInv, InCallStreamInv,
       InCallSettled, InCallShut, InCallRunning
  <2> QED
    BY <1>1, <1>3, <2>1, <2>2 DEF InCall!Returns
<1>4. CASE InCall!Finishes
  <2>1. InCallType'
    BY <1>0, <1>4 DEF InCall!Finishes, InCall!Idle, InCallType
  <2>2. WorkerInv' /\ \A t \in InCall!Streams : InCallStreamInv(t)'
    BY <1>0, <1>4 DEF InCall!Finishes, InCall!Idle, WorkerInv, InCallStreamInv,
       InCallSettled, InCallShut, InCallType
  <2> QED
    BY <1>1, <1>4, <2>1, <2>2 DEF InCall!Finishes
<1>5. CASE UNCHANGED InCall!vars
  BY <1>0, <1>5 DEF InCall!vars, InCallInv, InCallType, WorkerInv, InCallStreamInv,
     InCallSettled, InCallShut, InCallVoteInv
<1> QED
  BY <1>2, <1>3, <1>4, <1>5, InCallSteps DEF InCall!Next

(***************************************************************************)
(* It holds at the start,                                                  *)
(***************************************************************************)
LEMMA InCallStarts ==
  ASSUME InCall!InCallAssumption, InCall!Init
  PROVE  InCallInv
<1>1. InCallType
  BY DEF InCall!Init, InCall!New, InCall!Idle, InCallType, InCallRec, InCall!States,
     InCall!InCallAssumption
<1>2. WorkerInv /\ \A s \in InCall!Streams : InCallStreamInv(s)
  BY DEF InCall!Init, InCall!New, InCall!Idle, WorkerInv, InCallStreamInv, InCallSettled,
     InCallShut, AsTold, InCallRunning
<1>3. InCallVoteInv
  <2>1. /\ {s \in InCall!Streams : str[s].run} = {}
        /\ {s \in Records : HoldsEnd(str[s])} = {} /\ {s \in Musics : HoldsEnd(str[s])} = {}
    BY InCallFinite DEF InCall!Init, InCall!New, HoldsEnd
  <2>2. votes = 0
    BY DEF InCall!Init
  <2> QED
    <3>1. Cardinality({}) = 0 /\ 0 <= Ends
      BY FS_EmptySet, InCallFinite
    <3> QED
      BY <2>1, <2>2, <3>1 DEF InCallVoteInv
<1> QED
  BY <1>1, <1>2, <1>3 DEF InCallInv

(***************************************************************************)
(* and so it holds always.                                                 *)
(***************************************************************************)
LEMMA InCallInvariant ==
  ASSUME InCall!InCallAssumption, ~Hasty
  PROVE  InCall!Spec => []InCallInv
  BY InCallStarts, InCallGoesOn, PTL DEF InCall!Spec

(***************************************************************************)
(* It says more than the properties do.                                    *)
(***************************************************************************)
LEMMA InCallProps ==
  ASSUME InCall!InCallAssumption, InCallInv
  PROVE  InCall!TypeOK /\ InCall!CountsExact /\ InCall!PromisesKept /\ InCall!NeverReadsPast
<1>0. InCallType /\ WorkerInv /\ InCallVoteInv /\ \A t \in InCall!Streams : InCallStreamInv(t)
  BY DEF InCallInv
<1>1. InCall!TypeOK
  BY <1>0 DEF InCall!TypeOK, InCallType, InCallRec
<1>2. InCall!CountsExact
  <2>1. {s \in InCall!Streams : str[s].st \in {"STARTED", "PAUSED"}} = {s \in InCall!Streams :
          str[s].run}
    BY <1>0 DEF InCallStreamInv, InCallRunning
  <2>2. votes = InCall!Cardinality({s \in InCall!Streams : str[s].st \in {"STARTED", "PAUSED"}})
    BY <1>0, <2>1 DEF InCallVoteInv, InCall!Cardinality, Cardinality
  <2>3. ASSUME NEW s \in InCall!Streams
        PROVE  InCall!Spare(InCall!W, s) >= 0 /\ (str[s].fe <=> str[s].st # "IDLE")
    <3>1. str[s].fe <=> str[s].st # "IDLE"
      BY <1>0 DEF InCallStreamInv
    <3> DEFINE K == InCall!Kin(s)
               A == {t \in K : str[t].fe}
               B == {t \in K : HoldsEnd(str[t])}
    <3>2. K \in {Records, Musics} /\ IsFiniteSet(K)
      BY InCallFinite DEF InCall!Kin
    <3>3. A \subseteq B /\ IsFiniteSet(B)
      BY <3>2, FS_Subset DEF HoldsEnd
    <3>4. Cardinality(B) <= Ends
      BY <1>0, <3>2 DEF InCallVoteInv
    <3>5. Cardinality(A) <= Cardinality(B) /\ Cardinality(A) \in Nat /\ Cardinality(B) \in Nat
      BY <3>3, FS_Subset, FS_CardinalityType
    <3>6. InCall!Spare(InCall!W, s) = Ends - Cardinality(A)
      BY InCallSpareOf
    <3> HIDE DEF A, B
    <3>7. Ends \in Nat
      BY InCallFinite
    <3>8. \A n, m \in Nat : n <= m /\ m <= Ends => Ends - n >= 0
      BY <3>7
    <3>9. InCall!Spare(InCall!W, s) >= 0
      BY <3>4, <3>5, <3>6, <3>8
    <3> QED
      BY <3>1, <3>9
  <2> QED
    BY <2>2, <2>3 DEF InCall!CountsExact
<1>3. InCall!PromisesKept
  BY <1>0 DEF InCall!PromisesKept, InCallStreamInv, InCallSettled, AsTold, InCallRunning
<1>4. InCall!NeverReadsPast
  BY <1>0 DEF InCall!NeverReadsPast, InCallStreamInv
<1> QED
  BY <1>1, <1>2, <1>3, <1>4

(***************************************************************************)
(* The streams keep their types and their states, for any number of        *)
(* streams and of front ends, however often the card goes and comes back.  *)
(***************************************************************************)
THEOREM InCallTypes ==
  ASSUME InCall!InCallAssumption, ~Hasty
  PROVE  InCall!Spec => []InCall!TypeOK
  BY InCallInvariant, InCallProps, PTL DEF InCall!Spec

(***************************************************************************)
(* The processor has one vote for each stream of a call that was started   *)
(* and not stopped, and no list of front ends gives out more than it has.  *)
(***************************************************************************)
THEOREM InCallCounts ==
  ASSUME InCall!InCallAssumption, ~Hasty
  PROVE  InCall!Spec => []InCall!CountsExact
  BY InCallInvariant, InCallProps, PTL DEF InCall!Spec

(***************************************************************************)
(* Once ssrUpHandler() is over every stream of a call is what its client   *)
(* was told it is, with the volume the client set.                         *)
(***************************************************************************)
THEOREM InCallPromises ==
  ASSUME InCall!InCallAssumption, ~Hasty
  PROVE  InCall!Spec => []InCall!PromisesKept
  BY InCallInvariant, InCallProps, PTL DEF InCall!Spec

(***************************************************************************)
(* A client that reads from a stream it was told is started reads through  *)
(* a handle.                                                               *)
(***************************************************************************)
THEOREM InCallNeverReadsPast ==
  ASSUME InCall!InCallAssumption, ~Hasty
  PROVE  InCall!Spec => []InCall!NeverReadsPast
  BY InCallInvariant, InCallProps, PTL DEF InCall!Spec

------------------------------------------------------------------------------
(***************************************************************************)
(* The HIDL service in front of PAL. Several processes call it, events     *)
(* come back on the streams' threads, and a process may die with streams   *)
(* open.                                                                   *)
(***************************************************************************)
Hardware == INSTANCE HwBinder

HwObj == [live : BOOLEAN, died : BOOLEAN, list : SUBSET (Hardware!Fds \X Hardware!Fds)]
HwPal == [st : {"none", "open", "started"}, asked : Nat, devs : SUBSET Int,
          held : SUBSET (Hardware!Fds \X Hardware!Fds)]
HwTypes ==
  /\ alive \subseteq Clients
  /\ sess \in [Clients -> SUBSET Handles]
  /\ link \in [Clients -> Handles \cup {"none"}]
  /\ obj \in [Handles -> HwObj] /\ pal \in [Handles -> HwPal]
  /\ fds \in [Hardware!Fds -> Handles \cup {"none"}]
  /\ calls \subseteq [op : {"open", "close", "write"}, c : Clients, h : Handles,
                      fd : 0 .. MaxFds, in : 0 .. MaxFds]
  /\ ev \in [Handles -> [at : {"none", "asks", "asked"}, fd : 0 .. MaxFds, in : 0 .. MaxFds]]
  /\ death \in [c : Clients \cup {"none"}, todo : SUBSET Handles]

(***************************************************************************)
(* A stream whose process has died is cleared before its session is; until *)
(* then the session holds it. A call may be about a stream that no session *)
(* has yet, or any more.                                                   *)
(***************************************************************************)
Cleared(h)    == death.c # "none" /\ h \in sess[death.c] /\ h \notin death.todo
Held(h)       == Hardware!Active(h) /\ ~Cleared(h)
Called(h, o)  == \E k \in calls : k.h = h /\ k.op = o
Writes(h, n)  == \E k \in calls : k.op = "write" /\ k.h = h /\ k.fd = n

(***************************************************************************)
(* One call is about one stream of a process that lives. A write's copy    *)
(* has not been entered yet.                                               *)
(***************************************************************************)
CallInv ==
  /\ \A k \in calls : k.c \in alive
  /\ \A k, l \in calls : k.c = l.c \/ k.h = l.h => k = l
  /\ \A k \in calls : k.op # "write" => ~Hardware!Active(k.h)
  /\ \A k \in calls : k.op = "write" =>
       /\ k.h \in sess[k.c] /\ k.fd \in Hardware!Fds /\ k.in \in Hardware!Fds
       /\ fds[k.fd] = k.h /\ k.fd \notin Hardware!Dups(k.h)

(***************************************************************************)
(* A process that has sessions is linked to one of them; a stream is in    *)
(* one session; and while a notice is served no event is told.             *)
(***************************************************************************)
SessionInv ==
  /\ \A c \in Clients : (sess[c] = {} /\ link[c] = "none") \/ link[c] \in sess[c]
  /\ \A c, d \in Clients : \A h \in sess[c] : h \in sess[d] => c = d
  /\ death.c = "none" => death.todo = {}
  /\ death.c # "none" => /\ death.c \notin alive /\ death.todo \subseteq sess[death.c]
                         /\ \A h \in Handles : ev[h].at = "none"

(***************************************************************************)
(* Of a stream: its object lives while the session or the call that opens  *)
(* it does; PAL has it until a call closes it; the buffers PAL has and the *)
(* one an event is about are in its list, each with a copy of its own.     *)
(***************************************************************************)
HandleInv(h) ==
  /\ obj[h].live <=> Held(h) \/ Called(h, "open")
  /\ pal[h].st # "none" <=> Held(h) \/ Called(h, "open") \/ Called(h, "close")
  /\ ~Held(h) => obj[h].list = {}
  /\ pal[h].held \subseteq obj[h].list
  /\ \A p, q \in obj[h].list : p[2] = q[2] => p = q
  /\ \A p \in obj[h].list : fds[p[2]] = h
  /\ \A n \in Hardware!Fds : fds[n] = h => n \in Hardware!Dups(h) \/ Writes(h, n)
  /\ ev[h].at # "none" => Hardware!Active(h)
  /\ ev[h].at # "none" /\ ev[h].fd # 0 =>
       <<ev[h].in, ev[h].fd>> \in obj[h].list \ pal[h].held
  /\ pal[h].st # "none" => pal[h].devs = 0 .. (pal[h].asked - 1)

HwInv == HwTypes /\ CallInv /\ SessionInv /\ seen = {} /\ \A h \in Handles : HandleInv(h)

(***************************************************************************)
(* PAL's stream keeps its shape when its state and its buffers change.     *)
(***************************************************************************)
LEMMA PalTakes ==
  ASSUME NEW A, NEW B, NEW C, NEW D, NEW x \in [st : A, asked : B, devs : C, held : D],
         NEW t \in A, NEW L \in D
  PROVE  /\ [x EXCEPT !.st = t, !.held = L] \in [st : A, asked : B, devs : C, held : D]
         /\ [x EXCEPT !.held = L] \in [st : A, asked : B, devs : C, held : D]
  OBVIOUS

(***************************************************************************)
(* An object that has died is still an object.                             *)
(***************************************************************************)
LEMMA ObjTakes ==
  ASSUME NEW A, NEW B, NEW C, NEW x \in [live : A, died : B, list : C], NEW t \in B
  PROVE  [x EXCEPT !.died = t] \in [live : A, died : B, list : C]
  OBVIOUS

(***************************************************************************)
(* A stream that a step is not about keeps what holds of it.               *)
(***************************************************************************)
LEMMA OthersKept ==
  ASSUME NEW h \in Handles, HandleInv(h),
         obj'[h] = obj[h], pal'[h] = pal[h], ev'[h] = ev[h],
         Held(h)' <=> Held(h), Hardware!Active(h) => Hardware!Active(h)',
         Called(h, "open")' <=> Called(h, "open"), Called(h, "close")' <=> Called(h, "close"),
         \A n \in Hardware!Fds : fds'[n] = h <=> fds[n] = h,
         \A n \in Hardware!Fds : Writes(h, n) => Writes(h, n)',
         obj[h].list \subseteq Hardware!Fds \X Hardware!Fds
  PROVE  HandleInv(h)'
  BY DEF HandleInv, Hardware!Dups

(***************************************************************************)
(* It holds at first.                                                      *)
(***************************************************************************)
LEMMA HwStarts ==
  ASSUME Hardware!HwAssumption, ~Hasty, Hardware!Init
  PROVE  HwInv
<1>1. HwTypes
  BY DEF Hardware!HwAssumption, Hardware!Init, HwTypes, HwObj, HwPal, Hardware!NoObj,
     Hardware!NoPal, Hardware!NoEv, Hardware!NoDeath, Hardware!None, Hardware!Fds
<1>2. CallInv /\ SessionInv /\ seen = {}
  BY DEF Hardware!Init, CallInv, SessionInv, Hardware!NoEv, Hardware!NoDeath, Hardware!None
<1>3. ASSUME NEW h \in Handles PROVE HandleInv(h)
  BY DEF Hardware!HwAssumption, Hardware!Init, HandleInv, Held, Called, Cleared, Writes,
     Hardware!Active, Hardware!Dups, Hardware!NoObj, Hardware!NoPal, Hardware!NoEv, Hardware!NoDeath, Hardware!None
<1> QED
  BY <1>1, <1>2, <1>3 DEF HwInv

(***************************************************************************)
(* With two devices the server reads where the client wrote.               *)
(***************************************************************************)
LEMMA ReceivesAll ==
  ASSUME NEW n \in 1 .. 2
  PROVE  Hardware!Received(n) = 0 .. (n - 1)
<1>1. CASE n = 1
  BY <1>1 DEF Hardware!Received, Hardware!SentAt, Hardware!ReadAt, Hardware!Stride
<1>2. CASE n = 2
  <2>1. 0 .. (n - 1) = {0, 1}
    BY <1>2
  <2>2. /\ Hardware!SentAt(0) = 0 /\ Hardware!SentAt(1) = 2
        /\ Hardware!ReadAt(0) = 0 /\ Hardware!ReadAt(1) = 2
    BY DEF Hardware!SentAt, Hardware!ReadAt, Hardware!Stride
  <2> QED
    BY <2>1, <2>2 DEF Hardware!Received
<1> QED
  BY <1>1, <1>2

(***************************************************************************)
(* The copies a stream's list names are the stream's.                      *)
(***************************************************************************)
LEMMA CopiesAre ==
  ASSUME NEW h \in Handles, HandleInv(h), NEW n \in Hardware!Dups(h)
  PROVE  fds[n] = h
<1>1. PICK p \in obj[h].list : n = p[2]
  BY DEF Hardware!Dups
<1> QED
  BY <1>1 DEF HandleInv

(***************************************************************************)
(* A call opens a stream: PAL has it, and so has the call, but no session. *)
(***************************************************************************)
LEMMA HwOpens ==
  ASSUME Hardware!HwAssumption, ~Hasty, MaxDevices <= 2, HwInv,
         NEW c \in Clients, NEW h \in Handles, Hardware!ipc_pal_stream_open(c, h)
  PROVE  HwInv'
<1> DEFINE k == Hardware!Call("open", c, h, 0, 0)
<1> USE DEF Hardware!None
<1>0. HwTypes /\ CallInv /\ SessionInv /\ seen = {} /\ \A g \in Handles : HandleInv(g)
  BY DEF HwInv
<1>a. k.c = c /\ k.h = h /\ k.op = "open"
  BY DEF Hardware!Call
<1>b. c \in alive /\ death.c = "none" /\ \A l \in calls : l.c # c
  BY DEF Hardware!ipc_pal_stream_open, Hardware!Calls, Hardware!Busy, Hardware!Unlocked
<1>c. \A l \in calls : l.h # h
  BY DEF Hardware!ipc_pal_stream_open
<1>d. pal[h].st = "none" /\ ev[h].at = "none" /\ ~obj[h].live
  BY DEF Hardware!ipc_pal_stream_open
<1>e. calls' = calls \cup {k}
  BY DEF Hardware!ipc_pal_stream_open
<1>f. obj' = [obj EXCEPT ![h] = [Hardware!NoObj EXCEPT !.live = TRUE]]
  BY DEF Hardware!ipc_pal_stream_open
<1>h. LET new == [Hardware!NoObj EXCEPT !.live = TRUE]
      IN new.live /\ new.list = {} /\ new \in HwObj
  BY DEF Hardware!NoObj, HwObj
<1>g. PICK n \in 1 .. MaxDevices : pal' = [pal EXCEPT ![h] =
         [st |-> "open", asked |-> n, devs |-> Hardware!Received(n), held |-> {}]]
  BY DEF Hardware!ipc_pal_stream_open, Hardware!NoPal
<1>u. UNCHANGED <<alive, sess, link, fds, ev, death, seen>>
  BY DEF Hardware!ipc_pal_stream_open
<1>3. n \in Nat /\ Hardware!Received(n) = 0 .. (n - 1)
  <2>1. n \in 1 .. 2
    BY DEF Hardware!HwAssumption
  <2>2. Hardware!Received(n) = 0 .. (n - 1)
    BY <2>1, ReceivesAll
  <2> QED
    BY <2>1, <2>2
<1>4. ~Hardware!Active(h)
  <2>1. ~Held(h)
    BY <1>0, <1>d DEF HandleInv
  <2> QED
    BY <1>b, <2>1 DEF Held, Cleared
<1>5. HwTypes'
  <2>1. k \in [op : {"open", "close", "write"}, c : Clients, h : Handles,
                      fd : 0 .. MaxFds, in : 0 .. MaxFds]
    BY DEF Hardware!Call, Hardware!HwAssumption
  <2>2. obj' \in [Handles -> HwObj]
    BY <1>0, <1>f, <1>h DEF HwTypes, HwObj, HwPal
  <2>3. pal' \in [Handles -> HwPal]
    BY <1>0, <1>g, <1>3 DEF HwTypes, HwObj, HwPal
  <2> HIDE DEF k
  <2> QED
    BY <1>0, <1>e, <1>u, <2>1, <2>2, <2>3 DEF HwTypes, HwObj, HwPal
<1>6. CallInv'
  <2>1. Hardware!Active(h)' <=> Hardware!Active(h)
    BY <1>u DEF Hardware!Active
  <2>2. ASSUME NEW l \in calls
        PROVE  l.h # h /\ Hardware!Dups(l.h)' = Hardware!Dups(l.h)
               /\ Hardware!Active(l.h)' = Hardware!Active(l.h)
    BY <1>0, <1>c, <1>f, <1>u DEF Hardware!Dups, HwTypes, HwObj, HwPal, Hardware!Active
  <2> HIDE DEF k
  <2> QED
    BY <1>0, <1>a, <1>b, <1>c, <1>e, <1>u, <1>4, <2>1, <2>2 DEF CallInv
<1>7. SessionInv' /\ seen' = {}
  BY <1>0, <1>b, <1>u DEF SessionInv
<1>8. ASSUME NEW g \in Handles PROVE HandleInv(g)'
  <2>1. CASE g = h
    <3>1. obj'[h].live /\ obj'[h].list = {}
      BY <1>0, <1>f, <1>h DEF HwTypes, HwObj, HwPal
    <3>2. pal'[h] = [st |-> "open", asked |-> n, devs |-> Hardware!Received(n), held |-> {}]
      BY <1>0, <1>g DEF HwTypes, HwObj, HwPal
    <3>3. Called(h, "open")'
      BY <1>a, <1>e DEF Called
    <3>4. \A m \in Hardware!Fds : fds[m] # h
      <4>1. obj[h].list = {}
        BY <1>0, <1>4 DEF HandleInv, Held
      <4>2. Hardware!Dups(h) = {}
        BY <4>1 DEF Hardware!Dups
      <4>3. \A m \in Hardware!Fds : ~Writes(h, m)
        BY <1>c DEF Writes
      <4> QED
        BY <1>0, <4>2, <4>3 DEF HandleInv
    <3> QED
      BY <1>d, <1>u, <1>3, <2>1, <3>1, <3>2, <3>3, <3>4 DEF HandleInv
  <2>2. CASE g # h
    <3>1. Held(g)' = Held(g) /\ Hardware!Active(g)' = Hardware!Active(g)
      BY <1>u DEF Held, Cleared, Hardware!Active
    <3>2. \A o : Called(g, o)' <=> Called(g, o)
      BY <1>a, <1>e, <2>2 DEF Called
    <3>3. \A m \in Hardware!Fds : Writes(g, m) => Writes(g, m)'
      BY <1>e DEF Writes
    <3>4. HandleInv(g) /\ obj[g].list \subseteq Hardware!Fds \X Hardware!Fds
      BY <1>0 DEF HwTypes, HwObj, HwPal
    <3>5. obj'[g] = obj[g] /\ pal'[g] = pal[g]
      BY <1>0, <1>f, <1>g, <2>2 DEF HwTypes, HwObj, HwPal
    <3> QED
      BY <1>u, <3>1, <3>2, <3>3, <3>4, <3>5, OthersKept
  <2> QED
    BY <2>1, <2>2
<1> QED
  BY <1>5, <1>6, <1>7, <1>8 DEF HwInv

(***************************************************************************)
(* The call that opened the stream enters it into the session of its       *)
(* process.                                                                *)
(***************************************************************************)
LEMMA HwRegisters ==
  ASSUME Hardware!HwAssumption, ~Hasty, HwInv, NEW k \in calls, Hardware!OpenRegisters(k)
  PROVE  HwInv'
<1> USE DEF Hardware!None
<1>0. HwTypes /\ CallInv /\ SessionInv /\ seen = {} /\ \A g \in Handles : HandleInv(g)
  BY DEF HwInv
<1>a. k.op = "open" /\ death.c = "none" /\ k.c \in Clients /\ k.h \in Handles /\ k.c \in alive
  BY <1>0 DEF Hardware!OpenRegisters, Hardware!Unlocked, HwTypes, HwObj, HwPal, CallInv
<1>b. sess' = [sess EXCEPT ![k.c] = @ \cup {k.h}]
  BY DEF Hardware!OpenRegisters
<1>c. link' = [link EXCEPT ![k.c] = IF sess[k.c] = {} THEN k.h ELSE link[k.c]]
  BY <1>a DEF Hardware!OpenRegisters, Hardware!KeepsLink
<1>d. calls' = calls \ {k}
  BY DEF Hardware!OpenRegisters
<1>u. UNCHANGED <<alive, obj, pal, fds, ev, death, seen>>
  BY DEF Hardware!OpenRegisters
<1>1. ~Hardware!Active(k.h) /\ Hardware!Active(k.h)'
  BY <1>0, <1>a, <1>b DEF CallInv, Hardware!Active, HwTypes, HwObj, HwPal
<1>2. ASSUME NEW h \in Handles, h # k.h PROVE Hardware!Active(h)' <=> Hardware!Active(h)
  BY <1>0, <1>a, <1>b, <1>2 DEF Hardware!Active, HwTypes, HwObj, HwPal
<1>3. \A l \in calls' : l.c # k.c /\ l.h # k.h /\ l \in calls
  BY <1>0, <1>d DEF CallInv
<1>5. HwTypes'
  BY <1>0, <1>a, <1>b, <1>c, <1>d, <1>u DEF HwTypes, HwObj, HwPal
<1>6. CallInv'
  <2>1. ASSUME NEW l \in calls'
        PROVE  Hardware!Dups(l.h)' = Hardware!Dups(l.h) /\ l.h \in Handles /\ l.c \in Clients
               /\ (Hardware!Active(l.h)' <=> Hardware!Active(l.h)) /\ sess'[l.c] = sess[l.c]
    BY <1>0, <1>b, <1>u, <1>2, <1>3 DEF Hardware!Dups, HwTypes, HwObj, HwPal
  <2> QED
    BY <1>0, <1>u, <1>3, <2>1 DEF CallInv
<1>7. SessionInv' /\ seen' = {}
  <2>1. \A c \in Clients : (sess'[c] = {} /\ link'[c] = "none") \/ link'[c] \in sess'[c]
    BY <1>0, <1>a, <1>b, <1>c DEF SessionInv, HwTypes, HwObj, HwPal
  <2>2. \A c, d \in Clients : \A h \in sess'[c] : h \in sess'[d] => c = d
    BY <1>0, <1>a, <1>b, <1>1 DEF SessionInv, HwTypes, HwObj, HwPal, Hardware!Active
  <2> QED
    BY <1>0, <1>a, <1>u, <2>1, <2>2 DEF SessionInv
<1>8. ASSUME NEW g \in Handles PROVE HandleInv(g)'
  <2>1. CASE g = k.h
    <3>1. ~Held(g) /\ Held(g)'
      BY <1>a, <1>u, <1>1, <2>1 DEF Held, Cleared
    <3>2. Called(g, "open") /\ ~Called(g, "open")' /\ ~Called(g, "close")'
      BY <1>a, <1>3, <2>1 DEF Called
    <3>3. obj'[g] = obj[g] /\ pal'[g] = pal[g] /\ ev'[g] = ev[g]
      BY <1>u
    <3>4. \A n \in Hardware!Fds : ~Writes(g, n)
      BY <1>0, <1>a, <2>1 DEF Writes, CallInv
    <3>5. Hardware!Dups(g)' = Hardware!Dups(g)
      BY <1>u DEF Hardware!Dups
    <3> QED
      BY <1>0, <1>u, <1>1, <2>1, <3>1, <3>2, <3>3, <3>4, <3>5 DEF HandleInv
  <2>2. CASE g # k.h
    <3>1. (Held(g)' <=> Held(g)) /\ (Hardware!Active(g)' <=> Hardware!Active(g))
      BY <1>a, <1>u, <1>2, <2>2 DEF Held, Cleared
    <3>2. \A o : Called(g, o)' <=> Called(g, o)
      BY <1>d, <2>2 DEF Called
    <3>3. \A m \in Hardware!Fds : Writes(g, m) => Writes(g, m)'
      BY <1>d, <2>2 DEF Writes
    <3>4. HandleInv(g) /\ obj[g].list \subseteq Hardware!Fds \X Hardware!Fds
      BY <1>0 DEF HwTypes, HwObj, HwPal
    <3> QED
      BY <1>u, <3>1, <3>2, <3>3, <3>4, OthersKept
  <2> QED
    BY <2>1, <2>2
<1> QED
  BY <1>5, <1>6, <1>7, <1>8 DEF HwInv

(***************************************************************************)
(* A close takes the stream out of its session and closes its descriptors. *)
(***************************************************************************)
LEMMA HwCloses ==
  ASSUME Hardware!HwAssumption, ~Hasty, HwInv,
         NEW c \in Clients, NEW h \in Handles, Hardware!ipc_pal_stream_close(c, h)
  PROVE  HwInv'
<1> DEFINE k == Hardware!Call("close", c, h, 0, 0)
<1> USE DEF Hardware!None
<1>0. HwTypes /\ CallInv /\ SessionInv /\ seen = {} /\ \A g \in Handles : HandleInv(g)
  BY DEF HwInv
<1>a. k.c = c /\ k.h = h /\ k.op = "close"
  BY DEF Hardware!Call
<1>b. c \in alive /\ death.c = "none" /\ \A l \in calls : l.c # c
  BY DEF Hardware!ipc_pal_stream_close, Hardware!Calls, Hardware!Busy, Hardware!Unlocked
<1>c. h \in sess[c] /\ Hardware!Active(h)
  BY DEF Hardware!ipc_pal_stream_close, Hardware!isValidstreamHandle, Hardware!Active
<1>d. pal[h].held = {} /\ ev[h].at = "none" /\ (link[c] = h => sess[c] = {h})
  BY DEF Hardware!ipc_pal_stream_close
<1>e. calls' = calls \cup {k}
  BY DEF Hardware!ipc_pal_stream_close
<1>f. obj' = [obj EXCEPT ![h] = [live |-> FALSE, died |-> FALSE, list |-> {}]]
  BY DEF Hardware!ipc_pal_stream_close, Hardware!NoObj
<1>g. sess' = [sess EXCEPT ![c] = @ \ {h}]
  BY DEF Hardware!ipc_pal_stream_close
<1>h. link' = [link EXCEPT ![c] = IF @ = h THEN "none" ELSE @]
  BY DEF Hardware!ipc_pal_stream_close
<1>i. fds' = [n \in Hardware!Fds |-> IF n \in Hardware!Dups(h) THEN "none" ELSE fds[n]]
  BY DEF Hardware!ipc_pal_stream_close, Hardware!CloseFds, Hardware!Closed
<1>u. UNCHANGED <<alive, pal, ev, death, seen>>
  BY DEF Hardware!ipc_pal_stream_close
<1>1. \A d \in Clients : h \in sess[d] => d = c
  BY <1>0, <1>c DEF SessionInv
<1>2. ~Hardware!Active(h)'
  BY <1>0, <1>g, <1>1 DEF Hardware!Active, HwTypes, HwObj, HwPal
<1>3. ASSUME NEW g \in Handles, g # h PROVE Hardware!Active(g)' <=> Hardware!Active(g)
  BY <1>0, <1>g, <1>3 DEF Hardware!Active, HwTypes, HwObj, HwPal
<1>4. \A l \in calls : l.h # h
  <2> SUFFICES ASSUME NEW l \in calls, l.h = h PROVE FALSE
    OBVIOUS
  <2>1. l.op = "write" /\ l.c \in Clients
    BY <1>0, <1>c DEF CallInv, HwTypes, HwObj, HwPal
  <2>2. h \in sess[l.c]
    BY <1>0, <2>1 DEF CallInv
  <2> QED
    BY <1>1, <1>b, <2>1, <2>2
<1>s. ASSUME NEW g \in Handles, g # h, NEW n \in Hardware!Fds
      PROVE  (fds[n] = g => fds'[n] = g) /\ (fds'[n] = g => fds[n] = g)
  <2>1. n \in Hardware!Dups(h) => fds[n] = h
    BY CopiesAre, <1>0
  <2> QED
    BY <1>i, <1>s, <2>1 DEF Hardware!HwAssumption
<1>5. HwTypes'
  <2>1. k \in [op : {"open", "close", "write"}, c : Clients, h : Handles,
                      fd : 0 .. MaxFds, in : 0 .. MaxFds]
    BY DEF Hardware!Call, Hardware!HwAssumption
  <2>2. fds' \in [Hardware!Fds -> Handles \cup {"none"}]
    BY <1>0, <1>i DEF HwTypes, HwObj, HwPal
  <2> HIDE DEF k
  <2> QED
    BY <1>0, <1>e, <1>f, <1>g, <1>h, <1>u, <2>1, <2>2 DEF HwTypes, HwObj, HwPal
<1>6. CallInv'
  <2>1. ASSUME NEW l \in calls
        PROVE  l.h # h /\ Hardware!Dups(l.h)' = Hardware!Dups(l.h) /\ l.h \in Handles /\ l.c \in Clients
               /\ (Hardware!Active(l.h)' <=> Hardware!Active(l.h)) /\ sess'[l.c] = sess[l.c]
    BY <1>0, <1>b, <1>f, <1>g, <1>3, <1>4 DEF Hardware!Dups, HwTypes, HwObj, HwPal
  <2> HIDE DEF k
  <2>2. ASSUME NEW l \in calls, l.op = "write" PROVE fds'[l.fd] = l.h
    BY <1>0, <1>s, <2>1, <2>2 DEF CallInv
  <2> QED
    BY <1>0, <1>a, <1>b, <1>e, <1>u, <1>2, <2>1, <2>2 DEF CallInv
<1>7. SessionInv' /\ seen' = {}
  <2>1. \A d \in Clients : (sess'[d] = {} /\ link'[d] = "none") \/ link'[d] \in sess'[d]
    BY <1>0, <1>c, <1>d, <1>g, <1>h DEF SessionInv, HwTypes, HwObj, HwPal
  <2>2. \A d, f \in Clients : \A g \in sess'[d] : g \in sess'[f] => d = f
    BY <1>0, <1>g DEF SessionInv, HwTypes, HwObj, HwPal
  <2> QED
    BY <1>0, <1>b, <1>u, <2>1, <2>2 DEF SessionInv
<1>8. ASSUME NEW g \in Handles PROVE HandleInv(g)'
  <2>1. CASE g = h
    <3>1. ~Held(g)'
      BY <1>2, <2>1 DEF Held
    <3>2. ~Called(g, "open")' /\ Called(g, "close")'
      BY <1>a, <1>e, <1>4, <2>1 DEF Called
    <3>3. obj'[g].live = FALSE /\ obj'[g].list = {}
      BY <1>0, <1>f, <2>1 DEF HwTypes, HwObj, HwPal
    <3>4. \A n \in Hardware!Fds : fds'[n] # g
      <4>1. \A n \in Hardware!Fds : ~Writes(g, n)
        BY <1>4, <2>1 DEF Writes
      <4>2. \A n \in Hardware!Fds : fds[n] = g => n \in Hardware!Dups(g)
        BY <1>0, <4>1 DEF HandleInv
      <4> QED
        BY <1>i, <2>1, <4>2 DEF Hardware!HwAssumption
    <3>5. pal[g].st # "none"
      BY <1>0, <1>b, <1>c, <2>1 DEF HandleInv, Held, Cleared
    <3> QED
      BY <1>0, <1>d, <1>u, <2>1, <3>1, <3>2, <3>3, <3>4, <3>5 DEF HandleInv
  <2>2. CASE g # h
    <3>1. (Held(g)' <=> Held(g)) /\ (Hardware!Active(g)' <=> Hardware!Active(g))
      BY <1>b, <1>u, <1>3, <2>2 DEF Held, Cleared
    <3>2. \A o : Called(g, o)' <=> Called(g, o)
      BY <1>a, <1>e, <2>2 DEF Called
    <3>3. \A m \in Hardware!Fds : Writes(g, m) => Writes(g, m)'
      BY <1>e DEF Writes
    <3>4. HandleInv(g) /\ obj[g].list \subseteq Hardware!Fds \X Hardware!Fds
      BY <1>0 DEF HwTypes, HwObj, HwPal
    <3>5. obj'[g] = obj[g]
      BY <1>0, <1>f, <2>2 DEF HwTypes, HwObj, HwPal
    <3>6. \A n \in Hardware!Fds : fds'[n] = g <=> fds[n] = g
      BY <1>s, <2>2
    <3> QED
      BY <1>u, <3>1, <3>2, <3>3, <3>4, <3>5, <3>6, OthersKept
  <2> QED
    BY <2>1, <2>2
<1> QED
  BY <1>5, <1>6, <1>7, <1>8 DEF HwInv

(***************************************************************************)
(* The stream of a call that closes it is closed by PAL last.              *)
(***************************************************************************)
LEMMA HwPalCloses ==
  ASSUME Hardware!HwAssumption, ~Hasty, HwInv, NEW k \in calls, Hardware!PalCloses(k)
  PROVE  HwInv'
<1> USE DEF Hardware!None
<1>0. HwTypes /\ CallInv /\ SessionInv /\ seen = {} /\ \A g \in Handles : HandleInv(g)
  BY DEF HwInv
<1>a. k.op = "close" /\ k.c \in Clients /\ k.h \in Handles
  BY <1>0 DEF Hardware!PalCloses, HwTypes, HwObj, HwPal
<1>b. pal' = [pal EXCEPT ![k.h] = [st |-> "none", asked |-> 0, devs |-> {}, held |-> {}]]
  BY DEF Hardware!PalCloses, Hardware!NoPal
<1>d. calls' = calls \ {k}
  BY DEF Hardware!PalCloses
<1>u. UNCHANGED <<alive, sess, link, obj, fds, ev, death, seen>>
  BY DEF Hardware!PalCloses
<1>1. \A l \in calls' : l.c # k.c /\ l.h # k.h /\ l \in calls
  BY <1>0, <1>d DEF CallInv
<1>2. ASSUME NEW h \in Handles
      PROVE /\ Hardware!Active(h)' <=> Hardware!Active(h)
            /\ Held(h)' <=> Held(h)
            /\ Hardware!Dups(h)' = Hardware!Dups(h)
  BY <1>u DEF Hardware!Active, Held, Cleared, Hardware!Dups
<1>5. HwTypes'
  BY <1>0, <1>a, <1>b, <1>d, <1>u DEF HwTypes, HwObj, HwPal
<1>6. CallInv'
  <2>1. ASSUME NEW l \in calls' PROVE l.h \in Handles
    BY <1>0, <1>1 DEF HwTypes, HwObj, HwPal
  <2> QED
    BY <1>0, <1>u, <1>1, <1>2, <2>1 DEF CallInv
<1>7. SessionInv' /\ seen' = {}
  BY <1>0, <1>u DEF SessionInv
<1>8. ASSUME NEW g \in Handles PROVE HandleInv(g)'
  <2>1. CASE g = k.h
    <3>1. ~Held(g) /\ ~Hardware!Active(g)
      BY <1>0, <1>a, <2>1 DEF CallInv, Held
    <3>2. ~Called(g, "open") /\ ~Called(g, "open")' /\ ~Called(g, "close")'
      BY <1>0, <1>a, <1>1, <2>1 DEF Called, CallInv
    <3>3. pal'[g].st = "none" /\ pal'[g].held = {}
      BY <1>0, <1>b, <2>1 DEF HwTypes, HwObj, HwPal
    <3>4. \A n \in Hardware!Fds : ~Writes(g, n)
      BY <1>0, <1>a, <2>1 DEF Writes, CallInv
    <3> QED
      BY <1>0, <1>u, <1>2, <3>1, <3>2, <3>3, <3>4 DEF HandleInv
  <2>2. CASE g # k.h
    <3>2. \A o : Called(g, o)' <=> Called(g, o)
      BY <1>d, <2>2 DEF Called
    <3>3. \A m \in Hardware!Fds : Writes(g, m) => Writes(g, m)'
      BY <1>d, <2>2 DEF Writes
    <3>4. HandleInv(g) /\ obj[g].list \subseteq Hardware!Fds \X Hardware!Fds
      BY <1>0 DEF HwTypes, HwObj, HwPal
    <3>5. pal'[g] = pal[g]
      BY <1>0, <1>b, <2>2 DEF HwTypes, HwObj, HwPal
    <3> QED
      BY <1>u, <1>2, <3>2, <3>3, <3>4, <3>5, OthersKept
  <2> QED
    BY <2>1, <2>2
<1> QED
  BY <1>5, <1>6, <1>7, <1>8 DEF HwInv

(***************************************************************************)
(* A write's descriptor is duplicated for its stream.                      *)
(***************************************************************************)
LEMMA HwWrites ==
  ASSUME Hardware!HwAssumption, ~Hasty, HwInv,
         NEW c \in Clients, NEW h \in Handles, Hardware!ipc_pal_stream_write(c, h)
  PROVE  HwInv'
<1> USE DEF Hardware!None
<1>0. HwTypes /\ CallInv /\ SessionInv /\ seen = {} /\ \A g \in Handles : HandleInv(g)
  BY DEF HwInv
<1>1. PICK n \in Hardware!Fds, i \in Hardware!Fds :
        /\ fds[n] = "none"
        /\ fds' = [fds EXCEPT ![n] = h]
        /\ calls' = calls \cup {Hardware!Call("write", c, h, n, i)}
  BY DEF Hardware!ipc_pal_stream_write
<1> DEFINE k == Hardware!Call("write", c, h, n, i)
<1>a. k.c = c /\ k.h = h /\ k.op = "write" /\ k.fd = n /\ k.in = i
  BY DEF Hardware!Call
<1>b. c \in alive /\ death.c = "none" /\ \A l \in calls : l.c # c
  BY DEF Hardware!ipc_pal_stream_write, Hardware!Calls, Hardware!Busy, Hardware!Unlocked
<1>c. h \in sess[c] /\ Hardware!Active(h)
  BY DEF Hardware!ipc_pal_stream_write, Hardware!isValidstreamHandle, Hardware!Active
<1>u. UNCHANGED <<alive, sess, link, obj, pal, ev, death, seen>>
  BY DEF Hardware!ipc_pal_stream_write
<1>2. \A d \in Clients : h \in sess[d] => d = c
  BY <1>0, <1>c DEF SessionInv
<1>3. \A g \in Handles : (Hardware!Active(g)' <=> Hardware!Active(g)) /\ (Held(g)' <=> Held(g))
                          /\ Hardware!Dups(g)' = Hardware!Dups(g)
  BY <1>u DEF Hardware!Active, Held, Cleared, Hardware!Dups
<1>4. \A l \in calls : l.h # h
  <2> SUFFICES ASSUME NEW l \in calls, l.h = h PROVE FALSE
    OBVIOUS
  <2>1. l.op = "write" /\ l.c \in Clients
    BY <1>0, <1>c DEF CallInv, HwTypes, HwObj, HwPal
  <2>2. h \in sess[l.c]
    BY <1>0, <2>1 DEF CallInv
  <2> QED
    BY <1>2, <1>b, <2>1, <2>2
<1>s. \A g \in Handles : n \notin Hardware!Dups(g)
  BY <1>0, <1>1, CopiesAre DEF Hardware!HwAssumption
<1>5. HwTypes'
  <2>1. k \in [op : {"open", "close", "write"}, c : Clients, h : Handles,
                      fd : 0 .. MaxFds, in : 0 .. MaxFds]
    BY DEF Hardware!Call, Hardware!HwAssumption, Hardware!Fds
  <2> HIDE DEF k
  <2>2. calls' \subseteq [op : {"open", "close", "write"}, c : Clients, h : Handles,
                      fd : 0 .. MaxFds, in : 0 .. MaxFds]
    BY <1>0, <1>1, <2>1 DEF HwTypes, HwObj, HwPal, k
  <2> QED
    BY <1>0, <1>1, <1>u, <2>2 DEF HwTypes, HwObj, HwPal
<1>6. CallInv'
  <2>1. ASSUME NEW l \in calls
        PROVE  l.h # h /\ l.h \in Handles /\ l.c \in Clients
    BY <1>0, <1>4 DEF HwTypes, HwObj, HwPal
  <2>2. ASSUME NEW l \in calls, l.op = "write" PROVE fds'[l.fd] = l.h
    <3>1. fds[l.fd] = l.h /\ l.fd # n
      BY <1>0, <1>1, <2>1, <2>2 DEF CallInv, Hardware!HwAssumption
    <3> QED
      BY <1>0, <1>1, <2>2, <3>1 DEF HwTypes, HwObj, HwPal, CallInv
  <2>3. fds'[n] = h /\ n \notin Hardware!Dups(h)
    BY <1>0, <1>1, <1>s DEF HwTypes, HwObj, HwPal
  <2>4. calls' = calls \cup {k}
    BY <1>1
  <2> HIDE DEF k
  <2> QED
    BY <1>0, <1>a, <1>b, <1>c, <1>u, <1>3, <2>1, <2>2, <2>3, <2>4 DEF CallInv
<1>7. SessionInv' /\ seen' = {}
  BY <1>0, <1>u DEF SessionInv
<1>8. ASSUME NEW g \in Handles PROVE HandleInv(g)'
  <2>0. calls' = calls \cup {k}
    BY <1>1
  <2> HIDE DEF k
  <2>1. \A o : o # "write" => (Called(g, o)' <=> Called(g, o))
    BY <1>a, <2>0 DEF Called
  <2>2. \A m \in Hardware!Fds : Writes(g, m) => Writes(g, m)'
    BY <2>0 DEF Writes
  <2>3. \A m \in Hardware!Fds : fds'[m] = g => fds[m] = g \/ (m = n /\ g = h)
    BY <1>0, <1>1 DEF HwTypes, HwObj, HwPal
  <2>4. Writes(h, n)'
    BY <1>a, <2>0 DEF Writes
  <2>5. \A p \in obj[g].list : fds'[p[2]] = g
    <3> SUFFICES ASSUME NEW p \in obj[g].list PROVE fds'[p[2]] = g
      OBVIOUS
    <3>1. fds[p[2]] = g
      BY <1>0 DEF HandleInv
    <3>2. p[2] \in Hardware!Fds
      BY <1>0 DEF HwTypes, HwObj
    <3> QED
      BY <1>0, <1>1, <3>1, <3>2 DEF HwTypes, Hardware!HwAssumption
  <2> QED
    BY <1>0, <1>u, <1>3, <2>1, <2>2, <2>3, <2>4, <2>5 DEF HandleInv
<1> QED
  BY <1>5, <1>6, <1>7, <1>8 DEF HwInv

(***************************************************************************)
(* The write's copy is entered into the list, and its buffer goes to PAL.  *)
(***************************************************************************)
LEMMA HwEnters ==
  ASSUME Hardware!HwAssumption, ~Hasty, HwInv, NEW k \in calls, Hardware!add_input_and_dup_fd(k)
  PROVE  HwInv'
<1> USE DEF Hardware!None
<1>0. HwTypes /\ CallInv /\ SessionInv /\ seen = {} /\ \A g \in Handles : HandleInv(g)
  BY DEF HwInv
<1> DEFINE p == <<k.in, k.fd>>
           h == k.h
<1>a. k.op = "write" /\ death.c = "none" /\ k.c \in Clients /\ h \in Handles
  BY <1>0 DEF Hardware!add_input_and_dup_fd, HwTypes, HwObj, HwPal, Hardware!Unlocked
<1>b. /\ h \in sess[k.c] /\ k.fd \in Hardware!Fds /\ k.in \in Hardware!Fds
      /\ fds[k.fd] = h /\ k.fd \notin Hardware!Dups(h)
  BY <1>0, <1>a DEF CallInv
<1>c. Hardware!Active(h)
  BY <1>a, <1>b DEF Hardware!Active
<1>d. calls' = calls \ {k}
  BY DEF Hardware!add_input_and_dup_fd
<1>e. obj' = [obj EXCEPT ![h].list = @ \cup {p}]
  BY <1>c DEF Hardware!add_input_and_dup_fd
<1>f. pal' = [pal EXCEPT ![h].held = IF pal[h].st = "started" THEN @ \cup {p} ELSE @]
  BY DEF Hardware!add_input_and_dup_fd
<1>u. UNCHANGED <<alive, sess, link, fds, ev, death, seen>>
  BY DEF Hardware!add_input_and_dup_fd
<1>1. \A l \in calls' : l.c # k.c /\ l.h # h /\ l \in calls
  BY <1>0, <1>d DEF CallInv
<1>2. \A g \in Handles : (Hardware!Active(g)' <=> Hardware!Active(g)) /\ (Held(g)' <=> Held(g))
  BY <1>u DEF Hardware!Active, Held, Cleared
<1>p. p \in Hardware!Fds \X Hardware!Fds /\ p[2] = k.fd
  BY <1>b
<1> HIDE DEF p, h
<1>3. /\ obj'[h].live = obj[h].live /\ obj'[h].list = obj[h].list \cup {p}
      /\ \A g \in Handles : g # h => obj'[g] = obj[g]
  BY <1>0, <1>a, <1>e DEF HwTypes, HwObj, HwPal
<1>4. /\ pal'[h].st = pal[h].st /\ pal'[h].devs = pal[h].devs /\ pal'[h].asked = pal[h].asked
      /\ pal'[h].held \subseteq pal[h].held \cup {p}
      /\ \A g \in Handles : g # h => pal'[g] = pal[g]
  BY <1>0, <1>a, <1>f DEF HwTypes, HwObj, HwPal
<1>5. HwTypes'
  <2>1. obj' \in [Handles -> HwObj]
    <3>1. [obj[h] EXCEPT !.list = obj[h].list \cup {p}] \in HwObj
      BY <1>0, <1>a, <1>p DEF HwTypes, HwObj
    <3> QED
      BY <1>0, <1>e, <3>1 DEF HwTypes
  <2>2. pal' \in [Handles -> HwPal]
    <3> DEFINE L == IF pal[h].st = "started" THEN pal[h].held \cup {p} ELSE pal[h].held
    <3>1. L \subseteq Hardware!Fds \X Hardware!Fds
      BY <1>0, <1>a, <1>p DEF HwTypes, HwPal
    <3>2. [pal[h] EXCEPT !.held = L] \in HwPal
      <4>1. pal[h] \in HwPal /\ L \in SUBSET (Hardware!Fds \X Hardware!Fds)
        BY <1>0, <1>a, <3>1 DEF HwTypes
      <4> HIDE DEF L
      <4> QED
        BY <4>1, PalTakes DEF HwPal
    <3>3. pal' = [pal EXCEPT ![h] = [pal[h] EXCEPT !.held = L]]
      BY <1>f
    <3> HIDE DEF L
    <3> QED
      BY <1>0, <3>2, <3>3 DEF HwTypes
  <2> QED
    BY <1>0, <1>d, <1>u, <2>1, <2>2 DEF HwTypes, HwObj, HwPal
<1>6. CallInv'
  <2>1. ASSUME NEW l \in calls'
        PROVE  l.h \in Handles /\ Hardware!Dups(l.h)' = Hardware!Dups(l.h)
    BY <1>0, <1>1, <1>3 DEF HwTypes, HwObj, HwPal, Hardware!Dups
  <2> QED
    BY <1>0, <1>u, <1>1, <1>2, <2>1 DEF CallInv
<1>7. SessionInv' /\ seen' = {}
  BY <1>0, <1>u DEF SessionInv
<1>8. ASSUME NEW g \in Handles PROVE HandleInv(g)'
  <2>1. CASE g = h
    <3>1. /\ (Called(g, "open")' <=> Called(g, "open")) /\ (Called(g, "close")' <=> Called(g, "close"))
      BY <1>a, <1>d DEF Called
    <3>2. \A n \in Hardware!Fds : Writes(g, n) => n = k.fd
      BY <1>0, <1>a, <2>1 DEF Writes, CallInv, h
    <3>3. k.fd \in Hardware!Dups(g)' /\ \A n \in Hardware!Dups(g) : n \in Hardware!Dups(g)'
      BY <1>3, <1>p, <2>1 DEF Hardware!Dups
    <3>4. \A q \in obj[g].list : q[2] # p[2] /\ fds[q[2]] = g
      <4>1. \A q \in obj[g].list : q[2] \in Hardware!Dups(g)
        BY DEF Hardware!Dups
      <4>2. \A q \in obj[g].list : q[2] # p[2]
        BY <1>b, <1>p, <2>1, <4>1
      <4>3. \A q \in obj[g].list : fds[q[2]] = g
        BY <1>0 DEF HandleInv
      <4> QED
        BY <4>2, <4>3
    <3>5. Held(g)
      BY <1>a, <1>c, <2>1 DEF Held, Cleared
    <3>6. ev[g].at # "none" /\ ev[g].fd # 0 => <<ev[g].in, ev[g].fd>> \in obj'[g].list \ pal'[g].held
      BY <1>0, <1>3, <1>4, <2>1, <3>4 DEF HandleInv
    <3>7. obj'[g].live <=> Held(g)' \/ Called(g, "open")'
      BY <1>0, <1>2, <1>3, <2>1, <3>1 DEF HandleInv
    <3>8. /\ pal'[g].st # "none" <=> Held(g)' \/ Called(g, "open")' \/ Called(g, "close")'
          /\ pal'[g].st # "none" => pal'[g].devs = 0 .. (pal'[g].asked - 1)
      BY <1>0, <1>2, <1>4, <2>1, <3>1 DEF HandleInv
    <3>9. \A n \in Hardware!Fds : fds[n] = g => n \in Hardware!Dups(g)'
      BY <1>0, <3>2, <3>3 DEF HandleInv
    <3>10. \A q, r \in obj'[g].list : q[2] = r[2] => q = r
      BY <1>0, <1>3, <2>1, <3>4 DEF HandleInv
    <3>11. /\ pal'[g].held \subseteq obj'[g].list
           /\ \A q \in obj'[g].list : fds[q[2]] = g
      BY <1>0, <1>3, <1>4, <1>b, <1>p, <2>1, <3>4 DEF HandleInv
    <3> QED
      BY <1>u, <1>2, <1>c, <2>1, <3>5, <3>6, <3>7, <3>8, <3>9, <3>10, <3>11 DEF HandleInv
  <2>2. CASE g # h
    <3>2. \A o : Called(g, o)' <=> Called(g, o)
      BY <1>d, <2>2 DEF Called, h
    <3>3. \A m \in Hardware!Fds : Writes(g, m) => Writes(g, m)'
      BY <1>d, <2>2 DEF Writes, h
    <3>4. HandleInv(g) /\ obj[g].list \subseteq Hardware!Fds \X Hardware!Fds
      BY <1>0 DEF HwTypes, HwObj, HwPal
    <3> QED
      BY <1>u, <1>2, <1>3, <1>4, <2>2, <3>2, <3>3, <3>4, OthersKept
  <2> QED
    BY <2>1, <2>2
<1> QED
  BY <1>5, <1>6, <1>7, <1>8 DEF HwInv

(***************************************************************************)
(* Any other call changes only what PAL does with the stream.              *)
(***************************************************************************)
LEMMA HwCommands ==
  ASSUME Hardware!HwAssumption, ~Hasty, HwInv,
         NEW c \in Clients, NEW h \in Handles, NEW o \in Hardware!Ops, Hardware!Command(c, h, o)
  PROVE  HwInv'
<1> USE DEF Hardware!None
<1>0. HwTypes /\ CallInv /\ SessionInv /\ seen = {} /\ \A g \in Handles : HandleInv(g)
  BY DEF HwInv
<1>a. o \in {"start", "stop", "mute", "time"}
  BY DEF Hardware!Ops, Hardware!Controls, Hardware!Settings, Hardware!Queries
<1>b. seen' = {}
  BY <1>0, <1>a DEF Hardware!Command, Hardware!Reaches, Hardware!Replies, Hardware!Elements
<1>c. pal[h].st # "none"
  BY DEF Hardware!Command
<1>d. pal' = [pal EXCEPT ![h].st = IF o = "start" THEN "started" ELSE IF o = "stop" THEN "open" ELSE @,
                         ![h].held = IF o = "stop" THEN {} ELSE @]
  BY DEF Hardware!Command
<1>u. UNCHANGED <<alive, sess, link, obj, fds, calls, ev, death>>
  BY DEF Hardware!Command
<1>1. /\ pal'[h].st # "none" /\ pal'[h].held \subseteq pal[h].held
      /\ pal'[h].devs = pal[h].devs /\ pal'[h].asked = pal[h].asked
      /\ \A g \in Handles : g # h => pal'[g] = pal[g]
  BY <1>0, <1>c, <1>d DEF HwTypes, HwObj, HwPal
<1>2. \A g \in Handles : (Hardware!Active(g)' <=> Hardware!Active(g)) /\ (Held(g)' <=> Held(g))
                          /\ Hardware!Dups(g)' = Hardware!Dups(g)
  BY <1>u DEF Hardware!Active, Held, Cleared, Hardware!Dups
<1>5. HwTypes'
  <2>1. pal' \in [Handles -> HwPal]
    <3> DEFINE t == IF o = "start" THEN "started" ELSE IF o = "stop" THEN "open" ELSE pal[h].st
               L == IF o = "stop" THEN {} ELSE pal[h].held
    <3>1. t \in {"none", "open", "started"} /\ L \subseteq Hardware!Fds \X Hardware!Fds
      BY <1>0 DEF HwTypes, HwPal
    <3>2. [pal[h] EXCEPT !.st = t, !.held = L] \in HwPal
      <4>1. pal[h] \in HwPal /\ L \in SUBSET (Hardware!Fds \X Hardware!Fds)
        BY <1>0, <3>1 DEF HwTypes
      <4> HIDE DEF t, L
      <4> QED
        BY <3>1, <4>1, PalTakes DEF HwPal
    <3>3. pal' = [pal EXCEPT ![h] = [pal[h] EXCEPT !.st = t, !.held = L]]
      BY <1>d
    <3> HIDE DEF t, L
    <3> QED
      BY <1>0, <3>2, <3>3 DEF HwTypes
  <2> QED
    BY <1>0, <1>u, <2>1 DEF HwTypes, HwObj, HwPal
<1>6. CallInv'
  <2>1. ASSUME NEW l \in calls' PROVE l.h \in Handles /\ l \in calls
    BY <1>0, <1>u DEF HwTypes, HwObj, HwPal
  <2> QED
    BY <1>0, <1>u, <1>2, <2>1 DEF CallInv
<1>7. SessionInv'
  BY <1>0, <1>u DEF SessionInv
<1>8. ASSUME NEW g \in Handles PROVE HandleInv(g)'
  <2>1. /\ \A m : Called(g, m)' <=> Called(g, m)
        /\ \A m : Writes(g, m)' <=> Writes(g, m)
    BY <1>u DEF Called, Writes
  <2> QED
    BY <1>0, <1>u, <1>c, <1>1, <1>2, <2>1 DEF HandleInv
<1> QED
  BY <1>5, <1>6, <1>7, <1>8, <1>b DEF HwInv

(***************************************************************************)
(* PAL lets go of a buffer and tells of it.                                *)
(***************************************************************************)
LEMMA HwEvents ==
  ASSUME Hardware!HwAssumption, ~Hasty, HwInv, NEW h \in Handles, Hardware!Event(h)
  PROVE  HwInv'
<1> USE DEF Hardware!None
<1>0. HwTypes /\ CallInv /\ SessionInv /\ seen = {} /\ \A g \in Handles : HandleInv(g)
  BY DEF HwInv
<1>a. Hardware!Active(h) /\ death.c = "none" /\ pal[h].st = "started"
  BY DEF Hardware!Event, Hardware!Unlocked
<1>1. PICK p \in pal[h].held \cup {<<0, 0>>} :
        /\ ev' = [ev EXCEPT ![h] = [at |-> "asks", fd |-> p[2], in |-> p[1]]]
        /\ pal' = [pal EXCEPT ![h].held = @ \ {p}]
  BY DEF Hardware!Event
<1>u. UNCHANGED <<alive, sess, link, obj, fds, calls, death, seen>>
  BY DEF Hardware!Event
<1>p. /\ p[1] \in 0 .. MaxFds /\ p[2] \in 0 .. MaxFds /\ p = <<p[1], p[2]>>
      /\ p[2] # 0 => p \in pal[h].held
  <2>1. CASE p = <<0, 0>>
    BY <2>1 DEF Hardware!HwAssumption
  <2>2. CASE p \in pal[h].held
    <3>1. p \in Hardware!Fds \X Hardware!Fds
      BY <1>0, <2>2 DEF HwTypes, HwPal
    <3> QED
      BY <2>2, <3>1 DEF Hardware!Fds, Hardware!HwAssumption
  <2> QED
    BY <2>1, <2>2
<1>3. ev'[h].at = "asks" /\ ev'[h].fd = p[2] /\ ev'[h].in = p[1]
      /\ \A g \in Handles : g # h => ev'[g] = ev[g]
  BY <1>0, <1>1 DEF HwTypes
<1>4. /\ pal'[h].st = pal[h].st /\ pal'[h].devs = pal[h].devs /\ pal'[h].asked = pal[h].asked
      /\ pal'[h].held = pal[h].held \ {p}
      /\ \A g \in Handles : g # h => pal'[g] = pal[g]
  BY <1>0, <1>1 DEF HwTypes, HwPal
<1>2. \A g \in Handles : (Hardware!Active(g)' <=> Hardware!Active(g)) /\ (Held(g)' <=> Held(g))
                          /\ Hardware!Dups(g)' = Hardware!Dups(g)
  BY <1>u DEF Hardware!Active, Held, Cleared, Hardware!Dups
<1>5. HwTypes'
  <2>1. pal' \in [Handles -> HwPal]
    <3>1. pal[h] \in HwPal /\ pal[h].held \ {p} \in SUBSET (Hardware!Fds \X Hardware!Fds)
      BY <1>0 DEF HwTypes, HwPal
    <3>2. [pal[h] EXCEPT !.held = pal[h].held \ {p}] \in HwPal
      BY <3>1, PalTakes DEF HwPal
    <3> QED
      BY <1>0, <1>1, <3>2 DEF HwTypes
  <2>2. ev' \in [Handles -> [at : {"none", "asks", "asked"}, fd : 0 .. MaxFds, in : 0 .. MaxFds]]
    BY <1>0, <1>1, <1>p DEF HwTypes
  <2> QED
    BY <1>0, <1>u, <2>1, <2>2 DEF HwTypes
<1>6. CallInv'
  <2>1. ASSUME NEW l \in calls' PROVE l.h \in Handles /\ l \in calls
    BY <1>0, <1>u DEF HwTypes
  <2> QED
    BY <1>0, <1>u, <1>2, <2>1 DEF CallInv
<1>7. SessionInv' /\ seen' = {}
  BY <1>0, <1>a, <1>u DEF SessionInv
<1>8. ASSUME NEW g \in Handles PROVE HandleInv(g)'
  <2>1. (\A o : Called(g, o)' <=> Called(g, o)) /\ \A m : Writes(g, m)' <=> Writes(g, m)
    BY <1>u DEF Called, Writes
  <2>2. CASE g = h
    <3>1. p[2] # 0 => p \in obj[h].list
      BY <1>0, <1>p DEF HandleInv
    <3>2. ev'[g].fd # 0 => <<ev'[g].in, ev'[g].fd>> \in obj'[g].list \ pal'[g].held
      BY <1>u, <1>3, <1>4, <1>p, <2>2, <3>1
    <3>3. obj'[g] = obj[g] /\ Hardware!Active(g)' /\ Hardware!Dups(g)' = Hardware!Dups(g)
          /\ (Held(g)' <=> Held(g)) /\ pal'[g].held \subseteq pal[g].held
          /\ pal'[g].st = pal[g].st /\ pal'[g].devs = pal[g].devs /\ pal'[g].asked = pal[g].asked
      BY <1>u, <1>a, <1>2, <1>4, <2>2
    <3>4. HandleInv(g) /\ fds' = fds
      BY <1>0, <1>u
    <3>5. pal'[g].held \subseteq obj'[g].list
      BY <3>3, <3>4 DEF HandleInv
    <3>6. \A n \in Hardware!Fds : fds'[n] = g => n \in Hardware!Dups(g)' \/ Writes(g, n)'
      BY <2>1, <3>3, <3>4 DEF HandleInv
    <3>7. /\ obj'[g].live <=> Held(g)' \/ Called(g, "open")'
          /\ pal'[g].st # "none" <=> Held(g)' \/ Called(g, "open")' \/ Called(g, "close")'
          /\ ~Held(g)' => obj'[g].list = {}
          /\ pal'[g].st # "none" => pal'[g].devs = 0 .. (pal'[g].asked - 1)
      BY <2>1, <3>3, <3>4 DEF HandleInv
    <3>8. /\ \A q, r \in obj'[g].list : q[2] = r[2] => q = r
          /\ \A q \in obj'[g].list : fds'[q[2]] = g
      BY <3>3, <3>4 DEF HandleInv
    <3> QED
      BY <3>2, <3>3, <3>5, <3>6, <3>7, <3>8 DEF HandleInv
  <2>3. CASE g # h
    BY <1>0, <1>u, <1>2, <1>3, <1>4, <2>1, <2>3 DEF HandleInv
  <2> QED
    BY <2>2, <2>3
<1> QED
  BY <1>5, <1>6, <1>7, <1>8 DEF HwInv

(***************************************************************************)
(* The stream's thread asks whether the session is still there.            *)
(***************************************************************************)
LEMMA HwAsks ==
  ASSUME Hardware!HwAssumption, ~Hasty, HwInv, NEW h \in Handles, Hardware!isPalSessionActive(h)
  PROVE  HwInv'
<1> USE DEF Hardware!None
<1>0. HwTypes /\ CallInv /\ SessionInv /\ seen = {} /\ \A g \in Handles : HandleInv(g)
  BY DEF HwInv
<1>a. Hardware!Active(h) /\ death.c = "none" /\ ev[h].at = "asks"
  BY <1>0 DEF Hardware!isPalSessionActive, HandleInv, Hardware!Unlocked
<1>b. ev' = [ev EXCEPT ![h].at = "asked"] /\ seen' = {}
  BY <1>0, <1>a DEF Hardware!isPalSessionActive
<1>u. UNCHANGED <<alive, sess, link, obj, pal, fds, calls, death>>
  BY DEF Hardware!isPalSessionActive
<1>3. ev'[h].at = "asked" /\ ev'[h].fd = ev[h].fd /\ ev'[h].in = ev[h].in
      /\ \A g \in Handles : g # h => ev'[g] = ev[g]
  BY <1>0, <1>b DEF HwTypes
<1>2. \A g \in Handles : (Hardware!Active(g)' <=> Hardware!Active(g)) /\ (Held(g)' <=> Held(g))
                          /\ Hardware!Dups(g)' = Hardware!Dups(g)
  BY <1>u DEF Hardware!Active, Held, Cleared, Hardware!Dups
<1>5. HwTypes'
  <2>2. ev' \in [Handles -> [at : {"none", "asks", "asked"}, fd : 0 .. MaxFds, in : 0 .. MaxFds]]
    BY <1>0, <1>b DEF HwTypes
  <2> QED
    BY <1>0, <1>u, <2>2 DEF HwTypes
<1>6. CallInv'
  <2>1. ASSUME NEW l \in calls' PROVE l.h \in Handles /\ l \in calls
    BY <1>0, <1>u DEF HwTypes
  <2> QED
    BY <1>0, <1>u, <1>2, <2>1 DEF CallInv
<1>7. SessionInv'
  BY <1>0, <1>a, <1>u DEF SessionInv
<1>8. ASSUME NEW g \in Handles PROVE HandleInv(g)'
  <2>1. (\A o : Called(g, o)' <=> Called(g, o)) /\ \A m : Writes(g, m)' <=> Writes(g, m)
    BY <1>u DEF Called, Writes
  <2> QED
    BY <1>0, <1>a, <1>u, <1>2, <1>3, <2>1 DEF HandleInv
<1> QED
  BY <1>5, <1>6, <1>7, <1>8, <1>b DEF HwInv

(***************************************************************************)
(* The client is told of its buffer, and the buffer's copy is closed.      *)
(***************************************************************************)
LEMMA HwTold ==
  ASSUME Hardware!HwAssumption, ~Hasty, HwInv, NEW h \in Handles, Hardware!pal_callback(h)
  PROVE  HwInv'
<1> USE DEF Hardware!None
<1>0. HwTypes /\ CallInv /\ SessionInv /\ seen = {} /\ \A g \in Handles : HandleInv(g)
  BY DEF HwInv
<1>a. Hardware!Active(h) /\ death.c = "none" /\ ev[h].at = "asked"
  BY <1>0 DEF Hardware!pal_callback, HandleInv, Hardware!Unlocked
<1>b. ev' = [ev EXCEPT ![h] = [at |-> "none", fd |-> 0, in |-> 0]]
  BY DEF Hardware!pal_callback, Hardware!NoEv
<1>c. obj[h].live /\ Held(h)
  BY <1>0, <1>a DEF HandleInv, Held, Cleared
<1>u. UNCHANGED <<alive, sess, link, pal, calls, death>>
  BY DEF Hardware!pal_callback
<1>2. \A g \in Handles : (Hardware!Active(g)' <=> Hardware!Active(g)) /\ (Held(g)' <=> Held(g))
  BY <1>u DEF Hardware!Active, Held, Cleared
<1>3. ev'[h].at = "none" /\ \A g \in Handles : g # h => ev'[g] = ev[g]
  BY <1>0, <1>b DEF HwTypes
<1>4. ev' \in [Handles -> [at : {"none", "asks", "asked"}, fd : 0 .. MaxFds, in : 0 .. MaxFds]]
  BY <1>0, <1>b DEF HwTypes, Hardware!HwAssumption
<1>5. \A g, o : (Called(g, o)' <=> Called(g, o)) /\ \A m : Writes(g, m)' <=> Writes(g, m)
  BY <1>u DEF Called, Writes
<1>6. SessionInv'
  BY <1>0, <1>a, <1>u DEF SessionInv
<1>7. CASE ev[h].fd = 0
  <2>1. UNCHANGED <<seen, obj, fds>>
    BY <1>c, <1>7 DEF Hardware!pal_callback
  <2>2. HwTypes'
    BY <1>0, <1>u, <1>4, <2>1 DEF HwTypes
  <2>3. CallInv'
    <3>1. ASSUME NEW l \in calls'
          PROVE  l.h \in Handles /\ l \in calls /\ Hardware!Dups(l.h)' = Hardware!Dups(l.h)
      BY <1>0, <1>u, <2>1 DEF HwTypes, Hardware!Dups
    <3> QED
      BY <1>0, <1>u, <1>2, <2>1, <3>1 DEF CallInv
  <2>4. ASSUME NEW g \in Handles PROVE HandleInv(g)'
    <3>1. Hardware!Dups(g)' = Hardware!Dups(g)
      BY <2>1 DEF Hardware!Dups
    <3>2. /\ Called(g, "open")' <=> Called(g, "open")
          /\ Called(g, "close")' <=> Called(g, "close")
          /\ \A m : Writes(g, m)' <=> Writes(g, m)
      BY <1>5
    <3>3. ev'[g].at # "none" => ev'[g] = ev[g]
      BY <1>3
    <3>4. HandleInv(g) /\ UNCHANGED <<obj, pal, fds>> /\ (Held(g)' <=> Held(g))
          /\ (Hardware!Active(g)' <=> Hardware!Active(g))
      BY <1>0, <1>u, <1>2, <2>1
    <3> HIDE <1>0, <1>u
    <3> QED
      BY <3>1, <3>2, <3>3, <3>4 DEF HandleInv
  <2> QED
    BY <1>0, <1>6, <2>1, <2>2, <2>3, <2>4 DEF HwInv
<1>8. CASE ev[h].fd # 0
  <2> DEFINE p == <<ev[h].in, ev[h].fd>>
  <2>1. p \in obj[h].list \ pal[h].held
    BY <1>0, <1>a, <1>8 DEF HandleInv
  <2>2. Hardware!Found(h, ev[h].fd) = {p}
    BY <1>0, <2>1 DEF HandleInv, Hardware!Found
  <2>3. (CHOOSE q \in Hardware!Found(h, ev[h].fd) : TRUE) = p
    BY <2>2
  <2>p. p[1] = ev[h].in /\ p[2] = ev[h].fd
    OBVIOUS
  <2> HIDE DEF p
  <2>4. /\ seen' = seen \cup IF Hardware!Told(p) = ev[h].in THEN {} ELSE {"wrong"}
        /\ obj' = [obj EXCEPT ![h].list = @ \ {p}]
        /\ fds' = Hardware!Closed({p[2]})
    BY <1>c, <1>8, <2>2, <2>3 DEF Hardware!pal_callback
  <2>5. seen' = {}
    BY <1>0, <2>4, <2>p DEF Hardware!Told
  <2>6. fds' = [n \in Hardware!Fds |-> IF n = p[2] THEN "none" ELSE fds[n]]
    BY <2>4 DEF Hardware!Closed
  <2>7. fds[p[2]] = h
    BY <1>0, <2>1 DEF HandleInv
  <2>8. /\ obj'[h].live = obj[h].live /\ obj'[h].list = obj[h].list \ {p}
        /\ \A g \in Handles : g # h => obj'[g] = obj[g]
    BY <1>0, <2>4 DEF HwTypes, HwObj
  <2>9. HwTypes'
    <3>1. [obj[h] EXCEPT !.list = obj[h].list \ {p}] \in HwObj
      BY <1>0 DEF HwTypes, HwObj
    <3>2. obj' \in [Handles -> HwObj]
      BY <1>0, <2>4, <3>1 DEF HwTypes
    <3>3. fds' \in [Hardware!Fds -> Handles \cup {"none"}]
      BY <1>0, <2>6 DEF HwTypes
    <3> QED
      BY <1>0, <1>u, <1>4, <3>2, <3>3 DEF HwTypes
  <2>10. CallInv'
    <3>1. ASSUME NEW l \in calls', l.op = "write"
          PROVE  l.h \in Handles /\ l \in calls /\ l.fd \notin Hardware!Dups(l.h)' /\ fds'[l.fd] = l.h
      <4>1. l.h \in Handles /\ l \in calls
        BY <1>0, <1>u DEF HwTypes
      <4>2. l.fd \in Hardware!Fds /\ fds[l.fd] = l.h /\ l.fd \notin Hardware!Dups(l.h)
        BY <1>0, <3>1, <4>1 DEF CallInv
      <4>3. \A n : n \in Hardware!Dups(l.h)' => n \in Hardware!Dups(l.h)
        BY <2>8, <4>1 DEF Hardware!Dups
      <4>4. p[2] \in Hardware!Dups(h)
        BY <2>1 DEF Hardware!Dups
      <4>5. l.fd # p[2]
        BY <2>7, <4>2, <4>4
      <4> QED
        BY <2>6, <4>1, <4>2, <4>3, <4>5
    <3>2. \A l \in calls : l.h \in Handles
      BY <1>0 DEF HwTypes
    <3> QED
      BY <1>0, <1>u, <1>2, <3>1, <3>2 DEF CallInv
  <2>11. ASSUME NEW g \in Handles PROVE HandleInv(g)'
    <3>1. CASE g = h
      <4>1. \A n \in Hardware!Dups(g) : n # p[2] => n \in Hardware!Dups(g)'
        BY <2>8, <3>1 DEF Hardware!Dups
      <4>2. \A n \in Hardware!Fds : fds'[n] = g => fds[n] = g /\ n # p[2]
        BY <2>6 DEF Hardware!HwAssumption
      <4>3. \A n \in Hardware!Fds : fds'[n] = g => n \in Hardware!Dups(g)' \/ Writes(g, n)'
        BY <1>0, <1>5, <4>1, <4>2 DEF HandleInv
      <4>4. \A q \in obj'[g].list : fds'[q[2]] = g
        <5> SUFFICES ASSUME NEW q \in obj'[g].list PROVE fds'[q[2]] = g
          OBVIOUS
        <5>1. q \in obj[g].list /\ q # p
          BY <2>8, <3>1
        <5>2. q[2] # p[2] /\ fds[q[2]] = g
          BY <1>0, <2>1, <3>1, <5>1 DEF HandleInv
        <5>3. q[2] \in Hardware!Fds
          BY <1>0, <5>1 DEF HwTypes, HwObj
        <5> QED
          BY <2>6, <5>2, <5>3
      <4>5. pal[g].held \subseteq obj'[g].list
        BY <1>0, <2>1, <2>8, <3>1 DEF HandleInv
      <4>6. /\ obj'[g].live = obj[g].live
            /\ \A q, r \in obj'[g].list : q[2] = r[2] => q = r
        BY <1>0, <2>8, <3>1 DEF HandleInv
      <4> QED
        BY <1>0, <1>c, <1>u, <1>2, <1>3, <1>5, <3>1, <4>3, <4>4, <4>5, <4>6 DEF HandleInv
    <3>2. CASE g # h
      <4>1. HandleInv(g) /\ obj[g].list \subseteq Hardware!Fds \X Hardware!Fds
        BY <1>0 DEF HwTypes, HwObj
      <4>2. \A n \in Hardware!Fds : fds'[n] = g <=> fds[n] = g
        BY <2>6, <2>7, <3>2 DEF Hardware!HwAssumption
      <4> QED
        BY <1>u, <1>2, <1>3, <1>5, <2>8, <3>2, <4>1, <4>2, OthersKept
    <3> QED
      BY <3>1, <3>2
  <2> QED
    BY <1>6, <2>5, <2>9, <2>10, <2>11 DEF HwInv
<1> QED
  BY <1>7, <1>8

(***************************************************************************)
(* A process dies between its calls.                                       *)
(***************************************************************************)
LEMMA HwDies ==
  ASSUME Hardware!HwAssumption, ~Hasty, HwInv, NEW c \in Clients, Hardware!Dies(c)
  PROVE  HwInv'
<1> USE DEF Hardware!None
<1>0. HwTypes /\ CallInv /\ SessionInv /\ seen = {} /\ \A g \in Handles : HandleInv(g)
  BY DEF HwInv
<1>a. \A l \in calls : l.c # c
  BY DEF Hardware!Dies, Hardware!Busy
<1>b. alive' = alive \ {c}
  BY DEF Hardware!Dies
<1>u. UNCHANGED <<sess, link, obj, pal, fds, calls, ev, death, seen>>
  BY DEF Hardware!Dies
<1>1. \A g \in Handles : (Hardware!Active(g)' <=> Hardware!Active(g)) /\ (Held(g)' <=> Held(g))
                          /\ Hardware!Dups(g)' = Hardware!Dups(g)
  BY <1>u DEF Hardware!Active, Held, Cleared, Hardware!Dups
<1>2. HwTypes'
  BY <1>0, <1>b, <1>u DEF HwTypes
<1>3. CallInv'
  <2>1. \A l \in calls : l.h \in Handles
    BY <1>0 DEF HwTypes
  <2> QED
    BY <1>0, <1>a, <1>b, <1>u, <1>1, <2>1 DEF CallInv
<1>4. SessionInv' /\ seen' = {}
  BY <1>0, <1>b, <1>u DEF SessionInv
<1>5. ASSUME NEW g \in Handles PROVE HandleInv(g)'
  <2>1. (\A o : Called(g, o)' <=> Called(g, o)) /\ \A m : Writes(g, m)' <=> Writes(g, m)
    BY <1>u DEF Called, Writes
  <2> QED
    BY <1>0, <1>u, <1>1, <2>1 DEF HandleInv
<1> QED
  BY <1>2, <1>3, <1>4, <1>5 DEF HwInv

(***************************************************************************)
(* The notice of its death is taken, with the sessions that it has to      *)
(* clear.                                                                  *)
(***************************************************************************)
LEMMA HwNotices ==
  ASSUME Hardware!HwAssumption, ~Hasty, HwInv, NEW c \in Clients, Hardware!serviceDied(c)
  PROVE  HwInv'
<1> USE DEF Hardware!None
<1>0. HwTypes /\ CallInv /\ SessionInv /\ seen = {} /\ \A g \in Handles : HandleInv(g)
  BY DEF HwInv
<1>a. c \notin alive /\ death.c = "none" /\ \A h \in Handles : ev[h].at = "none"
  BY DEF Hardware!serviceDied, Hardware!Unlocked
<1>b. death' = [c |-> c, todo |-> sess[c]]
  BY DEF Hardware!serviceDied
<1>c. obj' = [h \in Handles |-> IF h \in sess[c] THEN [obj[h] EXCEPT !.died = TRUE] ELSE obj[h]]
  BY DEF Hardware!serviceDied
<1>u. UNCHANGED <<alive, sess, link, pal, fds, calls, ev, seen>>
  BY DEF Hardware!serviceDied
<1>1. \A h \in Handles : obj'[h].live = obj[h].live /\ obj'[h].list = obj[h].list
  BY <1>0, <1>c DEF HwTypes, HwObj
<1>2. \A g \in Handles : /\ Hardware!Active(g)' <=> Hardware!Active(g)
                       /\ Hardware!Dups(g)' = Hardware!Dups(g)
  BY <1>u, <1>1 DEF Hardware!Active, Hardware!Dups
<1>3. \A g \in Handles : Held(g)' <=> Held(g)
  BY <1>a, <1>b, <1>u, <1>2 DEF Held, Cleared
<1>4. HwTypes'
  <2>1. obj' \in [Handles -> HwObj]
    <3>1. ASSUME NEW h \in Handles PROVE [obj[h] EXCEPT !.died = TRUE] \in HwObj
      <4>1. obj[h] \in HwObj
        BY <1>0 DEF HwTypes
      <4> QED
        BY <4>1, ObjTakes DEF HwObj
    <3> QED
      BY <1>0, <1>c, <3>1 DEF HwTypes
  <2>2. death' \in [c : Clients \cup {"none"}, todo : SUBSET Handles]
    BY <1>0, <1>b DEF HwTypes
  <2> QED
    BY <1>0, <1>u, <2>1, <2>2 DEF HwTypes
<1>5. CallInv'
  <2>1. \A l \in calls : l.h \in Handles
    BY <1>0 DEF HwTypes
  <2> QED
    BY <1>0, <1>u, <1>2, <2>1 DEF CallInv
<1>6. SessionInv' /\ seen' = {}
  BY <1>0, <1>a, <1>b, <1>u DEF SessionInv, Hardware!HwAssumption
<1>7. ASSUME NEW g \in Handles PROVE HandleInv(g)'
  <2>1. (\A o : Called(g, o)' <=> Called(g, o)) /\ \A m : Writes(g, m)' <=> Writes(g, m)
    BY <1>u DEF Called, Writes
  <2> QED
    BY <1>0, <1>u, <1>1, <1>2, <1>3, <2>1 DEF HandleInv
<1> QED
  BY <1>4, <1>5, <1>6, <1>7 DEF HwInv

(***************************************************************************)
(* A session that a dead process left is cleared.                          *)
(***************************************************************************)
LEMMA HwClears ==
  ASSUME Hardware!HwAssumption, ~Hasty, HwInv, NEW h \in Handles, Hardware!DeathCloses(h)
  PROVE  HwInv'
<1> USE DEF Hardware!None
<1>0. HwTypes /\ CallInv /\ SessionInv /\ seen = {} /\ \A g \in Handles : HandleInv(g)
  BY DEF HwInv
<1>a. h \in death.todo /\ death.c # "none" /\ death.c \in Clients /\ h \in sess[death.c]
      /\ death.c \notin alive
  BY <1>0 DEF Hardware!DeathCloses, SessionInv, HwTypes
<1>b. \A g \in Handles : ev[g].at = "none"
  BY <1>0, <1>a DEF SessionInv
<1>c. death' = [death EXCEPT !.todo = @ \ {h}]
  BY DEF Hardware!DeathCloses
<1>e. pal' = [pal EXCEPT ![h] = [st |-> "none", asked |-> 0, devs |-> {}, held |-> {}]]
  BY DEF Hardware!DeathCloses, Hardware!NoPal
<1>f. obj' = [obj EXCEPT ![h] = [live |-> FALSE, died |-> FALSE, list |-> {}]]
  BY DEF Hardware!DeathCloses, Hardware!NoObj
<1>g. fds' = [n \in Hardware!Fds |-> IF n \in Hardware!Dups(h) THEN "none" ELSE fds[n]]
  BY DEF Hardware!DeathCloses, Hardware!CloseFds, Hardware!Closed
<1>u. UNCHANGED <<alive, sess, link, calls, ev, seen>>
  BY DEF Hardware!DeathCloses
<1>1. death'.c = death.c /\ death'.todo = death.todo \ {h}
  BY <1>0, <1>c DEF HwTypes
<1>2. \A g \in Handles : Hardware!Active(g)' <=> Hardware!Active(g)
  BY <1>u DEF Hardware!Active
<1>3. Hardware!Active(h) /\ ~Held(h)'
  BY <1>a, <1>1, <1>u DEF Hardware!Active, Held, Cleared
<1>4. \A g \in Handles : g # h => (Held(g)' <=> Held(g))
  BY <1>1, <1>2, <1>u DEF Held, Cleared
<1>5. \A l \in calls : l.h # h
  <2> SUFFICES ASSUME NEW l \in calls, l.h = h PROVE FALSE
    OBVIOUS
  <2>1. l.op = "write" /\ l.c \in Clients /\ l.c \in alive
    BY <1>0, <1>3 DEF CallInv, HwTypes
  <2>2. h \in sess[l.c]
    BY <1>0, <2>1 DEF CallInv
  <2> QED
    BY <1>0, <1>a, <2>1, <2>2 DEF SessionInv
<1>s. ASSUME NEW g \in Handles, g # h, NEW n \in Hardware!Fds
      PROVE  (fds[n] = g => fds'[n] = g) /\ (fds'[n] = g => fds[n] = g)
  <2>1. n \in Hardware!Dups(h) => fds[n] = h
    BY CopiesAre, <1>0
  <2> QED
    BY <1>g, <1>s, <2>1 DEF Hardware!HwAssumption
<1>6. HwTypes'
  <2>1. fds' \in [Hardware!Fds -> Handles \cup {"none"}]
    BY <1>0, <1>g DEF HwTypes
  <2>2. [st |-> "none", asked |-> 0, devs |-> {}, held |-> {}] \in HwPal
    BY DEF HwPal
  <2>3. [live |-> FALSE, died |-> FALSE, list |-> {}] \in HwObj
    BY DEF HwObj
  <2>4. obj' \in [Handles -> HwObj] /\ pal' \in [Handles -> HwPal]
    BY <1>0, <1>e, <1>f, <2>2, <2>3 DEF HwTypes
  <2>5. death' \in [c : Clients \cup {"none"}, todo : SUBSET Handles]
    BY <1>0, <1>c DEF HwTypes
  <2> QED
    BY <1>0, <1>u, <2>1, <2>4, <2>5 DEF HwTypes
<1>7. CallInv'
  <2>1. ASSUME NEW l \in calls
        PROVE  l.h # h /\ Hardware!Dups(l.h)' = Hardware!Dups(l.h) /\ l.h \in Handles
    BY <1>0, <1>f, <1>5 DEF Hardware!Dups, HwTypes
  <2>2. ASSUME NEW l \in calls, l.op = "write" PROVE fds'[l.fd] = l.h
    BY <1>0, <1>s, <2>1, <2>2 DEF CallInv
  <2> QED
    BY <1>0, <1>u, <1>2, <2>1, <2>2 DEF CallInv
<1>8. SessionInv' /\ seen' = {}
  BY <1>0, <1>a, <1>1, <1>u DEF SessionInv
<1>9. ASSUME NEW g \in Handles PROVE HandleInv(g)'
  <2>0. (\A o : Called(g, o)' <=> Called(g, o)) /\ \A m : Writes(g, m)' <=> Writes(g, m)
    BY <1>u DEF Called, Writes
  <2>1. CASE g = h
    <3>1. (\A o : ~Called(g, o)) /\ \A m : ~Writes(g, m)
      BY <1>5, <2>1 DEF Called, Writes
    <3>2. ~obj'[g].live /\ obj'[g].list = {} /\ pal'[g].st = "none" /\ pal'[g].held = {}
      BY <1>0, <1>e, <1>f, <2>1 DEF HwTypes
    <3>3. \A n \in Hardware!Fds : fds'[n] # g
      <4>1. \A n \in Hardware!Fds : fds[n] = g => n \in Hardware!Dups(g)
        BY <1>0, <3>1 DEF HandleInv
      <4> QED
        BY <1>g, <2>1, <4>1 DEF Hardware!HwAssumption
    <3> QED
      BY <1>b, <1>3, <1>u, <2>0, <2>1, <3>1, <3>2, <3>3 DEF HandleInv
  <2>2. CASE g # h
    <3>1. HandleInv(g) /\ obj[g].list \subseteq Hardware!Fds \X Hardware!Fds
      BY <1>0 DEF HwTypes, HwObj
    <3>2. obj'[g] = obj[g] /\ pal'[g] = pal[g]
      BY <1>0, <1>e, <1>f, <2>2 DEF HwTypes
    <3>3. \A n \in Hardware!Fds : fds'[n] = g <=> fds[n] = g
      BY <1>s, <2>2
    <3> QED
      BY <1>u, <1>2, <1>4, <2>0, <2>2, <3>1, <3>2, <3>3, OthersKept
  <2> QED
    BY <2>1, <2>2
<1> QED
  BY <1>6, <1>7, <1>8, <1>9 DEF HwInv

(***************************************************************************)
(* When all are cleared, the process is forgotten.                         *)
(***************************************************************************)
LEMMA HwDeathEnds ==
  ASSUME Hardware!HwAssumption, ~Hasty, HwInv, Hardware!DeathEnds
  PROVE  HwInv'
<1> USE DEF Hardware!None
<1>0. HwTypes /\ CallInv /\ SessionInv /\ seen = {} /\ \A g \in Handles : HandleInv(g)
  BY DEF HwInv
<1> DEFINE c == death.c
<1>a. c # "none" /\ c \in Clients /\ c \notin alive /\ death.todo = {}
      /\ \A g \in Handles : ev[g].at = "none"
  BY <1>0 DEF Hardware!DeathEnds, HwTypes, SessionInv
<1>b. death' = [c |-> "none", todo |-> {}]
  BY DEF Hardware!DeathEnds, Hardware!NoDeath
<1>c. sess' = [sess EXCEPT ![c] = {}]
  BY DEF Hardware!DeathEnds
<1>d. link' = [link EXCEPT ![c] = "none"]
  BY DEF Hardware!DeathEnds
<1>u. UNCHANGED <<alive, obj, pal, fds, calls, ev, seen>>
  BY DEF Hardware!DeathEnds
<1> HIDE DEF c
<1>1. \A d \in Clients : \A h \in sess[d] : h \in sess[c] => d = c
  BY <1>0, <1>a DEF SessionInv
<1>2. \A g \in Handles : Cleared(g) <=> g \in sess[c]
  BY <1>a DEF Cleared, c
<1>3. \A g \in Handles : Hardware!Active(g)' <=> Hardware!Active(g) /\ g \notin sess[c]
  <2> SUFFICES ASSUME NEW g \in Handles
               PROVE  Hardware!Active(g)' <=> Hardware!Active(g) /\ g \notin sess[c]
    OBVIOUS
  <2>1. \A d \in Clients : g \in sess'[d] <=> (g \in sess[d] /\ d # c)
    BY <1>0, <1>a, <1>c DEF HwTypes
  <2> QED
    BY <1>1, <1>a, <2>1 DEF Hardware!Active
<1>4. \A g \in Handles : (Held(g)' <=> Held(g)) /\ (Hardware!Active(g)' <=> Held(g))
  BY <1>b, <1>2, <1>3 DEF Held, Cleared
<1>5. HwTypes'
  BY <1>0, <1>a, <1>b, <1>c, <1>d, <1>u DEF HwTypes
<1>6. CallInv'
  <2>1. ASSUME NEW l \in calls
        PROVE  Hardware!Dups(l.h)' = Hardware!Dups(l.h) /\ l.h \in Handles /\ l.c \in Clients /\ l.c # c
               /\ sess'[l.c] = sess[l.c]
    BY <1>0, <1>a, <1>c, <1>u DEF Hardware!Dups, HwTypes, CallInv
  <2> QED
    BY <1>0, <1>u, <1>3, <2>1 DEF CallInv
<1>7. SessionInv' /\ seen' = {}
  <2>1. \A d \in Clients : (sess'[d] = {} /\ link'[d] = "none") \/ link'[d] \in sess'[d]
    BY <1>0, <1>a, <1>c, <1>d DEF SessionInv, HwTypes
  <2>2. \A d, f \in Clients : \A g \in sess'[d] : g \in sess'[f] => d = f
    BY <1>0, <1>c DEF SessionInv, HwTypes
  <2> QED
    BY <1>0, <1>a, <1>b, <1>u, <2>1, <2>2 DEF SessionInv
<1>8. ASSUME NEW g \in Handles PROVE HandleInv(g)'
  <2>0. (\A o : Called(g, o)' <=> Called(g, o)) /\ (\A m : Writes(g, m)' <=> Writes(g, m))
        /\ Hardware!Dups(g)' = Hardware!Dups(g)
    BY <1>u DEF Called, Writes, Hardware!Dups
  <2> QED
    BY <1>0, <1>a, <1>u, <1>4, <2>0 DEF HandleInv
<1> QED
  BY <1>5, <1>6, <1>7, <1>8 DEF HwInv

(***************************************************************************)
(* Every step keeps it.                                                    *)
(***************************************************************************)
LEMMA HwGoesOn ==
  ASSUME Hardware!HwAssumption, ~Hasty, MaxDevices <= 2, HwInv, [Hardware!Next]_(Hardware!vars)
  PROVE  HwInv'
<1>1. CASE UNCHANGED Hardware!vars
  <2>1. UNCHANGED <<alive, sess, link, obj, pal, fds, calls, ev, death, seen>>
    BY <1>1 DEF Hardware!vars
  <2>0. HwTypes /\ CallInv /\ SessionInv /\ seen = {} /\ \A g \in Handles : HandleInv(g)
    BY DEF HwInv
  <2>2. HwTypes' /\ SessionInv' /\ seen' = {}
    BY <2>0, <2>1 DEF HwTypes, SessionInv
  <2>3. \A g : (Hardware!Active(g)' <=> Hardware!Active(g)) /\ (Held(g)' <=> Held(g))
              /\ Hardware!Dups(g)' = Hardware!Dups(g)
    BY <2>1 DEF Held, Cleared, Hardware!Active, Hardware!Dups
  <2>4. \A g : (\A o : Called(g, o)' <=> Called(g, o)) /\ (\A m : Writes(g, m)' <=> Writes(g, m))
    BY <2>1 DEF Called, Writes
  <2>5. CallInv'
    BY <2>0, <2>1, <2>3 DEF CallInv
  <2>6. ASSUME NEW g \in Handles PROVE HandleInv(g)'
    BY <2>0, <2>1, <2>3, <2>4 DEF HandleInv
  <2> QED
    BY <2>2, <2>5, <2>6 DEF HwInv
<1>2. ASSUME NEW c \in Clients, NEW h \in Handles, Hardware!Serve(c, h) PROVE HwInv'
  BY <1>2, HwOpens, HwCloses, HwWrites, HwCommands DEF Hardware!Serve
<1>3. ASSUME NEW k \in calls, Hardware!Finish(k) PROVE HwInv'
  BY <1>3, HwRegisters, HwPalCloses, HwEnters DEF Hardware!Finish
<1>4. ASSUME NEW h \in Handles, Hardware!Stream(h) PROVE HwInv'
  BY <1>4, HwEvents, HwAsks, HwTold, HwClears DEF Hardware!Stream
<1>5. ASSUME NEW c \in Clients, Hardware!Dies(c) \/ Hardware!serviceDied(c) PROVE HwInv'
  BY <1>5, HwDies, HwNotices
<1>6. ASSUME Hardware!DeathEnds PROVE HwInv'
  BY <1>6, HwDeathEnds
<1> QED
  BY <1>1, <1>2, <1>3, <1>4, <1>5, <1>6 DEF Hardware!Next

(***************************************************************************)
(* So it holds throughout, while no client asks for a third device.        *)
(***************************************************************************)
LEMMA HwInvariant ==
  ASSUME Hardware!HwAssumption, ~Hasty, MaxDevices <= 2
  PROVE  Hardware!Spec => []HwInv
  BY HwStarts, HwGoesOn, PTL DEF Hardware!Spec

(***************************************************************************)
(* And it says of the service what was asked of it.                        *)
(***************************************************************************)
LEMMA HwProps ==
  ASSUME Hardware!HwAssumption, HwInv
  PROVE  Hardware!NoOrphan /\ Hardware!CallbacksRight /\ Hardware!RoutesRight /\ Hardware!NeverBlocks
<1> USE DEF Hardware!None
<1>0. HwTypes /\ CallInv /\ SessionInv /\ seen = {} /\ \A g \in Handles : HandleInv(g)
  BY DEF HwInv
<1>1. Hardware!NoOrphan
  <2>1. ASSUME NEW h \in Handles, pal[h].st # "none" PROVE Hardware!Active(h) \/ \E k \in calls : k.h = h
    BY <1>0, <2>1 DEF HandleInv, Held, Called
  <2>2. ASSUME NEW n \in Hardware!Fds, fds[n] # "none"
        PROVE  n \in Hardware!Dups(fds[n]) \/ \E k \in calls : k.fd = n
    <3>1. fds[n] \in Handles
      BY <1>0, <2>2 DEF HwTypes
    <3>2. n \in Hardware!Dups(fds[n]) \/ Writes(fds[n], n)
      BY <1>0, <3>1 DEF HandleInv
    <3> QED
      BY <3>2 DEF Writes
  <2>3. ASSUME NEW c \in Clients, sess[c] # {} PROVE link[c] # "none"
    BY <1>0, <2>3 DEF SessionInv, HwTypes, Hardware!HwAssumption
  <2> QED
    BY <2>1, <2>2, <2>3 DEF Hardware!NoOrphan
<1>2. Hardware!CallbacksRight
  BY <1>0 DEF HandleInv, Hardware!CallbacksRight
<1>3. Hardware!RoutesRight
  BY <1>0 DEF HandleInv, Hardware!RoutesRight
<1>4. Hardware!NeverBlocks
  <2>1. death.c = "none" => death.todo = {}
    BY <1>0 DEF SessionInv
  <2> QED
    BY <1>0, <2>1 DEF SessionInv, Hardware!NeverBlocks, Hardware!HwAssumption
<1> QED
  BY <1>1, <1>2, <1>3, <1>4

(***************************************************************************)
(* Every stream PAL has is in a session or in the middle of a call, every  *)
(* descriptor that was duplicated is in a list or in a call, and what a    *)
(* dead process left is still linked to a notice: for any number of        *)
(* processes, streams and descriptors, while a process has one call at a   *)
(* time and asks for two devices at most.                                  *)
(***************************************************************************)
THEOREM HardwareNoOrphan ==
  ASSUME Hardware!HwAssumption, ~Hasty, MaxDevices <= 2
  PROVE  Hardware!Spec => []Hardware!NoOrphan
  BY HwInvariant, HwProps, PTL DEF Hardware!Spec

(***************************************************************************)
(* An event reaches the object of its own stream and tells the client of   *)
(* the buffer by the number the client gave; and PAL opens the devices     *)
(* that were asked for. With a third device it does not: the server reads  *)
(* each where the client never wrote it.                                   *)
(***************************************************************************)
THEOREM HardwareCallbacks ==
  ASSUME Hardware!HwAssumption, ~Hasty, MaxDevices <= 2
  PROVE  Hardware!Spec => []Hardware!CallbacksRight
  BY HwInvariant, HwProps, PTL DEF Hardware!Spec

(***************************************************************************)
(* A buffer that PAL has is still the one its descriptor was duplicated    *)
(* for.                                                                    *)
(***************************************************************************)
THEOREM HardwareRoutes ==
  ASSUME Hardware!HwAssumption, ~Hasty, MaxDevices <= 2
  PROVE  Hardware!Spec => []Hardware!RoutesRight
  BY HwInvariant, HwProps, PTL DEF Hardware!Spec

(***************************************************************************)
(* The notice that holds mClientLock never waits for an event that waits   *)
(* for the lock.                                                           *)
(***************************************************************************)
THEOREM HardwareNeverBlocks ==
  ASSUME Hardware!HwAssumption, ~Hasty, MaxDevices <= 2
  PROVE  Hardware!Spec => []Hardware!NeverBlocks
  BY HwInvariant, HwProps, PTL DEF Hardware!Spec

------------------------------------------------------------------------------
(***************************************************************************)
(* StreamCommon and the ultrasound stream: a client's calls, the parts of  *)
(* a start and a stop done outside the mutex, and the restart of the card. *)
(***************************************************************************)
Common == INSTANCE CommonStream

CommonStates == {"IDLE", "INIT", "STARTED", "STOPPED"}
CommonGains  == {"mute", "low", "high"}
CommonRec ==
  [st : CommonStates, cached : CommonStates, sess : BOOLEAN, run : BOOLEAN, gain : CommonGains,
   dsp : CommonGains, ask : {"none", "INIT", "STARTED", "STOPPED"}]
CommonDevs == [Common!Devices -> [open : Nat, start : Nat]]
CommonOps  == [at : {"none", "register", "gain", "stop"}, gain : CommonGains]
CommonJobs ==
  [kind : {"none", "down", "up"}, todo : SUBSET Common!Streams, s : SUBSET Common!Streams,
   at : {"none", "done", "stop", "close", "start"}]
CommonTypes ==
  /\ str \in [Common!Streams -> CommonRec] /\ devs \in CommonDevs
  /\ reg \subseteq Common!Devices \X Common!Streams
  /\ op \in [Common!Streams -> CommonOps]
  /\ speaker \in BOOLEAN /\ card \in {"ON", "OFF"} /\ downs \in 0 .. MaxDowns
  /\ work \in CommonJobs

(***************************************************************************)
(* The worker is in the calls of one stream at most, and goes with the     *)
(* card.                                                                   *)
(***************************************************************************)
CommonWork ==
  /\ work.s \cap work.todo = {} /\ \A s, t \in work.s : s = t
  /\ work.kind = "none" => work.todo = {} /\ work.s = {}
  /\ work.kind = "down" => card = "OFF" /\ (work.s # {} => work.at \in {"stop", "close"})
  /\ work.kind = "up" => card = "ON" /\ (work.s # {} => work.at = "start")

(***************************************************************************)
(* A stream that no restart is about has its own state; one that the       *)
(* worker has closed is closed, and remembers it.                          *)
(***************************************************************************)
CommonSettled(s) ==
  \/ card = "ON" /\ work.kind = "none"
  \/ work.kind = "down" /\ s \in work.todo
  \/ work.kind = "up" /\ s \notin work.todo /\ s \notin work.s
CommonShut(s) ==
  \/ card = "OFF" /\ work.kind = "none"
  \/ work.kind = "down" /\ s \notin work.todo /\ s \notin work.s
  \/ work.kind = "up" /\ s \in work.todo
Meant(ask) ==
  IF ask = "none" THEN {"IDLE"} ELSE IF ask = "STOPPED" THEN {"STOPPED", "IDLE"} ELSE {ask}

(***************************************************************************)
(* Of a stream: its session goes with its state; a part of a start or a    *)
(* stop is left to do only while it runs and no restart has come to it;    *)
(* what the client was told is its state, or what the restart remembers;   *)
(* it is registered while it runs.                                         *)
(***************************************************************************)
AskInv(s) ==
  /\ str[s].run <=> str[s].st = "STARTED"
  /\ str[s].sess <=> str[s].st # "IDLE"
  /\ op[s].at # "none" =>
       CommonSettled(s) /\ str[s].st = "STARTED"
         /\ str[s].ask = IF op[s].at = "stop" THEN "STOPPED" ELSE "STARTED"
  /\ op[s].at \in {"gain", "stop"} => s \in Upds
  /\ CommonSettled(s) => str[s].cached = "IDLE" /\ (op[s].at = "none" => str[s].st \in Meant(str[s].ask))
  /\ ~CommonSettled(s) => str[s].cached \in Meant(str[s].ask)
  /\ CommonShut(s) => str[s].st = "IDLE"
  /\ s \in work.s =>
       /\ work.at = "stop" => str[s].st = "STARTED"
       /\ work.at = "close" => str[s].st \in {"INIT", "STOPPED"}
       /\ work.at = "start" => str[s].st = "INIT" /\ str[s].cached = "STARTED"
  /\ \A d \in Common!Devices : <<d, s>> \in reg => d \in Common!Used(s) /\ str[s].st = "STARTED"
  /\ op[s].at # "register" /\ str[s].st = "STARTED" => \A d \in Common!Used(s) : <<d, s>> \in reg

(***************************************************************************)
(* The gain the processor has is the one remembered; it is muted unless    *)
(* the stream runs, and then it is the one for what plays beside it.       *)
(***************************************************************************)
GainInv(s) ==
  /\ str[s].gain = str[s].dsp
  /\ str[s].st # "STARTED" \/ s \notin Upds => str[s].gain = "mute"
  /\ op[s].at = "gain" => op[s].gain = Common!Wanted
  /\ op[s].at = "stop" => str[s].gain = "mute"
  /\ s \in Upds /\ str[s].st = "STARTED" /\ op[s].at = "none" => str[s].gain = Common!Wanted
OneUpd == \A s, t \in Upds : s = t

OpenOn(d)  == {s \in Common!Streams : d \in Common!Used(s) /\ str[s].st # "IDLE"}
StartOn(d) == {s \in Common!Streams : d \in Common!Used(s) /\ str[s].st = "STARTED"}
CommonCounts ==
  \A d \in Common!Devices :
    devs[d].open = Cardinality(OpenOn(d)) /\ devs[d].start = Cardinality(StartOn(d))

CommonInv ==
  /\ CommonTypes /\ CommonWork /\ CommonCounts /\ \A s \in Common!Streams : AskInv(s)
  /\ OneUpd => \A s \in Common!Streams : GainInv(s)

(***************************************************************************)
(* What the operators make of the streams, the devices' counts, and the    *)
(* registered devices.                                                     *)
(***************************************************************************)
World(S, D, R) == [str |-> S, devs |-> D, reg |-> R]
DevsUp(D, s)   ==
  [d \in Common!Devices |-> IF d \in Common!Used(s) THEN [D[d] EXCEPT !.open = @ + 1] ELSE D[d]]
DevsDown(D, s) ==
  [d \in Common!Devices |-> IF d \in Common!Used(s) THEN [D[d] EXCEPT !.open = Common!Less(@)] ELSE D[d]]
DevsOn(D, s)   ==
  [d \in Common!Devices |-> IF d \in Common!Used(s) THEN [D[d] EXCEPT !.start = @ + 1] ELSE D[d]]
DevsOff(D, s)  ==
  [d \in Common!Devices |-> IF d \in Common!Used(s) THEN [D[d] EXCEPT !.start = Common!Less(@)] ELSE D[d]]
Without(R, s)  == {p \in R : p[2] # s}

Yes == TRUE
No  == FALSE
Has(S, s)        == s \in DOMAIN S
Put(S, s, x)     == [S EXCEPT ![s] = x]
SetSt(w, s, a)   == [w EXCEPT !.str[s].st = a]
SetRun(w, s, a)  == [w EXCEPT !.str[s].run = a]
SetAsk(w, s, a)  == [w EXCEPT !.str[s].ask = a]
SetKept(w, s, a) == [w EXCEPT !.str[s].cached = a]
SetStr(w, s, a)  == [w EXCEPT !.str[s] = a]
SetUp(w, s, a, b)      == [w EXCEPT !.str[s].sess = a, !.str[s].dsp = b]
SetGain(w, s, a, b)    == [w EXCEPT !.str[s].gain = a, !.str[s].dsp = b]
SetOff(w, s, a)        == [w EXCEPT !.str[s].st = a, !.reg = {p \in @ : p[2] # s}]
SetDown(w, s, a, b, c) == [w EXCEPT !.str[s].sess = a, !.str[s].run = b, !.str[s].st = c]
RecSt(x, a)   == [x EXCEPT !.st = a]
RecRun(x, a)  == [x EXCEPT !.run = a]
RecAsk(x, a)  == [x EXCEPT !.ask = a]
RecKept(x, a) == [x EXCEPT !.cached = a]
RecUp(x, a, b)      == [x EXCEPT !.sess = a, !.dsp = b]
RecGain(x, a, b)    == [x EXCEPT !.gain = a, !.dsp = b]
RecDown(x, a, b, c) == [x EXCEPT !.sess = a, !.run = b, !.st = c]

(***************************************************************************)
(* Setting one stream, once and again.                                     *)
(***************************************************************************)
LEMMA Again ==
  ASSUME NEW S, NEW s, Has(S, s), NEW x, NEW y
  PROVE  /\ Has(Put(S, s, x), s) /\ Put(S, s, x)[s] = x
         /\ Put(Put(S, s, x), s, y) = Put(S, s, y)
  BY DEF Put, Has

(***************************************************************************)
(* One or more fields of one stream are set.                               *)
(***************************************************************************)
LEMMA SetOne ==
  ASSUME NEW S, NEW D, NEW R, NEW s, Has(S, s), NEW a
  PROVE  /\ SetRun(World(S, D, R), s, a) = World(Put(S, s, RecRun(S[s], a)), D, R)
         /\ SetSt(World(S, D, R), s, a) = World(Put(S, s, RecSt(S[s], a)), D, R)
         /\ SetAsk(World(S, D, R), s, a) = World(Put(S, s, RecAsk(S[s], a)), D, R)
         /\ SetKept(World(S, D, R), s, a) = World(Put(S, s, RecKept(S[s], a)), D, R)
         /\ SetStr(World(S, D, R), s, a) = World(Put(S, s, a), D, R)
  BY DEF Has, World, Put, SetRun, SetSt, SetAsk, SetKept, SetStr, RecRun, RecSt, RecAsk, RecKept

(***************************************************************************)
(* The same of several fields.                                             *)
(***************************************************************************)
LEMMA SetAll ==
  ASSUME NEW S, NEW D, NEW R, NEW s, Has(S, s), NEW a, NEW b, NEW c
  PROVE  /\ SetUp(World(S, D, R), s, a, b) = World(Put(S, s, RecUp(S[s], a, b)), D, R)
         /\ SetGain(World(S, D, R), s, a, b) = World(Put(S, s, RecGain(S[s], a, b)), D, R)
         /\ SetOff(World(S, D, R), s, a) = World(Put(S, s, RecSt(S[s], a)), D, Without(R, s))
         /\ SetDown(World(S, D, R), s, a, b, c) = World(Put(S, s, RecDown(S[s], a, b, c)), D, R)
<1> USE DEF Has
<1> DEFINE w == World(S, D, R)
<1>0. \A x, y : LET T == [S EXCEPT ![s] = x]
              IN s \in DOMAIN T /\ T[s] = x /\ [T EXCEPT ![s] = y] = [S EXCEPT ![s] = y]
  OBVIOUS
<1>1. [w EXCEPT !.str[s].sess = a, !.str[s].dsp = b]
        = World([S EXCEPT ![s] = [S[s] EXCEPT !.sess = a, !.dsp = b]], D, R)
  <2> DEFINE T == [S EXCEPT ![s] = [S[s] EXCEPT !.sess = a]]
  <2>0. [w EXCEPT !.str[s].sess = a, !.str[s].dsp = b]
          = [[w EXCEPT !.str[s].sess = a] EXCEPT !.str[s].dsp = b]
    OBVIOUS
  <2>1. [w EXCEPT !.str[s].sess = a] = World(T, D, R)
    BY DEF World
  <2>2. s \in DOMAIN T /\ T[s] = [S[s] EXCEPT !.sess = a]
    BY <1>0
  <2>3. [T EXCEPT ![s] = [T[s] EXCEPT !.dsp = b]]
          = [S EXCEPT ![s] = [S[s] EXCEPT !.sess = a, !.dsp = b]]
    BY <1>0, <2>2
  <2> HIDE DEF T, w
  <2>4. [World(T, D, R) EXCEPT !.str[s].dsp = b]
          = World([T EXCEPT ![s] = [T[s] EXCEPT !.dsp = b]], D, R)
    BY DEF World
  <2> QED
    BY <2>0, <2>1, <2>3, <2>4
<1>2. [w EXCEPT !.str[s].gain = a, !.str[s].dsp = b]
        = World([S EXCEPT ![s] = [S[s] EXCEPT !.gain = a, !.dsp = b]], D, R)
  <2> DEFINE T == [S EXCEPT ![s] = [S[s] EXCEPT !.gain = a]]
  <2>0. [w EXCEPT !.str[s].gain = a, !.str[s].dsp = b]
          = [[w EXCEPT !.str[s].gain = a] EXCEPT !.str[s].dsp = b]
    OBVIOUS
  <2>1. [w EXCEPT !.str[s].gain = a] = World(T, D, R)
    BY DEF World
  <2>2. s \in DOMAIN T /\ T[s] = [S[s] EXCEPT !.gain = a]
    BY <1>0
  <2>3. [T EXCEPT ![s] = [T[s] EXCEPT !.dsp = b]]
          = [S EXCEPT ![s] = [S[s] EXCEPT !.gain = a, !.dsp = b]]
    BY <1>0, <2>2
  <2> HIDE DEF T, w
  <2>4. [World(T, D, R) EXCEPT !.str[s].dsp = b]
          = World([T EXCEPT ![s] = [T[s] EXCEPT !.dsp = b]], D, R)
    BY DEF World
  <2> QED
    BY <2>0, <2>1, <2>3, <2>4
<1>3. [w EXCEPT !.str[s].st = a, !.reg = {p \in @ : p[2] # s}]
        = World([S EXCEPT ![s] = [S[s] EXCEPT !.st = a]], D, Without(R, s))
  <2> DEFINE T == [S EXCEPT ![s] = [S[s] EXCEPT !.st = a]]
  <2>1. [w EXCEPT !.str[s].st = a, !.reg = {p \in @ : p[2] # s}]
          = [[w EXCEPT !.str[s].st = a] EXCEPT !.reg = Without(R, s)]
    BY DEF World, Without
  <2>2. [w EXCEPT !.str[s].st = a] = World(T, D, R)
    BY DEF World
  <2> HIDE DEF T, w
  <2>3. [World(T, D, R) EXCEPT !.reg = Without(R, s)] = World(T, D, Without(R, s))
    BY DEF World
  <2> QED
    BY <2>1, <2>2, <2>3 DEF T
<1>4. [w EXCEPT !.str[s].sess = a, !.str[s].run = b, !.str[s].st = c]
        = World([S EXCEPT ![s] = [S[s] EXCEPT !.sess = a, !.run = b, !.st = c]], D, R)
  <2> DEFINE T == [S EXCEPT ![s] = [S[s] EXCEPT !.sess = a]]
             U == [T EXCEPT ![s] = [T[s] EXCEPT !.run = b]]
  <2>0. [w EXCEPT !.str[s].sess = a, !.str[s].run = b, !.str[s].st = c]
          = [[[w EXCEPT !.str[s].sess = a] EXCEPT !.str[s].run = b] EXCEPT !.str[s].st = c]
    OBVIOUS
  <2>1. [w EXCEPT !.str[s].sess = a] = World(T, D, R)
    BY DEF World
  <2>2. s \in DOMAIN T /\ T[s] = [S[s] EXCEPT !.sess = a]
    BY <1>0
  <2>3. U = [S EXCEPT ![s] = [S[s] EXCEPT !.sess = a, !.run = b]] /\ s \in DOMAIN U
    BY <1>0, <2>2
  <2>4. U[s] = [S[s] EXCEPT !.sess = a, !.run = b]
    BY <1>0, <2>3
  <2>5. [U EXCEPT ![s] = [U[s] EXCEPT !.st = c]]
          = [S EXCEPT ![s] = [S[s] EXCEPT !.sess = a, !.run = b, !.st = c]]
    BY <1>0, <2>3, <2>4
  <2> HIDE DEF T, w
  <2>6. [World(T, D, R) EXCEPT !.str[s].run = b] = World(U, D, R)
    BY DEF World
  <2> HIDE DEF U
  <2>7. [World(U, D, R) EXCEPT !.str[s].st = c] = World([U EXCEPT ![s] = [U[s] EXCEPT !.st = c]], D, R)
    BY DEF World
  <2> QED
    BY <2>0, <2>1, <2>5, <2>6, <2>7
<1>5. SetUp(World(S, D, R), s, a, b) = World(Put(S, s, RecUp(S[s], a, b)), D, R)
  BY <1>1 DEF Put, SetUp, RecUp
<1>6. SetGain(World(S, D, R), s, a, b) = World(Put(S, s, RecGain(S[s], a, b)), D, R)
  BY <1>2 DEF Put, SetGain, RecGain
<1>7. SetOff(World(S, D, R), s, a) = World(Put(S, s, RecSt(S[s], a)), D, Without(R, s))
  BY <1>3 DEF Put, SetOff, RecSt
<1>8. SetDown(World(S, D, R), s, a, b, c) = World(Put(S, s, RecDown(S[s], a, b, c)), D, R)
  BY <1>4 DEF Put, SetDown, RecDown
<1> QED
  BY <1>5, <1>6, <1>7, <1>8

(***************************************************************************)
(* The counts of the devices of one stream go up or down.                  *)
(***************************************************************************)
LEMMA DevsAre ==
  ASSUME NEW S, NEW D, NEW R, NEW s
  PROVE  /\ Common!Opens(World(S, D, R), Common!Used(s)) = World(S, DevsUp(D, s), R)
         /\ Common!Shuts(World(S, D, R), Common!Used(s)) = World(S, DevsDown(D, s), R)
         /\ Common!Starts(World(S, D, R), Common!Used(s)) = World(S, DevsOn(D, s), R)
         /\ Common!Stops(World(S, D, R), Common!Used(s)) = World(S, DevsOff(D, s), R)
<1>1. Common!Opens(World(S, D, R), Common!Used(s)) = World(S, DevsUp(D, s), R)
  BY DEF Common!Opens, World, DevsUp
<1>2. Common!Shuts(World(S, D, R), Common!Used(s)) = World(S, DevsDown(D, s), R)
  BY DEF Common!Shuts, World, DevsDown
<1>3. Common!Starts(World(S, D, R), Common!Used(s)) = World(S, DevsOn(D, s), R)
  BY DEF Common!Starts, World, DevsOn
<1>4. Common!Stops(World(S, D, R), Common!Used(s)) = World(S, DevsOff(D, s), R)
  BY DEF Common!Stops, World, DevsOff
<1> QED
  BY <1>1, <1>2, <1>3, <1>4

(***************************************************************************)
(* What becomes of the stream that is opened, started, stopped or closed,  *)
(* and of its gain.                                                        *)
(***************************************************************************)
Opened(x)  == RecSt(RecUp(x, Yes, "mute"), "INIT")
Started(x) == RecSt(RecRun(x, Yes), "STARTED")
Halted(x)  == RecSt(RecRun(x, No), "STOPPED")
Shut(x)    == RecDown(IF x.st = "STARTED" THEN Halted(x) ELSE x, No, No, "IDLE")
Louder(S, s, g) == IF S[s].gain = g THEN S ELSE Put(S, s, RecGain(S[s], g, g))

(***************************************************************************)
(* A stream stops: its session, its devices, and its registrations.        *)
(***************************************************************************)
LEMMA StopIs ==
  ASSUME NEW S, NEW D, NEW R, NEW s, Has(S, s), S[s].st # "PAUSED"
  PROVE  Common!stop(World(S, D, R), s) =
           IF S[s].st = "STARTED"
           THEN World(Put(S, s, Halted(S[s])), DevsOff(D, s), Without(R, s))
           ELSE World(S, D, R)
<1> DEFINE w == World(S, D, R)
<1>1. w.str = S
  BY DEF World
<1>2. Common!Running(w.str[s]) <=> S[s].st = "STARTED"
  BY <1>1 DEF Common!Running
<1>3. CASE S[s].st = "STARTED"
  <2> DEFINE T == Put(S, s, RecRun(S[s], No))
             E == DevsOff(D, s)
  <2>1. Common!Stops(w, Common!Used(s)) = World(S, E, R)
    BY DevsAre
  <2>2. Common!SessionStop(w, s) = SetRun(Common!Stops(w, Common!Used(s)), s, No)
    BY DEF Common!SessionStop, SetRun, No
  <2>3. Common!stop(w, s) = SetOff(Common!SessionStop(w, s), s, "STOPPED")
    BY <1>2, <1>3 DEF Common!stop, SetOff
  <2> HIDE DEF w, E
  <2>4. SetRun(World(S, E, R), s, No) = World(T, E, R)
    BY SetOne
  <2>5. Has(T, s) /\ T[s] = RecRun(S[s], No)
    BY Again
  <2>6. SetOff(World(T, E, R), s, "STOPPED")
          = World(Put(T, s, RecSt(T[s], "STOPPED")), E, Without(R, s))
    BY <2>5, SetAll
  <2>7. Put(T, s, RecSt(T[s], "STOPPED")) = Put(S, s, Halted(S[s]))
    BY <2>5, Again DEF Halted
  <2> QED
    BY <1>3, <2>1, <2>2, <2>3, <2>4, <2>6, <2>7 DEF w, E
<1>4. CASE S[s].st # "STARTED"
  BY <1>2, <1>4 DEF Common!stop
<1> QED
  BY <1>3, <1>4

(***************************************************************************)
(* A stream that is not idle is closed, and stopped first if it runs.      *)
(***************************************************************************)
LEMMA CloseIs ==
  ASSUME NEW S, NEW D, NEW R, NEW s, Has(S, s), S[s].st \notin {"PAUSED", "IDLE"}
  PROVE  Common!close(World(S, D, R), s) =
           IF S[s].st = "STARTED"
           THEN World(Put(S, s, Shut(S[s])), DevsDown(DevsOff(D, s), s), Without(R, s))
           ELSE World(Put(S, s, Shut(S[s])), DevsDown(D, s), R)
<1> DEFINE w == World(S, D, R)
<1>1. w.str = S
  BY DEF World
<1>2. Common!close(w, s) = SetDown(Common!Shuts(Common!stop(w, s), Common!Used(s)), s, No, No, "IDLE")
  BY <1>1 DEF Common!close, SetDown, No
<1>3. CASE S[s].st = "STARTED"
  <2> DEFINE T == Put(S, s, Halted(S[s]))
             E == DevsOff(D, s)
             Q == Without(R, s)
  <2>1. Common!stop(w, s) = World(T, E, Q)
    BY <1>3, StopIs
  <2>2. Has(T, s) /\ T[s] = Halted(S[s])
    BY Again
  <2> HIDE DEF T, w
  <2>3. Common!Shuts(World(T, E, Q), Common!Used(s)) = World(T, DevsDown(E, s), Q)
    BY DevsAre
  <2>4. SetDown(World(T, DevsDown(E, s), Q), s, No, No, "IDLE")
          = World(Put(T, s, RecDown(T[s], No, No, "IDLE")), DevsDown(E, s), Q)
    BY <2>2, SetAll
  <2>5. Put(T, s, RecDown(T[s], No, No, "IDLE")) = Put(S, s, Shut(S[s]))
    BY <1>3, <2>2, Again DEF T, Shut
  <2> QED
    BY <1>2, <1>3, <2>1, <2>3, <2>4, <2>5 DEF w
<1>4. CASE S[s].st # "STARTED"
  <2>1. Common!stop(w, s) = w
    BY <1>4, StopIs
  <2>2. Common!Shuts(w, Common!Used(s)) = World(S, DevsDown(D, s), R)
    BY DevsAre
  <2>3. SetDown(World(S, DevsDown(D, s), R), s, No, No, "IDLE")
          = World(Put(S, s, RecDown(S[s], No, No, "IDLE")), DevsDown(D, s), R)
    BY SetAll
  <2> QED
    BY <1>2, <1>4, <2>1, <2>2, <2>3 DEF Shut
<1> QED
  BY <1>3, <1>4

(***************************************************************************)
(* An idle stream is opened.                                               *)
(***************************************************************************)
LEMMA OpenIs ==
  ASSUME NEW S, NEW D, NEW R, NEW s, Has(S, s), S[s].st = "IDLE", card = "ON"
  PROVE  Common!open(World(S, D, R), s, Yes) = World(Put(S, s, Opened(S[s])), DevsUp(D, s), R)
<1> DEFINE w == World(S, D, R)
           T == Put(S, s, RecUp(S[s], Yes, "mute"))
<1>1. w.str = S
  BY DEF World
<1>2. Common!open(w, s, Yes) = SetSt(Common!Opens(SetUp(w, s, Yes, "mute"), Common!Used(s)), s, "INIT")
  BY <1>1 DEF Common!open, SetSt, SetUp, Yes
<1>3. SetUp(w, s, Yes, "mute") = World(T, D, R)
  BY SetAll
<1>4. Has(T, s) /\ T[s] = RecUp(S[s], Yes, "mute")
  BY Again
<1> HIDE DEF T, w
<1>5. Common!Opens(World(T, D, R), Common!Used(s)) = World(T, DevsUp(D, s), R)
  BY DevsAre
<1>6. SetSt(World(T, DevsUp(D, s), R), s, "INIT")
        = World(Put(T, s, RecSt(T[s], "INIT")), DevsUp(D, s), R)
  BY <1>4, SetOne
<1>7. Put(T, s, RecSt(T[s], "INIT")) = Put(S, s, Opened(S[s]))
  BY <1>4, Again DEF T, Opened
<1> QED
  BY <1>2, <1>3, <1>5, <1>6, <1>7 DEF w

(***************************************************************************)
(* A stream is started, or its session does not start and its devices are  *)
(* stopped again.                                                          *)
(***************************************************************************)
LEMMA StartIs ==
  ASSUME NEW S, NEW D, NEW R, NEW s, Has(S, s), S[s].st \in {"INIT", "STOPPED"}, card = "ON"
  PROVE  /\ Common!start(World(S, D, R), s, {}, Yes) = World(Put(S, s, Started(S[s])), DevsOn(D, s), R)
         /\ Common!start(World(S, D, R), s, {}, No) = World(S, DevsOff(DevsOn(D, s), s), R)
<1> DEFINE w == World(S, D, R)
           v == World(S, DevsOn(D, s), R)
           T == Put(S, s, RecRun(S[s], Yes))
<1>1. w.str = S
  BY DEF World
<1>2. Common!Used(s) \ {} = Common!Used(s)
  OBVIOUS
<1>3. Common!start_device(w, s, {}) = v
  BY <1>2, DevsAre DEF Common!start_device
<1>4. Common!startSession(v, s, Yes) = SetRun(v, s, Yes)
  BY DEF Common!startSession, SetRun, Yes
<1>5. Common!startSession(v, s, No) = World(S, DevsOff(DevsOn(D, s), s), R)
  BY DevsAre DEF Common!startSession, No
<1>6. SetRun(v, s, Yes) = World(T, DevsOn(D, s), R)
  BY SetOne
<1>7. Has(T, s) /\ T[s] = RecRun(S[s], Yes)
  BY Again
<1>8. Common!start(w, s, {}, No) = Common!startSession(v, s, No)
  BY <1>1, <1>3 DEF Common!start, No
<1>9. Common!start(w, s, {}, Yes) = SetSt(Common!startSession(v, s, Yes), s, "STARTED")
  BY <1>1, <1>3 DEF Common!start, SetSt, Yes
<1> HIDE DEF T, w, v
<1>10. SetSt(World(T, DevsOn(D, s), R), s, "STARTED")
         = World(Put(T, s, RecSt(T[s], "STARTED")), DevsOn(D, s), R)
  BY <1>7, SetOne
<1>11. Put(T, s, RecSt(T[s], "STARTED")) = Put(S, s, Started(S[s]))
  BY <1>7, Again DEF T, Started
<1> QED
  BY <1>4, <1>5, <1>6, <1>8, <1>9, <1>10, <1>11 DEF w

(***************************************************************************)
(* The gain is set, unless it is what it was.                              *)
(***************************************************************************)
LEMMA GainIs ==
  ASSUME NEW S, NEW D, NEW R, NEW s, Has(S, s), NEW g
  PROVE  Common!setUltraSoundGain_l(World(S, D, R), s, g) = World(Louder(S, s, g), D, R)
<1> DEFINE w == World(S, D, R)
<1>1. w.str = S
  BY DEF World
<1>2. Common!setUltraSoundGain_l(w, s, g) = IF S[s].gain = g THEN w ELSE SetGain(w, s, g, g)
  BY <1>1 DEF Common!setUltraSoundGain_l, SetGain
<1>3. SetGain(w, s, g, g) = World(Put(S, s, RecGain(S[s], g, g)), D, R)
  BY SetAll
<1> QED
  BY <1>2, <1>3 DEF Louder

(***************************************************************************)
(* The fields of a stream so changed.                                      *)
(***************************************************************************)
LEMMA RecsAre ==
  ASSUME NEW x \in CommonRec
  PROVE  /\ Opened(x) \in CommonRec /\ Opened(x).st = "INIT" /\ Opened(x).sess
         /\ (Opened(x).run <=> x.run)
         /\ Opened(x).cached = x.cached /\ Opened(x).ask = x.ask /\ Opened(x).gain = x.gain
         /\ Opened(x).dsp = "mute"
         /\ Started(x) \in CommonRec /\ Started(x).st = "STARTED" /\ Started(x).run
         /\ (Started(x).sess <=> x.sess)
         /\ Started(x).cached = x.cached /\ Started(x).ask = x.ask
         /\ Started(x).gain = x.gain /\ Started(x).dsp = x.dsp
         /\ Halted(x) \in CommonRec /\ Halted(x).st = "STOPPED" /\ ~Halted(x).run
         /\ (Halted(x).sess <=> x.sess)
         /\ Halted(x).cached = x.cached /\ Halted(x).ask = x.ask /\ Halted(x).gain = x.gain
         /\ Halted(x).dsp = x.dsp
         /\ Shut(x) \in CommonRec /\ Shut(x).st = "IDLE" /\ ~Shut(x).run /\ ~Shut(x).sess
         /\ Shut(x).cached = x.cached /\ Shut(x).ask = x.ask /\ Shut(x).gain = x.gain
         /\ Shut(x).dsp = x.dsp
<1> USE DEF RecSt, RecRun, RecUp, RecDown, Yes, No, CommonRec, CommonStates, CommonGains
<1>1. /\ Opened(x) \in CommonRec /\ Opened(x).st = "INIT" /\ Opened(x).sess
      /\ (Opened(x).run <=> x.run)
      /\ Opened(x).cached = x.cached /\ Opened(x).ask = x.ask /\ Opened(x).gain = x.gain
      /\ Opened(x).dsp = "mute"
  BY DEF Opened
<1>2. /\ Started(x) \in CommonRec /\ Started(x).st = "STARTED" /\ Started(x).run
      /\ (Started(x).sess <=> x.sess)
      /\ Started(x).cached = x.cached /\ Started(x).ask = x.ask /\ Started(x).gain = x.gain
      /\ Started(x).dsp = x.dsp
  BY DEF Started
<1>3. /\ Halted(x) \in CommonRec /\ Halted(x).st = "STOPPED" /\ ~Halted(x).run
      /\ (Halted(x).sess <=> x.sess)
      /\ Halted(x).cached = x.cached /\ Halted(x).ask = x.ask /\ Halted(x).gain = x.gain
      /\ Halted(x).dsp = x.dsp
  BY DEF Halted
<1>4. \A z \in CommonRec :
        LET u == RecDown(z, No, No, "IDLE")
        IN /\ u \in CommonRec /\ u.st = "IDLE" /\ ~u.run /\ ~u.sess
           /\ u.cached = z.cached /\ u.ask = z.ask /\ u.gain = z.gain /\ u.dsp = z.dsp
  OBVIOUS
<1> HIDE DEF RecSt, RecRun, RecUp, RecDown, CommonRec
<1>5. /\ Shut(x) \in CommonRec /\ Shut(x).st = "IDLE" /\ ~Shut(x).run /\ ~Shut(x).sess
      /\ Shut(x).cached = x.cached /\ Shut(x).ask = x.ask /\ Shut(x).gain = x.gain
      /\ Shut(x).dsp = x.dsp
  <2>1. CASE x.st = "STARTED"
    BY <1>3, <1>4, <2>1 DEF Shut
  <2>2. CASE x.st # "STARTED"
    BY <1>4, <2>2 DEF Shut
  <2> QED
    BY <2>1, <2>2
<1> QED
  BY <1>1, <1>2, <1>3, <1>5

(***************************************************************************)
(* And of one whose gain is set, whose client asks, or that a restart      *)
(* remembers.                                                              *)
(***************************************************************************)
LEMMA RecsToo ==
  ASSUME NEW x \in CommonRec, NEW g \in CommonGains, NEW t \in CommonStates,
         NEW a \in {"none", "INIT", "STARTED", "STOPPED"}
  PROVE  /\ RecGain(x, g, g) \in CommonRec /\ RecGain(x, g, g).st = x.st
         /\ (RecGain(x, g, g).run <=> x.run) /\ (RecGain(x, g, g).sess <=> x.sess)
         /\ RecGain(x, g, g).cached = x.cached /\ RecGain(x, g, g).ask = x.ask
         /\ RecGain(x, g, g).gain = g /\ RecGain(x, g, g).dsp = g
         /\ RecAsk(x, a) \in CommonRec /\ RecAsk(x, a).st = x.st
         /\ (RecAsk(x, a).run <=> x.run) /\ (RecAsk(x, a).sess <=> x.sess)
         /\ RecAsk(x, a).cached = x.cached /\ RecAsk(x, a).ask = a
         /\ RecAsk(x, a).gain = x.gain /\ RecAsk(x, a).dsp = x.dsp
         /\ RecKept(x, t) \in CommonRec /\ RecKept(x, t).st = x.st
         /\ (RecKept(x, t).run <=> x.run) /\ (RecKept(x, t).sess <=> x.sess)
         /\ RecKept(x, t).cached = t /\ RecKept(x, t).ask = x.ask
         /\ RecKept(x, t).gain = x.gain /\ RecKept(x, t).dsp = x.dsp
         /\ RecSt(x, t) \in CommonRec /\ RecSt(x, t).st = t
         /\ (RecSt(x, t).run <=> x.run) /\ (RecSt(x, t).sess <=> x.sess)
         /\ RecSt(x, t).cached = x.cached /\ RecSt(x, t).ask = x.ask
         /\ RecSt(x, t).gain = x.gain /\ RecSt(x, t).dsp = x.dsp
<1> USE DEF CommonRec, CommonStates, CommonGains
<1>1. /\ RecGain(x, g, g) \in CommonRec /\ RecGain(x, g, g).st = x.st
      /\ (RecGain(x, g, g).run <=> x.run) /\ (RecGain(x, g, g).sess <=> x.sess)
      /\ RecGain(x, g, g).cached = x.cached /\ RecGain(x, g, g).ask = x.ask
      /\ RecGain(x, g, g).gain = g /\ RecGain(x, g, g).dsp = g
  BY DEF RecGain
<1>2. /\ RecAsk(x, a) \in CommonRec /\ RecAsk(x, a).st = x.st
      /\ (RecAsk(x, a).run <=> x.run) /\ (RecAsk(x, a).sess <=> x.sess)
      /\ RecAsk(x, a).cached = x.cached /\ RecAsk(x, a).ask = a
      /\ RecAsk(x, a).gain = x.gain /\ RecAsk(x, a).dsp = x.dsp
  BY DEF RecAsk
<1>3. /\ RecKept(x, t) \in CommonRec /\ RecKept(x, t).st = x.st
      /\ (RecKept(x, t).run <=> x.run) /\ (RecKept(x, t).sess <=> x.sess)
      /\ RecKept(x, t).cached = t /\ RecKept(x, t).ask = x.ask
      /\ RecKept(x, t).gain = x.gain /\ RecKept(x, t).dsp = x.dsp
  BY DEF RecKept
<1>4. /\ RecSt(x, t) \in CommonRec /\ RecSt(x, t).st = t
      /\ (RecSt(x, t).run <=> x.run) /\ (RecSt(x, t).sess <=> x.sess)
      /\ RecSt(x, t).cached = x.cached /\ RecSt(x, t).ask = x.ask
      /\ RecSt(x, t).gain = x.gain /\ RecSt(x, t).dsp = x.dsp
  BY DEF RecSt
<1> QED
  BY <1>1, <1>2, <1>3, <1>4

(***************************************************************************)
(* The counts, up or down.                                                 *)
(***************************************************************************)
LEMMA DevsKept ==
  ASSUME NEW D \in CommonDevs, NEW s
  PROVE  /\ DevsUp(D, s) \in CommonDevs /\ DevsDown(D, s) \in CommonDevs
         /\ DevsOn(D, s) \in CommonDevs /\ DevsOff(D, s) \in CommonDevs
         /\ \A d \in Common!Devices : d \in Common!Used(s) =>
              /\ DevsUp(D, s)[d].open = D[d].open + 1 /\ DevsUp(D, s)[d].start = D[d].start
              /\ DevsDown(D, s)[d].open = Common!Less(D[d].open)
              /\ DevsDown(D, s)[d].start = D[d].start
              /\ DevsOn(D, s)[d].start = D[d].start + 1 /\ DevsOn(D, s)[d].open = D[d].open
              /\ DevsOff(D, s)[d].start = Common!Less(D[d].start)
              /\ DevsOff(D, s)[d].open = D[d].open
         /\ \A d \in Common!Devices : d \notin Common!Used(s) =>
              /\ DevsUp(D, s)[d] = D[d] /\ DevsDown(D, s)[d] = D[d]
              /\ DevsOn(D, s)[d] = D[d] /\ DevsOff(D, s)[d] = D[d]
<1>1. ASSUME NEW d \in Common!Devices
      PROVE  /\ D[d] \in [open : Nat, start : Nat]
             /\ Common!Less(D[d].open) \in Nat /\ Common!Less(D[d].start) \in Nat
  BY DEF CommonDevs, Common!Less
<1> HIDE DEF CommonDevs
<1>2. DevsUp(D, s) \in CommonDevs
  BY <1>1 DEF CommonDevs, DevsUp
<1>3. DevsDown(D, s) \in CommonDevs
  BY <1>1 DEF CommonDevs, DevsDown
<1>4. DevsOn(D, s) \in CommonDevs
  BY <1>1 DEF CommonDevs, DevsOn
<1>5. DevsOff(D, s) \in CommonDevs
  BY <1>1 DEF CommonDevs, DevsOff
<1>6. ASSUME NEW d \in Common!Devices, d \in Common!Used(s)
      PROVE  /\ DevsUp(D, s)[d].open = D[d].open + 1 /\ DevsUp(D, s)[d].start = D[d].start
             /\ DevsDown(D, s)[d].open = Common!Less(D[d].open)
             /\ DevsDown(D, s)[d].start = D[d].start
             /\ DevsOn(D, s)[d].start = D[d].start + 1 /\ DevsOn(D, s)[d].open = D[d].open
             /\ DevsOff(D, s)[d].start = Common!Less(D[d].start)
             /\ DevsOff(D, s)[d].open = D[d].open
  BY <1>1, <1>6 DEF DevsUp, DevsDown, DevsOn, DevsOff
<1>7. ASSUME NEW d \in Common!Devices, d \notin Common!Used(s)
      PROVE  /\ DevsUp(D, s)[d] = D[d] /\ DevsDown(D, s)[d] = D[d]
             /\ DevsOn(D, s)[d] = D[d] /\ DevsOff(D, s)[d] = D[d]
  BY <1>7 DEF DevsUp, DevsDown, DevsOn, DevsOff
<1> QED
  BY <1>2, <1>3, <1>4, <1>5, <1>6, <1>7

(***************************************************************************)
(* Devices that were started for a session that failed are as they were.   *)
(***************************************************************************)
LEMMA DevsBack ==
  ASSUME NEW D \in CommonDevs, NEW s
  PROVE  DevsOff(DevsOn(D, s), s) = D
<1>1. ASSUME NEW d \in Common!Devices PROVE DevsOff(DevsOn(D, s), s)[d] = D[d]
  <2>1. D[d] \in [open : Nat, start : Nat]
    BY DEF CommonDevs
  <2>2. Common!Less(D[d].start + 1) = D[d].start
    BY <2>1 DEF Common!Less
  <2>3. [[D[d] EXCEPT !.start = @ + 1] EXCEPT !.start = Common!Less(@)] = D[d]
    BY <2>1, <2>2
  <2> QED
    BY <2>3 DEF DevsOff, DevsOn
<1>2. DevsOff(DevsOn(D, s), s) = [d \in Common!Devices |-> D[d]]
  BY <1>1 DEF DevsOff
<1> QED
  BY <1>2 DEF CommonDevs

(***************************************************************************)
(* A device of a stream that is open, or that runs, counts it.             *)
(***************************************************************************)
LEMMA CountsFinite ==
  ASSUME Common!CommonAssumption, NEW d
  PROVE  /\ IsFiniteSet(OpenOn(d)) /\ IsFiniteSet(StartOn(d))
         /\ Cardinality(OpenOn(d)) \in Nat /\ Cardinality(StartOn(d)) \in Nat
         /\ \A s \in OpenOn(d) : Cardinality(OpenOn(d)) > 0
         /\ \A s \in StartOn(d) : Cardinality(StartOn(d)) > 0
<1>1. IsFiniteSet(Common!Streams)
  BY DEF Common!CommonAssumption, Common!Streams, Common!IsFiniteSet, IsFiniteSet
<1>2. OpenOn(d) \subseteq Common!Streams /\ StartOn(d) \subseteq Common!Streams
  BY DEF OpenOn, StartOn
<1>3. IsFiniteSet(OpenOn(d)) /\ IsFiniteSet(StartOn(d))
  BY <1>1, <1>2, FS_Subset
<1>4. Cardinality(OpenOn(d)) \in Nat /\ Cardinality(StartOn(d)) \in Nat
  BY <1>3, FS_CardinalityType
<1>5. Cardinality(OpenOn(d)) = 0 <=> OpenOn(d) = {}
  BY <1>3, FS_EmptySet
<1>6. Cardinality(StartOn(d)) = 0 <=> StartOn(d) = {}
  BY <1>3, FS_EmptySet
<1>7. \A n \in Nat : n # 0 => n > 0
  OBVIOUS
<1> QED
  BY <1>3, <1>4, <1>5, <1>6, <1>7

(***************************************************************************)
(* Which devices a stream is on.                                           *)
(***************************************************************************)
LEMMA UsedAre ==
  ASSUME NEW s
  PROVE  Common!Used(s) = IF s \in Upds THEN {"ultrasound", "mic"} ELSE {"mic"}
<1>1. CASE s \in Upds
  <2>1. Common!DevsOf(s) = <<"ultrasound", "mic">>
    BY <1>1 DEF Common!DevsOf
  <2>2. DOMAIN Common!DevsOf(s) = {1, 2} /\ Common!DevsOf(s)[1] = "ultrasound"
        /\ Common!DevsOf(s)[2] = "mic"
    BY <2>1
  <2> QED
    BY <1>1, <2>2 DEF Common!Used
<1>2. CASE s \notin Upds
  <2>1. Common!DevsOf(s) = <<"mic">>
    BY <1>2 DEF Common!DevsOf
  <2>2. DOMAIN Common!DevsOf(s) = {1} /\ Common!DevsOf(s)[1] = "mic"
    BY <2>1
  <2> QED
    BY <1>2, <2>2 DEF Common!Used
<1> QED
  BY <1>1, <1>2

(***************************************************************************)
(* When one stream changes, its devices count it if it came, and no other  *)
(* device does.                                                            *)
(***************************************************************************)
LEMMA CountsMove ==
  ASSUME Common!CommonAssumption, CommonTypes, CommonCounts,
         NEW s \in Common!Streams, NEW y \in CommonRec,
         str' = Put(str, s, y),
         \A d \in Common!Devices : d \notin Common!Used(s) => devs'[d] = devs[d],
         \A d \in Common!Devices : d \in Common!Used(s) =>
           /\ devs'[d].open = IF y.st # "IDLE"
                              THEN IF str[s].st # "IDLE" THEN devs[d].open ELSE devs[d].open + 1
                              ELSE IF str[s].st # "IDLE" THEN devs[d].open - 1 ELSE devs[d].open
           /\ devs'[d].start = IF y.st = "STARTED"
                               THEN IF str[s].st = "STARTED" THEN devs[d].start ELSE devs[d].start + 1
                               ELSE IF str[s].st = "STARTED" THEN devs[d].start - 1 ELSE devs[d].start
  PROVE  CommonCounts'
<1>1. str'[s] = y /\ \A t \in Common!Streams : t # s => str'[t] = str[t]
  BY DEF CommonTypes, Put
<1>2. ASSUME NEW d \in Common!Devices
      PROVE  devs'[d].open = Cardinality(OpenOn(d)') /\ devs'[d].start = Cardinality(StartOn(d)')
  <2>1. devs[d].open = Cardinality(OpenOn(d)) /\ devs[d].start = Cardinality(StartOn(d))
    BY DEF CommonCounts
  <2>2. IsFiniteSet(OpenOn(d)) /\ IsFiniteSet(StartOn(d))
    BY CountsFinite
  <2>3. CASE d \notin Common!Used(s)
    <3>1. OpenOn(d)' = OpenOn(d) /\ StartOn(d)' = StartOn(d)
      BY <1>1, <2>3 DEF OpenOn, StartOn
    <3> QED
      BY <2>1, <2>3, <3>1
  <2>4. CASE d \in Common!Used(s)
    <3>1. s \in OpenOn(d) <=> str[s].st # "IDLE"
      BY <2>4 DEF OpenOn
    <3>2. s \in StartOn(d) <=> str[s].st = "STARTED"
      BY <2>4 DEF StartOn
    <3>3. OpenOn(d)' = IF y.st # "IDLE" THEN OpenOn(d) \cup {s} ELSE OpenOn(d) \ {s}
      BY <1>1, <2>4 DEF OpenOn
    <3>4. StartOn(d)' = IF y.st = "STARTED" THEN StartOn(d) \cup {s} ELSE StartOn(d) \ {s}
      BY <1>1, <2>4 DEF StartOn
    <3>5. Cardinality(OpenOn(d) \cup {s})
            = IF s \in OpenOn(d) THEN Cardinality(OpenOn(d)) ELSE Cardinality(OpenOn(d)) + 1
      BY <2>2, FS_AddElement
    <3>6. Cardinality(OpenOn(d) \ {s})
            = IF s \in OpenOn(d) THEN Cardinality(OpenOn(d)) - 1 ELSE Cardinality(OpenOn(d))
      BY <2>2, FS_RemoveElement
    <3>7. Cardinality(StartOn(d) \cup {s})
            = IF s \in StartOn(d) THEN Cardinality(StartOn(d)) ELSE Cardinality(StartOn(d)) + 1
      BY <2>2, FS_AddElement
    <3>8. Cardinality(StartOn(d) \ {s})
            = IF s \in StartOn(d) THEN Cardinality(StartOn(d)) - 1 ELSE Cardinality(StartOn(d))
      BY <2>2, FS_RemoveElement
    <3>9. devs'[d].open = Cardinality(OpenOn(d)')
      BY <2>1, <2>4, <3>1, <3>3, <3>5, <3>6
    <3>10. devs'[d].start = Cardinality(StartOn(d)')
      BY <2>1, <2>4, <3>2, <3>4, <3>7, <3>8
    <3> QED
      BY <3>9, <3>10
  <2> QED
    BY <2>3, <2>4
<1> QED
  BY <1>2 DEF CommonCounts

(***************************************************************************)
(* How a step of one stream moves the counts of its devices, and what is   *)
(* registered.                                                             *)
(***************************************************************************)
DevsMove(s, y) ==
  \/ devs' = devs /\ y.st = str[s].st
  \/ devs' = devs /\ y.st \in {"INIT", "STOPPED"} /\ str[s].st \in {"INIT", "STOPPED"}
  \/ devs' = DevsUp(devs, s) /\ y.st = "INIT" /\ str[s].st = "IDLE"
  \/ devs' = DevsOn(devs, s) /\ y.st = "STARTED" /\ str[s].st \in {"INIT", "STOPPED"}
  \/ devs' = DevsOff(devs, s) /\ y.st = "STOPPED" /\ str[s].st = "STARTED"
  \/ devs' = DevsDown(DevsOff(devs, s), s) /\ y.st = "IDLE" /\ str[s].st = "STARTED"
  \/ devs' = DevsDown(devs, s) /\ y.st = "IDLE" /\ str[s].st \in {"INIT", "STOPPED"}
RegMoves(s) ==
  \/ reg' = reg
  \/ reg' = Without(reg, s)
  \/ reg' = reg \cup {<<d, s>> : d \in Common!Used(s)}

(***************************************************************************)
(* So the counts follow the streams that are opened, started, stopped and  *)
(* closed.                                                                 *)
(***************************************************************************)
LEMMA CountsFollow ==
  ASSUME Common!CommonAssumption, CommonTypes, CommonCounts,
         NEW s \in Common!Streams, NEW y \in CommonRec,
         str' = Put(str, s, y),
         DevsMove(s, y)
  PROVE  CommonCounts' /\ devs' \in CommonDevs
<1>0. devs \in CommonDevs
  BY DEF CommonTypes
<1>1. devs' \in CommonDevs
  BY <1>0, DevsKept DEF DevsMove
<1>2. ASSUME NEW d \in Common!Devices, d \in Common!Used(s)
      PROVE  /\ devs[d].open \in Nat /\ devs[d].start \in Nat
             /\ str[s].st # "IDLE" => devs[d].open > 0
             /\ str[s].st = "STARTED" => devs[d].start > 0
  <2>1. devs[d].open = Cardinality(OpenOn(d)) /\ devs[d].start = Cardinality(StartOn(d))
    BY DEF CommonCounts
  <2>2. str[s].st # "IDLE" => s \in OpenOn(d)
    BY <1>2 DEF OpenOn
  <2>3. str[s].st = "STARTED" => s \in StartOn(d)
    BY <1>2 DEF StartOn
  <2> QED
    BY <2>1, <2>2, <2>3, CountsFinite
<1>3. ASSUME NEW d \in Common!Devices, d \notin Common!Used(s) PROVE devs'[d] = devs[d]
  <2>1. DevsOff(devs, s) \in CommonDevs
    BY <1>0, DevsKept
  <2>2. DevsDown(DevsOff(devs, s), s)[d] = DevsOff(devs, s)[d]
    BY <1>3, <2>1, DevsKept
  <2>3. /\ DevsUp(devs, s)[d] = devs[d] /\ DevsDown(devs, s)[d] = devs[d]
        /\ DevsOn(devs, s)[d] = devs[d] /\ DevsOff(devs, s)[d] = devs[d]
    BY <1>0, <1>3, DevsKept
  <2> QED
    BY <2>2, <2>3 DEF DevsMove
<1>4. ASSUME NEW d \in Common!Devices, d \in Common!Used(s)
      PROVE  /\ devs'[d].open = IF y.st # "IDLE"
                                THEN IF str[s].st # "IDLE" THEN devs[d].open ELSE devs[d].open + 1
                                ELSE IF str[s].st # "IDLE" THEN devs[d].open - 1 ELSE devs[d].open
             /\ devs'[d].start = IF y.st = "STARTED"
                                 THEN IF str[s].st = "STARTED" THEN devs[d].start ELSE devs[d].start + 1
                                 ELSE IF str[s].st = "STARTED" THEN devs[d].start - 1 ELSE devs[d].start
  <2>1. /\ DevsUp(devs, s)[d].open = devs[d].open + 1 /\ DevsUp(devs, s)[d].start = devs[d].start
        /\ DevsDown(devs, s)[d].open = Common!Less(devs[d].open)
        /\ DevsDown(devs, s)[d].start = devs[d].start
        /\ DevsOn(devs, s)[d].start = devs[d].start + 1 /\ DevsOn(devs, s)[d].open = devs[d].open
        /\ DevsOff(devs, s)[d].start = Common!Less(devs[d].start)
        /\ DevsOff(devs, s)[d].open = devs[d].open
    BY <1>0, <1>4, DevsKept
  <2>2. /\ DevsDown(DevsOff(devs, s), s)[d].open = Common!Less(DevsOff(devs, s)[d].open)
        /\ DevsDown(DevsOff(devs, s), s)[d].start = DevsOff(devs, s)[d].start
    <3>1. DevsOff(devs, s) \in CommonDevs
      BY <1>0, DevsKept
    <3> QED
      BY <1>4, <3>1, DevsKept
  <2>3. /\ str[s].st # "IDLE" => Common!Less(devs[d].open) = devs[d].open - 1
        /\ str[s].st = "STARTED" => Common!Less(devs[d].start) = devs[d].start - 1
    BY <1>2, <1>4 DEF Common!Less
  <2> QED
    BY <2>1, <2>2, <2>3 DEF DevsMove
<1> QED
  BY <1>1, <1>3, <1>4, CountsMove

(***************************************************************************)
(* A stream that a step is not about keeps what holds of it,               *)
(***************************************************************************)
LEMMA AskKept ==
  ASSUME NEW t \in Common!Streams, AskInv(t), str'[t] = str[t], op'[t] = op[t],
         \A d : <<d, t>> \in reg' <=> <<d, t>> \in reg,
         CommonSettled(t)' <=> CommonSettled(t), CommonShut(t)' => CommonShut(t),
         t \notin work'.s \/ work' = work
  PROVE  AskInv(t)'
  BY DEF AskInv

(***************************************************************************)
(* and so a step of one stream keeps everything, if it keeps what holds of *)
(* that one                                                                *)
(***************************************************************************)
LEMMA StepKeeps ==
  ASSUME Common!CommonAssumption, CommonInv,
         NEW s \in Common!Streams, NEW y \in CommonRec, NEW o \in CommonOps,
         str' = Put(str, s, y), op' = [op EXCEPT ![s] = o],
         DevsMove(s, y), RegMoves(s),
         speaker' \in BOOLEAN, card' = card, downs' = downs,
         work' \in CommonJobs,
         CommonWork', AskInv(s)', OneUpd => \A t \in Common!Streams : GainInv(t)',
         \A t \in Common!Streams : t # s =>
           /\ CommonSettled(t)' <=> CommonSettled(t)
           /\ CommonShut(t)' => CommonShut(t)
           /\ t \notin work'.s \/ work' = work
  PROVE  CommonInv'
<1>0. CommonTypes /\ CommonWork /\ CommonCounts /\ (\A t \in Common!Streams : AskInv(t))
      /\ (OneUpd => \A t \in Common!Streams : GainInv(t))
  BY DEF CommonInv
<1>1. /\ str'[s] = y /\ str' \in [Common!Streams -> CommonRec]
      /\ \A t \in Common!Streams : t # s => str'[t] = str[t]
  BY <1>0 DEF CommonTypes, Put
<1>2. /\ op' \in [Common!Streams -> CommonOps] /\ \A t \in Common!Streams : t # s => op'[t] = op[t]
  BY <1>0 DEF CommonTypes, CommonOps
<1>3. CommonCounts' /\ devs' \in CommonDevs
  BY <1>0, CountsFollow
<1>4. reg' \subseteq Common!Devices \X Common!Streams
  <2>1. Common!Used(s) \subseteq Common!Devices
    BY UsedAre DEF Common!Devices
  <2>2. reg \subseteq Common!Devices \X Common!Streams
    BY <1>0 DEF CommonTypes
  <2>3. {<<d, s>> : d \in Common!Used(s)} \subseteq Common!Devices \X Common!Streams
    BY <2>1
  <2>4. Without(reg, s) \subseteq reg
    BY DEF Without
  <2> QED
    BY <2>2, <2>3, <2>4 DEF RegMoves
<1>5. \A t, d : t # s => (<<d, t>> \in reg' <=> <<d, t>> \in reg)
  BY DEF RegMoves, Without
<1>6. CommonTypes'
  BY <1>0, <1>1, <1>2, <1>3, <1>4 DEF CommonTypes, CommonOps
<1>7. ASSUME NEW t \in Common!Streams PROVE AskInv(t)'
  <2>1. CASE t = s
    BY <2>1
  <2>2. CASE t # s
    BY <1>0, <1>1, <1>2, <1>5, <2>2, AskKept
  <2> QED
    BY <2>1, <2>2
<1>9. OneUpd' <=> OneUpd
  BY DEF OneUpd
<1> QED
  BY <1>3, <1>6, <1>7, <1>9 DEF CommonInv

(***************************************************************************)
(* and the gains, which a step that leaves the speaker alone keeps of      *)
(* every other stream.                                                     *)
(***************************************************************************)
LEMMA OneKeeps ==
  ASSUME Common!CommonAssumption, CommonInv,
         NEW s \in Common!Streams, NEW y \in CommonRec, NEW o \in CommonOps,
         str' = Put(str, s, y), op' = [op EXCEPT ![s] = o],
         DevsMove(s, y), RegMoves(s),
         speaker' = speaker, card' = card, downs' = downs,
         work' \in CommonJobs,
         CommonWork', AskInv(s)', OneUpd => GainInv(s)',
         \A t \in Common!Streams : t # s =>
           /\ CommonSettled(t)' <=> CommonSettled(t)
           /\ CommonShut(t)' => CommonShut(t)
           /\ t \notin work'.s \/ work' = work
  PROVE  CommonInv'
<1>0. CommonTypes /\ (OneUpd => \A t \in Common!Streams : GainInv(t))
  BY DEF CommonInv
<1>1. speaker' \in BOOLEAN
  BY <1>0 DEF CommonTypes
<1>2. ASSUME OneUpd, NEW t \in Common!Streams PROVE GainInv(t)'
  <2>1. CASE t = s
    BY <1>2, <2>1
  <2>2. CASE t # s
    <3>1. str'[t] = str[t] /\ op'[t] = op[t]
      BY <1>0, <2>2 DEF CommonTypes, Put
    <3> QED
      BY <1>0, <1>2, <3>1 DEF GainInv, Common!Wanted
  <2> QED
    BY <2>1, <2>2
<1> QED
  BY <1>1, <1>2, StepKeeps DEF DevsMove, RegMoves

(***************************************************************************)
(* The state with one stream set, and what the operators make of it.       *)
(***************************************************************************)
One(s, x, D, R) == World(Put(str, s, x), D, R)
Toned(x, g)     == IF x.gain = g THEN x ELSE RecGain(x, g, g)
Known(R, s)     == R \cup {<<d, s>> : d \in Common!Used(s)}

(***************************************************************************)
(* Every state is one.                                                     *)
(***************************************************************************)
LEMMA OneIs ==
  ASSUME CommonTypes, NEW s \in Common!Streams
  PROVE  /\ Has(str, s) /\ Common!W = One(s, str[s], devs, reg)
         /\ str = Put(str, s, str[s])
  BY DEF CommonTypes, Has, Common!W, One, World, Put

(***************************************************************************)
(* It is the state that follows, or it is not.                             *)
(***************************************************************************)
LEMMA OneBecomes ==
  ASSUME NEW s, NEW x, NEW D, NEW R
  PROVE  /\ Common!Becomes(One(s, x, D, R)) <=> str' = Put(str, s, x) /\ devs' = D /\ reg' = R
         /\ Has(str, s) => One(s, x, D, R).str[s] = x
<1>1. Common!Becomes(One(s, x, D, R)) <=> str' = Put(str, s, x) /\ devs' = D /\ reg' = R
  BY DEF One, World, Common!Becomes
<1>2. One(s, x, D, R).str = Put(str, s, x)
  BY DEF One, World
<1>3. Has(str, s) => Put(str, s, x)[s] = x
  BY Again
<1> QED
  BY <1>1, <1>2, <1>3

(***************************************************************************)
(* A field of the stream, its gain, its registrations.                     *)
(***************************************************************************)
LEMMA OneSets ==
  ASSUME NEW s, Has(str, s), NEW x, NEW D, NEW R, NEW a
  PROVE  /\ SetAsk(One(s, x, D, R), s, a) = One(s, RecAsk(x, a), D, R)
         /\ SetKept(One(s, x, D, R), s, a) = One(s, RecKept(x, a), D, R)
         /\ SetSt(One(s, x, D, R), s, a) = One(s, RecSt(x, a), D, R)
         /\ SetStr(One(s, x, D, R), s, a) = One(s, a, D, R)
         /\ Common!setUltraSoundGain_l(One(s, x, D, R), s, a) = One(s, Toned(x, a), D, R)
         /\ Common!Registered(One(s, x, D, R), s) = One(s, x, D, Known(R, s))
<1> DEFINE S == Put(str, s, x)
<1>1. Has(S, s) /\ S[s] = x /\ \A y : Put(S, s, y) = Put(str, s, y)
  BY Again
<1>2. Common!Registered(World(S, D, R), s) = World(S, D, Known(R, s))
  BY DEF Common!Registered, World, Known
<1> HIDE DEF S
<1>3. SetAsk(World(S, D, R), s, a) = World(Put(str, s, RecAsk(x, a)), D, R)
  <2>1. Has(S, s)
    BY <1>1
  <2>2. SetAsk(World(S, D, R), s, a) = World(Put(S, s, RecAsk(S[s], a)), D, R)
    BY <2>1, SetOne
  <2> QED
    BY <1>1, <2>2
<1>4. SetKept(World(S, D, R), s, a) = World(Put(str, s, RecKept(x, a)), D, R)
  <2>1. Has(S, s)
    BY <1>1
  <2>2. SetKept(World(S, D, R), s, a) = World(Put(S, s, RecKept(S[s], a)), D, R)
    BY <2>1, SetOne
  <2> QED
    BY <1>1, <2>2
<1>5. SetSt(World(S, D, R), s, a) = World(Put(str, s, RecSt(x, a)), D, R)
  <2>1. Has(S, s)
    BY <1>1
  <2>2. SetSt(World(S, D, R), s, a) = World(Put(S, s, RecSt(S[s], a)), D, R)
    BY <2>1, SetOne
  <2> QED
    BY <1>1, <2>2
<1>6. SetStr(World(S, D, R), s, a) = World(Put(str, s, a), D, R)
  BY <1>1, SetOne
<1>7. Common!setUltraSoundGain_l(World(S, D, R), s, a) = World(Louder(S, s, a), D, R)
  BY <1>1, GainIs
<1>8. Louder(S, s, a) = Put(str, s, Toned(x, a))
  BY <1>1 DEF Louder, Toned, S
<1> QED
  BY <1>2, <1>3, <1>4, <1>5, <1>6, <1>7, <1>8 DEF One, S

(***************************************************************************)
(* Its start, its stop, its open and its close.                            *)
(***************************************************************************)
LEMMA OneMoves ==
  ASSUME NEW s, Has(str, s), NEW x, NEW D, NEW R, x.st # "PAUSED"
  PROVE  /\ Common!stop(One(s, x, D, R), s) =
              IF x.st = "STARTED" THEN One(s, Halted(x), DevsOff(D, s), Without(R, s))
              ELSE One(s, x, D, R)
         /\ Common!close(One(s, x, D, R), s) =
              IF x.st = "IDLE" THEN One(s, x, D, R)
              ELSE IF x.st = "STARTED" THEN One(s, Shut(x), DevsDown(DevsOff(D, s), s), Without(R, s))
              ELSE One(s, Shut(x), DevsDown(D, s), R)
         /\ card = "ON" /\ x.st = "IDLE" =>
              Common!open(One(s, x, D, R), s, Yes) = One(s, Opened(x), DevsUp(D, s), R)
         /\ card = "ON" /\ x.st \in {"INIT", "STOPPED"} =>
              /\ Common!start(One(s, x, D, R), s, {}, Yes) = One(s, Started(x), DevsOn(D, s), R)
              /\ Common!start(One(s, x, D, R), s, {}, No) = One(s, x, DevsOff(DevsOn(D, s), s), R)
         /\ card = "ON" /\ x.st = "IDLE" =>
              \A ok : Common!start(One(s, x, D, R), s, {}, ok) = One(s, x, D, R)
         /\ card = "OFF" =>
              \A ok : Common!start(One(s, x, D, R), s, {}, ok) = One(s, RecKept(x, "STARTED"), D, R)
<1> DEFINE S == Put(str, s, x)
<1>1. Has(S, s) /\ S[s] = x /\ \A y : Put(S, s, y) = Put(str, s, y)
  BY Again
<1>2. World(S, D, R).str = S
  BY DEF World
<1> HIDE DEF S
<1>3. Common!stop(World(S, D, R), s) =
        IF x.st = "STARTED" THEN World(Put(str, s, Halted(x)), DevsOff(D, s), Without(R, s))
        ELSE World(S, D, R)
  BY <1>1, StopIs
<1>4. x.st = "IDLE" => Common!close(World(S, D, R), s) = World(S, D, R)
  BY <1>1, <1>2 DEF Common!close
<1>5. x.st # "IDLE" =>
        Common!close(World(S, D, R), s) =
          IF x.st = "STARTED" THEN World(Put(str, s, Shut(x)), DevsDown(DevsOff(D, s), s), Without(R, s))
          ELSE World(Put(str, s, Shut(x)), DevsDown(D, s), R)
  BY <1>1, CloseIs
<1>6. card = "ON" /\ x.st = "IDLE" =>
        Common!open(World(S, D, R), s, Yes) = World(Put(str, s, Opened(x)), DevsUp(D, s), R)
  <2> SUFFICES ASSUME card = "ON", x.st = "IDLE"
               PROVE  Common!open(World(S, D, R), s, Yes)
                        = World(Put(str, s, Opened(x)), DevsUp(D, s), R)
    OBVIOUS
  <2>1. Has(S, s) /\ S[s].st = "IDLE"
    BY <1>1
  <2>2. Common!open(World(S, D, R), s, Yes) = World(Put(S, s, Opened(S[s])), DevsUp(D, s), R)
    BY <2>1, OpenIs
  <2> QED
    BY <1>1, <2>2
<1>7. card = "ON" /\ x.st \in {"INIT", "STOPPED"} =>
        /\ Common!start(World(S, D, R), s, {}, Yes) = World(Put(str, s, Started(x)), DevsOn(D, s), R)
        /\ Common!start(World(S, D, R), s, {}, No) = World(S, DevsOff(DevsOn(D, s), s), R)
  <2> SUFFICES ASSUME card = "ON", x.st \in {"INIT", "STOPPED"}
               PROVE  /\ Common!start(World(S, D, R), s, {}, Yes)
                           = World(Put(str, s, Started(x)), DevsOn(D, s), R)
                      /\ Common!start(World(S, D, R), s, {}, No) = World(S, DevsOff(DevsOn(D, s), s), R)
    OBVIOUS
  <2>1. Has(S, s) /\ S[s].st \in {"INIT", "STOPPED"}
    BY <1>1
  <2>2. /\ Common!start(World(S, D, R), s, {}, Yes) = World(Put(S, s, Started(S[s])), DevsOn(D, s), R)
        /\ Common!start(World(S, D, R), s, {}, No) = World(S, DevsOff(DevsOn(D, s), s), R)
    BY <2>1, StartIs
  <2> QED
    BY <1>1, <2>2
<1>8. card = "ON" /\ x.st = "IDLE" => \A ok : Common!start(World(S, D, R), s, {}, ok) = World(S, D, R)
  BY <1>1, <1>2 DEF Common!start
<1>9. ASSUME card = "OFF", NEW ok
      PROVE  Common!start(World(S, D, R), s, {}, ok) = World(Put(str, s, RecKept(x, "STARTED")), D, R)
  <2>1. Common!start(World(S, D, R), s, {}, ok) = SetKept(World(S, D, R), s, "STARTED")
    BY <1>9 DEF Common!start, SetKept
  <2>0. Has(S, s)
    BY <1>1
  <2>2. SetKept(World(S, D, R), s, "STARTED") = World(Put(S, s, RecKept(S[s], "STARTED")), D, R)
    BY <2>0, SetOne
  <2> QED
    BY <1>1, <2>1, <2>2
<1>10. \A y, E, Q : One(s, y, E, Q) = World(Put(str, s, y), E, Q)
  BY DEF One
<1>11. One(s, x, D, R) = World(S, D, R)
  BY DEF One, S
<1>12. One(s, x, DevsOff(DevsOn(D, s), s), R) = World(S, DevsOff(DevsOn(D, s), s), R)
  BY DEF One, S
<1>13. Common!stop(One(s, x, D, R), s) =
         IF x.st = "STARTED" THEN One(s, Halted(x), DevsOff(D, s), Without(R, s)) ELSE One(s, x, D, R)
  BY <1>3, <1>10, <1>11
<1>14. Common!close(One(s, x, D, R), s) =
         IF x.st = "IDLE" THEN One(s, x, D, R)
         ELSE IF x.st = "STARTED" THEN One(s, Shut(x), DevsDown(DevsOff(D, s), s), Without(R, s))
         ELSE One(s, Shut(x), DevsDown(D, s), R)
  BY <1>4, <1>5, <1>10, <1>11
<1>15. card = "ON" /\ x.st = "IDLE" =>
         Common!open(One(s, x, D, R), s, Yes) = One(s, Opened(x), DevsUp(D, s), R)
  BY <1>6, <1>10, <1>11
<1>16. card = "ON" /\ x.st \in {"INIT", "STOPPED"} =>
         /\ Common!start(One(s, x, D, R), s, {}, Yes) = One(s, Started(x), DevsOn(D, s), R)
         /\ Common!start(One(s, x, D, R), s, {}, No) = One(s, x, DevsOff(DevsOn(D, s), s), R)
  BY <1>7, <1>10, <1>11, <1>12
<1>17. card = "ON" /\ x.st = "IDLE" =>
         \A ok : Common!start(One(s, x, D, R), s, {}, ok) = One(s, x, D, R)
  BY <1>8, <1>11
<1>18. card = "OFF" =>
         \A ok : Common!start(One(s, x, D, R), s, {}, ok) = One(s, RecKept(x, "STARTED"), D, R)
  BY <1>9, <1>10, <1>11
<1> QED
  BY <1>13, <1>14, <1>15, <1>16, <1>17, <1>18

(***************************************************************************)
(* A gain leaves the rest of the stream as it was.                         *)
(***************************************************************************)
LEMMA TonedIs ==
  ASSUME NEW x \in CommonRec, NEW g \in CommonGains
  PROVE  /\ Toned(x, g) \in CommonRec /\ Toned(x, g).st = x.st
         /\ (Toned(x, g).run <=> x.run) /\ (Toned(x, g).sess <=> x.sess)
         /\ Toned(x, g).cached = x.cached /\ Toned(x, g).ask = x.ask
         /\ Toned(x, g).gain = g /\ (x.gain = x.dsp => Toned(x, g).dsp = g)
<1>1. CASE x.gain = g
  BY <1>1 DEF Toned
<1>2. CASE x.gain # g
  <2>1. Toned(x, g) = RecGain(x, g, g)
    BY <1>2 DEF Toned
  <2>2. /\ RecGain(x, g, g) \in CommonRec /\ RecGain(x, g, g).st = x.st
        /\ (RecGain(x, g, g).run <=> x.run) /\ (RecGain(x, g, g).sess <=> x.sess)
        /\ RecGain(x, g, g).cached = x.cached /\ RecGain(x, g, g).ask = x.ask
        /\ RecGain(x, g, g).gain = g /\ RecGain(x, g, g).dsp = g
    BY RecsToo DEF CommonStates
  <2> QED
    BY <2>1, <2>2
<1> QED
  BY <1>1, <1>2

(***************************************************************************)
(* While the worker and the card do nothing, streams are settled and shut  *)
(* as they were.                                                           *)
(***************************************************************************)
LEMMA SameWork ==
  ASSUME CommonInv, card' = card, work' = work
  PROVE  /\ CommonWork'
         /\ work' \in CommonJobs
         /\ \A t : (CommonSettled(t)' <=> CommonSettled(t)) /\ (CommonShut(t)' <=> CommonShut(t))
  BY DEF CommonInv, CommonTypes, CommonWork, CommonSettled, CommonShut

(***************************************************************************)
(* When the worker turns to a part of one stream, the others are as they   *)
(* were.                                                                   *)
(***************************************************************************)
LEMMA TurnIs ==
  ASSUME CommonInv, card' = card, NEW s \in Common!Streams,
         (work.s = {} /\ s \in work.todo) \/ work.s = {s},
         NEW at, Common!Turn(s, at),
         \/ work.kind = "down" /\ at \in {"done", "stop", "close"}
         \/ work.kind = "up" /\ at \in {"done", "start"}
  PROVE  /\ CommonWork'
         /\ work' \in CommonJobs
         /\ \A t : t # s => /\ (CommonSettled(t)' <=> CommonSettled(t)) /\ (CommonShut(t)' <=> CommonShut(t))
                            /\ t \notin work'.s
         /\ CommonSettled(s)' <=> work.kind = "up" /\ at = "done"
         /\ CommonShut(s)' <=> work.kind = "down" /\ at = "done"
         /\ s \in work'.s <=> at # "done"
         /\ work'.at = at
<1>0. CommonWork /\ work \in CommonJobs
  BY DEF CommonInv, CommonTypes
<1>1. /\ work' \in CommonJobs
      /\ work'.kind = work.kind /\ work'.todo = work.todo \ {s} /\ work'.at = at
      /\ work'.s = IF at = "done" THEN {} ELSE {s}
  BY <1>0 DEF Common!Turn, CommonJobs
<1>2. CommonWork'
  BY <1>0, <1>1 DEF CommonWork
<1>3. ASSUME NEW t, t # s
      PROVE  /\ (CommonSettled(t)' <=> CommonSettled(t)) /\ (CommonShut(t)' <=> CommonShut(t))
             /\ t \notin work'.s
  BY <1>0, <1>1, <1>3 DEF CommonSettled, CommonShut
<1>4. /\ CommonSettled(s)' <=> work.kind = "up" /\ at = "done"
      /\ CommonShut(s)' <=> work.kind = "down" /\ at = "done"
  BY <1>0, <1>1 DEF CommonSettled, CommonShut
<1> QED
  BY <1>1, <1>2, <1>3, <1>4

(***************************************************************************)
(* It holds at first.                                                      *)
(***************************************************************************)
LEMMA CommonStarts ==
  ASSUME Common!CommonAssumption, ~Hasty, Common!Init
  PROVE  CommonInv
<1>1. CommonTypes
  <2>1. Common!New \in CommonRec
    BY DEF CommonRec, CommonStates, CommonGains, Common!New, Common!None
  <2>2. str \in [Common!Streams -> CommonRec]
    BY <2>1 DEF Common!Init
  <2>3. devs \in CommonDevs
    BY DEF Common!Init, CommonDevs
  <2>4. Common!NoOp \in CommonOps
    BY DEF CommonOps, CommonGains, Common!NoOp, Common!None
  <2>5. op \in [Common!Streams -> CommonOps]
    BY <2>4 DEF Common!Init
  <2>6. work \in CommonJobs
    BY DEF Common!Init, Common!Idle, Common!None, CommonJobs
  <2>7. reg = {} /\ card = "ON" /\ downs \in 0 .. MaxDowns
    BY DEF Common!Init, Common!CommonAssumption
  <2>8. speaker \in BOOLEAN
    BY DEF Common!Init
  <2> QED
    BY <2>2, <2>3, <2>5, <2>6, <2>7, <2>8 DEF CommonTypes, CommonOps
<1>2. CommonWork
  BY DEF Common!Init, CommonWork, Common!Idle, Common!None
<1>3. CommonCounts
  <2>1. ASSUME NEW d PROVE OpenOn(d) = {} /\ StartOn(d) = {}
    BY DEF Common!Init, OpenOn, StartOn, Common!New
  <2>2. \A d \in Common!Devices : devs[d].open = 0 /\ devs[d].start = 0
    BY DEF Common!Init
  <2> QED
    BY <2>1, <2>2, FS_EmptySet DEF CommonCounts
<1>4. ASSUME NEW s \in Common!Streams PROVE AskInv(s) /\ GainInv(s)
  BY DEF Common!Init, AskInv, GainInv, CommonSettled, CommonShut, Meant,
         Common!New, Common!NoOp, Common!Idle,
     Common!None
<1> QED
  BY <1>1, <1>2, <1>3, <1>4 DEF CommonInv

(***************************************************************************)
(* What is asked is remembered with what is done.                          *)
(***************************************************************************)
LEMMA AsksIs ==
  ASSUME NEW s, Has(str, s), NEW x, NEW D, NEW R, NEW a, Common!Asks(One(s, x, D, R), s, a)
  PROVE  /\ str' = Put(str, s, RecAsk(x, a)) /\ devs' = D /\ reg' = R
         /\ UNCHANGED <<speaker, card, work, downs>>
<1>1. /\ Common!Becomes(SetAsk(One(s, x, D, R), s, a))
      /\ UNCHANGED <<speaker, card, work, downs>>
  BY DEF Common!Asks, SetAsk
<1>2. Common!Becomes(One(s, RecAsk(x, a), D, R))
  BY <1>1, OneSets
<1> QED
  BY <1>1, <1>2, OneBecomes

(***************************************************************************)
(* A client opens its stream.                                              *)
(***************************************************************************)
LEMMA CommonOpens ==
  ASSUME Common!CommonAssumption, ~Hasty, CommonInv, NEW s \in Common!Streams, Common!Open(s)
  PROVE  CommonInv'
<1> DEFINE x == str[s]
<1>0. /\ CommonTypes /\ CommonWork /\ AskInv(s) /\ (OneUpd => GainInv(s))
      /\ x \in CommonRec /\ op[s] \in CommonOps /\ op = [op EXCEPT ![s] = op[s]]
  BY DEF CommonInv, CommonTypes, CommonOps
<1>1. Has(str, s) /\ Common!W = One(s, x, devs, reg) /\ str = Put(str, s, x)
  BY <1>0, OneIs
<1>2. work.kind = "none" /\ x.ask = "none" /\ card = "ON" /\ op[s].at = "none" /\ op' = op
  BY DEF Common!Open, Common!Calm, Common!None, Common!Busy
<1>3. Common!Asks(Common!open(Common!W, s, Yes), s, "INIT")
  BY DEF Common!Open, Yes
<1>4. CommonSettled(s) /\ x.st = "IDLE"
  BY <1>0, <1>2 DEF AskInv, CommonSettled, Meant
<1>5. Common!open(One(s, x, devs, reg), s, Yes) = One(s, Opened(x), DevsUp(devs, s), reg)
  BY <1>1, <1>2, <1>4, OneMoves
<1> DEFINE y == RecAsk(Opened(x), "INIT")
<1>6. /\ str' = Put(str, s, y) /\ devs' = DevsUp(devs, s) /\ reg' = reg
      /\ UNCHANGED <<speaker, card, work, downs>>
  BY <1>1, <1>3, <1>5, AsksIs
<1>7. /\ y \in CommonRec /\ y.st = "INIT" /\ y.sess /\ (y.run <=> x.run) /\ y.cached = x.cached
      /\ y.ask = "INIT" /\ y.gain = x.gain /\ y.dsp = "mute"
  BY <1>0, RecsAre, RecsToo DEF CommonStates, CommonGains
<1>8. str'[s] = y
  BY <1>1, <1>6, Again
<1> HIDE DEF y
<1>9. /\ CommonWork'
      /\ work' \in CommonJobs
      /\ \A t : (CommonSettled(t)' <=> CommonSettled(t)) /\ (CommonShut(t)' <=> CommonShut(t))
  BY <1>6, SameWork
<1>10. AskInv(s)'
  BY <1>0, <1>2, <1>4, <1>6, <1>7, <1>8, <1>9 DEF AskInv, Meant, CommonWork, CommonShut
<1>11. OneUpd => GainInv(s)'
  BY <1>0, <1>2, <1>4, <1>6, <1>7, <1>8 DEF GainInv, Common!Wanted
<1> QED
  BY <1>0, <1>2, <1>4, <1>6, <1>7, <1>9, <1>10, <1>11, OneKeeps DEF DevsMove, RegMoves

(***************************************************************************)
(* A client starts its stream, or asks while the card is gone.             *)
(***************************************************************************)
LEMMA CommonStartsOne ==
  ASSUME Common!CommonAssumption, ~Hasty, CommonInv, NEW s \in Common!Streams, Common!Start(s)
  PROVE  CommonInv'
<1> DEFINE x == str[s]
<1>0. /\ CommonTypes /\ CommonWork /\ AskInv(s) /\ (OneUpd => GainInv(s))
      /\ x \in CommonRec /\ op[s] \in CommonOps /\ op = [op EXCEPT ![s] = op[s]]
  BY DEF CommonInv, CommonTypes, CommonOps
<1>1. Has(str, s) /\ Common!W = One(s, x, devs, reg) /\ str = Put(str, s, x)
  BY <1>0, OneIs
<1>2. /\ work.kind = "none" /\ x.ask \in {"INIT", "STOPPED"} /\ op[s].at = "none"
      /\ card = "OFF" => x.cached = "INIT"
  BY DEF Common!Start, Common!Calm, Common!None, Common!Busy
<1>3. PICK ok \in BOOLEAN :
        LET w == Common!start(Common!W, s, {}, ok)
            done == card = "OFF" \/ w.str[s].st = "STARTED"
        IN /\ Common!Asks(w, s, IF done THEN "STARTED" ELSE x.ask)
           /\ op' = [op EXCEPT ![s] = IF w.str[s].st = "STARTED" THEN [Common!NoOp EXCEPT !.at = "register"]
                                      ELSE Common!NoOp]
  BY DEF Common!Start
<1>4. ok = Yes \/ ok = No
  BY DEF Yes, No
<1>5. card \in {"ON", "OFF"}
  BY <1>0 DEF CommonTypes
<1>6. Common!NoOp \in CommonOps /\ [Common!NoOp EXCEPT !.at = "register"] \in CommonOps
      /\ Common!NoOp.at = "none" /\ [Common!NoOp EXCEPT !.at = "register"].at = "register"
  BY DEF Common!NoOp, CommonOps, CommonGains, Common!None
<1>7. ASSUME NEW z \in CommonRec, NEW D, NEW R, NEW a \in {"INIT", "STARTED", "STOPPED"},
             Common!start(One(s, x, devs, reg), s, {}, ok) = One(s, z, D, R),
             a = IF card = "OFF" \/ z.st = "STARTED" THEN "STARTED" ELSE x.ask
      PROVE  /\ str' = Put(str, s, RecAsk(z, a)) /\ devs' = D /\ reg' = R
             /\ UNCHANGED <<speaker, card, work, downs>>
             /\ op' = [op EXCEPT ![s] = IF z.st = "STARTED" THEN [Common!NoOp EXCEPT !.at = "register"]
                                        ELSE Common!NoOp]
             /\ CommonWork'
             /\ work' \in CommonJobs
             /\ \A t : (CommonSettled(t)' <=> CommonSettled(t)) /\ (CommonShut(t)' <=> CommonShut(t))
             /\ str'[s] = RecAsk(z, a)
             /\ RecAsk(z, a) \in CommonRec /\ RecAsk(z, a).st = z.st /\ (RecAsk(z, a).run <=> z.run)
             /\ (RecAsk(z, a).sess <=> z.sess) /\ RecAsk(z, a).cached = z.cached
             /\ RecAsk(z, a).ask = a
             /\ RecAsk(z, a).gain = z.gain /\ RecAsk(z, a).dsp = z.dsp
  <2>1. One(s, z, D, R).str[s] = z
    BY <1>1, OneBecomes
  <2>2. Common!Asks(One(s, z, D, R), s, a)
    BY <1>1, <1>3, <1>7, <2>1
  <2>3. op' = [op EXCEPT ![s] = IF z.st = "STARTED" THEN [Common!NoOp EXCEPT !.at = "register"]
                                 ELSE Common!NoOp]
    BY <1>1, <1>3, <1>7, <2>1
  <2>4. /\ str' = Put(str, s, RecAsk(z, a)) /\ devs' = D /\ reg' = R
        /\ UNCHANGED <<speaker, card, work, downs>>
    BY <1>1, <2>2, AsksIs
  <2>5. str'[s] = RecAsk(z, a)
    BY <1>1, <2>4, Again
  <2>6. /\ RecAsk(z, a) \in CommonRec /\ RecAsk(z, a).st = z.st /\ (RecAsk(z, a).run <=> z.run)
        /\ (RecAsk(z, a).sess <=> z.sess) /\ RecAsk(z, a).cached = z.cached /\ RecAsk(z, a).ask = a
        /\ RecAsk(z, a).gain = z.gain /\ RecAsk(z, a).dsp = z.dsp
    BY RecsToo DEF CommonStates, CommonGains
  <2>7. /\ CommonWork'
        /\ work' \in CommonJobs
        /\ \A t : (CommonSettled(t)' <=> CommonSettled(t)) /\ (CommonShut(t)' <=> CommonShut(t))
    BY <2>4, SameWork
  <2> QED
    BY <2>3, <2>4, <2>5, <2>6, <2>7
<1>8. CASE card = "OFF"
  <2>1. ~CommonSettled(s) /\ CommonShut(s) /\ x.st = "IDLE"
    BY <1>0, <1>2, <1>8 DEF AskInv, CommonSettled, CommonShut
  <2> DEFINE z == RecKept(x, "STARTED")
             y == RecAsk(z, "STARTED")
  <2>2. Common!start(One(s, x, devs, reg), s, {}, ok) = One(s, z, devs, reg)
    BY <1>0, <1>1, <1>8, OneMoves DEF CommonRec, CommonStates
  <2>3. /\ z \in CommonRec /\ z.st = x.st /\ (z.run <=> x.run) /\ (z.sess <=> x.sess)
        /\ z.cached = "STARTED"
        /\ z.gain = x.gain /\ z.dsp = x.dsp
    BY <1>0, RecsToo DEF CommonStates, CommonGains
  <2> HIDE DEF z
  <2>4. /\ str' = Put(str, s, y) /\ devs' = devs /\ reg' = reg
        /\ UNCHANGED <<speaker, card, work, downs>> /\ op' = [op EXCEPT ![s] = Common!NoOp]
        /\ str'[s] = y
        /\ y \in CommonRec /\ y.st = z.st /\ (y.run <=> z.run) /\ (y.sess <=> z.sess)
        /\ y.cached = z.cached /\ y.ask = "STARTED" /\ y.gain = z.gain /\ y.dsp = z.dsp
        /\ CommonWork'
        /\ work' \in CommonJobs
        /\ \A t : (CommonSettled(t)' <=> CommonSettled(t)) /\ (CommonShut(t)' <=> CommonShut(t))
    BY <1>7, <1>8, <2>1, <2>2, <2>3
  <2>5. op'[s] = Common!NoOp
    BY <1>0, <2>4 DEF CommonTypes
  <2> HIDE DEF y
  <2>6. AskInv(s)'
    BY <1>0, <1>2, <1>6, <2>1, <2>3, <2>4, <2>5 DEF AskInv, Meant, CommonWork
  <2>7. OneUpd => GainInv(s)'
    BY <1>0, <1>2, <1>6, <2>1, <2>3, <2>4, <2>5 DEF GainInv, Common!Wanted
  <2>8. y.st = x.st
    BY <2>3, <2>4
  <2> QED
    BY <1>6, <2>4, <2>6, <2>7, <2>8, OneKeeps DEF DevsMove, RegMoves
<1>9. ASSUME card = "ON" PROVE CommonSettled(s) /\ x.st \in Meant(x.ask)
  BY <1>0, <1>2, <1>9 DEF AskInv, CommonSettled
<1>10. CASE card = "ON" /\ (x.st = "IDLE" \/ ok = No)
  <2>1. Common!start(One(s, x, devs, reg), s, {}, ok) = One(s, x, devs, reg)
    <3>0. x.st # "PAUSED"
      BY <1>0 DEF CommonRec, CommonStates
    <3>1. ASSUME x.st = "IDLE"
          PROVE  Common!start(One(s, x, devs, reg), s, {}, ok) = One(s, x, devs, reg)
      <4>1. \A c : Common!start(One(s, x, devs, reg), s, {}, c) = One(s, x, devs, reg)
        BY <1>1, <1>10, <3>1, OneMoves
      <4> QED
        BY <4>1
    <3>2. ASSUME x.st # "IDLE"
          PROVE  Common!start(One(s, x, devs, reg), s, {}, ok) = One(s, x, devs, reg)
      <4>1. x.st \in {"INIT", "STOPPED"} /\ ok = No
        BY <1>2, <1>9, <1>10, <3>2 DEF Meant
      <4>2. Common!start(One(s, x, devs, reg), s, {}, No) = One(s, x, DevsOff(DevsOn(devs, s), s), reg)
        BY <1>1, <1>10, <4>1, OneMoves
      <4>3. DevsOff(DevsOn(devs, s), s) = devs
        BY <1>0, DevsBack DEF CommonTypes
      <4> QED
        BY <4>1, <4>2, <4>3
    <3> QED
      BY <3>1, <3>2
  <2> DEFINE y == RecAsk(x, x.ask)
  <2>2. x.st # "STARTED" /\ x.ask \in {"INIT", "STARTED", "STOPPED"}
    BY <1>2, <1>9, <1>10 DEF Meant
  <2>3. /\ str' = Put(str, s, y) /\ devs' = devs /\ reg' = reg
        /\ UNCHANGED <<speaker, card, work, downs>> /\ op' = [op EXCEPT ![s] = Common!NoOp]
        /\ str'[s] = y
        /\ y \in CommonRec /\ y.st = x.st /\ (y.run <=> x.run) /\ (y.sess <=> x.sess)
        /\ y.cached = x.cached /\ y.ask = x.ask /\ y.gain = x.gain /\ y.dsp = x.dsp
        /\ CommonWork'
        /\ work' \in CommonJobs
        /\ \A t : (CommonSettled(t)' <=> CommonSettled(t)) /\ (CommonShut(t)' <=> CommonShut(t))
    BY <1>0, <1>7, <1>10, <2>1, <2>2
  <2>4. op'[s] = Common!NoOp
    BY <1>0, <2>3 DEF CommonTypes
  <2> HIDE DEF y
  <2>5. AskInv(s)'
    BY <1>0, <1>2, <1>6, <1>9, <1>10, <2>3, <2>4 DEF AskInv, Meant, CommonWork
  <2>6. OneUpd => GainInv(s)'
    BY <1>0, <1>2, <1>6, <2>2, <2>3, <2>4 DEF GainInv, Common!Wanted
  <2> QED
    BY <1>6, <2>3, <2>5, <2>6, OneKeeps DEF DevsMove, RegMoves
<1>11. CASE card = "ON" /\ x.st # "IDLE" /\ ok = Yes
  <2> DEFINE z == Started(x)
             y == RecAsk(z, "STARTED")
             o == [Common!NoOp EXCEPT !.at = "register"]
  <2>1. x.st \in {"INIT", "STOPPED"}
    BY <1>2, <1>9, <1>11 DEF Meant
  <2>2. Common!start(One(s, x, devs, reg), s, {}, ok) = One(s, z, DevsOn(devs, s), reg)
    BY <1>1, <1>11, <2>1, OneMoves
  <2>3. /\ z \in CommonRec /\ z.st = "STARTED" /\ z.run /\ (z.sess <=> x.sess)
        /\ z.cached = x.cached
        /\ z.gain = x.gain /\ z.dsp = x.dsp
    BY <1>0, RecsAre
  <2> HIDE DEF z
  <2>4. /\ str' = Put(str, s, y) /\ devs' = DevsOn(devs, s) /\ reg' = reg
        /\ UNCHANGED <<speaker, card, work, downs>> /\ op' = [op EXCEPT ![s] = o] /\ str'[s] = y
        /\ y \in CommonRec /\ y.st = z.st /\ (y.run <=> z.run) /\ (y.sess <=> z.sess)
        /\ y.cached = z.cached /\ y.ask = "STARTED" /\ y.gain = z.gain /\ y.dsp = z.dsp
        /\ CommonWork'
        /\ work' \in CommonJobs
        /\ \A t : (CommonSettled(t)' <=> CommonSettled(t)) /\ (CommonShut(t)' <=> CommonShut(t))
    BY <1>7, <1>11, <2>2, <2>3
  <2>5. op'[s] = o
    BY <1>0, <2>4 DEF CommonTypes
  <2>6. o \in CommonOps /\ o.at = "register"
    BY <1>6
  <2> HIDE DEF y, o
  <2>7. AskInv(s)'
    BY <1>0, <1>2, <1>9, <1>11, <2>1, <2>3, <2>4, <2>5, <2>6
       DEF AskInv, Meant, CommonWork, CommonShut
  <2>8. OneUpd => GainInv(s)'
    BY <1>0, <1>2, <2>1, <2>3, <2>4, <2>5, <2>6 DEF GainInv, Common!Wanted
  <2>9. y.st = "STARTED"
    BY <2>3, <2>4
  <2> QED
    BY <2>1, <2>4, <2>6, <2>7, <2>8, <2>9, OneKeeps DEF DevsMove, RegMoves
<1> QED
  BY <1>4, <1>5, <1>8, <1>10, <1>11

Quiet(s, x) == IF s \in Upds /\ x.st = "STARTED" THEN Toned(x, "mute") ELSE x

(***************************************************************************)
(* A stop mutes an ultrasound stream that runs.                            *)
(***************************************************************************)
LEMMA MutesIs ==
  ASSUME NEW s, Has(str, s), NEW x, NEW D, NEW R, x.st # "PAUSED"
  PROVE  Common!Mutes(One(s, x, D, R), s) = One(s, Quiet(s, x), D, R)
<1>1. One(s, x, D, R).str[s] = x
  BY OneBecomes
<1>2. Common!setUltraSoundGain_l(One(s, x, D, R), s, "mute") = One(s, Toned(x, "mute"), D, R)
  BY OneSets
<1> QED
  BY <1>1, <1>2 DEF Common!Mutes, Common!Running, Quiet

(***************************************************************************)
(* And nothing else of it.                                                 *)
(***************************************************************************)
LEMMA QuietIs ==
  ASSUME NEW s, NEW x \in CommonRec
  PROVE  /\ Quiet(s, x) \in CommonRec /\ Quiet(s, x).st = x.st
         /\ (Quiet(s, x).run <=> x.run) /\ (Quiet(s, x).sess <=> x.sess)
         /\ Quiet(s, x).cached = x.cached /\ Quiet(s, x).ask = x.ask
         /\ x.gain = x.dsp => Quiet(s, x).gain = Quiet(s, x).dsp
         /\ (x.st # "STARTED" \/ s \notin Upds => x.gain = "mute") => Quiet(s, x).gain = "mute"
<1>1. "mute" \in CommonGains
  BY DEF CommonGains
<1>2. CASE s \in Upds /\ x.st = "STARTED"
  <2>1. Quiet(s, x) = Toned(x, "mute")
    BY <1>2 DEF Quiet
  <2>2. /\ Toned(x, "mute") \in CommonRec /\ Toned(x, "mute").st = x.st
        /\ (Toned(x, "mute").run <=> x.run) /\ (Toned(x, "mute").sess <=> x.sess)
        /\ Toned(x, "mute").cached = x.cached /\ Toned(x, "mute").ask = x.ask
        /\ Toned(x, "mute").gain = "mute" /\ (x.gain = x.dsp => Toned(x, "mute").dsp = "mute")
    BY <1>1, TonedIs
  <2> QED
    BY <2>1, <2>2
<1>3. CASE ~(s \in Upds /\ x.st = "STARTED")
  BY <1>3 DEF Quiet
<1> QED
  BY <1>2, <1>3

(***************************************************************************)
(* A client stops its stream; an ultrasound stream is muted, and stopped   *)
(* after.                                                                  *)
(***************************************************************************)
LEMMA CommonStops ==
  ASSUME Common!CommonAssumption, ~Hasty, CommonInv, NEW s \in Common!Streams, Common!Stop(s)
  PROVE  CommonInv'
<1> DEFINE x == str[s]
<1>0. /\ CommonTypes /\ CommonWork /\ AskInv(s) /\ (OneUpd => GainInv(s))
      /\ x \in CommonRec /\ op[s] \in CommonOps /\ op = [op EXCEPT ![s] = op[s]]
  BY DEF CommonInv, CommonTypes, CommonOps
<1>1. Has(str, s) /\ Common!W = One(s, x, devs, reg) /\ str = Put(str, s, x)
  BY <1>0, OneIs
<1>p. x.st \in CommonStates /\ x.st # "PAUSED"
  BY <1>0 DEF CommonRec, CommonStates
<1>2. work.kind = "none" /\ x.ask = "STARTED" /\ card = "ON" /\ op[s].at = "none"
  BY DEF Common!Stop, Common!Calm, Common!None, Common!Busy
<1>3. CommonSettled(s) /\ x.st = "STARTED" /\ x.cached = "IDLE"
  BY <1>0, <1>2 DEF AskInv, CommonSettled, Meant
<1>4. CASE s \in Upds
  <2> DEFINE q == Quiet(s, x)
             y == RecAsk(q, "STOPPED")
             o == [op[s] EXCEPT !.at = "stop"]
  <2>1. /\ Common!Asks(Common!Mutes(Common!W, s), s, "STOPPED")
        /\ op' = [op EXCEPT ![s].at = "stop"]
    BY <1>4 DEF Common!Stop
  <2>2. o \in CommonOps /\ o.at = "stop" /\ op' = [op EXCEPT ![s] = o] /\ op'[s] = o
    BY <1>0, <2>1 DEF CommonTypes, CommonOps
  <2>3. Common!Mutes(One(s, x, devs, reg), s) = One(s, q, devs, reg)
    BY <1>1, <1>p, MutesIs
  <2>4. /\ q \in CommonRec /\ q.st = x.st /\ (q.run <=> x.run) /\ (q.sess <=> x.sess)
        /\ q.cached = x.cached /\ q.ask = x.ask
        /\ x.gain = x.dsp => q.gain = q.dsp
        /\ (x.st # "STARTED" \/ s \notin Upds => x.gain = "mute") => q.gain = "mute"
    BY <1>0, QuietIs
  <2> HIDE DEF q, o
  <2>5. /\ str' = Put(str, s, y) /\ devs' = devs /\ reg' = reg
        /\ UNCHANGED <<speaker, card, work, downs>>
    BY <1>1, <2>1, <2>3, AsksIs
  <2>6. /\ y \in CommonRec /\ y.st = q.st /\ (y.run <=> q.run) /\ (y.sess <=> q.sess)
        /\ y.cached = q.cached
        /\ y.ask = "STOPPED" /\ y.gain = q.gain /\ y.dsp = q.dsp
    BY <2>4, RecsToo DEF CommonStates, CommonGains
  <2>7. str'[s] = y
    BY <1>1, <2>5, Again
  <2> HIDE DEF y
  <2>8. /\ CommonWork'
        /\ work' \in CommonJobs
        /\ \A t : (CommonSettled(t)' <=> CommonSettled(t)) /\ (CommonShut(t)' <=> CommonShut(t))
    BY <2>5, SameWork
  <2>9. AskInv(s)'
    BY <1>0, <1>2, <1>3, <1>4, <2>2, <2>4, <2>5, <2>6, <2>7, <2>8 DEF AskInv, CommonWork, CommonShut
  <2>10. OneUpd => GainInv(s)'
    BY <1>0, <1>3, <1>4, <2>2, <2>4, <2>5, <2>6, <2>7 DEF GainInv, Common!Wanted
  <2>11. y.st = x.st
    BY <2>4, <2>6
  <2> QED
    BY <2>2, <2>5, <2>6, <2>8, <2>9, <2>10, <2>11, OneKeeps DEF DevsMove, RegMoves
<1>5. CASE s \notin Upds
  <2> DEFINE q == Halted(x)
             y == RecAsk(q, "STOPPED")
  <2>1. Common!Asks(Common!stop(Common!W, s), s, "STOPPED") /\ op' = op
    BY <1>5 DEF Common!Stop
  <2>3. Common!stop(One(s, x, devs, reg), s) = One(s, q, DevsOff(devs, s), Without(reg, s))
    BY <1>1, <1>p, <1>3, OneMoves
  <2>4. /\ q \in CommonRec /\ q.st = "STOPPED" /\ ~q.run /\ (q.sess <=> x.sess)
        /\ q.cached = x.cached /\ q.ask = x.ask /\ q.gain = x.gain /\ q.dsp = x.dsp
    BY <1>0, RecsAre
  <2> HIDE DEF q
  <2>5. /\ str' = Put(str, s, y) /\ devs' = DevsOff(devs, s) /\ reg' = Without(reg, s)
        /\ UNCHANGED <<speaker, card, work, downs>>
    BY <1>1, <2>1, <2>3, AsksIs
  <2>6. /\ y \in CommonRec /\ y.st = q.st /\ (y.run <=> q.run) /\ (y.sess <=> q.sess)
        /\ y.cached = q.cached
        /\ y.ask = "STOPPED" /\ y.gain = q.gain /\ y.dsp = q.dsp
    BY <2>4, RecsToo DEF CommonStates, CommonGains
  <2>7. str'[s] = y
    BY <1>1, <2>5, Again
  <2> HIDE DEF y
  <2>8. /\ CommonWork'
        /\ work' \in CommonJobs
        /\ \A t : (CommonSettled(t)' <=> CommonSettled(t)) /\ (CommonShut(t)' <=> CommonShut(t))
    BY <2>5, SameWork
  <2>9. AskInv(s)'
    BY <1>0, <1>2, <1>3, <1>5, <2>1, <2>4, <2>5, <2>6, <2>7, <2>8
       DEF AskInv, CommonWork, CommonShut, Meant, Without
  <2>10. OneUpd => GainInv(s)'
    BY <1>0, <1>2, <1>3, <1>5, <2>1, <2>4, <2>5, <2>6, <2>7 DEF GainInv, Common!Wanted
  <2>11. y.st = "STOPPED" /\ op' = [op EXCEPT ![s] = op[s]]
    BY <1>0, <2>1, <2>4, <2>6
  <2> QED
    BY <1>0, <1>3, <2>5, <2>6, <2>8, <2>9, <2>10, <2>11, OneKeeps DEF DevsMove, RegMoves
<1> QED
  BY <1>4, <1>5

(***************************************************************************)
(* A client closes its stream, and the stream is deleted.                  *)
(***************************************************************************)
LEMMA CommonCloses ==
  ASSUME Common!CommonAssumption, ~Hasty, CommonInv, NEW s \in Common!Streams, Common!Close(s)
  PROVE  CommonInv'
<1> DEFINE x == str[s]
<1>0. /\ CommonTypes /\ CommonWork /\ AskInv(s) /\ (OneUpd => GainInv(s))
      /\ x \in CommonRec /\ op[s] \in CommonOps /\ op = [op EXCEPT ![s] = op[s]]
  BY DEF CommonInv, CommonTypes, CommonOps
<1>1. Has(str, s) /\ Common!W = One(s, x, devs, reg) /\ str = Put(str, s, x)
  BY <1>0, OneIs
<1>p. x.st \in CommonStates /\ x.st # "PAUSED"
  BY <1>0 DEF CommonRec, CommonStates
<1> DEFINE q == Quiet(s, x)
<1>2. /\ work.kind = "none" /\ x.ask # "none" /\ op[s].at = "none" /\ op' = op
      /\ UNCHANGED <<speaker, card, work, downs>>
  BY DEF Common!Close, Common!Calm, Common!None, Common!Busy
<1>3. Common!Mutes(One(s, x, devs, reg), s) = One(s, q, devs, reg)
  BY <1>1, <1>p, MutesIs
<1>4. /\ q \in CommonRec /\ q.st = x.st /\ (q.run <=> x.run) /\ (q.sess <=> x.sess)
      /\ q.cached = x.cached /\ q.ask = x.ask
      /\ x.gain = x.dsp => q.gain = q.dsp
      /\ (x.st # "STARTED" \/ s \notin Upds => x.gain = "mute") => q.gain = "mute"
  BY <1>0, QuietIs
<1> HIDE DEF q
<1>5. ASSUME NEW z \in CommonRec, NEW D, NEW R, ~z.sess,
             Common!close(One(s, q, devs, reg), s) = One(s, z, D, R)
      PROVE  str' = Put(str, s, Common!New) /\ devs' = D /\ reg' = R
  <2>1. One(s, z, D, R).str[s] = z
    BY <1>1, OneBecomes
  <2>2. LET w == Common!close(Common!Mutes(Common!W, s), s)
        IN Common!Becomes([w EXCEPT !.str[s] = [Common!New EXCEPT !.sess = w.str[s].sess]])
    BY DEF Common!Close
  <2>3. LET w == Common!close(Common!Mutes(Common!W, s), s)
        IN Common!Becomes(SetStr(w, s, [Common!New EXCEPT !.sess = w.str[s].sess]))
    BY <2>2 DEF SetStr
  <2>4. Common!Becomes(SetStr(One(s, z, D, R), s, [Common!New EXCEPT !.sess = z.sess]))
    BY <1>1, <1>3, <1>5, <2>1, <2>3
  <2>5. [Common!New EXCEPT !.sess = z.sess] = Common!New
    <3>1. z.sess = No
      BY <1>5 DEF CommonRec, No
    <3>2. \A b, c, g, h, k :
            k = [st |-> c, cached |-> c, sess |-> b, run |-> b, gain |-> g, dsp |-> g, ask |-> h]
              => [k EXCEPT !.sess = b] = k
      OBVIOUS
    <3>3. Common!New = [st |-> "IDLE", cached |-> "IDLE", sess |-> No, run |-> No,
                        gain |-> "mute", dsp |-> "mute", ask |-> "none"]
      BY DEF Common!New, No, Common!None
    <3> QED
      BY <3>1, <3>2, <3>3
  <2>6. Common!Becomes(SetStr(One(s, z, D, R), s, Common!New))
    BY <2>4, <2>5
  <2>7. SetStr(One(s, z, D, R), s, Common!New) = One(s, Common!New, D, R)
    BY <1>1, OneSets
  <2> QED
    BY <2>6, <2>7, OneBecomes
<1> DEFINE y == Common!New
<1>6. /\ y \in CommonRec /\ y.st = "IDLE" /\ ~y.run /\ ~y.sess /\ y.cached = "IDLE"
      /\ y.ask = "none" /\ y.gain = "mute" /\ y.dsp = "mute"
  BY DEF CommonRec, CommonStates, CommonGains, Common!New, Common!None
<1> HIDE DEF y
<1>7. /\ CommonWork'
      /\ work' \in CommonJobs
      /\ \A t : (CommonSettled(t)' <=> CommonSettled(t)) /\ (CommonShut(t)' <=> CommonShut(t))
  BY <1>2, SameWork
<1>8. /\ str' = Put(str, s, y)
      /\ \/ devs' = devs /\ x.st = "IDLE" /\ reg' = reg
         \/ devs' = DevsDown(DevsOff(devs, s), s) /\ x.st = "STARTED" /\ reg' = Without(reg, s)
         \/ devs' = DevsDown(devs, s) /\ x.st \in {"INIT", "STOPPED"} /\ reg' = reg
  <2>1. CASE x.st = "IDLE"
    <3>1. Common!close(One(s, q, devs, reg), s) = One(s, q, devs, reg)
      BY <1>1, <1>4, <2>1, OneMoves
    <3>2. ~q.sess
      BY <1>0, <1>4, <2>1 DEF AskInv
    <3> QED
      BY <1>4, <1>5, <2>1, <3>1, <3>2 DEF y
  <2>2. CASE x.st = "STARTED"
    <3>1. Common!close(One(s, q, devs, reg), s)
            = One(s, Shut(q), DevsDown(DevsOff(devs, s), s), Without(reg, s))
      BY <1>1, <1>4, <2>2, OneMoves
    <3>2. Shut(q) \in CommonRec /\ ~Shut(q).sess
      BY <1>4, RecsAre
    <3> QED
      BY <1>5, <2>2, <3>1, <3>2 DEF y
  <2>3. CASE x.st \in {"INIT", "STOPPED"}
    <3>1. Common!close(One(s, q, devs, reg), s) = One(s, Shut(q), DevsDown(devs, s), reg)
      BY <1>1, <1>4, <2>3, OneMoves
    <3>2. Shut(q) \in CommonRec /\ ~Shut(q).sess
      BY <1>4, RecsAre
    <3> QED
      BY <1>5, <2>3, <3>1, <3>2 DEF y
  <2> QED
    BY <1>p, <2>1, <2>2, <2>3 DEF CommonStates
<1>9. str'[s] = y
  BY <1>1, <1>8, Again
<1>10. CommonSettled(s) \/ CommonShut(s)
  BY <1>0, <1>2 DEF CommonSettled, CommonShut, CommonTypes
<1>11. AskInv(s)'
  BY <1>0, <1>2, <1>6, <1>7, <1>8, <1>9, <1>10 DEF AskInv, CommonWork, Meant, Without
<1>12. OneUpd => GainInv(s)'
  BY <1>0, <1>2, <1>6, <1>9 DEF GainInv, Common!Wanted
<1>13. op' = [op EXCEPT ![s] = op[s]]
  BY <1>0, <1>2
<1> QED
  BY <1>0, <1>2, <1>6, <1>7, <1>8, <1>11, <1>12, <1>13, OneKeeps DEF DevsMove, RegMoves

(***************************************************************************)
(* The devices of a stream that was started are registered.                *)
(***************************************************************************)
LEMMA CommonRegisters ==
  ASSUME Common!CommonAssumption, ~Hasty, CommonInv, NEW s \in Common!Streams, Common!Registers(s)
  PROVE  CommonInv'
<1> DEFINE x == str[s]
<1>0. /\ CommonTypes /\ CommonWork /\ AskInv(s) /\ (OneUpd => GainInv(s))
      /\ x \in CommonRec /\ op[s] \in CommonOps /\ op = [op EXCEPT ![s] = op[s]]
  BY DEF CommonInv, CommonTypes, CommonOps
<1>1. Has(str, s) /\ Common!W = One(s, x, devs, reg) /\ str = Put(str, s, x)
  BY <1>0, OneIs
<1>p. x.st \in CommonStates /\ x.st # "PAUSED"
  BY <1>0 DEF CommonRec, CommonStates
<1> DEFINE o == Common!AfterStart(s)
<1>2. op[s].at = "register" /\ op' = [op EXCEPT ![s] = o] /\ UNCHANGED <<speaker, card, work, downs>>
  BY DEF Common!Registers
<1>3. o \in CommonOps /\ o.at \in {"none", "gain"}
      /\ (o.at = "gain" <=> s \in Upds) /\ (o.at = "gain" => o.gain = Common!Wanted)
  BY DEF Common!AfterStart, CommonOps, CommonGains, Common!NoOp, Common!None, Common!Wanted
<1> HIDE DEF o
<1>4. Common!Becomes(Common!Registered(Common!W, s))
  BY DEF Common!Registers
<1>5. Common!Registered(One(s, x, devs, reg), s) = One(s, x, devs, Known(reg, s))
  BY <1>1, OneSets
<1>6. str' = Put(str, s, x) /\ devs' = devs /\ reg' = Known(reg, s)
  BY <1>1, <1>4, <1>5, OneBecomes
<1>7. str'[s] = x /\ op'[s] = o
  BY <1>0, <1>1, <1>2, <1>6, Again DEF CommonTypes
<1>8. CommonSettled(s) /\ x.st = "STARTED" /\ x.ask = "STARTED"
  BY <1>0, <1>2 DEF AskInv
<1>9. /\ CommonWork'
      /\ work' \in CommonJobs
      /\ \A t : (CommonSettled(t)' <=> CommonSettled(t)) /\ (CommonShut(t)' <=> CommonShut(t))
  BY <1>2, SameWork
<1>10. AskInv(s)'
  BY <1>0, <1>2, <1>3, <1>6, <1>7, <1>8, <1>9 DEF AskInv, CommonShut, Meant, Known, CommonWork
<1>11. OneUpd => GainInv(s)'
  BY <1>0, <1>2, <1>3, <1>6, <1>7, <1>8 DEF GainInv, Common!Wanted
<1>12. reg' = reg \cup {<<d, s>> : d \in Common!Used(s)}
  BY <1>6 DEF Known
<1> QED
  BY <1>0, <1>2, <1>3, <1>6, <1>9, <1>10, <1>11, <1>12, OneKeeps DEF DevsMove, RegMoves

(***************************************************************************)
(* The gain is set that the start wanted.                                  *)
(***************************************************************************)
LEMMA CommonGainsOne ==
  ASSUME Common!CommonAssumption, ~Hasty, CommonInv, NEW s \in Common!Streams, Common!Gains(s)
  PROVE  CommonInv'
<1> DEFINE x == str[s]
<1>0. /\ CommonTypes /\ CommonWork /\ AskInv(s) /\ (OneUpd => GainInv(s))
      /\ x \in CommonRec /\ op[s] \in CommonOps /\ op = [op EXCEPT ![s] = op[s]]
  BY DEF CommonInv, CommonTypes, CommonOps
<1>1. Has(str, s) /\ Common!W = One(s, x, devs, reg) /\ str = Put(str, s, x)
  BY <1>0, OneIs
<1>p. x.st \in CommonStates /\ x.st # "PAUSED"
  BY <1>0 DEF CommonRec, CommonStates
<1>n. Common!NoOp \in CommonOps /\ Common!NoOp.at = "none"
  BY DEF Common!NoOp, CommonOps, CommonGains, Common!None
<1> DEFINE g == op[s].gain
           y == Toned(x, g)
<1>2. op[s].at = "gain" /\ op' = [op EXCEPT ![s] = Common!NoOp]
      /\ UNCHANGED <<speaker, card, work, downs>>
  BY DEF Common!Gains
<1>3. Common!Becomes(Common!setUltraSoundGain_l(Common!W, s, g))
  BY DEF Common!Gains
<1>4. Common!setUltraSoundGain_l(One(s, x, devs, reg), s, g) = One(s, y, devs, reg)
  BY <1>1, OneSets
<1>5. g \in CommonGains
  BY <1>0 DEF CommonOps
<1>6. /\ y \in CommonRec /\ y.st = x.st /\ (y.run <=> x.run) /\ (y.sess <=> x.sess)
      /\ y.cached = x.cached /\ y.ask = x.ask /\ y.gain = g /\ (x.gain = x.dsp => y.dsp = g)
  BY <1>0, <1>5, TonedIs
<1> HIDE DEF y
<1>7. str' = Put(str, s, y) /\ devs' = devs /\ reg' = reg
  BY <1>1, <1>3, <1>4, OneBecomes
<1>8. str'[s] = y /\ op'[s] = Common!NoOp
  BY <1>0, <1>1, <1>2, <1>7, Again DEF CommonTypes
<1>9. /\ CommonWork'
      /\ work' \in CommonJobs
      /\ \A t : (CommonSettled(t)' <=> CommonSettled(t)) /\ (CommonShut(t)' <=> CommonShut(t))
  BY <1>2, SameWork
<1>10. CommonSettled(s) /\ x.st = "STARTED" /\ x.ask = "STARTED" /\ s \in Upds
  BY <1>0, <1>2 DEF AskInv
<1>11. AskInv(s)'
  BY <1>0, <1>n, <1>2, <1>6, <1>7, <1>8, <1>9, <1>10 DEF AskInv, CommonShut, Meant, CommonWork
<1>12. OneUpd => GainInv(s)'
  BY <1>0, <1>n, <1>2, <1>6, <1>7, <1>8, <1>10 DEF GainInv, Common!Wanted
<1> QED
  BY <1>n, <1>2, <1>6, <1>7, <1>9, <1>11, <1>12, OneKeeps DEF DevsMove, RegMoves

(***************************************************************************)
(* And the stop goes on after the mute.                                    *)
(***************************************************************************)
LEMMA CommonStopsAfter ==
  ASSUME Common!CommonAssumption, ~Hasty, CommonInv, NEW s \in Common!Streams, Common!StopsAfter(s)
  PROVE  CommonInv'
<1> DEFINE x == str[s]
<1>0. /\ CommonTypes /\ CommonWork /\ AskInv(s) /\ (OneUpd => GainInv(s))
      /\ x \in CommonRec /\ op[s] \in CommonOps /\ op = [op EXCEPT ![s] = op[s]]
  BY DEF CommonInv, CommonTypes, CommonOps
<1>1. Has(str, s) /\ Common!W = One(s, x, devs, reg) /\ str = Put(str, s, x)
  BY <1>0, OneIs
<1>p. x.st \in CommonStates /\ x.st # "PAUSED"
  BY <1>0 DEF CommonRec, CommonStates
<1>n. Common!NoOp \in CommonOps /\ Common!NoOp.at = "none"
  BY DEF Common!NoOp, CommonOps, CommonGains, Common!None
<1> DEFINE y == Halted(x)
<1>2. op[s].at = "stop" /\ op' = [op EXCEPT ![s] = Common!NoOp]
      /\ UNCHANGED <<speaker, card, work, downs>>
  BY DEF Common!StopsAfter
<1>3. Common!Becomes(Common!stop(Common!W, s))
  BY DEF Common!StopsAfter
<1>4. CommonSettled(s) /\ x.st = "STARTED" /\ x.ask = "STOPPED" /\ s \in Upds /\ x.cached = "IDLE"
  BY <1>0, <1>2 DEF AskInv
<1>5. Common!stop(One(s, x, devs, reg), s) = One(s, y, DevsOff(devs, s), Without(reg, s))
  BY <1>1, <1>p, <1>4, OneMoves
<1>6. /\ y \in CommonRec /\ y.st = "STOPPED" /\ ~y.run /\ (y.sess <=> x.sess)
      /\ y.cached = x.cached /\ y.ask = x.ask /\ y.gain = x.gain /\ y.dsp = x.dsp
  BY <1>0, RecsAre
<1> HIDE DEF y
<1>7. str' = Put(str, s, y) /\ devs' = DevsOff(devs, s) /\ reg' = Without(reg, s)
  BY <1>1, <1>3, <1>5, OneBecomes
<1>8. str'[s] = y /\ op'[s] = Common!NoOp
  BY <1>0, <1>1, <1>2, <1>7, Again DEF CommonTypes
<1>9. /\ CommonWork'
      /\ work' \in CommonJobs
      /\ \A t : (CommonSettled(t)' <=> CommonSettled(t)) /\ (CommonShut(t)' <=> CommonShut(t))
  BY <1>2, SameWork
<1>10. AskInv(s)'
  <2>1. \A d : <<d, s>> \notin reg'
    BY <1>7 DEF Without
  <2>2. ~CommonShut(s) /\ s \notin work.s
    BY <1>0, <1>4 DEF CommonSettled, CommonShut, CommonWork
  <2>3. CommonSettled(s)' /\ ~CommonShut(s)' /\ s \notin work'.s
    BY <1>2, <1>4, <1>9, <2>2
  <2>4. x.sess
    BY <1>0, <1>4 DEF AskInv
  <2> QED
    BY <1>n, <1>4, <1>6, <1>8, <2>1, <2>3, <2>4 DEF AskInv, Meant
<1>11. OneUpd => GainInv(s)'
  BY <1>0, <1>n, <1>2, <1>4, <1>6, <1>7, <1>8 DEF GainInv, Common!Wanted
<1> QED
  BY <1>n, <1>2, <1>4, <1>6, <1>7, <1>9, <1>10, <1>11, OneKeeps DEF DevsMove, RegMoves

(***************************************************************************)
(* A playback comes to the speaker or leaves it, and the ultrasound stream *)
(* that runs is told.                                                      *)
(***************************************************************************)
LEMMA CommonSpeaker ==
  ASSUME Common!CommonAssumption, ~Hasty, CommonInv, Common!Speaker
  PROVE  CommonInv'
<1> DEFINE A == {s \in Upds : str[s].st = "STARTED"}
           g == IF speaker THEN "low" ELSE "high"
           c == CHOOSE s \in A : TRUE
<1>0. CommonTypes /\ CommonWork /\ CommonCounts /\ (\A t \in Common!Streams : AskInv(t))
      /\ (OneUpd => \A t \in Common!Streams : GainInv(t))
  BY DEF CommonInv
<1>1. /\ \A s \in Common!Streams : op[s].at = "none"
      /\ work.kind = "none" \/ Common!Streams = {}
      /\ UNCHANGED <<op, card, work, downs>>
  BY DEF Common!Speaker, Common!Busy, Common!None
<1>2. /\ speaker' = ~speaker
      /\ Common!Becomes(Common!Tells(Common!W, g))
  BY DEF Common!Speaker, Common!After
<1>3. speaker' \in BOOLEAN /\ Common!Wanted' = g
  BY <1>0, <1>2 DEF CommonTypes, Common!Wanted
<1>4. Common!Tells(Common!W, g) = 
        IF A = {} THEN Common!W ELSE Common!setUltraSoundGain_l(Common!W, c, g)
  BY DEF Common!Tells, Common!W
<1>5. OneUpd' <=> OneUpd
  BY DEF OneUpd
<1>6. /\ CommonWork'
      /\ work' \in CommonJobs
      /\ \A t : (CommonSettled(t)' <=> CommonSettled(t)) /\ (CommonShut(t)' <=> CommonShut(t))
  BY <1>1, SameWork
<1>7. CASE A = {}
  <2>1. str' = str /\ devs' = devs /\ reg' = reg
    BY <1>2, <1>4, <1>7 DEF Common!Becomes, Common!W
  <2>2. CommonTypes'
    BY <1>0, <1>1, <1>3, <2>1 DEF CommonTypes
  <2>3. CommonCounts'
    BY <1>0, <2>1 DEF CommonCounts, OpenOn, StartOn
  <2>4. ASSUME NEW t \in Common!Streams PROVE AskInv(t)'
    BY <1>0, <1>1, <1>6, <2>1 DEF AskInv
  <2>5. ASSUME OneUpd, NEW t \in Common!Streams PROVE GainInv(t)'
    BY <1>0, <1>1, <1>7, <2>1, <2>5 DEF GainInv
  <2> QED
    BY <1>5, <1>6, <2>2, <2>3, <2>4, <2>5 DEF CommonInv
<1>8. CASE A # {}
  <2>1. c \in A
    BY <1>8
  <2>2. PICK s \in Common!Streams : s = c /\ s \in Upds /\ str[s].st = "STARTED"
    BY <2>1 DEF Common!Streams
  <2> HIDE DEF c, g
  <2> DEFINE x == str[s]
             y == Toned(x, g)
  <2>3. Has(str, s) /\ Common!W = One(s, x, devs, reg)
    BY <1>0, <2>2, OneIs
  <2>4. Common!setUltraSoundGain_l(One(s, x, devs, reg), s, g) = One(s, y, devs, reg)
    BY <2>3, OneSets
  <2>5. str' = Put(str, s, y) /\ devs' = devs /\ reg' = reg
    BY <1>2, <1>4, <1>8, <2>2, <2>3, <2>4, OneBecomes
  <2>6. x \in CommonRec /\ g \in CommonGains /\ op[s] \in CommonOps /\ op = [op EXCEPT ![s] = op[s]]
    BY <1>0, <2>2 DEF CommonTypes, CommonOps, CommonGains, g
  <2>7. /\ y \in CommonRec /\ y.st = x.st /\ (y.run <=> x.run) /\ (y.sess <=> x.sess)
        /\ y.cached = x.cached /\ y.ask = x.ask /\ y.gain = g /\ (x.gain = x.dsp => y.dsp = g)
    BY <2>6, TonedIs
  <2>8. str'[s] = y /\ \A t \in Common!Streams : t # s => str'[t] = str[t]
    BY <1>0, <2>2, <2>5 DEF CommonTypes, Put
  <2> HIDE DEF y
  <2>9. AskInv(s)'
    <3>1. AskInv(s) /\ op' = op /\ reg' = reg /\ work' = work /\ str'[s] = y
      BY <1>0, <1>1, <2>2, <2>5, <2>8
    <3>2. (CommonSettled(s)' <=> CommonSettled(s)) /\ (CommonShut(s)' <=> CommonShut(s))
      BY <1>6
    <3> QED
      BY <2>7, <3>1, <3>2 DEF AskInv
  <2>10. ASSUME OneUpd, NEW t \in Common!Streams PROVE GainInv(t)'
    <3>1. CASE t = s
      BY <1>0, <1>1, <1>3, <2>2, <2>7, <2>8, <2>10, <3>1 DEF GainInv
    <3>2. CASE t # s
      <4>1. t \notin Upds
        BY <2>2, <2>10, <3>2 DEF OneUpd
      <4> QED
        BY <1>0, <1>1, <2>8, <2>10, <3>2, <4>1 DEF GainInv
    <3> QED
      BY <3>1, <3>2
  <2>11. op' = [op EXCEPT ![s] = op[s]]
    BY <1>1, <2>6
  <2>12. card' = card /\ downs' = downs /\ work' = work
    BY <1>1
  <2>13. devs' = devs /\ y.st = str[s].st
    BY <2>5, <2>7
  <2>14. CommonWork' /\ speaker' \in BOOLEAN
    BY <1>3, <1>6
  <2>15. \A t \in Common!Streams : t # s =>
           /\ CommonSettled(t)' <=> CommonSettled(t)
           /\ CommonShut(t)' => CommonShut(t)
           /\ t \notin work'.s \/ work' = work
    BY <1>6, <2>12
  <2>16. work' \in CommonJobs
    BY <1>6
  <2>17. OneUpd => \A t \in Common!Streams : GainInv(t)'
    BY <2>10
  <2>18. str' = Put(str, s, y) /\ reg' = reg /\ y \in CommonRec /\ s \in Common!Streams
         /\ op[s] \in CommonOps
    BY <2>2, <2>5, <2>6, <2>7
  <2> QED
    BY <2>9, <2>11, <2>12, <2>13, <2>14, <2>15, <2>16, <2>17, <2>18, StepKeeps
       DEF DevsMove, RegMoves
<1> QED
  BY <1>7, <1>8

(***************************************************************************)
(* The card goes, and the worker has every stream to take down.            *)
(***************************************************************************)
LEMMA CommonGoes ==
  ASSUME Common!CommonAssumption, CommonInv, Common!Goes \/ Common!Returns \/ Common!Finishes
  PROVE  CommonInv'
<1>0. CommonTypes /\ CommonWork /\ CommonCounts /\ (\A t \in Common!Streams : AskInv(t))
      /\ (OneUpd => \A t \in Common!Streams : GainInv(t))
  BY DEF CommonInv
<1>1. /\ UNCHANGED <<str, devs, reg, op, speaker>>
      /\ work.s = {} \/ work.kind = "none"
  BY DEF Common!Goes, Common!Returns, Common!Finishes, Common!None
<1>2. \/ /\ card = "ON" /\ work.kind = "none" /\ card' = "OFF" /\ downs < MaxDowns /\ downs' = downs + 1
         /\ work' = [kind |-> "down", todo |-> Common!Streams, s |-> {}, at |-> "none"]
      \/ /\ card = "OFF" /\ work.kind = "none" /\ card' = "ON" /\ downs' = downs
         /\ work' = [kind |-> "up", todo |-> Common!Streams, s |-> {}, at |-> "none"]
      \/ /\ work.kind # "none" /\ work.todo = {} /\ work.s = {} /\ card' = card /\ downs' = downs
         /\ work' = [kind |-> "none", todo |-> {}, s |-> {}, at |-> "none"]
  BY DEF Common!Goes, Common!Returns, Common!Finishes, Common!None, Common!Idle
<1>3. /\ work' \in CommonJobs
      /\ card' \in {"ON", "OFF"} /\ downs' \in 0 .. MaxDowns
  BY <1>0, <1>2 DEF CommonTypes, CommonJobs, Common!CommonAssumption
<1>4. CommonTypes'
  BY <1>0, <1>1, <1>3 DEF CommonTypes
<1>5. CommonWork'
  BY <1>0, <1>2 DEF CommonWork, CommonTypes
<1>6. CommonCounts'
  BY <1>0, <1>1 DEF CommonCounts, OpenOn, StartOn
<1>7. \A t \in Common!Streams :
        /\ (CommonSettled(t)' <=> CommonSettled(t)) /\ (CommonShut(t)' => CommonShut(t))
        /\ t \notin work'.s
  BY <1>0, <1>2 DEF CommonSettled, CommonShut, CommonTypes, CommonWork, CommonJobs
<1>8. ASSUME NEW t \in Common!Streams PROVE AskInv(t)'
  BY <1>0, <1>1, <1>7, AskKept
<1>9. ASSUME OneUpd, NEW t \in Common!Streams PROVE GainInv(t)'
  BY <1>0, <1>1, <1>9 DEF GainInv, Common!Wanted
<1>10. OneUpd' <=> OneUpd
  BY DEF OneUpd
<1> QED
  BY <1>4, <1>5, <1>6, <1>8, <1>9, <1>10 DEF CommonInv

(***************************************************************************)
(* The card is gone: a stream remembers its state and has its calls ahead. *)
(***************************************************************************)
LEMMA CommonDown ==
  ASSUME Common!CommonAssumption, ~Hasty, CommonInv,
         NEW s \in Common!Streams, Common!ssrDownHandler(s)
  PROVE  CommonInv'
<1> DEFINE x == str[s]
<1>0. /\ CommonTypes /\ CommonWork /\ AskInv(s) /\ (OneUpd => GainInv(s))
      /\ x \in CommonRec /\ op[s] \in CommonOps /\ op = [op EXCEPT ![s] = op[s]]
  BY DEF CommonInv, CommonTypes, CommonOps
<1>1. Has(str, s) /\ Common!W = One(s, x, devs, reg) /\ str = Put(str, s, x)
  BY <1>0, OneIs
<1>p. x.st \in CommonStates /\ x.st # "PAUSED"
  BY <1>0 DEF CommonRec, CommonStates
<1> DEFINE y  == RecKept(x, x.st)
           at == IF x.st = "STARTED" THEN "stop" ELSE IF x.st = "IDLE" THEN "done" ELSE "close"
<1>2. /\ work.kind = "down" /\ work.s = {} /\ s \in work.todo /\ op[s].at = "none"
      /\ UNCHANGED <<devs, reg, op, speaker, card, downs>>
  BY DEF Common!ssrDownHandler, Common!Busy, Common!None
<1>3. CommonSettled(s) /\ x.cached = "IDLE" /\ x.st \in Meant(x.ask)
  BY <1>0, <1>2 DEF AskInv, CommonSettled
<1>4. Common!Turn(s, at)
  BY <1>p DEF Common!ssrDownHandler, Common!Running
<1>5. str' = Put(str, s, y)
  BY <1>3 DEF Common!ssrDownHandler, Put, RecKept
<1>6. /\ y \in CommonRec /\ y.st = x.st /\ (y.run <=> x.run) /\ (y.sess <=> x.sess)
      /\ y.cached = x.st /\ y.ask = x.ask /\ y.gain = x.gain /\ y.dsp = x.dsp
  BY <1>0, <1>p, RecsToo DEF CommonStates, CommonGains
<1>7. at \in {"done", "stop", "close"}
  OBVIOUS
<1>8. /\ at = "done" <=> x.st = "IDLE"
      /\ at = "stop" <=> x.st = "STARTED"
      /\ at = "close" => x.st \in {"INIT", "STOPPED"}
  BY <1>p DEF CommonStates
<1> HIDE DEF y, at
<1>9. /\ CommonWork'
      /\ work' \in CommonJobs
      /\ \A t : t # s => /\ (CommonSettled(t)' <=> CommonSettled(t)) /\ (CommonShut(t)' <=> CommonShut(t))
                         /\ t \notin work'.s
      /\ CommonSettled(s)' <=> work.kind = "up" /\ at = "done"
      /\ CommonShut(s)' <=> work.kind = "down" /\ at = "done"
      /\ s \in work'.s <=> at # "done"
      /\ work'.at = at
  BY <1>2, <1>4, <1>7, TurnIs
<1>10. str'[s] = y /\ op'[s] = op[s] /\ reg' = reg
  BY <1>1, <1>2, <1>5, Again
<1>11. AskInv(s)'
  BY <1>0, <1>2, <1>3, <1>6, <1>7, <1>8, <1>9, <1>10 DEF AskInv
<1>12. OneUpd => GainInv(s)'
  BY <1>0, <1>2, <1>6, <1>10 DEF GainInv, Common!Wanted
<1>13. op' = [op EXCEPT ![s] = op[s]]
  BY <1>0, <1>2
<1> QED
  BY <1>0, <1>2, <1>5, <1>6, <1>9, <1>11, <1>12, <1>13, OneKeeps DEF DevsMove, RegMoves

(***************************************************************************)
(* It is muted and stopped,                                                *)
(***************************************************************************)
LEMMA CommonDownStops ==
  ASSUME Common!CommonAssumption, ~Hasty, CommonInv, NEW s \in Common!Streams, Common!DownStops(s)
  PROVE  CommonInv'
<1> DEFINE x == str[s]
<1>0. /\ CommonTypes /\ CommonWork /\ AskInv(s) /\ (OneUpd => GainInv(s))
      /\ x \in CommonRec /\ op[s] \in CommonOps /\ op = [op EXCEPT ![s] = op[s]]
  BY DEF CommonInv, CommonTypes, CommonOps
<1>1. Has(str, s) /\ Common!W = One(s, x, devs, reg) /\ str = Put(str, s, x)
  BY <1>0, OneIs
<1>p. x.st \in CommonStates /\ x.st # "PAUSED"
  BY <1>0 DEF CommonRec, CommonStates
<1> DEFINE q  == Quiet(s, x)
           y  == Halted(q)
           at == "close"
<1>2. /\ work.kind = "down" /\ work.s = {s} /\ work.at = "stop"
      /\ Common!Becomes(Common!stop(Common!Mutes(Common!W, s), s)) /\ Common!Turn(s, at)
      /\ UNCHANGED <<op, speaker, card, downs>>
  BY DEF Common!DownStops, Common!At
<1>3. x.st = "STARTED" /\ ~CommonSettled(s) /\ op[s].at = "none" /\ x.sess /\ x.cached \in Meant(x.ask)
  BY <1>0, <1>2 DEF AskInv, CommonSettled, CommonWork
<1>4. Common!Mutes(One(s, x, devs, reg), s) = One(s, q, devs, reg)
  BY <1>1, <1>p, MutesIs
<1>5. /\ q \in CommonRec /\ q.st = x.st /\ (q.run <=> x.run) /\ (q.sess <=> x.sess)
      /\ q.cached = x.cached /\ q.ask = x.ask
      /\ x.gain = x.dsp => q.gain = q.dsp
      /\ (x.st # "STARTED" \/ s \notin Upds => x.gain = "mute") => q.gain = "mute"
  BY <1>0, QuietIs
<1> HIDE DEF q
<1>6. Common!stop(One(s, q, devs, reg), s) = One(s, y, DevsOff(devs, s), Without(reg, s))
  BY <1>1, <1>3, <1>5, OneMoves
<1>7. /\ y \in CommonRec /\ y.st = "STOPPED" /\ ~y.run /\ (y.sess <=> q.sess)
      /\ y.cached = q.cached /\ y.ask = q.ask /\ y.gain = q.gain /\ y.dsp = q.dsp
  BY <1>5, RecsAre
<1> HIDE DEF y
<1>8. str' = Put(str, s, y) /\ devs' = DevsOff(devs, s) /\ reg' = Without(reg, s)
  BY <1>1, <1>2, <1>4, <1>6, OneBecomes
<1>9. /\ CommonWork'
      /\ work' \in CommonJobs
      /\ \A t : t # s => /\ (CommonSettled(t)' <=> CommonSettled(t)) /\ (CommonShut(t)' <=> CommonShut(t))
                         /\ t \notin work'.s
      /\ CommonSettled(s)' <=> work.kind = "up" /\ at = "done"
      /\ CommonShut(s)' <=> work.kind = "down" /\ at = "done"
      /\ s \in work'.s <=> at # "done"
      /\ work'.at = at
  BY <1>2, TurnIs
<1>10. str'[s] = y /\ op'[s] = op[s]
  BY <1>1, <1>2, <1>8, Again
<1>11. \A d : <<d, s>> \notin reg'
  BY <1>8 DEF Without
<1>12. AskInv(s)'
  BY <1>2, <1>3, <1>5, <1>7, <1>9, <1>10, <1>11 DEF AskInv
<1>13. OneUpd => GainInv(s)'
  BY <1>0, <1>3, <1>5, <1>7, <1>10 DEF GainInv, Common!Wanted
<1>14. op' = [op EXCEPT ![s] = op[s]]
  BY <1>0, <1>2
<1> QED
  BY <1>0, <1>2, <1>3, <1>7, <1>8, <1>9, <1>12, <1>13, <1>14, OneKeeps DEF DevsMove, RegMoves

(***************************************************************************)
(* and closed.                                                             *)
(***************************************************************************)
LEMMA CommonDownCloses ==
  ASSUME Common!CommonAssumption, ~Hasty, CommonInv, NEW s \in Common!Streams, Common!DownCloses(s)
  PROVE  CommonInv'
<1> DEFINE x == str[s]
<1>0. /\ CommonTypes /\ CommonWork /\ AskInv(s) /\ (OneUpd => GainInv(s))
      /\ x \in CommonRec /\ op[s] \in CommonOps /\ op = [op EXCEPT ![s] = op[s]]
  BY DEF CommonInv, CommonTypes, CommonOps
<1>1. Has(str, s) /\ Common!W = One(s, x, devs, reg) /\ str = Put(str, s, x)
  BY <1>0, OneIs
<1>p. x.st \in CommonStates /\ x.st # "PAUSED"
  BY <1>0 DEF CommonRec, CommonStates
<1> DEFINE q  == Shut(x)
           y  == RecSt(q, "IDLE")
           at == "done"
<1>2. /\ work.kind = "down" /\ work.s = {s} /\ work.at = "close"
      /\ Common!Becomes(SetSt(Common!close(Common!W, s), s, "IDLE")) /\ Common!Turn(s, at)
      /\ UNCHANGED <<op, speaker, card, downs>>
  BY DEF Common!DownCloses, Common!At, SetSt
<1>3. x.st \in {"INIT", "STOPPED"} /\ ~CommonSettled(s) /\ op[s].at = "none"
      /\ x.cached \in Meant(x.ask)
  BY <1>0, <1>2 DEF AskInv, CommonSettled, CommonWork
<1>4. Common!close(One(s, x, devs, reg), s) = One(s, q, DevsDown(devs, s), reg)
  BY <1>1, <1>3, OneMoves
<1>5. /\ q \in CommonRec /\ ~q.run /\ ~q.sess
      /\ q.cached = x.cached /\ q.ask = x.ask /\ q.gain = x.gain /\ q.dsp = x.dsp
  BY <1>0, RecsAre
<1> HIDE DEF q
<1>6. SetSt(One(s, q, DevsDown(devs, s), reg), s, "IDLE") = One(s, y, DevsDown(devs, s), reg)
  BY <1>1, OneSets
<1>7. /\ y \in CommonRec /\ y.st = "IDLE" /\ (y.run <=> q.run) /\ (y.sess <=> q.sess)
      /\ y.cached = q.cached /\ y.ask = q.ask /\ y.gain = q.gain /\ y.dsp = q.dsp
  BY <1>5, RecsToo DEF CommonStates, CommonGains
<1> HIDE DEF y
<1>8. str' = Put(str, s, y) /\ devs' = DevsDown(devs, s) /\ reg' = reg
  BY <1>1, <1>2, <1>4, <1>6, OneBecomes
<1>9. /\ CommonWork'
      /\ work' \in CommonJobs
      /\ \A t : t # s => /\ (CommonSettled(t)' <=> CommonSettled(t)) /\ (CommonShut(t)' <=> CommonShut(t))
                         /\ t \notin work'.s
      /\ CommonSettled(s)' <=> work.kind = "up" /\ at = "done"
      /\ CommonShut(s)' <=> work.kind = "down" /\ at = "done"
      /\ s \in work'.s <=> at # "done"
      /\ work'.at = at
  BY <1>2, TurnIs
<1>10. str'[s] = y /\ op'[s] = op[s]
  BY <1>1, <1>2, <1>8, Again
<1>11. AskInv(s)'
  BY <1>0, <1>2, <1>3, <1>5, <1>7, <1>8, <1>9, <1>10 DEF AskInv
<1>12. OneUpd => GainInv(s)'
  BY <1>0, <1>3, <1>5, <1>7, <1>10 DEF GainInv, Common!Wanted
<1>13. op' = [op EXCEPT ![s] = op[s]]
  BY <1>0, <1>2
<1> QED
  BY <1>0, <1>2, <1>3, <1>7, <1>8, <1>9, <1>11, <1>12, <1>13, OneKeeps DEF DevsMove, RegMoves

(***************************************************************************)
(* The card is back: a stream is opened if it was open, and has its start  *)
(* ahead if it ran.                                                        *)
(***************************************************************************)
LEMMA CommonUp ==
  ASSUME Common!CommonAssumption, ~Hasty, CommonInv,
         NEW s \in Common!Streams, Common!ssrUpHandler(s)
  PROVE  CommonInv'
<1> DEFINE x == str[s]
<1>0. /\ CommonTypes /\ CommonWork /\ AskInv(s) /\ (OneUpd => GainInv(s))
      /\ x \in CommonRec /\ op[s] \in CommonOps /\ op = [op EXCEPT ![s] = op[s]]
  BY DEF CommonInv, CommonTypes, CommonOps
<1>1. Has(str, s) /\ Common!W = One(s, x, devs, reg) /\ str = Put(str, s, x)
  BY <1>0, OneIs
<1>p. x.st \in CommonStates /\ x.st # "PAUSED"
  BY <1>0 DEF CommonRec, CommonStates
<1>2. /\ work.kind = "up" /\ work.s = {} /\ s \in work.todo
      /\ UNCHANGED <<op, speaker, card, downs>>
  BY DEF Common!ssrUpHandler
<1>3. /\ card = "ON" /\ x.st = "IDLE" /\ ~CommonSettled(s) /\ op[s].at = "none"
      /\ ~x.sess /\ ~x.run /\ x.cached \in Meant(x.ask)
  BY <1>0, <1>2 DEF AskInv, CommonSettled, CommonShut, CommonWork
<1>4. op' = [op EXCEPT ![s] = op[s]] /\ op'[s] = op[s]
  BY <1>0, <1>2
<1> DEFINE more == x.cached = "STARTED"
           at   == IF more THEN "start" ELSE "done"
           q    == Opened(x)
<1>5. at \in {"start", "done"} /\ (at = "done" <=> ~more)
  OBVIOUS
<1>6. x.cached \in CommonStates /\ x.cached # "PAUSED"
  BY <1>0 DEF CommonRec, CommonStates
<1>7. /\ q \in CommonRec /\ q.st = "INIT" /\ q.sess /\ (q.run <=> x.run)
      /\ q.cached = x.cached /\ q.ask = x.ask /\ q.gain = x.gain /\ q.dsp = "mute"
  BY <1>0, RecsAre
<1>8. Common!open(One(s, x, devs, reg), s, Yes) = One(s, q, DevsUp(devs, s), reg)
  BY <1>1, <1>3, OneMoves
<1>9. One(s, q, DevsUp(devs, s), reg).str[s] = q
  BY <1>1, OneBecomes
<1>10. CASE x.cached \in {"INIT", "STARTED"}
  <2>1. LET w == Common!open(Common!W, s, Yes)
            m == w.str[s].st = "INIT" /\ Common!Restarts(x.cached)
        IN Common!Becomes(IF m THEN w ELSE SetKept(w, s, "IDLE"))
        /\ Common!Turn(s, IF m THEN "start" ELSE "done")
    BY <1>10 DEF Common!ssrUpHandler, SetKept, Yes
  <2>2. Common!Restarts(x.cached) <=> more
    BY <1>10 DEF Common!Restarts
  <2>3. /\ Common!Becomes(IF more THEN One(s, q, DevsUp(devs, s), reg)
                          ELSE SetKept(One(s, q, DevsUp(devs, s), reg), s, "IDLE"))
        /\ Common!Turn(s, at)
    BY <1>1, <1>7, <1>8, <1>9, <2>1, <2>2
  <2> HIDE DEF q
  <2> DEFINE y == IF more THEN q ELSE RecKept(q, "IDLE")
  <2>4. SetKept(One(s, q, DevsUp(devs, s), reg), s, "IDLE")
          = One(s, RecKept(q, "IDLE"), DevsUp(devs, s), reg)
    BY <1>1, OneSets
  <2>5. str' = Put(str, s, y) /\ devs' = DevsUp(devs, s) /\ reg' = reg
    BY <1>1, <2>3, <2>4, OneBecomes
  <2>6. /\ RecKept(q, "IDLE") \in CommonRec /\ RecKept(q, "IDLE").st = q.st
        /\ (RecKept(q, "IDLE").run <=> q.run) /\ (RecKept(q, "IDLE").sess <=> q.sess)
        /\ RecKept(q, "IDLE").cached = "IDLE" /\ RecKept(q, "IDLE").ask = q.ask
        /\ RecKept(q, "IDLE").gain = q.gain /\ RecKept(q, "IDLE").dsp = q.dsp
    BY <1>7, RecsToo DEF CommonStates, CommonGains
  <2>7. /\ y \in CommonRec /\ y.st = "INIT" /\ y.sess /\ ~y.run
        /\ y.cached = (IF more THEN "STARTED" ELSE "IDLE") /\ y.ask = x.ask
        /\ y.gain = x.gain /\ y.dsp = "mute"
    BY <1>3, <1>7, <2>6
  <2> HIDE DEF y, at
  <2>8. /\ CommonWork'
        /\ work' \in CommonJobs
        /\ \A t : t # s => /\ (CommonSettled(t)' <=> CommonSettled(t)) /\ (CommonShut(t)' <=> CommonShut(t))
                           /\ t \notin work'.s
        /\ CommonSettled(s)' <=> work.kind = "up" /\ at = "done"
        /\ CommonShut(s)' <=> work.kind = "down" /\ at = "done"
        /\ s \in work'.s <=> at # "done"
        /\ work'.at = at
    BY <1>2, <1>5, <2>3, TurnIs
  <2>9. str'[s] = y
    BY <1>1, <2>5, Again
  <2>10. AskInv(s)'
    <3>1. ~more => x.cached = "INIT"
      BY <1>10
    <3>2. x.ask # "none"
      BY <1>3, <1>10 DEF Meant
    <3>3. y.st \in Meant(x.ask) \/ more
      BY <1>3, <2>7, <3>1
    <3> QED
      BY <1>0, <1>2, <1>3, <1>4, <1>5, <2>5, <2>7, <2>8, <2>9, <3>3 DEF AskInv
  <2>11. OneUpd => GainInv(s)'
    BY <1>0, <1>2, <1>3, <1>4, <2>7, <2>9 DEF GainInv, Common!Wanted
  <2> QED
    BY <1>0, <1>2, <1>3, <1>4, <2>5, <2>7, <2>8, <2>10, <2>11, OneKeeps DEF DevsMove, RegMoves
<1>11. CASE x.cached \notin {"INIT", "STARTED"}
  <2> DEFINE y == RecKept(x, "IDLE")
  <2>1. str' = Put(str, s, y) /\ devs' = devs /\ reg' = reg /\ Common!Turn(s, at)
    BY <1>6, <1>11 DEF Common!ssrUpHandler, Put, RecKept
  <2>2. /\ y \in CommonRec /\ y.st = x.st /\ (y.run <=> x.run) /\ (y.sess <=> x.sess)
        /\ y.cached = "IDLE" /\ y.ask = x.ask /\ y.gain = x.gain /\ y.dsp = x.dsp
    BY <1>0, RecsToo DEF CommonStates, CommonGains
  <2>3. at = "done"
    BY <1>11
  <2> HIDE DEF y, at
  <2>4. /\ CommonWork'
        /\ work' \in CommonJobs
        /\ \A t : t # s => /\ (CommonSettled(t)' <=> CommonSettled(t)) /\ (CommonShut(t)' <=> CommonShut(t))
                           /\ t \notin work'.s
        /\ CommonSettled(s)' <=> work.kind = "up" /\ at = "done"
        /\ CommonShut(s)' <=> work.kind = "down" /\ at = "done"
        /\ s \in work'.s <=> at # "done"
        /\ work'.at = at
    BY <1>2, <2>1, <2>3, TurnIs
  <2>5. str'[s] = y
    BY <1>1, <2>1, Again
  <2>6. x.st \in Meant(x.ask)
    BY <1>3, <1>6, <1>11 DEF Meant, CommonStates
  <2>7. AskInv(s)'
    BY <1>0, <1>2, <1>3, <1>4, <2>1, <2>2, <2>3, <2>4, <2>5, <2>6 DEF AskInv
  <2>8. OneUpd => GainInv(s)'
    BY <1>0, <1>2, <1>3, <1>4, <2>2, <2>5 DEF GainInv, Common!Wanted
  <2> QED
    BY <1>0, <1>2, <1>3, <1>4, <2>1, <2>2, <2>4, <2>7, <2>8, OneKeeps DEF DevsMove, RegMoves
<1> QED
  BY <1>10, <1>11

(***************************************************************************)
(* It is started again, registered, and an ultrasound stream has its gain. *)
(***************************************************************************)
LEMMA CommonUpStarts ==
  ASSUME Common!CommonAssumption, ~Hasty, CommonInv, NEW s \in Common!Streams, Common!UpStarts(s)
  PROVE  CommonInv'
<1> DEFINE x == str[s]
<1>0. /\ CommonTypes /\ CommonWork /\ AskInv(s) /\ (OneUpd => GainInv(s))
      /\ x \in CommonRec /\ op[s] \in CommonOps /\ op = [op EXCEPT ![s] = op[s]]
  BY DEF CommonInv, CommonTypes, CommonOps
<1>1. Has(str, s) /\ Common!W = One(s, x, devs, reg) /\ str = Put(str, s, x)
  BY <1>0, OneIs
<1>p. x.st \in CommonStates /\ x.st # "PAUSED"
  BY <1>0 DEF CommonRec, CommonStates
<1> DEFINE at == "done"
           z  == Started(x)
           q  == IF s \in Upds THEN Toned(z, Common!Wanted) ELSE z
           y  == RecKept(q, "IDLE")
<1>2. /\ work.kind = "up" /\ work.s = {s} /\ work.at = "start" /\ Common!Turn(s, at)
      /\ UNCHANGED <<op, speaker, card, downs>>
  BY DEF Common!UpStarts, Common!At
<1>3. /\ card = "ON" /\ x.st = "INIT" /\ x.cached = "STARTED" /\ ~CommonSettled(s)
      /\ op[s].at = "none" /\ x.sess
      /\ x.cached \in Meant(x.ask)
  BY <1>0, <1>2 DEF AskInv, CommonSettled, CommonWork
<1>4. LET w == Common!Registered(Common!start(Common!W, s, {}, Yes), s)
          v == IF s \in Upds THEN Common!setUltraSoundGain_l(w, s, Common!Wanted) ELSE w
      IN Common!Becomes(SetKept(v, s, "IDLE"))
  BY <1>3 DEF Common!UpStarts, SetKept, Yes
<1>5. Common!start(One(s, x, devs, reg), s, {}, Yes) = One(s, z, DevsOn(devs, s), reg)
  BY <1>1, <1>3, OneMoves
<1>6. /\ z \in CommonRec /\ z.st = "STARTED" /\ z.run /\ (z.sess <=> x.sess)
      /\ z.cached = x.cached /\ z.ask = x.ask /\ z.gain = x.gain /\ z.dsp = x.dsp
  BY <1>0, RecsAre
<1> HIDE DEF z
<1>7. /\ Common!Registered(One(s, z, DevsOn(devs, s), reg), s)
           = One(s, z, DevsOn(devs, s), Known(reg, s))
      /\ Common!setUltraSoundGain_l(One(s, z, DevsOn(devs, s), Known(reg, s)), s, Common!Wanted)
           = One(s, Toned(z, Common!Wanted), DevsOn(devs, s), Known(reg, s))
  BY <1>1, OneSets
<1>8. Common!Becomes(SetKept(One(s, q, DevsOn(devs, s), Known(reg, s)), s, "IDLE"))
  BY <1>1, <1>4, <1>5, <1>7
<1>9. Common!Wanted \in CommonGains
  BY DEF Common!Wanted, CommonGains
<1>10. /\ q \in CommonRec /\ q.st = z.st /\ (q.run <=> z.run) /\ (q.sess <=> z.sess)
       /\ q.cached = z.cached /\ q.ask = z.ask
       /\ z.gain = z.dsp => q.gain = q.dsp
       /\ q.gain = IF s \in Upds THEN Common!Wanted ELSE z.gain
  BY <1>6, <1>9, TonedIs
<1> HIDE DEF q
<1>11. SetKept(One(s, q, DevsOn(devs, s), Known(reg, s)), s, "IDLE")
         = One(s, y, DevsOn(devs, s), Known(reg, s))
  BY <1>1, OneSets
<1>12. str' = Put(str, s, y) /\ devs' = DevsOn(devs, s) /\ reg' = Known(reg, s)
  BY <1>1, <1>8, <1>11, OneBecomes
<1>13. /\ y \in CommonRec /\ y.st = q.st /\ (y.run <=> q.run) /\ (y.sess <=> q.sess)
       /\ y.cached = "IDLE" /\ y.ask = q.ask /\ y.gain = q.gain /\ y.dsp = q.dsp
  BY <1>10, RecsToo DEF CommonStates, CommonGains
<1> HIDE DEF y
<1>d. at \in {"done", "start"} /\ at = "done"
  OBVIOUS
<1> HIDE DEF at
<1>14. /\ CommonWork'
       /\ work' \in CommonJobs
       /\ \A t : t # s => /\ (CommonSettled(t)' <=> CommonSettled(t)) /\ (CommonShut(t)' <=> CommonShut(t))
                          /\ t \notin work'.s
       /\ CommonSettled(s)' <=> work.kind = "up" /\ at = "done"
       /\ CommonShut(s)' <=> work.kind = "down" /\ at = "done"
       /\ s \in work'.s <=> at # "done"
       /\ work'.at = at
  BY <1>2, <1>d, TurnIs
<1>15. str'[s] = y /\ op'[s] = op[s]
  BY <1>1, <1>2, <1>12, Again
<1>16. x.ask = "STARTED"
  BY <1>3 DEF Meant
<1>17. reg' = reg \cup {<<d, s>> : d \in Common!Used(s)}
  BY <1>12 DEF Known
<1>18. AskInv(s)'
  <2>1. \A d : <<d, s>> \in reg => d \in Common!Devices
    BY <1>0 DEF CommonTypes
  <2>2. \A d : <<d, s>> \in reg' <=> <<d, s>> \in reg \/ d \in Common!Used(s)
    BY <1>17
  <2>3. \A d \in Common!Devices : <<d, s>> \in reg' => d \in Common!Used(s)
    BY <1>0, <2>2 DEF AskInv
  <2> QED
    BY <1>2, <1>3, <1>d, <1>6, <1>10, <1>13, <1>14, <1>15, <1>16, <2>2, <2>3 DEF AskInv, Meant
<1>19. OneUpd => GainInv(s)'
  BY <1>0, <1>2, <1>3, <1>6, <1>10, <1>13, <1>15 DEF GainInv, Common!Wanted
<1>20. op' = [op EXCEPT ![s] = op[s]] /\ y.st = "STARTED"
  BY <1>0, <1>2, <1>6, <1>10, <1>13
<1> QED
  BY <1>0, <1>2, <1>3, <1>12, <1>13, <1>14, <1>17, <1>18, <1>19, <1>20, OneKeeps
     DEF DevsMove, RegMoves

(***************************************************************************)
(* Every step keeps it,                                                    *)
(***************************************************************************)
LEMMA CommonGoesOn ==
  ASSUME Common!CommonAssumption, ~Hasty, CommonInv, [Common!Next]_(Common!vars)
  PROVE  CommonInv'
<1>1. CASE Common!Goes \/ Common!Returns \/ Common!Finishes
  BY <1>1, CommonGoes
<1>2. CASE Common!Speaker
  BY <1>2, CommonSpeaker
<1>3. ASSUME NEW s \in Common!Streams, Common!Step(s) PROVE CommonInv'
  <2>1. CASE Common!Open(s)
    BY <2>1, CommonOpens
  <2>2. CASE Common!Start(s)
    BY <2>2, CommonStartsOne
  <2>3. CASE Common!Stop(s)
    BY <2>3, CommonStops
  <2>4. CASE Common!Close(s)
    BY <2>4, CommonCloses
  <2>5. CASE Common!Registers(s)
    BY <2>5, CommonRegisters
  <2>6. CASE Common!Gains(s)
    BY <2>6, CommonGainsOne
  <2>7. CASE Common!StopsAfter(s)
    BY <2>7, CommonStopsAfter
  <2>8. CASE Common!ssrDownHandler(s)
    BY <2>8, CommonDown
  <2>9. CASE Common!DownStops(s)
    BY <2>9, CommonDownStops
  <2>10. CASE Common!DownCloses(s)
    BY <2>10, CommonDownCloses
  <2>11. CASE Common!ssrUpHandler(s)
    BY <2>11, CommonUp
  <2>12. CASE Common!UpStarts(s)
    BY <2>12, CommonUpStarts
  <2> QED
    BY <1>3, <2>1, <2>2, <2>3, <2>4, <2>5, <2>6, <2>7, <2>8, <2>9, <2>10, <2>11, <2>12
       DEF Common!Step
<1>4. CASE UNCHANGED Common!vars
  <2>1. UNCHANGED <<str, devs, reg, op, speaker, card, work, downs>>
    BY <1>4 DEF Common!vars
  <2>2. CommonTypes' /\ CommonWork' /\ CommonCounts'
    BY <2>1 DEF CommonInv, CommonTypes, CommonWork, CommonCounts, OpenOn, StartOn
  <2>3. /\ work' = work
        /\ \A t : (CommonSettled(t)' <=> CommonSettled(t)) /\ (CommonShut(t)' <=> CommonShut(t))
    BY <2>1 DEF CommonSettled, CommonShut
  <2>4. \A t \in Common!Streams : AskInv(t)
    BY DEF CommonInv
  <2>5. ASSUME NEW t \in Common!Streams PROVE AskInv(t)'
    BY <2>1, <2>3, <2>4, AskKept
  <2>6. OneUpd => \A t \in Common!Streams : GainInv(t)
    BY DEF CommonInv
  <2>7. ASSUME OneUpd, NEW t \in Common!Streams PROVE GainInv(t)'
    BY <2>1, <2>6, <2>7 DEF GainInv, Common!Wanted
  <2>8. OneUpd' <=> OneUpd
    BY DEF OneUpd
  <2> QED
    BY <2>2, <2>5, <2>7, <2>8 DEF CommonInv
<1> QED
  BY <1>1, <1>2, <1>3, <1>4 DEF Common!Next

(***************************************************************************)
(* and so it holds throughout.                                             *)
(***************************************************************************)
LEMMA CommonInvariant ==
  ASSUME Common!CommonAssumption, ~Hasty
  PROVE  Common!Spec => []CommonInv
<1>1. Common!Init => CommonInv
  BY CommonStarts
<1>2. CommonInv /\ [Common!Next]_(Common!vars) => CommonInv'
  BY CommonGoesOn
<1> QED
  BY <1>1, <1>2, PTL DEF Common!Spec

(***************************************************************************)
(* It says of the streams what was asked of them.                          *)
(***************************************************************************)
LEMMA CommonProps ==
  ASSUME CommonInv
  PROVE  /\ Common!TypeOK /\ Common!CountsExact /\ Common!RoutesRight /\ Common!PromisesKept
         /\ OneUpd => Common!Adapts
<1>0. CommonTypes /\ CommonWork /\ CommonCounts /\ (\A t \in Common!Streams : AskInv(t))
      /\ (OneUpd => \A t \in Common!Streams : GainInv(t))
  BY DEF CommonInv
<1>1. Common!TypeOK
  BY <1>0 DEF Common!TypeOK, CommonTypes, CommonRec, CommonStates, CommonGains, CommonDevs
<1>2. Common!CountsExact
  <2>1. ASSUME NEW d \in Common!Devices
        PROVE  /\ devs[d].open = Cardinality(OpenOn(d))
               /\ devs[d].start = Cardinality(StartOn(d))
    BY <1>0 DEF CommonCounts
  <2>2. \A s \in Common!Streams : str[s].sess <=> str[s].st # "IDLE"
    BY <1>0 DEF AskInv
  <2>3. ASSUME NEW D PROVE Common!Cardinality(D) = Cardinality(D)
    BY DEF Common!Cardinality, Cardinality
  <2>4. /\ \A d : {s \in Common!Streams : d \in Common!Used(s) /\ str[s].st # "IDLE"} = OpenOn(d)
        /\ \A d : {s \in Common!Streams : d \in Common!Used(s) /\ str[s].st = "STARTED"} = StartOn(d)
    BY DEF OpenOn, StartOn
  <2> QED
    BY <2>1, <2>2, <2>3, <2>4 DEF Common!CountsExact
<1>3. Common!RoutesRight
  BY <1>0 DEF Common!RoutesRight, AskInv
<1>4. Common!PromisesKept
  <2>1. ASSUME work.kind = "none", card = "ON", NEW s \in Common!Streams, op[s].at = "none"
        PROVE  /\ str[s].ask = "STARTED" => str[s].run
               /\ str[s].ask \in {"INIT", "STOPPED", "none"} => ~str[s].run
    <3>1. CommonSettled(s) /\ AskInv(s)
      BY <1>0, <2>1 DEF CommonSettled
    <3>2. str[s].st \in Meant(str[s].ask) /\ (str[s].run <=> str[s].st = "STARTED")
      BY <2>1, <3>1 DEF AskInv
    <3> QED
      BY <3>2 DEF Meant
  <2> QED
    BY <2>1 DEF Common!PromisesKept, Common!Busy, Common!None
<1>5. OneUpd => Common!Adapts
  <2>1. ASSUME OneUpd, NEW s \in Upds, op[s].at = "none"
        PROVE  /\ str[s].st = "STARTED" => str[s].dsp = Common!Wanted
               /\ str[s].st = "STOPPED" => str[s].dsp = "mute"
    <3>1. GainInv(s)
      BY <1>0, <2>1 DEF Common!Streams
    <3> QED
      BY <2>1, <3>1 DEF GainInv
  <2> QED
    BY <2>1 DEF Common!Adapts, Common!Busy, Common!None
<1> QED
  BY <1>1, <1>2, <1>3, <1>4, <1>5

(***************************************************************************)
(* The state of the common and the ultrasound streams keeps its shape.     *)
(***************************************************************************)
THEOREM CommonShape ==
  ASSUME Common!CommonAssumption, ~Hasty
  PROVE  Common!Spec => []Common!TypeOK
  BY CommonInvariant, CommonProps, PTL DEF Common!Spec

(***************************************************************************)
(* However many streams share a device, deviceCount and                    *)
(* deviceStartStopCount are the number that have it open and the number    *)
(* that run on it, through every restart of the card; and a session is     *)
(* open exactly as long as its stream is.                                  *)
(***************************************************************************)
THEOREM CommonDevicesCounted ==
  ASSUME Common!CommonAssumption, ~Hasty
  PROVE  Common!Spec => []Common!CountsExact
  BY CommonInvariant, CommonProps, PTL DEF Common!Spec

(***************************************************************************)
(* Exactly the devices of the streams that run are registered as active,   *)
(* once the start has come to that.                                        *)
(***************************************************************************)
THEOREM CommonRegistered ==
  ASSUME Common!CommonAssumption, ~Hasty
  PROVE  Common!Spec => []Common!RoutesRight
  BY CommonInvariant, CommonProps, PTL DEF Common!Spec

(***************************************************************************)
(* Once a restart of the card is over, each stream runs or not as its      *)
(* client was told, though start() of a stream that was opened is answered *)
(* while the card is away.                                                 *)
(***************************************************************************)
THEOREM CommonPromises ==
  ASSUME Common!CommonAssumption, ~Hasty
  PROVE  Common!Spec => []Common!PromisesKept
  BY CommonInvariant, CommonProps, PTL DEF Common!Spec

(***************************************************************************)
(* An ultrasound stream that runs has the gain for what plays beside it,   *)
(* and one that was stopped was muted. There is one such stream at most:   *)
(* setUltrasoundGain() of ResourceManager tells the first it finds active  *)
(* and no other.                                                           *)
(***************************************************************************)
THEOREM UltrasoundGain ==
  ASSUME Common!CommonAssumption, ~Hasty, OneUpd
  PROVE  Common!Spec => []Common!Adapts
  BY CommonInvariant, CommonProps, PTL DEF Common!Spec
==============================================================================
