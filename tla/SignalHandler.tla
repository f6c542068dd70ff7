---------------------------- MODULE SignalHandler ----------------------------
(***************************************************************************)
(* The handler PAL puts before the debugger's for the one signal it is     *)
(* interested in: it tells AGM, puts the debugger's handler back, raises   *)
(* the signal again and has a thread of its own register PAL's handler     *)
(* anew a while later. The handler locks a mutex and waits for the thread  *)
(* that the last signal left, which locks the same mutex.                  *)
(***************************************************************************)
EXTENDS Integers, FiniteSets

CONSTANTS
  Threads,     \* the threads of the process that the signal may come to
  MaxSignals,  \* how many signals come
  Hasty        \* may a signal come while another one is handled, or stay pending for long?

SignalAssumption ==
  /\ MaxSignals \in Nat \ {0} /\ Hasty \in BOOLEAN
  /\ {"free", "job"} \cap Threads = {}

Jobs == 1..MaxSignals
VARIABLES
  action,  \* the signal's handler: PAL's or the debugger's
  lock,    \* who holds sDefaultSigMapLock: a thread, the job that holds the other lock, or nobody
  th,      \* of each thread, where it is in customSignalHandler()
  jobs,    \* of each signal, where its asyncRegister() is
  reg,     \* the job that holds sAsyncRegisterLock; 0 when none does
  handle,  \* the job of sAsyncHandle; 0 when it has none
  count    \* signals that came, that AGM was told of, that the debugger handled
vars == <<action, lock, th, jobs, reg, handle, count>>

Outside == [at |-> "none", job |-> 0]
Init ==
  /\ action = "custom" /\ lock = "free" /\ th = [t \in Threads |-> Outside]
  /\ jobs = [j \in Jobs |-> "none"] /\ reg = 0 /\ handle = 0
  /\ count = [came |-> 0, told |-> 0, handled |-> 0]

------------------------------------------------------------------------------
Rests == \A t \in Threads : th[t].at = "none"

(* The thread it comes to may be in the handler already (SA_NODEFER), or   *)
(* the one that registers: with the lock held it waits for itself.         *)
Handled(t) ==
  IF action = "default" THEN count' = [count EXCEPT !.came = @ + 1, !.handled = @ + 1] /\ UNCHANGED <<th, jobs>>
  ELSE /\ count' = [count EXCEPT !.came = @ + 1]
       /\ IF t = "job" THEN jobs' = [jobs EXCEPT ![reg] = "stuck"] /\ UNCHANGED th
          ELSE th' = [th EXCEPT ![t].at = IF lock = t THEN "stuck" ELSE "enters"] /\ UNCHANGED jobs
Arrives(t) ==
  /\ count.came < MaxSignals
  /\ IF t = "job" THEN Hasty /\ lock = t
     ELSE Rests \/ (Hasty /\ (th[t].at = "none" \/ lock = t))
  /\ Handled(t) /\ UNCHANGED <<action, lock, reg, handle>>

customSignalHandler(t) ==
  /\ th[t].at = "enters" /\ lock = "free" /\ lock' = t
  /\ th' = [th EXCEPT ![t].at = "told"] /\ count' = [count EXCEPT !.told = @ + 1]
  /\ UNCHANGED <<action, jobs, reg, handle>>

(* The debugger's handler runs within raise(), on the same thread.         *)
Raised == [count EXCEPT !.handled = @ + 1]
invokeDefaultHandler(t) ==
  /\ th[t].at = "told" /\ action' = "default" /\ count' = Raised
  /\ \E j \in Jobs :
       /\ jobs[j] = "none" /\ \A k \in 1..(j - 1) : jobs[k] # "none"
       /\ jobs' = [jobs EXCEPT ![j] = "begins"]
       /\ th' = [th EXCEPT ![t] = [at |-> "keeps", job |-> j]]
  /\ UNCHANGED <<lock, reg, handle>>

(* The assignment destroys the last future, and so waits for its thread.   *)
Keeps(t) ==
  /\ th[t].at = "keeps" /\ (handle # 0 => jobs[handle] = "over")
  /\ handle' = th[t].job /\ lock' = "free" /\ th' = [th EXCEPT ![t] = Outside]
  /\ UNCHANGED <<action, jobs, reg, count>>

------------------------------------------------------------------------------
(* The registering thread: a delay, as often as the signal is pending,     *)
(* and not for good.                                                       *)
asyncRegister(j) ==
  /\ jobs[j] = "begins" /\ reg = 0 /\ reg' = j
  /\ jobs' = [jobs EXCEPT ![j] = "sleeps"]
  /\ UNCHANGED <<action, lock, th, handle, count>>
Awake(j, pending) ==
  /\ jobs[j] = "sleeps" /\ (pending => Hasty)
  /\ jobs' = [jobs EXCEPT ![j] = IF pending THEN "over" ELSE "waits"]
  /\ reg' = IF pending THEN 0 ELSE reg
  /\ UNCHANGED <<action, lock, th, handle, count>>
registerSignalHandler(j) ==
  /\ jobs[j] = "waits" /\ lock = "free" /\ lock' = "job" /\ action' = "custom"
  /\ jobs' = [jobs EXCEPT ![j] = "set"]
  /\ UNCHANGED <<th, reg, handle, count>>
Registered(j) ==
  /\ jobs[j] = "set" /\ lock' = "free" /\ reg' = 0 /\ jobs' = [jobs EXCEPT ![j] = "over"]
  /\ UNCHANGED <<action, th, handle, count>>

Next ==
  \/ \E t \in Threads :
       customSignalHandler(t) \/ invokeDefaultHandler(t) \/ Keeps(t)
  \/ \E t \in Threads \cup {"job"} : Arrives(t)
  \/ \E j \in Jobs :
       \/ asyncRegister(j) \/ registerSignalHandler(j) \/ Registered(j)
       \/ \E pending \in BOOLEAN : Awake(j, pending)
Spec == Init /\ [][Next]_vars

------------------------------------------------------------------------------
TypeOK ==
  /\ action \in {"custom", "default"} /\ lock \in {"free", "job"} \cup Threads
  /\ th \in [Threads -> [at : {"none", "enters", "told", "keeps", "stuck"}, job : {0} \cup Jobs]]
  /\ jobs \in [Jobs -> {"none", "begins", "sleeps", "waits", "set", "over", "stuck"}]
  /\ reg \in {0} \cup Jobs /\ handle \in {0} \cup Jobs
  /\ count \in [came : 0..MaxSignals, told : 0..MaxSignals, handled : 0..MaxSignals]

(* Every signal reaches the debugger, once, whoever handled it first, and  *)
(* AGM is told of none twice.                                              *)
CallbacksRight == count.told <= count.came /\ (Rests => count.handled = count.came)

(* PAL's handler is back once no thread is on its way to register it.      *)
PromisesKept == Rests /\ (\A j \in Jobs : jobs[j] \in {"none", "over"}) => action = "custom"

(* The handler and the thread it waits for do not wait for one another,    *)
(* and neither for a lock it holds itself.                                 *)
NeverBlocks ==
  /\ \A t \in Threads : th[t].at # "stuck" /\ (th[t].at = "keeps" /\ handle # 0 => jobs[handle] \in {"set", "over"})
  /\ \A j \in Jobs : jobs[j] # "stuck"
==============================================================================
