---------------------------- MODULE PalLifecycle ----------------------------
(***************************************************************************)
(* pal_init() and pal_deinit() count their callers. The first one creates  *)
(* ResourceManager, the thread that handles the card's restarts, the card's *)
(* monitor, the thread for the mixer's events and the context manager; the *)
(* last one has each of them end and waits for it. Static variables live   *)
(* on: mixerClosed, exit_thread and the monitor's file.                    *)
(***************************************************************************)
EXTENDS Integers, Sequences

CONSTANTS
  MaxUsers,    \* how often pal_init() is called and not undone
  MaxChanges,  \* how often the card's state changes
  Hasty        \* may the start fail, PAL start again, or end while a message is on its way?

LifecycleAssumption == MaxUsers \in Nat \ {0} /\ MaxChanges \in Nat /\ Hasty \in BOOLEAN

VARIABLES
  refs, users,           \* pal_init_ref_cnt; the callers that were told of success
  rm, ctx,               \* are ResourceManager and the context manager there?
  job,                   \* the thread that pal_deinit() waits for
  mixer, event, closed,  \* the mixer's thread, an event for it; mixerClosed
  monitor, fd, leaving,  \* the monitor's thread, its file; exit_thread
  card,                  \* the card's state file: what it says, is that news, how often it changed
  worker, msgQ,          \* ssrHandlingLoop() and its messages
  thrown                 \* was a thread joined that is not there?
vars == <<refs, users, rm, ctx, job, mixer, event, closed, monitor, fd, leaving, card, worker, msgQ, thrown>>
ends == <<refs, users, rm, ctx, job, thrown>>

Init ==
  /\ refs = 0 /\ users = 0 /\ rm = FALSE /\ ctx = FALSE /\ job = "none" /\ thrown = FALSE
  /\ mixer = "none" /\ event = FALSE /\ closed = FALSE
  /\ monitor = "none" /\ fd = FALSE /\ leaving = FALSE
  /\ card = [says |-> "ON", news |-> FALSE, changes |-> 0] /\ worker = "none" /\ msgQ = <<>>

(* The monitor waits, and has seen what the file says.                     *)
Calm == Hasty \/ (monitor = "polls" /\ ~card.news)

------------------------------------------------------------------------------
(* pal_mutex keeps the two apart.                                          *)
Starts == rm' = TRUE /\ mixer' = "waits" /\ monitor' = "tries" /\ worker' = "waits"
pal_init(fails) ==
  /\ job = "none" /\ refs < MaxUsers /\ refs' = refs + 1
  /\ (fails # "nothing" \/ (refs = 0 /\ closed) => Hasty)
  /\ IF refs > 0 \/ (fails = "creation" /\ ~rm) THEN UNCHANGED <<rm, ctx, mixer, monitor, worker>>
     ELSE Starts /\ ctx' = (fails # "context manager")
  /\ users' = IF refs > 0 \/ fails = "nothing" THEN users + 1 ELSE users
  /\ UNCHANGED <<job, event, closed, fd, leaving, card, msgQ, thrown>>

Last == refs = 1
pal_deinit ==
  /\ job = "none" /\ refs > 0 /\ (users > 0 \/ Hasty) /\ (Last => Calm)
  /\ refs' = refs - 1 /\ users' = IF users > 0 THEN users - 1 ELSE users
  /\ IF Last THEN rm' = TRUE /\ ctx' = FALSE /\ closed' = TRUE /\ job' = "mixer"
             ELSE UNCHANGED <<rm, ctx, closed, job>>
  /\ UNCHANGED <<mixer, event, monitor, fd, leaving, card, worker, msgQ, thrown>>

(* Each thread is told, and waited for, before the next one.               *)
JoinsMixer ==
  /\ job = "mixer" /\ mixer \in {"none", "over"} /\ job' = "monitor" /\ leaving' = TRUE
  /\ card' = IF fd THEN [card EXCEPT !.says = "LEAVE", !.news = TRUE] ELSE card
  /\ UNCHANGED <<refs, users, rm, ctx, mixer, event, closed, monitor, fd, worker, msgQ, thrown>>
JoinsMonitor ==
  /\ job = "monitor" /\ monitor \in {"none", "over"} /\ job' = "worker" /\ msgQ' = Append(msgQ, "NONE")
  /\ UNCHANGED <<refs, users, rm, ctx, mixer, event, closed, monitor, fd, leaving, card, worker, thrown>>
JoinsWorker ==
  /\ job = "worker" /\ worker \in {"none", "over"} /\ thrown' = (thrown \/ worker = "none")
  /\ job' = "none" /\ rm' = FALSE /\ msgQ' = <<>> /\ mixer' = "none" /\ monitor' = "none" /\ worker' = "none"
  /\ UNCHANGED <<refs, users, ctx, event, closed, fd, leaving, card>>

------------------------------------------------------------------------------
(* The mixer's events. To close the mixer ends the wait for one.           *)
Event == rm /\ ~closed /\ event' = TRUE /\ UNCHANGED <<ends, mixer, closed, monitor, fd, leaving, card, worker, msgQ>>
mixerEventWaitThreadLoop ==
  /\ mixer = "waits" /\ (event \/ job = "mixer") /\ event' = FALSE
  /\ mixer' = IF closed THEN "over" ELSE "waits"
  /\ UNCHANGED <<ends, closed, monitor, fd, leaving, card, worker, msgQ>>

(* The card's file. The monitor opens it, in vain for some time; reads it  *)
(* before each wait, which makes what it says old; and looks at it after.  *)
Changes ==
  /\ card.changes < MaxChanges /\ (job # "none" \/ leaving => Hasty)
  /\ card' = [says |-> IF card.says = "ON" THEN "OFF" ELSE "ON", news |-> TRUE, changes |-> card.changes + 1]
  /\ UNCHANGED <<ends, mixer, event, closed, monitor, fd, leaving, worker, msgQ>>
Opens(found) ==
  /\ monitor = "tries" /\ (~found => Hasty)
  /\ fd' = (fd \/ (found /\ ~leaving)) /\ monitor' = IF fd' THEN "reads" ELSE "over"
  /\ UNCHANGED <<ends, mixer, event, closed, leaving, card, worker, msgQ>>
Reads ==
  /\ monitor = "reads" /\ monitor' = "polls" /\ card' = [card EXCEPT !.news = FALSE]
  /\ UNCHANGED <<ends, mixer, event, closed, fd, leaving, worker, msgQ>>
Polls ==
  /\ monitor = "polls" /\ card.news /\ card' = [card EXCEPT !.news = FALSE]
  /\ monitor' = IF card.says = "LEAVE" THEN "over" ELSE card.says
  /\ UNCHANGED <<ends, mixer, event, closed, fd, leaving, worker, msgQ>>
ssrHandler ==
  /\ monitor \in {"ON", "OFF"} /\ monitor' = "reads" /\ msgQ' = Append(msgQ, monitor)
  /\ UNCHANGED <<ends, mixer, event, closed, fd, leaving, card, worker>>
ssrHandlingLoop ==
  /\ worker = "waits" /\ msgQ # <<>> /\ msgQ' = Tail(msgQ)
  /\ worker' = IF Head(msgQ) = "NONE" THEN "over" ELSE "waits"
  /\ UNCHANGED <<ends, mixer, event, closed, monitor, fd, leaving, card>>

Next ==
  \/ \E fails \in {"nothing", "creation", "context manager"} : pal_init(fails)
  \/ pal_deinit \/ JoinsMixer \/ JoinsMonitor \/ JoinsWorker
  \/ Event \/ mixerEventWaitThreadLoop \/ Changes \/ (\E found \in BOOLEAN : Opens(found))
  \/ Reads \/ Polls \/ ssrHandler \/ ssrHandlingLoop
Spec == Init /\ [][Next]_vars

------------------------------------------------------------------------------
TypeOK ==
  /\ refs \in 0..MaxUsers /\ users \in 0..MaxUsers /\ {rm, ctx, event, closed, fd, leaving, thrown} \subseteq BOOLEAN
  /\ job \in {"none", "mixer", "monitor", "worker"} /\ {mixer, worker} \subseteq {"none", "waits", "over"}
  /\ monitor \in {"none", "tries", "reads", "polls", "ON", "OFF", "over"} /\ card.says \in {"ON", "OFF", "LEAVE"}
  /\ Len(msgQ) <= MaxChanges + 1

(* The count is that of the callers who were told that PAL is there.       *)
CountsExact == refs = users

(***************************************************************************)
(* A caller of pal_init() that was told of success has ResourceManager and *)
(* all its threads until its own pal_deinit().                             *)
(***************************************************************************)
PromisesKept == users > 0 => rm /\ ctx /\ mixer = "waits" /\ worker = "waits" /\ monitor # "over"

(* The last pal_deinit() leaves nothing that runs.                         *)
NoOrphan == refs = 0 /\ job = "none" => ~rm /\ {mixer, monitor, worker} = {"none"} /\ msgQ = <<>>

(* pal_deinit() waits for no thread that waits for what has gone by, and   *)
(* for none that was never started.                                        *)
NeverBlocks == ~thrown /\ ~(job = "monitor" /\ monitor = "polls" /\ ~card.news)
==============================================================================
