------------------------------ MODULE HwBinder ------------------------------
(***************************************************************************)
(* The HIDL service in front of PAL. The server keeps, for each client     *)
(* process, the streams it opened and for each of them an object that      *)
(* holds the client's callback and the descriptors duplicated for its      *)
(* buffers. PAL is handed the bare address of that object. Calls of one    *)
(* client run on several binder threads, events come on the streams' own   *)
(* threads, and a death notice closes what the client left, holding        *)
(* mClientLock throughout.                                                 *)
(***************************************************************************)
EXTENDS Integers, FiniteSets

CONSTANTS
  Clients, Handles,
  Joins,       \* the streams whose closing waits for their event thread
  MaxFds,      \* how many descriptors there are
  MaxDevices,  \* how many devices a client may ask for
  Hasty        \* may a client race with itself, die at any moment, or call what never worked?

None   == "none"

HwAssumption ==
  /\ Joins \subseteq Handles /\ MaxFds \in Nat \ {0} /\ MaxDevices \in Nat \ {0} /\ Hasty \in BOOLEAN
  /\ None \notin Clients \cup Handles

Fds    == 1..MaxFds
Stride == 2  \* the size of an element, taken for a number of elements
Controls == {"start", "stop"}
Settings == {"mute"} \cup IF Hasty THEN {"volume"} ELSE {}
Queries  == {"time"} \cup IF Hasty THEN {"position"} ELSE {}
Ops == Controls \cup Settings \cup Queries

VARIABLES
  alive,  \* the processes that live
  sess,   \* mPalClients: the sessions of each process
  link,   \* the session whose callback carries the death notice of its process
  obj,    \* of each handle, its SrvrClbk
  pal,    \* of each handle, PAL's stream: its state, its devices, the buffers it has
  fds,    \* of each descriptor, the handle it was duplicated for
  calls,  \* the client calls being served
  ev,     \* of each handle, the event its thread is telling
  death,  \* the process serviceDied is clearing, and the sessions it has to close
  seen    \* what went wrong in a callback or a reply
vars == <<alive, sess, link, obj, pal, fds, calls, ev, death, seen>>

NoObj  == [live |-> FALSE, died |-> FALSE, list |-> {}]
NoPal  == [st |-> None, asked |-> 0, devs |-> {}, held |-> {}]
NoEv   == [at |-> None, fd |-> 0, in |-> 0]
NoDeath == [c |-> None, todo |-> {}]

Init ==
  /\ alive = Clients /\ sess = [c \in Clients |-> {}] /\ link = [c \in Clients |-> None]
  /\ obj = [h \in Handles |-> NoObj] /\ pal = [h \in Handles |-> NoPal]
  /\ fds = [n \in Fds |-> None] /\ calls = {} /\ ev = [h \in Handles |-> NoEv]
  /\ death = NoDeath /\ seen = {}

Unlocked == death.c = None  \* mClientLock is free
isValidstreamHandle(c, h) == h \in sess[c]
Active(h) == \E c \in Clients : h \in sess[c]
Busy(c) == \E k \in calls : k.c = c
Calls(c) == c \in alive /\ Unlocked /\ Cardinality(calls) < 2 /\ (Hasty \/ ~Busy(c))
Call(op, c, h, n, i) == [op |-> op, c |-> c, h |-> h, fd |-> n, in |-> i]
Dups(h) == {p[2] : p \in obj[h].list}
Closed(N) == [n \in Fds |-> IF n \in N THEN None ELSE fds[n]]

(* The client writes device k, and the server reads it, a stride of whole  *)
(* elements after the last; but the client always counts from the start.   *)
SentAt(k) == IF k = 0 THEN 0 ELSE Stride
ReadAt(k) == k * Stride
Received(n) == {k \in 0..(n - 1) : \E j \in 0..(n - 1) : SentAt(j) = ReadAt(k) /\ \A l \in 0..(n - 1) : SentAt(l) = SentAt(j) => l <= j}

------------------------------------------------------------------------------
(* The calls.                                                              *)
ipc_pal_stream_open(c, h) ==
  /\ Calls(c) /\ pal[h].st = None /\ ev[h].at = None /\ ~obj[h].live
  /\ \A k \in calls : k.h # h
  /\ \E n \in 1..MaxDevices :
       pal' = [pal EXCEPT ![h] = [NoPal EXCEPT !.st = "open", !.asked = n, !.devs = Received(n)]]
  /\ obj' = [obj EXCEPT ![h] = [NoObj EXCEPT !.live = TRUE]]
  /\ calls' = calls \cup {Call("open", c, h, 0, 0)}
  /\ UNCHANGED <<alive, sess, link, fds, ev, death, seen>>

(* PAL has the stream; the session is entered, and the first of a process  *)
(* carries the notice of its death.                                        *)
KeepsLink(c, h) == IF sess[c] = {} /\ c \in alive THEN h ELSE link[c]
OpenRegisters(k) ==
  /\ k \in calls /\ k.op = "open" /\ Unlocked
  /\ sess' = [sess EXCEPT ![k.c] = @ \cup {k.h}]
  /\ link' = [link EXCEPT ![k.c] = KeepsLink(k.c, k.h)]
  /\ calls' = calls \ {k}
  /\ UNCHANGED <<alive, obj, pal, fds, ev, death, seen>>

(* The session goes before the stream does: its descriptors are closed and *)
(* its object let go.                                                      *)
LeavesFds(h) == fds  \* seeded fault: the descriptors are only forgotten
CloseFds(h) == Closed(Dups(h))
ipc_pal_stream_close(c, h) ==
  /\ Calls(c) /\ isValidstreamHandle(c, h)
  /\ (~Hasty => pal[h].held = {} /\ ev[h].at = None /\ (link[c] = h => sess[c] = {h}))
  /\ fds' = CloseFds(h)
  /\ obj' = [obj EXCEPT ![h] = NoObj]
  /\ sess' = [sess EXCEPT ![c] = @ \ {h}]
  /\ link' = [link EXCEPT ![c] = IF @ = h THEN None ELSE @]
  /\ calls' = calls \cup {Call("close", c, h, 0, 0)}
  /\ UNCHANGED <<alive, pal, ev, death, seen>>
PalCloses(k) ==
  /\ k \in calls /\ k.op = "close" /\ (k.h \in Joins => ev[k.h].at = None)
  /\ pal' = [pal EXCEPT ![k.h] = NoPal] /\ calls' = calls \ {k}
  /\ UNCHANGED <<alive, sess, link, obj, fds, ev, death, seen>>

(* A buffer's descriptor is duplicated for each write and read, entered if *)
(* the session is still there, and the buffer goes to PAL.                 *)
ipc_pal_stream_write(c, h) ==
  /\ Calls(c) /\ isValidstreamHandle(c, h)
  /\ \E n \in Fds, i \in Fds :
       /\ fds[n] = None /\ \A m \in 1..(n - 1) : fds[m] # None
       /\ fds' = [fds EXCEPT ![n] = h]
       /\ calls' = calls \cup {Call("write", c, h, n, i)}
  /\ UNCHANGED <<alive, sess, link, obj, pal, ev, death, seen>>
add_input_and_dup_fd(k) ==
  /\ k \in calls /\ k.op = "write" /\ Unlocked
  /\ obj' = [obj EXCEPT ![k.h].list = IF Active(k.h) THEN @ \cup {<<k.in, k.fd>>} ELSE @]
  /\ pal' = [pal EXCEPT ![k.h].held = IF pal[k.h].st = "started" THEN @ \cup {<<k.in, k.fd>>} ELSE @]
  /\ calls' = calls \ {k}
  /\ UNCHANGED <<alive, sess, link, fds, ev, death, seen>>

(* Every other call asks only whether the handle is the caller's. A volume *)
(* comes as so many elements that the server refuses it; a position is     *)
(* never given back.                                                       *)
Elements(op) == IF op = "volume" THEN Stride ELSE 1
Reaches(op) == Elements(op) = 1
Replies(op) == op # "position"
Command(c, h, op) ==
  /\ Calls(c) /\ isValidstreamHandle(c, h) /\ pal[h].st # None
  /\ pal' = [pal EXCEPT ![h].st = IF op = "start" THEN "started" ELSE IF op = "stop" THEN "open" ELSE @,
                        ![h].held = IF op = "stop" THEN {} ELSE @]
  /\ seen' = seen \cup IF Reaches(op) /\ Replies(op) THEN {} ELSE {"unanswered"}
  /\ (~Hasty /\ op = "stop" => pal[h].held = {})
  /\ UNCHANGED <<alive, sess, link, obj, fds, calls, ev, death>>

------------------------------------------------------------------------------
(* The events, told on the stream's own thread.                            *)
Event(h) ==
  /\ pal[h].st = "started" /\ ev[h].at = None /\ (~Hasty => Active(h) /\ Unlocked)
  /\ \E p \in pal[h].held \cup {<<0, 0>>} :
       /\ ev' = [ev EXCEPT ![h] = [at |-> "asks", fd |-> p[2], in |-> p[1]]]
       /\ pal' = [pal EXCEPT ![h].held = @ \ {p}]
  /\ UNCHANGED <<alive, sess, link, obj, fds, calls, death, seen>>
isPalSessionActive(h) ==
  /\ ev[h].at = "asks" /\ Unlocked
  /\ IF Active(h) THEN ev' = [ev EXCEPT ![h].at = "asked"] /\ UNCHANGED seen
     ELSE /\ ev' = [ev EXCEPT ![h] = NoEv]
          /\ seen' = seen \cup IF \E k \in calls : k.op = "open" /\ k.h = h THEN {"lost"} ELSE {}
  /\ UNCHANGED <<alive, sess, link, obj, pal, fds, calls, death>>

(* The object is taken by the address PAL was given; a buffer's descriptor *)
(* is looked up, the client told by its own number, and the copy closed.   *)
TakesFirst(h, n) == obj[h].list  \* seeded fault: any pair is taken for the buffer's
Told(p) == p[1]
Found(h, n) == {p \in obj[h].list : p[2] = n}
pal_callback(h) ==
  /\ ev[h].at = "asked" /\ Unlocked /\ ev' = [ev EXCEPT ![h] = NoEv]
  /\ IF ~obj[h].live THEN seen' = seen \cup {"wild"} /\ UNCHANGED <<obj, fds>>
     ELSE IF ev[h].fd = 0 THEN UNCHANGED <<seen, obj, fds>>
     ELSE IF Found(h, ev[h].fd) = {} THEN seen' = seen \cup {"unknown"} /\ UNCHANGED <<obj, fds>>
     ELSE LET p == CHOOSE q \in Found(h, ev[h].fd) : TRUE
          IN /\ seen' = seen \cup IF Told(p) = ev[h].in THEN {} ELSE {"wrong"}
             /\ obj' = [obj EXCEPT ![h].list = @ \ {p}]
             /\ fds' = Closed({p[2]})
  /\ UNCHANGED <<alive, sess, link, pal, calls, death>>

------------------------------------------------------------------------------
(* A client process dies; a notice, if one was linked, reaches the server. *)
Dies(c) ==
  /\ c \in alive /\ (~Hasty => ~Busy(c))
  /\ alive' = alive \ {c}
  /\ UNCHANGED <<sess, link, obj, pal, fds, calls, ev, death, seen>>
serviceDied(c) ==
  /\ c \notin alive /\ link[c] # None /\ Unlocked /\ (~Hasty => \A h \in Handles : ev[h].at = None)
  /\ death' = [c |-> c, todo |-> sess[c]]
  /\ obj' = [h \in Handles |-> IF h \in sess[c] THEN [obj[h] EXCEPT !.died = TRUE] ELSE obj[h]]
  /\ UNCHANGED <<alive, sess, link, pal, fds, calls, ev, seen>>
DeathCloses(h) ==
  /\ h \in death.todo /\ (h \in Joins => ev[h].at = None)
  /\ pal' = [pal EXCEPT ![h] = NoPal] /\ fds' = CloseFds(h)
  /\ obj' = [obj EXCEPT ![h] = NoObj]
  /\ death' = [death EXCEPT !.todo = @ \ {h}]
  /\ UNCHANGED <<alive, sess, link, calls, ev, seen>>
DeathEnds ==
  /\ death.c # None /\ death.todo = {} /\ death' = NoDeath
  /\ sess' = [sess EXCEPT ![death.c] = {}] /\ link' = [link EXCEPT ![death.c] = None]
  /\ UNCHANGED <<alive, obj, pal, fds, calls, ev, seen>>

Serve(c, h) ==
  \/ ipc_pal_stream_open(c, h) \/ ipc_pal_stream_close(c, h) \/ ipc_pal_stream_write(c, h)
  \/ \E op \in Ops : Command(c, h, op)
Finish(k) == OpenRegisters(k) \/ PalCloses(k) \/ add_input_and_dup_fd(k)
Stream(h) == Event(h) \/ isPalSessionActive(h) \/ pal_callback(h) \/ DeathCloses(h)
Next ==
  \/ \E c \in Clients, h \in Handles : Serve(c, h)
  \/ \E k \in calls : Finish(k)
  \/ \E h \in Handles : Stream(h)
  \/ \E c \in Clients : Dies(c) \/ serviceDied(c)
  \/ DeathEnds
Spec == Init /\ [][Next]_vars

------------------------------------------------------------------------------
(* The shape of the state.                                                 *)
TypeOK ==
  /\ alive \subseteq Clients /\ \A c \in Clients : sess[c] \subseteq Handles
  /\ \A c \in Clients : link[c] \in Handles \cup {None}
  /\ \A h \in Handles : pal[h].st \in {None, "open", "started"} /\ ev[h].at \in {None, "asks", "asked"}
  /\ \A n \in Fds : fds[n] \in Handles \cup {None}

(* Every stream of PAL is some process's session or in the middle of a     *)
(* call, and every descriptor is in its session's list, in a call, or in   *)
(* an event; what a dead process left is still to be cleared.              *)
NoOrphan ==
  /\ \A h \in Handles : pal[h].st # None => Active(h) \/ \E k \in calls : k.h = h
  /\ \A n \in Fds : fds[n] # None => n \in Dups(fds[n]) \/ \E k \in calls : k.fd = n
  /\ \A c \in Clients : c \notin alive /\ sess[c] # {} => link[c] # None

(* An event reaches the object of its own stream while that lives, names   *)
(* the buffer by the number the client gave, and none is lost; what a      *)
(* client asks for is done and answered, on the devices it named.          *)
CallbacksRight ==
  seen = {} /\ \A h \in Handles : pal[h].st # None => pal[h].devs = 0..(pal[h].asked - 1)

(* A buffer PAL has is still the one the descriptor was duplicated for.    *)
RoutesRight == \A h \in Handles : \A p \in pal[h].held : fds[p[2]] = h

(* The notice that holds mClientLock never waits for an event that waits   *)
(* for the lock.                                                           *)
NeverBlocks == \A h \in death.todo \cap Joins : ev[h].at = None
=============================================================================
