---------------------------- MODULE StreamHandles ----------------------------
(***************************************************************************)
(* The life of a stream handle.  A handle is the address of a Stream       *)
(* object, so every entry of the API must find out whether the object is   *)
(* still there and keep it there while it works on it.  It does so with    *)
(* the list of registered streams (mActiveStreams), a counter of users per *)
(* address (mActiveStreamUserCounter, both under mValidStreamMutex) and a  *)
(* semaphore inside the object that is 1 while nobody uses it.  The thread *)
(* that handles subsystem restarts pins streams the same way while it      *)
(* walks the list under mActiveStreamMutex.                                *)
(*                                                                         *)
(* A section under mValidStreamMutex is one step; only a section that      *)
(* blocks on the semaphore keeps the mutex across steps.                   *)
(***************************************************************************)
EXTENDS Integers, FiniteSets

CONSTANTS Clients,         \* threads that call the API
          Ssr,             \* the restart thread (ssrHandlingLoop)
          Streams,         \* objects: a bound on how many threads can have at hand
          Addresses,       \* where the allocator may place them
          None,
          MaxWalks,        \* bound: restarts handled in a behaviour
          ConcurrentClose, \* may a handle be closed while it is being closed?
          EarlyReuse       \* may an address be handed out before its entry is erased?

Threads == Clients \cup {Ssr}

ASSUME ThreadsAssumption == Ssr \notin Clients /\ IsFiniteSet(Clients)
ASSUME NoneAssumption == None \notin Threads \cup Streams \cup Addresses
ASSUME BoundAssumption == MaxWalks \in Nat
ASSUME SwitchAssumption == ConcurrentClose \in BOOLEAN /\ EarlyReuse \in BOOLEAN

VARIABLES
  live,         \* the objects that exist
  place,        \* the address of every object
  listed,       \* mActiveStreams, without its order
  ahead,        \* what the restart thread's iterator has yet to reach of it
  keyed, active, count, \* mActiveStreamUserCounter: its keys, which of them
                \* are active, and the count of each (0 where there is no key)
  smph,         \* mInUse of every object
  validMutex,   \* who blocks inside mValidStreamMutex
  activeMutex,  \* who holds mActiveStreamMutex across steps
  pc, at, obj,  \* of every thread: where it is, the handle, the object it pinned
  owned,        \* the objects whose handle was returned and not yet closed
  walks         \* restarts handled so far

objects == <<live, place, listed, ahead>>
locks   == <<validMutex, activeMutex>>
entry   == <<keyed, active, count>>
threads == <<pc, at, obj>>
vars    == <<objects, entry, smph, locks, threads, owned, walks>>

LiveAt(a)   == {s \in live : place[s] = a}
Counted     == {"using", "away", "back"}
Users(a)    == {t \in Threads : pc[t] \in Counted /\ at[t] = a}
Goes(t, to) == pc' = [pc EXCEPT ![t] = to]

\* Seeded fault: the object is not put on the list.
CreateUnlisted(t, s, a) ==
  /\ pc[t] = "idle"
  /\ s \notin live /\ \A u \in Threads : pc[u] # "idle" => obj[u] # s
  /\ LiveAt(a) = {} /\ a \notin keyed
  /\ validMutex = None /\ activeMutex = None
  /\ live' = live \cup {s}
  /\ place' = [place EXCEPT ![s] = a]
  /\ Goes(t, "opening")
  /\ at' = [at EXCEPT ![t] = a]
  /\ obj' = [obj EXCEPT ![t] = s]
  /\ UNCHANGED <<listed, ahead, entry, smph, locks, owned, walks>>

(***************************************************************************)
(* pal_stream_open(): the constructor registers the stream, open() works   *)
(* on it, and only then is the counter's entry made.  insert() leaves an   *)
(* entry alone that is already there.                                      *)
(***************************************************************************)
Create(t, s, a) ==
  /\ pc[t] = "idle"
  /\ s \notin live /\ \A u \in Threads : pc[u] # "idle" => obj[u] # s
  /\ LiveAt(a) = {}
  /\ EarlyReuse \/ a \notin keyed
  /\ validMutex = None /\ activeMutex = None
  /\ live' = live \cup {s}
  /\ place' = [place EXCEPT ![s] = a]
  /\ listed' = listed \cup {s}
  /\ ahead' = IF pc[Ssr] = "idle" THEN {} ELSE ahead \cup {s}
  /\ Goes(t, "opening")
  /\ at' = [at EXCEPT ![t] = a]
  /\ obj' = [obj EXCEPT ![t] = s]
  /\ UNCHANGED <<entry, smph, locks, owned, walks>>

\* Seeded fault: the semaphore starts at 0, as if the stream were in use.
InitTaken(t) ==
  /\ pc[t] = "opening"
  /\ validMutex = None
  /\ keyed' = keyed \cup {at[t]}
  /\ active' = active \cup {at[t]}
  /\ owned' = owned \cup {obj[t]}
  /\ Goes(t, "idle")
  /\ UNCHANGED <<objects, count, smph, locks, at, obj, walks>>

InitStreamUserCounter(t) ==
  /\ pc[t] = "opening"
  /\ validMutex = None
  /\ keyed' = keyed \cup {at[t]}
  /\ active' = IF at[t] \in keyed THEN active ELSE active \cup {at[t]}
  /\ smph' = [smph EXCEPT ![obj[t]] = 1]
  /\ owned' = owned \cup {obj[t]}
  /\ Goes(t, "idle")
  /\ UNCHANGED <<objects, count, locks, at, obj, walks>>

OpenFails(t) ==
  /\ pc[t] = "opening"
  /\ Goes(t, "failed")
  /\ UNCHANGED <<objects, entry, smph, locks, at, obj, owned, walks>>

(***************************************************************************)
(* increaseStreamUserCounter(), on entry of an operation: the first user   *)
(* takes the semaphore while it holds the mutex.  A thread that blocks     *)
(* there stays: the semaphore is posted under the same mutex.              *)
(***************************************************************************)
Increase(t, s) ==
  LET a == place[s]
      first == count[a] = 0
      blocks == first /\ smph[s] = 0
  IN  /\ validMutex = None
      /\ a \in active
      /\ count' = IF blocks THEN count ELSE [count EXCEPT ![a] = @ + 1]
      /\ UNCHANGED <<keyed, active>>
      /\ smph' = IF first /\ ~blocks THEN [smph EXCEPT ![s] = @ - 1] ELSE smph
      /\ validMutex' = IF blocks THEN t ELSE None
      /\ Goes(t, IF blocks THEN "blocked" ELSE "using")
      /\ at' = [at EXCEPT ![t] = a]
      /\ obj' = [obj EXCEPT ![t] = s]

\* Seeded fault: every user gives the semaphore back.
PostsAlways(t) ==
  LET c == count[at[t]] IN
  /\ validMutex = None
  /\ count' = IF c = 0 THEN count ELSE [count EXCEPT ![at[t]] = c - 1]
  /\ UNCHANGED <<keyed, active>>
  /\ smph' = [smph EXCEPT ![obj[t]] = @ + 1]

\* Seeded fault: the last user does not give the semaphore back.
PostsNever(t) ==
  LET c == count[at[t]] IN
  /\ validMutex = None
  /\ count' = IF c = 0 THEN count ELSE [count EXCEPT ![at[t]] = c - 1]
  /\ UNCHANGED <<keyed, active>>
  /\ UNCHANGED smph

(***************************************************************************)
(* decreaseStreamUserCounter(): the last user gives the semaphore back.    *)
(***************************************************************************)
Decrease(t) ==
  LET c == count[at[t]] IN
  /\ validMutex = None
  /\ count' = IF c = 0 THEN count ELSE [count EXCEPT ![at[t]] = c - 1]
  /\ UNCHANGED <<keyed, active>>
  /\ smph' = IF c = 1 THEN [smph EXCEPT ![obj[t]] = @ + 1] ELSE smph

(***************************************************************************)
(* An operation of the API on a registered stream, whatever it does to the *)
(* stream between the two sections.                                        *)
(***************************************************************************)
BeginOperation(t, s) ==
  /\ pc[t] = "idle"
  /\ s \in listed
  /\ Increase(t, s)
  /\ UNCHANGED <<objects, activeMutex, owned, walks>>

EndOperation(t) ==
  /\ pc[t] = "using"
  /\ Decrease(t)
  /\ Goes(t, "idle")
  /\ UNCHANGED <<objects, locks, at, obj, owned, walks>>

(***************************************************************************)
(* pal_stream_close(): the handle is looked up, close() works on the       *)
(* object without being counted, the entry is deactivated, the semaphore   *)
(* waited for, the object deleted, and last the entry erased.              *)
(***************************************************************************)
BeginClose(t, s) ==
  /\ pc[t] = "idle"
  /\ s \in owned \/ (ConcurrentClose /\ \E u \in Clients : pc[u] = "closing" /\ obj[u] = s)
  /\ validMutex = None
  /\ s \in listed
  /\ owned' = owned \ {s}
  /\ Goes(t, "closing")
  /\ at' = [at EXCEPT ![t] = place[s]]
  /\ obj' = [obj EXCEPT ![t] = s]
  /\ UNCHANGED <<objects, entry, smph, locks, walks>>

DeactivateStreamUserCounter(t) ==
  /\ pc[t] = "closing"
  /\ validMutex = None
  /\ active' = active \ {at[t]}
  /\ Goes(t, IF at[t] \in active THEN "draining" ELSE "idle")
  /\ UNCHANGED <<objects, keyed, count, smph, locks, at, obj, owned, walks>>

\* Seeded fault: the object is deleted without waiting for its users.
NoDrain(t) ==
  /\ pc[t] = "draining"
  /\ Goes(t, "deleting")
  /\ UNCHANGED <<objects, entry, smph, locks, at, obj, owned, walks>>

Drain(t) ==
  /\ pc[t] = "draining"
  /\ \E s \in LiveAt(at[t]) :
       /\ smph[s] > 0
       /\ smph' = [smph EXCEPT ![s] = @ - 1]
       /\ obj' = [obj EXCEPT ![t] = s]
  /\ Goes(t, "deleting")
  /\ UNCHANGED <<objects, entry, locks, at, owned, walks>>

DeregisterStream(t) ==
  /\ pc[t] \in {"deleting", "failed"}
  /\ validMutex = None /\ activeMutex = None
  /\ listed' = listed \ {obj[t]}
  /\ ahead' = ahead \ {obj[t]}
  /\ Goes(t, IF pc[t] = "failed" THEN "undoing" ELSE "destroying")
  /\ UNCHANGED <<live, place, entry, smph, locks, at, obj, owned, walks>>

Delete(t) ==
  /\ pc[t] \in {"destroying", "undoing"}
  /\ live' = live \ {obj[t]}
  /\ Goes(t, IF pc[t] = "undoing" THEN "idle" ELSE "erasing")
  /\ UNCHANGED <<place, listed, ahead, entry, smph, locks, at, obj, owned, walks>>

EraseStreamUserCounter(t) ==
  /\ pc[t] = "erasing"
  /\ validMutex = None
  /\ keyed' = keyed \ {at[t]}
  /\ active' = active \ {at[t]}
  /\ count' = [count EXCEPT ![at[t]] = 0]
  /\ Goes(t, "idle")
  /\ UNCHANGED <<objects, smph, locks, at, obj, owned, walks>>

(***************************************************************************)
(* The restart thread walks the list under mActiveStreamMutex and pins     *)
(* each stream; the stream's handler may give the mutex up and take it     *)
(* again.  A stream that cannot be pinned is passed over.                  *)
(***************************************************************************)
Advance ==
  \/ \E s \in ahead : /\ ahead' = ahead \ {s}
                     /\ obj' = [obj EXCEPT ![Ssr] = s]
                     /\ Goes(Ssr, "walking")
                     /\ UNCHANGED activeMutex
  \/ /\ ahead = {}
     /\ activeMutex' = None
     /\ Goes(Ssr, "idle")
     /\ UNCHANGED <<ahead, obj>>

BeginWalk ==
  /\ pc[Ssr] = "idle"
  /\ walks < MaxWalks /\ activeMutex = None /\ validMutex = None
  /\ \E s \in listed : /\ obj' = [obj EXCEPT ![Ssr] = s]
                       /\ ahead' = listed \ {s}
  /\ activeMutex' = Ssr
  /\ Goes(Ssr, "walking")
  /\ walks' = walks + 1
  /\ UNCHANGED <<live, place, listed, entry, smph, validMutex, at, owned>>

\* Seeded fault: the handler runs on a stream that is not counted.
PinNothing ==
  /\ pc[Ssr] = "walking"
  /\ Goes(Ssr, "using")
  /\ at' = [at EXCEPT ![Ssr] = place[obj[Ssr]]]
  /\ UNCHANGED <<objects, entry, smph, locks, obj, owned, walks>>

PinCurrent ==
  /\ pc[Ssr] = "walking"
  /\ Increase(Ssr, obj[Ssr])
  /\ UNCHANGED <<objects, activeMutex, owned, walks>>

\* Seeded fault: a stream that was not counted is uncounted all the same.
PassOverDecreases ==
  /\ pc[Ssr] = "walking"
  /\ validMutex = None
  /\ LET a == place[obj[Ssr]] IN
     /\ a \notin active
     /\ count' = IF count[a] = 0 THEN count ELSE [count EXCEPT ![a] = @ - 1]
  /\ Advance
  /\ UNCHANGED <<live, place, listed, keyed, active, smph, validMutex, at, owned, walks>>

PassOver ==
  /\ pc[Ssr] = "walking"
  /\ validMutex = None
  /\ place[obj[Ssr]] \notin active
  /\ Advance
  /\ UNCHANGED <<live, place, listed, entry, smph, validMutex, at, owned, walks>>

HandlerUnlocks ==
  /\ pc[Ssr] = "using"
  /\ Goes(Ssr, "away")
  /\ activeMutex' = None
  /\ UNCHANGED <<objects, entry, smph, validMutex, at, obj, owned, walks>>

HandlerRelocks ==
  /\ pc[Ssr] = "away"
  /\ activeMutex = None
  /\ activeMutex' = Ssr
  /\ Goes(Ssr, "back")
  /\ UNCHANGED <<objects, entry, smph, validMutex, at, obj, owned, walks>>

UnpinCurrent ==
  /\ pc[Ssr] \in {"using", "back"}
  /\ Decrease(Ssr)
  /\ Advance
  /\ UNCHANGED <<live, place, listed, validMutex, at, owned, walks>>

Init ==
  /\ live = {}
  /\ place = [s \in Streams |-> None]
  /\ listed = {}
  /\ ahead = {}
  /\ keyed = {} /\ active = {}
  /\ count = [a \in Addresses |-> 0]
  /\ smph = [s \in Streams |-> 0]
  /\ validMutex = None
  /\ activeMutex = None
  /\ pc = [t \in Threads |-> "idle"]
  /\ at = [t \in Threads |-> None]
  /\ obj = [t \in Threads |-> None]
  /\ owned = {}
  /\ walks = 0

Client(t) ==
  \/ \E s \in Streams, a \in Addresses : Create(t, s, a)
  \/ \E s \in Streams : BeginOperation(t, s) \/ BeginClose(t, s)
  \/ OpenFails(t)

(* The steps a thread takes once it is inside a call. *)
Proceed(t) ==
  \/ InitStreamUserCounter(t)
  \/ EndOperation(t)
  \/ DeactivateStreamUserCounter(t)
  \/ Drain(t)
  \/ DeregisterStream(t)
  \/ Delete(t)
  \/ EraseStreamUserCounter(t)

Walk == PinCurrent \/ PassOver \/ HandlerRelocks \/ UnpinCurrent

Next ==
  \/ \E t \in Clients : Client(t) \/ Proceed(t)
  \/ BeginWalk \/ HandlerUnlocks \/ Walk

(***************************************************************************)
(* Every thread inside a call is scheduled: operations and handlers end.   *)
(***************************************************************************)
Fairness == /\ \A t \in Clients : WF_vars(Proceed(t))
            /\ WF_vars(Walk)

Spec == Init /\ [][Next]_vars /\ Fairness

------------------------------------------------------------------------------
(* Type invariant. *)
TypeOK ==
  /\ live \subseteq Streams
  /\ place \in [Streams -> Addresses \cup {None}]
  /\ listed \subseteq live
  /\ ahead \subseteq listed
  /\ keyed \subseteq Addresses
  /\ active \subseteq keyed
  /\ count \in [Addresses -> Nat]
  /\ smph \in [Streams -> 0..1]
  /\ validMutex \in Threads \cup {None}
  /\ activeMutex \in {Ssr, None}
  /\ pc \in [Threads -> {"idle", "opening", "failed", "undoing", "blocked", "closing",
                         "draining", "deleting", "destroying", "erasing", "walking"} \cup Counted]
  /\ at \in [Threads -> Addresses \cup {None}]
  /\ obj \in [Threads -> Streams \cup {None}]
  /\ owned \subseteq Streams
  /\ walks \in 0..MaxWalks

(***************************************************************************)
(* The purpose of the counter: the object a counted thread works on is not *)
(* deleted under it, whichever thread closes the handle meanwhile.         *)
(***************************************************************************)
PinnedLive == \A t \in Threads : pc[t] \in Counted => obj[t] \in LiveAt(at[t])

(***************************************************************************)
(* The counter of an address is the number of threads that work on the     *)
(* object there; a count that ran off would free it early or never.        *)
(***************************************************************************)
CountExact == \A a \in Addresses : count[a] = Cardinality(Users(a))

(***************************************************************************)
(* No thread ever blocks on a stream's semaphore while it holds            *)
(* mValidStreamMutex: nobody could post the semaphore then, and every call *)
(* into the library would hang.                                            *)
(***************************************************************************)
NeverBlocksLocked == \A t \in Threads : pc[t] # "blocked"

(***************************************************************************)
(* The loop over mActiveStreams gives the list's mutex up inside a         *)
(* handler; the element its iterator stands on is still in the list when   *)
(* it goes on.                                                             *)
(***************************************************************************)
IteratorValid == pc[Ssr] # "idle" => obj[Ssr] \in listed

(***************************************************************************)
(* "Updated with valid stream handle if the operation is successful"       *)
(* (pal_stream_open in PalApi.h): until it is closed, the handle open      *)
(* returned is one the API accepts.                                        *)
(***************************************************************************)
HandleUsable == \A s \in owned : s \in listed /\ place[s] \in active

(***************************************************************************)
(* A closing thread works on the object without being counted; it must not *)
(* be gone.  "stream is being closed by another client" (Pal.cpp) says     *)
(* that a second close of the handle is expected and harmless.             *)
(***************************************************************************)
CloserTouchesLive ==
  \A t \in Clients : pc[t] \in {"closing", "draining", "deleting"} => LiveAt(at[t]) # {}

(***************************************************************************)
(* A stream that is being closed is deleted in the end, whatever the other *)
(* threads do with its handle: close() does not wait for ever.             *)
(***************************************************************************)
ClosedIsFreed ==
  \A s \in Streams : (\E t \in Clients : pc[t] = "closing" /\ obj[t] = s) ~> s \notin live
==============================================================================
