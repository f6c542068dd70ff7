------------------------------ MODULE SwBinder ------------------------------
(***************************************************************************)
(* The native binder service in front of PAL. A process registers once and *)
(* its entry in g_client_list keeps the streams it opens and, for each, the*)
(* descriptors of the client's buffers with the server's copies of them.   *)
(* Entries are found by the caller's process; events come on the streams'  *)
(* threads, look the stream up and call the client back. A write's frame   *)
(* is remembered under the copy's number until its buffer comes back.      *)
(***************************************************************************)
EXTENDS Integers, Sequences, FiniteSets, SequencesExt

CONSTANTS
  Clients, Handles,
  Joins,      \* the streams whose closing waits for their event thread
  MaxFds,     \* how many descriptors the server has, and a client
  MaxFrames,  \* how many frames a client numbers
  Slots,      \* how many reads' metadata fit the server's one buffer
  Hasty       \* may clients die, reuse a number, unregister or write again, with something under way?

SwAssumption ==
  /\ Joins \subseteq Handles /\ {MaxFds, MaxFrames, Slots} \subseteq Nat \ {0} /\ Hasty \in BOOLEAN

None == "none"
Fds  == 1..MaxFds

VARIABLES
  list,    \* g_client_list: the entries, dead ones included
  who,     \* of each process: "new", "in", "out" or "dead"
  shared,  \* of each handle, shared_fd_list: the server's copy of each client descriptor, or 0
  copies,  \* of each server descriptor, what buffer it is a copy of, or 0
  naming,  \* of each handle, the buffer each client descriptor names
  pal,     \* PAL's streams and the buffers each has
  pend,    \* gInputsPendingAck
  used,    \* metadata_size_used, in reads
  calls,   \* the calls being served
  ev,      \* of each handle, the event its thread is telling
  death,   \* what binderDied has to close; it holds g_client_list_lock
  seen     \* what went wrong
vars == <<list, who, shared, copies, naming, pal, pend, used, calls, ev, death, seen>>

NoPal == [open |-> FALSE, by |-> None, held |-> {}]
NoEv  == [at |-> None, fd |-> 0, frame |-> 0, kind |-> None]

Init ==
  /\ list = <<>> /\ who = [c \in Clients |-> "new"] /\ shared = [h \in Handles |-> [i \in Fds |-> 0]]
  /\ copies = [n \in Fds |-> 0] /\ naming = [h \in Handles |-> [i \in Fds |-> i]]
  /\ pal = [h \in Handles |-> NoPal] /\ pend = [n \in Fds |-> 0] /\ used = 0 /\ calls = {}
  /\ ev = [h \in Handles |-> NoEv] /\ death = {} /\ seen = {}

Entries == 1..Len(list)
Walks == death = {}  \* g_client_list_lock is free
Touched == IF \E e \in Entries : list[e].gone THEN {"wild"} ELSE {}  \* a walk reads every entry
Of(c) == {e \in Entries : list[e].pid = c}
(* The walk leaves the last entry in hand when no process matches.         *)
get_client_info_from_list(c) ==
  IF Of(c) # {} THEN CHOOSE e \in Of(c) : \A f \in Of(c) : e <= f ELSE Len(list)
Owner(h) == {e \in Entries : h \in list[e].has /\ ~list[e].gone}
Calm == Hasty \/ \A e \in Entries : ~list[e].gone
Calls(c) == who[c] = "in" /\ Walks /\ Calm /\ Cardinality(calls) < 2
Quiet(c) == \A k \in calls : k.c # c
Call(op, c, h) == [op |-> op, c |-> c, h |-> h, fd |-> 0, frame |-> 0]
Copies(h) == {shared[h][i] : i \in Fds} \ {0}

------------------------------------------------------------------------------
(* Registration.                                                           *)
pal_register_client(c) ==
  /\ who[c] \in {"new", "out"} /\ Walks /\ Calm
  /\ list' = Append(list, [pid |-> c, has |-> {}, gone |-> FALSE])
  /\ who' = [who EXCEPT ![c] = "in"]
  /\ UNCHANGED <<shared, copies, naming, pal, pend, used, calls, ev, death, seen>>
pal_unregister_client(c) ==
  /\ who[c] = "in" /\ Walks /\ Calm /\ Of(c) # {}
  /\ LET e == CHOOSE x \in Of(c) : \A y \in Of(c) : x <= y
     IN /\ (~Hasty => Quiet(c) /\ list[e].has = {})
        /\ list' = RemoveAt(list, e)
  /\ who' = [who EXCEPT ![c] = "out"] /\ seen' = seen \cup Touched
  /\ UNCHANGED <<shared, copies, naming, pal, pend, used, calls, ev, death>>

------------------------------------------------------------------------------
(* Opening and closing: PAL first, the entry afterwards.                   *)
StreamOpen(c, h) ==
  /\ Calls(c) /\ ~pal[h].open /\ ev[h].at = None /\ Owner(h) = {} /\ \A k \in calls : k.h # h
  /\ pal' = [pal EXCEPT ![h].open = TRUE, ![h].by = c]
  /\ calls' = calls \cup {Call("open", c, h)}
  /\ UNCHANGED <<list, who, shared, copies, naming, pend, used, ev, death, seen>>
pal_add_stream_handle(k) ==
  /\ k \in calls /\ k.op = "open" /\ Walks
  /\ seen' = seen \cup Touched
  /\ list' = IF list = <<>> THEN list
             ELSE [list EXCEPT ![get_client_info_from_list(k.c)].has = @ \cup {k.h}]
  /\ shared' = [shared EXCEPT ![k.h] = [i \in Fds |-> 0]]
  /\ calls' = calls \ {k}
  /\ UNCHANGED <<who, copies, naming, pal, pend, used, ev, death>>
StreamClose(c, h) ==
  /\ Calls(c) /\ pal[h].open /\ h \in UNION {list[e].has : e \in Of(c)} /\ (h \in Joins => ev[h].at = None)
  /\ (~Hasty => \A k \in calls : k.h # h) /\ (~Hasty => pal[h].held = {} /\ ev[h].at = None)
  /\ pal' = [pal EXCEPT ![h] = NoPal]
  /\ calls' = calls \cup {Call("close", c, h)}
  /\ UNCHANGED <<list, who, shared, copies, naming, pend, used, ev, death, seen>>
KeepsCopies(h) == copies  \* seeded fault: the copies are forgotten, not closed
CloseCopies(h) == [n \in Fds |-> IF n \in Copies(h) THEN 0 ELSE copies[n]]
pal_remove_stream_handle(k) ==
  /\ k \in calls /\ k.op = "close" /\ Walks
  /\ seen' = seen \cup Touched /\ calls' = calls \ {k}
  /\ IF list # <<>> /\ k.h \in list[get_client_info_from_list(k.c)].has
     THEN /\ list' = [list EXCEPT ![get_client_info_from_list(k.c)].has = @ \ {k.h}]
          /\ copies' = CloseCopies(k.h) /\ shared' = [shared EXCEPT ![k.h] = [i \in Fds |-> 0]]
     ELSE UNCHANGED <<list, copies, shared>>
  /\ UNCHANGED <<who, naming, pal, pend, used, ev, death>>

------------------------------------------------------------------------------
(* A buffer is shared once for each number the client uses; the copy made  *)
(* then stands for the number ever after.                                  *)
Lowest(N) == CHOOSE n \in N : \A m \in N : n <= m
Unused == {n \in Fds : copies[n] = 0}
pal_add_shared_fd(h, i) ==  \* the server's copy, or a new one
  IF shared[h][i] # 0 THEN shared[h][i] ELSE Lowest(Unused)
Shares(h, i) ==
  /\ Owner(h) # {} /\ (shared[h][i] # 0 \/ Unused # {})
  /\ shared' = [shared EXCEPT ![h][i] = pal_add_shared_fd(h, i)]
  /\ copies' = [copies EXCEPT ![pal_add_shared_fd(h, i)] = IF shared[h][i] # 0 THEN @ ELSE naming[h][i]]
Misnamed(h, i) == IF shared[h][i] # 0 /\ copies[shared[h][i]] # naming[h][i] THEN {"misnamed"} ELSE {}
Writing(h, n) == \E p \in pal[h].held : p.fd = n

StreamWrite(c, h) ==
  /\ Calls(c) /\ pal[h].open /\ h \in UNION {list[e].has : e \in Of(c)}
  /\ (~Hasty => \A k \in calls : k.op # "write")
  /\ \E i \in Fds, f \in 1..MaxFrames :
       LET n == pal_add_shared_fd(h, i)
       IN /\ Shares(h, i) /\ (~Hasty => ~Writing(h, n) /\ pend[n] = 0)
          /\ pal' = [pal EXCEPT ![h].held = @ \cup {[kind |-> "write", fd |-> n, frame |-> f, slot |-> 0]}]
          /\ calls' = calls \cup {[Call("write", c, h) EXCEPT !.fd = n, !.frame = f]}
          /\ seen' = seen \cup Touched \cup Misnamed(h, i)
  /\ UNCHANGED <<list, who, naming, pend, used, ev, death>>
(* Remembered only when PAL's write has returned.                          *)
addToPendingInputs(k) ==
  /\ k \in calls /\ k.op = "write"
  /\ pend' = [pend EXCEPT ![k.fd] = k.frame] /\ calls' = calls \ {k}
  /\ UNCHANGED <<list, who, shared, copies, naming, pal, used, ev, death, seen>>

(* The reads of every client take their metadata from one buffer in turn.  *)
StreamRead(c, h) ==
  /\ Calls(c) /\ pal[h].open /\ h \in UNION {list[e].has : e \in Of(c)}
  /\ LET slot == IF used = Slots THEN 0 ELSE used
         out  == UNION {{p \in pal[g].held : p.kind = "read"} : g \in Handles}
     IN /\ used' = slot + 1
        /\ (~Hasty => \A p \in out : p.slot # slot)
        /\ seen' = seen \cup Touched \cup IF \E p \in out : p.slot = slot THEN {"overlap"} ELSE {}
        /\ \E i \in Fds :
             /\ Shares(h, i) /\ (~Hasty => ~Writing(h, pal_add_shared_fd(h, i)))
             /\ pal' = [pal EXCEPT ![h].held = @ \cup
                          {[kind |-> "read", fd |-> pal_add_shared_fd(h, i), frame |-> 0, slot |-> slot]}]
  /\ UNCHANGED <<list, who, naming, pend, calls, ev, death>>

(* The client closes a buffer and gets the number for another one.         *)
Renames(h, i) ==
  /\ Owner(h) # {} /\ (~Hasty => shared[h][i] = 0)
  /\ \E b \in Fds \ {naming[h][i]} : naming' = [naming EXCEPT ![h][i] = b]
  /\ UNCHANGED <<list, who, shared, copies, pal, pend, used, calls, ev, death, seen>>

------------------------------------------------------------------------------
(* A buffer comes back, or the stream tells something else.                *)
Event(h) ==
  /\ pal[h].open /\ ev[h].at = None /\ (~Hasty => Walks /\ Calm /\ \A k \in calls : k.h # h)
  /\ \E p \in pal[h].held :
       /\ ev' = [ev EXCEPT ![h] = [NoEv EXCEPT !.at = "asks", !.fd = p.fd, !.frame = p.frame, !.kind = p.kind]]
       /\ pal' = [pal EXCEPT ![h].held = @ \ {p}]
  /\ UNCHANGED <<list, who, shared, copies, naming, pend, used, calls, death, seen>>
get_client_stream_handle(h) ==
  /\ ev[h].at = "asks" /\ Walks
  /\ ev' = [ev EXCEPT ![h] = IF Owner(h) = {} THEN NoEv ELSE [@ EXCEPT !.at = "found"]]
  /\ seen' = seen \cup Touched
  /\ UNCHANGED <<list, who, shared, copies, naming, pal, pend, used, calls, death>>
FirstFrame(n) ==  \* seeded fault: the frame of some write
  IF \E m \in Fds : pend[m] # 0 THEN CHOOSE f \in {pend[m] : m \in Fds} \ {0} : TRUE ELSE 0
getInputBufferIndex(n) == pend[n]
pal_event_callback(h) ==
  /\ ev[h].at = "found" /\ ev' = [ev EXCEPT ![h] = NoEv]
  /\ LET w == ev[h].kind = "write"
     IN /\ pend' = IF w THEN [pend EXCEPT ![ev[h].fd] = 0] ELSE pend
        /\ seen' = seen \cup (IF w /\ getInputBufferIndex(ev[h].fd) # ev[h].frame THEN {"frame"} ELSE {})
                        \cup (IF Owner(h) = {} THEN {"wild"} ELSE {})
  /\ UNCHANGED <<list, who, shared, copies, naming, pal, used, calls, death>>

------------------------------------------------------------------------------
(* A process dies. Its streams are closed with g_client_list_lock held;    *)
(* its entry is deleted and stays in the list.                             *)
Still == calls = {} /\ death = {} /\ (\A e \in Entries : ~list[e].gone) /\ \A h \in Handles : ev[h].at = None
Dies(c) ==
  /\ who[c] = "in" /\ (~Hasty => Still)
  /\ who' = [who EXCEPT ![c] = "dead"]
  /\ UNCHANGED <<list, shared, copies, naming, pal, pend, used, calls, ev, death, seen>>
Ended(c) == {e \in Of(c) : ~list[e].gone}
binderDied(c) ==
  /\ who[c] = "dead" /\ Walks /\ Ended(c) # {} /\ (~Hasty => Still)
  /\ LET e == Lowest(Ended(c))
     IN /\ death' = list[e].has
        /\ (~Hasty => \A h \in list[e].has : Copies(h) = {} /\ ev[h].at = None)
        /\ list' = [list EXCEPT ![e] = [pid |-> c, has |-> {}, gone |-> TRUE]]
  /\ seen' = seen \cup Touched
  /\ UNCHANGED <<who, shared, copies, naming, pal, pend, used, calls, ev>>
DeathCloses(h) ==
  /\ h \in death /\ (h \in Joins => ev[h].at = None)
  /\ pal' = [pal EXCEPT ![h] = NoPal] /\ death' = death \ {h}
  /\ UNCHANGED <<list, who, shared, copies, naming, pend, used, calls, ev, seen>>

Serve(c, h) == StreamOpen(c, h) \/ StreamClose(c, h) \/ StreamWrite(c, h) \/ StreamRead(c, h)
Finish(k) == pal_add_stream_handle(k) \/ pal_remove_stream_handle(k) \/ addToPendingInputs(k)
Process(c) == pal_register_client(c) \/ pal_unregister_client(c) \/ Dies(c) \/ binderDied(c)
Stream(h) ==
  \/ Event(h) \/ get_client_stream_handle(h) \/ pal_event_callback(h) \/ DeathCloses(h)
  \/ \E i \in Fds : Renames(h, i)
Next ==
  \/ \E c \in Clients, h \in Handles : Serve(c, h)
  \/ \E k \in calls : Finish(k)
  \/ \E c \in Clients : Process(c)
  \/ \E h \in Handles : Stream(h)
Spec == Init /\ [][Next]_vars

------------------------------------------------------------------------------
(* The shape of the state.                                                 *)
TypeOK ==
  /\ \A e \in Entries : list[e].pid \in Clients /\ list[e].has \subseteq Handles
  /\ \A h \in Handles : shared[h] \in [Fds -> 0..MaxFds] /\ ev[h].at \in {None, "asks", "found"}
  /\ copies \in [Fds -> 0..MaxFds] /\ pend \in [Fds -> 0..MaxFrames] /\ used \in 0..Slots
  /\ death \subseteq Handles

(* A stream of PAL is in the entry of the process that opened it, in a     *)
(* call, or about to be closed for a dead one; a copy belongs to one       *)
(* stream.                                                                 *)
NoOrphan ==
  /\ \A h \in Handles : pal[h].open => h \in death \/ (\E k \in calls : k.h = h) \/ Owner(h) # {}
  /\ \A h \in Handles : pal[h].open => \A e \in Owner(h) : list[e].pid = pal[h].by
  /\ \A n \in Fds : copies[n] # 0 => Cardinality({h \in Handles : n \in Copies(h)}) = 1

(* A buffer that comes back brings the frame that was written with it, to  *)
(* an entry that exists; a copy is of the buffer the client means, and two *)
(* reads never share their metadata.                                       *)
CallbacksRight == seen = {}

(* The notice that holds the list's lock never waits for an event that     *)
(* waits for the lock.                                                     *)
NeverBlocks == \A h \in death \cap Joins : ev[h].at # "asks"
=============================================================================
