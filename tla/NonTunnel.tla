----------------------------- MODULE NonTunnel -----------------------------
(***************************************************************************)
(* Non-tunnel streams hand buffers to the audio processor and get them     *)
(* back, without a device: StreamNonTunnel over SessionAgm. Buffers come   *)
(* back by events on the session's own thread. When the processor goes,    *)
(* such a stream is dead for good: the restart's worker marks it, tells    *)
(* its client of the error and withdraws a vote for it. PAL learns of the  *)
(* processor from the card's monitor, or from a call that fails.           *)
(***************************************************************************)
EXTENDS Integers, Sequences, FiniteSets

CONSTANTS
  Streams,   \* the streams clients open
  Buffers,   \* the buffers of each
  Ends,      \* how many front ends there are
  MaxDowns,  \* how often the processor goes
  MaxQ,      \* how many messages wait for the worker
  Hasty      \* may a client call out of turn, from its callback, or from two threads?

NonTunnelAssumption ==
  Ends \in Nat \ {0} /\ MaxDowns \in Nat /\ MaxQ \in Nat \ {0} /\ Hasty \in BOOLEAN

None  == "none"
Kinds == {"read", "write"}

VARIABLES
  str,    \* of each stream: currentState, ssrInNTMode, its session's handle and front end
  agm,    \* of each session: what the processor holds of it, and its events' callback
  ev,     \* of each stream, the event its session's thread carries
  half,   \* of each stream, the write that gave up its mutex
  owed,   \* of each stream, what its client waits to get back; and was it told of an error?
  votes,  \* nlpi_counter_
  dsp,    \* is the processor up, how often it went, and the calls that saw it gone
  msgQ,   \* the messages for the worker
  work,   \* the worker: cardState, the streams it has to handle, the one it tells
  seen    \* what went wrong on the way
vars == <<str, agm, ev, half, owed, votes, dsp, msgQ, work, seen>>

NoStr == [st |-> None, dead |-> FALSE, h |-> "zero", fe |-> FALSE, told |-> FALSE]
NoAgm == [cb |-> FALSE, run |-> FALSE, held |-> {}]
NoEv  == <<None, 0>>

Init ==
  /\ str = [s \in Streams |-> NoStr] /\ agm = [s \in Streams |-> NoAgm]
  /\ ev = [s \in Streams |-> NoEv] /\ half = [s \in Streams |-> 0] /\ owed = [s \in Streams |-> {}]
  /\ votes = 0 /\ dsp = [up |-> TRUE, downs |-> 0, saw |-> {}]
  /\ msgQ = <<>> /\ work = [card |-> "ON", prev |-> "ON", todo |-> {}, tells |-> None] /\ seen = {}

Less(n) == IF n > 0 THEN n - 1 ELSE 0
Exists(s) == str[s].st \notin {None, "new"}
Free(s)   == work.tells # s                             \* mStreamMutex
InCall(s) == Exists(s) /\ str[s].st # "closed" /\ s \notin dsp.saw /\ (Hasty \/ half[s] = 0)
Calls(s)  == InCall(s) /\ Free(s)
Dead(s)   == work.card = "OFF" \/ str[s].dead            \* the calls return -ENETRESET
Spare     == Ends - Cardinality({s \in Streams : str[s].fe})
Touch(s)  == IF str[s].h = "gone" THEN seen \cup {"closed handle"} ELSE seen

(* A call that finds the processor gone tells the worker, once it is back. *)
Sees(s) == dsp' = IF ~dsp.up /\ work.card # "OFF" THEN [dsp EXCEPT !.saw = @ \cup {s}] ELSE dsp

------------------------------------------------------------------------------
(* Opening and closing. The constructor looks at the card, and registers   *)
(* the stream once it has mActiveStreamMutex. One that comes too late for  *)
(* the walk, which is left to Hasty, is not told that the processor went.  *)
Construct(s) ==
  /\ str[s].st = None /\ work.card = "ON"
  /\ str' = [str EXCEPT ![s] = [NoStr EXCEPT !.st = "new", !.fe = str[s].fe]]
  /\ agm' = [agm EXCEPT ![s] = NoAgm] /\ owed' = [owed EXCEPT ![s] = {}]
  /\ UNCHANGED <<ev, half, votes, dsp, msgQ, work, seen>>
registerStream(s) ==
  /\ str[s].st = "new" /\ work.todo = {} /\ (Hasty \/ work.card = "ON")
  /\ str' = [str EXCEPT ![s].st = "IDLE"]
  /\ UNCHANGED <<agm, ev, half, owed, votes, dsp, msgQ, work, seen>>

(* A blocking stream gets no session, and success; a session that fails    *)
(* after its front end was taken keeps it.                                 *)
Open(s, blocking, ok) ==
  /\ Calls(s) /\ str[s].st = "IDLE" /\ ~Dead(s) /\ (Hasty \/ ~blocking)
  /\ (ok \/ Hasty \/ Spare = 0) /\ (ok => dsp.up /\ Spare > 0)
  /\ IF blocking THEN str' = [str EXCEPT ![s].st = "INIT"] /\ UNCHANGED agm
     ELSE IF Spare = 0 THEN UNCHANGED <<str, agm>>
     ELSE IF ~ok THEN str' = [str EXCEPT ![s].fe = TRUE, ![s].h = "gone"] /\ UNCHANGED agm
     ELSE /\ str' = [str EXCEPT ![s].st = "INIT", ![s].fe = TRUE, ![s].h = "live"]
          /\ agm' = [agm EXCEPT ![s] = [NoAgm EXCEPT !.cb = TRUE]]
  /\ UNCHANGED <<ev, half, owed, votes, dsp, msgQ, work, seen>>

(* close() of a stream that runs calls stop() with the mutex held. The     *)
(* event the session's thread carries is not waited for.                   *)
SelfLock(s) == str[s].st \in {"STARTED", "PAUSED"}
CloseSession(s) == [str EXCEPT ![s].st = "closed", ![s].h = IF @ = "live" THEN "gone" ELSE @,
                               ![s].fe = IF str[s].h = "live" THEN FALSE ELSE @]
Close(s) ==
  /\ Calls(s) /\ str[s].st # "stuck"
  /\ (Hasty \/ (~SelfLock(s) /\ (str[s].st = "SUSPENDED" => str[s].told) /\ ev[s] = NoEv))
  /\ IF SelfLock(s) THEN str' = [str EXCEPT ![s].st = "stuck"] /\ UNCHANGED agm
     ELSE IF str[s].st = "IDLE" THEN str' = [str EXCEPT ![s].st = "closed"] /\ UNCHANGED agm
     ELSE str' = CloseSession(s) /\ agm' = [agm EXCEPT ![s] = NoAgm]
  /\ owed' = [owed EXCEPT ![s] = {}]
  /\ UNCHANGED <<ev, half, votes, dsp, msgQ, work, seen>>
Destroy(s) ==  \* the calls that use it, and the worker, are waited for
  /\ str[s].st = "closed" /\ half[s] = 0 /\ work.todo = {} /\ work.tells # s
  /\ str' = [str EXCEPT ![s] = [NoStr EXCEPT !.fe = str[s].fe]]
  /\ UNCHANGED <<agm, ev, half, owed, votes, dsp, msgQ, work, seen>>

------------------------------------------------------------------------------
(* Starting and stopping. The session votes before it starts, and takes    *)
(* the vote back if that fails; a stop without a session keeps its vote.   *)
SessionStarts(s, ok) == IF ok THEN votes + 1 ELSE votes
NoOtherDead(s) == \A t \in Streams \ {s} : ~(str[t].dead /\ str[t].st = "STARTED")
Start(s, ok) ==
  /\ Calls(s) /\ str[s].st \in {"INIT", "STOPPED", "SUSPENDED"} /\ ~Dead(s)
  /\ (Hasty \/ (str[s].st # "SUSPENDED" /\ NoOtherDead(s)))
  /\ (ok => dsp.up \/ str[s].h = "zero")
  /\ votes' = SessionStarts(s, ok) /\ Sees(s)
  /\ str' = IF ok THEN [str EXCEPT ![s].st = "STARTED"] ELSE str
  /\ agm' = IF ok THEN [agm EXCEPT ![s].run = str[s].h = "live"] ELSE agm
  /\ UNCHANGED <<ev, half, owed, msgQ, work, seen>>
KeepsVote(s) == votes  \* seeded fault: the vote outlives the stop
BelowZero(s) == IF str[s].h = "zero" THEN votes ELSE votes - 1  \* seeded fault: no look at the count
SessionStops(s) == IF str[s].h = "zero" THEN votes ELSE Less(votes)
Stop(s) ==
  /\ Calls(s) /\ str[s].st = "STARTED"
  /\ (Hasty \/ work.todo = {} \/ str[s].dead)
  /\ votes' = SessionStops(s)
  /\ str' = [str EXCEPT ![s].st = "STOPPED"] /\ agm' = [agm EXCEPT ![s].run = FALSE]
  /\ UNCHANGED <<ev, half, owed, dsp, msgQ, work, seen>>

(* prepare(), drain() and flush() ask for no state of the stream.          *)
Prepare(s) ==
  /\ Calls(s) /\ ~Dead(s) /\ str[s].st # "stuck" /\ (Hasty \/ str[s].h # "gone")
  /\ seen' = Touch(s)
  /\ UNCHANGED <<str, agm, ev, half, owed, votes, dsp, msgQ, work>>
Flush(s) ==
  /\ Calls(s) /\ ~Dead(s) /\ str[s].h = "live" /\ dsp.up
  /\ agm' = [agm EXCEPT ![s].held = {}] /\ owed' = [owed EXCEPT ![s] = @ \ agm[s].held]
  /\ UNCHANGED <<str, ev, half, votes, dsp, msgQ, work, seen>>
Suspend(s) ==
  /\ Calls(s) /\ ~Dead(s) /\ str[s].st = "STARTED" /\ dsp.up
  /\ str' = [str EXCEPT ![s].st = "SUSPENDED"] /\ agm' = [agm EXCEPT ![s].run = FALSE]
  /\ UNCHANGED <<ev, half, owed, votes, dsp, msgQ, work, seen>>

------------------------------------------------------------------------------
(* Buffers. A read is whole; a write looks at the card, gives up the       *)
(* mutex, and only then looks at the state and hands its buffer over.      *)
Accepts(s, k, b) ==
  IF dsp.up
  THEN agm' = [agm EXCEPT ![s].held = @ \cup {<<k, b>>}] /\ owed' = [owed EXCEPT ![s] = @ \cup {<<k, b>>}]
  ELSE UNCHANGED <<agm, owed>>
Read(s, b) ==
  /\ Calls(s) /\ ~Dead(s) /\ str[s].st = "STARTED" /\ str[s].h = "live" /\ <<"read", b>> \notin owed[s]
  /\ Accepts(s, "read", b) /\ Sees(s)
  /\ UNCHANGED <<str, ev, half, votes, msgQ, work, seen>>
Write(s, b) ==
  /\ Calls(s) /\ ~Dead(s) /\ half[s] = 0 /\ <<"write", b>> \notin owed[s]
  /\ half' = [half EXCEPT ![s] = b]
  /\ UNCHANGED <<str, agm, ev, owed, votes, dsp, msgQ, work, seen>>
WriteOn(s) ==
  /\ half[s] # 0
  /\ half' = [half EXCEPT ![s] = 0]
  /\ IF str[s].st = "STARTED" /\ str[s].h = "live" THEN Accepts(s, "write", half[s]) /\ Sees(s)
     ELSE UNCHANGED <<agm, owed, dsp>>
  /\ UNCHANGED <<str, ev, votes, msgQ, work, seen>>
Drain(s) ==  \* takes no mutex
  /\ InCall(s) /\ ~Dead(s) /\ str[s].h = "live" /\ dsp.up /\ <<"eos", 1>> \notin owed[s]
  /\ Accepts(s, "eos", 1)
  /\ UNCHANGED <<str, ev, half, votes, dsp, msgQ, work, seen>>

(* The processor is done with something: an event is on its way, and the   *)
(* session's callback hands it to the client as what it is.                *)
AgmEvent(s) ==
  /\ agm[s].cb /\ agm[s].run /\ ev[s] = NoEv /\ dsp.up
  /\ \E x \in agm[s].held : ev' = [ev EXCEPT ![s] = x] /\ agm' = [agm EXCEPT ![s].held = @ \ {x}]
  /\ UNCHANGED <<str, half, owed, votes, dsp, msgQ, work, seen>>
SkipsEos(x) == IF x[1] = "eos" THEN {} ELSE {x}  \* seeded fault: the end of the stream is not told
Told(x) == {x}
eventCallback(s) ==
  /\ ev[s] # NoEv
  /\ ev' = [ev EXCEPT ![s] = NoEv]
  /\ owed' = [owed EXCEPT ![s] = @ \ Told(ev[s])]
  /\ seen' = IF str[s].st \in {"closed", "new", None} THEN seen \cup {"event of a closed session"} ELSE seen
  /\ UNCHANGED <<str, agm, half, votes, dsp, msgQ, work>>

------------------------------------------------------------------------------
(* The processor, its monitor, and the worker.                             *)
Send(x) == Len(msgQ) < MaxQ /\ msgQ' = Append(msgQ, x)
DspDown ==
  /\ dsp.up /\ dsp.downs < MaxDowns /\ Send("OFF")
  /\ dsp' = [dsp EXCEPT !.up = FALSE, !.downs = @ + 1]
  /\ agm' = [s \in Streams |-> [agm[s] EXCEPT !.run = FALSE, !.held = {}]]
  /\ UNCHANGED <<str, ev, half, owed, votes, work, seen>>
DspUp ==
  /\ ~dsp.up /\ (Hasty \/ dsp.saw = {}) /\ Send("ON")
  /\ dsp' = [dsp EXCEPT !.up = TRUE]
  /\ UNCHANGED <<str, agm, ev, half, owed, votes, work, seen>>
Reports(s) ==  \* ssrHandler(CARD_STATUS_OFFLINE), of the call that failed
  /\ s \in dsp.saw /\ Send("OFF")
  /\ dsp' = [dsp EXCEPT !.saw = @ \ {s}]
  /\ UNCHANGED <<str, agm, ev, half, owed, votes, work, seen>>

Registered == {s \in Streams : Exists(s)}
ssrHandlingLoop ==
  /\ msgQ # <<>> /\ work.todo = {} /\ work.tells = None
  /\ msgQ' = Tail(msgQ)
  /\ work' = [work EXCEPT !.card = Head(msgQ), !.prev = Head(msgQ),
                          !.todo = IF Head(msgQ) = "OFF" /\ work.prev = "ON" THEN Registered ELSE {}]
  /\ UNCHANGED <<str, agm, ev, half, owed, votes, dsp, seen>>

(* The error is told with the stream's mutex held: a client that calls     *)
(* back from there waits for itself.                                       *)
Unsaid(s) == [str EXCEPT ![s].dead = TRUE]  \* seeded fault: the stream is marked, and its client not told
MarkedDead(s) == [str EXCEPT ![s].dead = TRUE, ![s].told = TRUE]
ssrDownHandler(s) ==
  /\ s \in work.todo /\ work.tells = None
  /\ work' = [work EXCEPT !.todo = @ \ {s}, !.tells = s]
  /\ str' = MarkedDead(s)
  /\ UNCHANGED <<agm, ev, half, owed, votes, dsp, msgQ, seen>>
CallsBack(s) ==
  /\ work.tells = s /\ \E call \in {"no"} \cup IF Hasty THEN {"stop"} ELSE {} :
       str' = IF call = "stop" THEN [str EXCEPT ![s].st = "stuck"] ELSE str
  /\ votes' = Less(votes)
  /\ work' = [work EXCEPT !.tells = None]
  /\ UNCHANGED <<agm, ev, half, owed, dsp, msgQ, seen>>

Worker == ssrHandlingLoop \/ \E s \in Streams : ssrDownHandler(s) \/ CallsBack(s)
Client(s) ==
  \/ Construct(s) \/ registerStream(s) \/ Close(s) \/ Destroy(s) \/ Stop(s) \/ Prepare(s) \/ Flush(s) \/ Suspend(s)
  \/ Drain(s) \/ WriteOn(s)
  \/ \E ok \in BOOLEAN : Start(s, ok) \/ \E blocking \in BOOLEAN : Open(s, blocking, ok)
  \/ \E b \in Buffers : Read(s, b) \/ Write(s, b)
Next ==
  \/ \E s \in Streams :
       Client(s) \/ AgmEvent(s) \/ eventCallback(s) \/ Reports(s)
  \/ DspDown \/ DspUp \/ Worker
Spec == Init /\ [][Next]_vars

------------------------------------------------------------------------------
(* The shape of the state.                                                 *)
TypeOK ==
  /\ \A s \in Streams : str[s].st \in {None, "new", "IDLE", "INIT", "STARTED", "STOPPED", "SUSPENDED", "closed", "stuck"}
  /\ \A s \in Streams : str[s].h \in {"zero", "live", "gone"}
  /\ votes \in Nat /\ Len(msgQ) <= MaxQ /\ work.todo \subseteq Streams /\ dsp.saw \subseteq Streams

(* While the worker has nothing to do, the processor is kept awake by      *)
(* exactly the streams that were started and not stopped, and that a       *)
(* restart has not killed.                                                 *)
CountsExact ==
  work.todo = {} /\ work.tells = None /\ work.card = "ON" =>
    votes = Cardinality({s \in Streams : str[s].st \in {"STARTED", "SUSPENDED"} /\ ~str[s].dead})

(* A front end is taken by a session that is open.                         *)
NoOrphan == \A s \in Streams : str[s].fe <=> str[s].h = "live"

(* What a client waits for is held by the processor or on its way, or the  *)
(* processor went and the client was told, or is about to be; and nothing  *)
(* reaches a stream that is closed.                                        *)
CallbacksRight ==
  /\ seen = {}
  /\ \A s \in Streams :
       owed[s] \subseteq agm[s].held \cup {ev[s]} \/ str[s].told \/ s \in work.todo
         \/ ~dsp.up \/ "OFF" \in {msgQ[i] : i \in DOMAIN msgQ}

(* The processor is gone, and the client of a stream does not know yet.    *)
Unaware(s) == Exists(s) /\ ~dsp.up /\ ~str[s].told

(* No call waits for a mutex its own thread holds.                         *)
NeverBlocks == \A s \in Streams : str[s].st # "stuck"

(* Once every message is read, PAL thinks of the card what is true of the  *)
(* processor.                                                              *)
Adapts == msgQ = <<>> /\ dsp.saw = {} => (work.card = "ON" <=> dsp.up)
=============================================================================
