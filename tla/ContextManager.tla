--------------------------- MODULE ContextManager ---------------------------
(***************************************************************************)
(* The context manager serves the sensor hub of the audio processor. The   *)
(* hub's requests come as events of a proxy stream and are queued; a       *)
(* command thread takes them, opens, configures, starts and closes PAL     *)
(* streams for the hub's clients, and answers through the proxy. The       *)
(* thread keeps the queue's mutex while it serves a request. The restart   *)
(* of the sound card and DeInit() close everything on threads of their     *)
(* own, and take that mutex only for the queue.                            *)
(***************************************************************************)
EXTENDS Integers, Sequences, FiniteSets, SequencesExt

CONSTANTS
  Clients,   \* the sensors of the hub
  Uses,      \* the use cases: "acd", "pcm", "upd"
  MaxQueue,  \* how many requests wait at most
  Hasty      \* may calls fail half way, the payload be wrong, and the closings overlap a request?

ContextAssumption ==
  Uses \subseteq {"acd", "pcm", "upd"} /\ MaxQueue \in Nat \ {0} /\ Hasty \in BOOLEAN

None  == "none"
Pairs == Clients \X Uses
Datas == {"good"} \cup IF Hasty THEN {"bad", "long"} ELSE {}

VARIABLES
  proxy,   \* proxy_stream is started
  thread,  \* cmd_thread_: where it is
  quit,    \* exit_cmd_thread_
  queue,   \* request_cmd_queue
  cmd,     \* the request in hand, and how far it is served
  see,     \* see_clients: of each client in the map, its use cases
  strm,    \* of each use case of each client, its PAL stream
  hub,     \* what the hub thinks is registered, and the requests it waits on
  card,    \* is the sound card up, and where the restart's thread is
  ending,  \* where DeInit() is
  seen     \* what went wrong on the way
vars == <<proxy, thread, quit, queue, cmd, see, strm, hub, card, ending, seen>>

NoCmd == [op |-> None, at |-> None, kept |-> FALSE]
Request(op, c, u, d) == [op |-> op, c |-> c, u |-> u, d |-> d]

Init ==
  /\ proxy = FALSE /\ thread = None /\ quit = FALSE /\ queue = <<>> /\ cmd = NoCmd
  /\ see = <<>> /\ strm = [p \in Pairs |-> None]
  /\ hub = [reg |-> {}, waits |-> {}] /\ card = [up |-> TRUE, ssr |-> None]
  /\ ending = None /\ seen = {}

Held == {p \in Pairs : p[1] \in DOMAIN see /\ p[2] \in see[p[1]]}
Serving == thread = "serves"
Locked == thread \in {"runs", "checked", "serves"}  \* the command thread gives the mutex up only to wait
Calm == Hasty \/ (~Locked /\ queue = <<>>)

------------------------------------------------------------------------------
(* Start and end.                                                          *)
CreateCommandProcessingThread == thread' = "starts" /\ quit' = FALSE
InitManager ==  \* Init(): the proxy, then the thread
  /\ ~proxy /\ thread = None /\ ending = None /\ card.up /\ card.ssr = None
  /\ proxy' = TRUE /\ CreateCommandProcessingThread
  /\ UNCHANGED <<queue, cmd, see, strm, hub, card, ending, seen>>

(* Every use case of every client is stopped and closed, and the maps are  *)
(* emptied; nothing is locked. A use case the command thread has in hand   *)
(* is deleted under it, and its client leaves the map.                     *)
StopAndClose(p) == [strm EXCEPT ![p] = None]
Emptied(s) == [p \in Pairs |-> IF p \in Held THEN None ELSE s[p]]
Hurts ==
  {x \in {"twice", "freed"} :
     IF x = "twice" THEN \E p \in Held : strm[p] = None
     ELSE Serving /\ cmd.op = "register" /\ cmd.at # None /\ <<cmd.c, cmd.u>> \in Held}
CloseAll ==
  /\ strm' = Emptied(strm) /\ see' = <<>> /\ seen' = seen \cup Hurts
  /\ cmd' = [cmd EXCEPT !.kept = FALSE]

DeInit ==
  /\ proxy /\ ending = None /\ Calm /\ (Hasty \/ card = [up |-> TRUE, ssr |-> None])
  /\ CloseAll /\ ending' = "proxy" /\ hub' = [hub EXCEPT !.reg = {}]
  /\ UNCHANGED <<proxy, thread, quit, queue, card>>
StopAndCloseProxyStream ==
  /\ ending = "proxy"
  /\ proxy' = FALSE /\ ending' = "thread" /\ hub' = [reg |-> {}, waits |-> {}]
  /\ UNCHANGED <<thread, quit, queue, cmd, see, strm, card, seen>>

(* The flag is set and the thread notified without the mutex: a thread     *)
(* between its look at the queue and its wait does not hear it.            *)
NotifiedAll == IF thread = "waits" THEN "runs" ELSE thread
DestroyCommandProcessingThread ==
  /\ ending = "thread" /\ (Hasty \/ thread # "checked")
  /\ quit' = TRUE /\ thread' = NotifiedAll /\ ending' = "join"
  /\ UNCHANGED <<proxy, queue, cmd, see, strm, hub, card, seen>>
Joined ==
  /\ ending = "join" /\ thread = "ended"
  /\ thread' = None /\ ending' = None
  /\ UNCHANGED <<proxy, quit, queue, cmd, see, strm, hub, card, seen>>

------------------------------------------------------------------------------
(* The hub's events, on the proxy's thread.                                *)
Requests ==
  {Request("register", c, u, d) : c \in Clients, u \in Uses, d \in Datas}
    \cup {Request("deregister", c, u, "good") : c \in Clients, u \in Uses}
    \cup {Request("ids", c, u, "good") : c \in Clients, u \in {CHOOSE v \in Uses : TRUE}}
RequestCommandCreate(r) == IF r.op = "unknown" THEN [op |-> "null"] ELSE r
StreamProxyCallback(r) ==
  /\ proxy /\ card.up /\ card.ssr = None /\ ~Locked /\ Len(queue) < MaxQueue
  /\ (Hasty \/ ending = None)
  /\ r \notin hub.waits
  /\ queue' = Append(queue, RequestCommandCreate(r))
  /\ thread' = IF thread = "waits" THEN "woken" ELSE thread
  /\ hub' = IF r \in Requests THEN [hub EXCEPT !.waits = @ \cup {r}] ELSE hub
  /\ UNCHANGED <<proxy, quit, cmd, see, strm, card, ending, seen>>
AllEvents ==
  Requests \cup {[op |-> "closeall"]} \cup IF Hasty THEN {[op |-> "unknown"]} ELSE {}

------------------------------------------------------------------------------
(* The command thread. It looks at the flag, then at the queue, and waits  *)
(* if that is empty; woken, it looks at the flag but not at the queue.     *)
Looks ==
  /\ thread \in {"starts", "runs"}
  /\ thread' = IF quit THEN "ended" ELSE "checked"
  /\ UNCHANGED <<proxy, quit, queue, cmd, see, strm, hub, card, ending, seen>>
Waits ==
  /\ thread = "checked" /\ queue = <<>>
  /\ thread' = "waits"
  /\ UNCHANGED <<proxy, quit, queue, cmd, see, strm, hub, card, ending, seen>>
Wakes ==
  /\ thread = "woken"
  /\ thread' = IF quit THEN "ended" ELSE "checked"
  /\ seen' = IF ~quit /\ queue = <<>> THEN seen \cup {"front of an empty queue"} ELSE seen
  /\ UNCHANGED <<proxy, quit, queue, cmd, see, strm, hub, card, ending>>
Takes ==
  /\ thread = "checked" /\ queue # <<>>
  /\ queue' = Tail(queue) /\ thread' = "serves"
  /\ cmd' = [at |-> "begin", kept |-> FALSE] @@ queue[1]
  /\ seen' = IF queue[1].op = "null" THEN seen \cup {"null command"} ELSE seen
  /\ UNCHANGED <<proxy, quit, see, strm, hub, card, ending>>

Asked == Request(cmd.op, cmd.c, cmd.u, cmd.d)
Reached == proxy /\ card.up  \* the answer reaches the hub that asked
Ends == cmd' = NoCmd /\ thread' = "runs"
send_asps_response(ok) ==
  hub' = [hub EXCEPT !.waits = @ \ {Asked},
                     !.reg = IF ok /\ Reached /\ cmd.op = "register" THEN @ \cup {<<cmd.c, cmd.u>>} ELSE @]
SaysNothing ==  \* seeded fault: the hub is not answered
  hub' = [hub EXCEPT !.reg = IF cmd.op = "deregister" THEN @ \ {<<cmd.c, cmd.u>>} ELSE @]
send_asps_basic_response ==
  hub' = [hub EXCEPT !.waits = @ \ {Asked},
                     !.reg = IF cmd.op = "deregister" THEN @ \ {<<cmd.c, cmd.u>>} ELSE @]

P == <<cmd.c, cmd.u>>
In(at) == Serving /\ cmd.at = at
SEE_Client_CreateIf_And_Get == IF cmd.c \in DOMAIN see THEN see ELSE see @@ (cmd.c :> {})
SEE_Client_Get_Existing == cmd.c \in DOMAIN see
Usecase_Get == P \in Held
Usecase_Add == IF cmd.kept THEN [see EXCEPT ![cmd.c] = @ \cup {cmd.u}] ELSE see
Usecase_Remove == [see EXCEPT ![cmd.c] = @ \ {cmd.u}]

(* What a use case makes of the request's payload: the acoustic one wants  *)
(* as many contexts as it says, the PCM one a known type.                  *)
AcdTakes == cmd.d # "bad"
PcmTakes == cmd.d # "bad"
SetUseCaseData == CASE cmd.u = "acd" -> AcdTakes [] cmd.u = "pcm" -> PcmTakes [] OTHER -> TRUE
(* Its acknowledgement: the acoustic one asks for more room with -ENODATA, *)
(* where the caller looks for ENODATA.                                     *)
AcdAck == cmd.d # "long"
GetAckDataOnSuccessfullStart(miids) == miids /\ (cmd.u = "acd" => AcdAck)

process_register_request ==  \* the client, the use case, and a new one's stream
  /\ In("begin") /\ cmd.op = "register"
  /\ see' = SEE_Client_CreateIf_And_Get
  /\ \/ /\ ~Usecase_Get
        /\ strm' = [strm EXCEPT ![P] = "open"]
        /\ cmd' = [cmd EXCEPT !.at = "new", !.kept = TRUE] /\ UNCHANGED <<thread, hub>>
     \/ /\ ~Usecase_Get
        /\ Ends /\ send_asps_basic_response /\ UNCHANGED strm
     \/ /\ Usecase_Get
        /\ cmd' = [cmd EXCEPT !.at = "old", !.kept = TRUE] /\ UNCHANGED <<thread, strm, hub>>
  /\ UNCHANGED <<proxy, quit, queue, card, ending, seen>>

(* A new use case: data that is refused leaves its stream open; what fails *)
(* later closes it.                                                        *)
UsecaseCreate(ok) ==
  /\ In("new")
  /\ IF ~SetUseCaseData THEN Ends /\ send_asps_basic_response /\ UNCHANGED <<strm, see>>
     ELSE IF ~ok THEN Ends /\ send_asps_basic_response /\ strm' = StopAndClose(P) /\ UNCHANGED see
     ELSE /\ strm' = [strm EXCEPT ![P] = "started"] /\ see' = Usecase_Add
          /\ cmd' = [cmd EXCEPT !.at = "ack"] /\ UNCHANGED <<thread, hub>>
  /\ UNCHANGED <<proxy, quit, queue, card, ending, seen>>

(* One that runs is configured anew; if that fails its stream is closed,   *)
(* and the use case stays in the map.                                      *)
Configure(ok) ==
  /\ In("old") /\ (ok \/ Hasty)
  /\ IF ~SetUseCaseData THEN Ends /\ send_asps_basic_response /\ UNCHANGED strm
     ELSE IF ~ok THEN Ends /\ send_asps_basic_response /\ strm' = StopAndClose(P)
     ELSE cmd' = [cmd EXCEPT !.at = "ack"] /\ UNCHANGED <<thread, hub, strm>>
  /\ seen' = IF strm[P] = None THEN seen \cup {"configured a closed stream"} ELSE seen
  /\ UNCHANGED <<proxy, quit, queue, see, card, ending>>

build_and_send_register_ack(miids) ==
  /\ In("ack") /\ (miids \/ Hasty)
  /\ Ends
  /\ IF GetAckDataOnSuccessfullStart(miids) THEN send_asps_response(TRUE) ELSE send_asps_basic_response
  /\ UNCHANGED <<proxy, quit, queue, see, strm, card, ending, seen>>

(* A stream that will not stop is taken as closed; the answer is sent      *)
(* whether the use case was found or not.                                  *)
RemovesOnly == [p \in Pairs |-> strm[p]]  \* seeded fault: the use case is removed, and its stream runs
Deregistered == StopAndClose(P)
process_deregister_request ==
  /\ In("begin") /\ cmd.op = "deregister"
  /\ IF SEE_Client_Get_Existing /\ Usecase_Get
     THEN /\ strm' = Deregistered /\ see' = Usecase_Remove
          /\ seen' = IF strm[P] = None THEN seen \cup {"twice"} ELSE seen
     ELSE UNCHANGED <<strm, see, seen>>
  /\ Ends /\ send_asps_basic_response
  /\ UNCHANGED <<proxy, quit, queue, card, ending>>

GetSupportedContextIDs ==
  /\ In("begin") /\ cmd.op = "ids"
  /\ Ends /\ send_asps_response(TRUE)
  /\ UNCHANGED <<proxy, quit, queue, see, strm, card, ending, seen>>

process_close_all ==
  /\ In("begin") /\ cmd.op = "closeall"
  /\ strm' = Emptied(strm) /\ see' = <<>> /\ seen' = seen \cup (Hurts \ {"freed"}) /\ Ends
  /\ hub' = [hub EXCEPT !.reg = {}]
  /\ UNCHANGED <<proxy, quit, queue, card, ending>>

------------------------------------------------------------------------------
(* The sound card. When it goes the hub forgets everything; the restart's  *)
(* thread closes the use cases, and only then takes the mutex and drops    *)
(* the requests that wait.                                                 *)
CardDown ==
  /\ proxy /\ card = [up |-> TRUE, ssr |-> None] /\ (Hasty \/ ending = None)
  /\ card' = [up |-> FALSE, ssr |-> "closes"] /\ hub' = [reg |-> {}, waits |-> {}]
  /\ UNCHANGED <<proxy, thread, quit, queue, cmd, see, strm, ending, seen>>
ssrDownHandler ==
  /\ card.ssr = "closes" /\ Calm
  /\ CloseAll /\ card' = [card EXCEPT !.ssr = "drains"]
  /\ UNCHANGED <<proxy, thread, quit, queue, hub, ending>>
KeepsQueue == queue  \* seeded fault: the requests of before the restart stay queued
Drained == <<>>
SsrDrains ==
  /\ card.ssr = "drains" /\ ~Locked /\ (Hasty \/ thread # "woken")
  /\ queue' = Drained /\ card' = [card EXCEPT !.ssr = "done"]
  /\ UNCHANGED <<proxy, thread, quit, cmd, see, strm, hub, ending, seen>>
ssrUpHandler ==
  /\ card.ssr = "done"
  /\ card' = [up |-> TRUE, ssr |-> None]
  /\ UNCHANGED <<proxy, thread, quit, queue, cmd, see, strm, hub, ending, seen>>

Command ==
  \/ Looks \/ Waits \/ Wakes \/ Takes
  \/ process_register_request \/ process_deregister_request
  \/ GetSupportedContextIDs \/ process_close_all
  \/ \E ok \in BOOLEAN : UsecaseCreate(ok) \/ Configure(ok) \/ build_and_send_register_ack(ok)
Close   == StopAndCloseProxyStream \/ DestroyCommandProcessingThread \/ Joined
Restart == ssrDownHandler \/ SsrDrains \/ ssrUpHandler
Next ==
  \/ InitManager \/ DeInit \/ Close
  \/ \E r \in AllEvents : StreamProxyCallback(r)
  \/ Command
  \/ CardDown \/ Restart
Spec == Init /\ [][Next]_vars

(* What waits: DeInit(), the restart's thread, the hub for an answer.      *)
Closing    == ending # None
Restarting == card.ssr # None
WaitsFor(r) == r \in hub.waits

------------------------------------------------------------------------------
(* The shape of the state.                                                 *)
TypeOK ==
  /\ proxy \in BOOLEAN /\ thread \in {None, "starts", "runs", "checked", "waits", "woken", "serves", "ended"}
  /\ quit \in BOOLEAN /\ Len(queue) <= MaxQueue /\ DOMAIN see \subseteq Clients
  /\ \A p \in Pairs : strm[p] \in {None, "open", "started"} /\ hub.reg \subseteq Pairs

(* A stream that is open for the hub is some use case of a client in the   *)
(* map or in the hand of the command thread; and once the card is up and   *)
(* no request of the client waits, what runs is what the hub was told.     *)
NoOrphan ==
  /\ \A p \in Pairs : strm[p] # None => p \in Held \/ (Serving /\ cmd.at = "new" /\ P = p)
  /\ (card.up /\ card.ssr = None /\ proxy /\ ending = None /\ queue = <<>> /\ ~Serving) =>
       \A p \in Pairs : strm[p] = "started" <=> p \in hub.reg

(* Every request the hub waits on is queued or in hand; and no command or  *)
(* use case is used that is not there, or closed a second time.            *)
CallbacksRight ==
  /\ seen = {}
  /\ \A r \in hub.waits : Contains(queue, r) \/ (Serving /\ cmd.at # None /\ r = Asked)

(* DeInit() never waits for a thread that sleeps where nobody will wake it. *)
NeverBlocks == ~(ending = "join" /\ thread = "waits")
=============================================================================
