---------------------------- MODULE CompressStream ----------------------------
(***************************************************************************)
(* A compressed playback stream: StreamCompress over SessionAlsaCompress.  *)
(* One client thread controls the stream, another writes and drains; the   *)
(* session's worker thread waits for the driver and calls the client back; *)
(* the restart thread closes the stream when the sound card goes off.      *)
(***************************************************************************)
EXTENDS Naturals, Sequences, FiniteSets

CONSTANTS
  Devices,     \* the devices the stream is opened with
  MaxQueue,    \* bound: messages to the worker
  MaxOpens,    \* bound: how often the client opens a stream
  MaxOffs,     \* bound: how often the sound card goes off
  Formats,     \* is the format gapless: {TRUE}, {FALSE} or both
  Abortable,   \* may a client start a stopped stream, and compress_open() fail?
  Window,      \* may a stop come between the two halves of a write or of a stop?
  Blind        \* may a client pause a stream that failed to start, which it is not told?

CompressAssumption ==
  /\ Devices # {} /\ MaxQueue \in Nat /\ MaxOpens \in Nat /\ MaxOffs \in Nat
  /\ Formats \subseteq BOOLEAN /\ Abortable \in BOOLEAN /\ Window \in BOOLEAN
  /\ Blind \in BOOLEAN

Threads == {"control", "writer", "ssr"}

VARIABLES
  state, paused,        \* currentState, isPaused
  devs,                 \* mDevices
  opens, starts,        \* of each device: deviceCount, deviceStartStopCount
  registered,           \* is the stream in active_devices?
  votes, leaked,        \* sleep votes held; starts that no stop can undo
  compress, playing,    \* the driver's handle ("null", "open", "stale"), playback_started
  gapless,              \* isGaplessFmt
  worker, queue,        \* what the worker does; msg_queue_
  event, drained, ret,  \* its event_id, is_drain_called, ret
  owed, unasked,        \* drains not answered; was one answered that nobody asked for?
  mutex, activeMutex,   \* who holds mStreamMutex, mActiveStreamMutex
  todo,                 \* the sections each thread has yet to run
  told,                 \* what the client thinks of the stream
  dsp, cardState, down, \* is the DSP up? what PAL thinks; is a walk to be done?
  erred, aborted,       \* was an error reported? did the process abort?
  opened, offs          \* counters for the bounds

client   == <<told, opened>>
counts   == <<devs, opens, starts, votes, leaked>>
session  == <<compress, playing, gapless>>
thread   == <<worker, event, drained, ret>>
answers  == <<owed, unasked, erred>>
card     == <<dsp, cardState, down, offs>>
locks    == <<mutex, activeMutex>>
vars == <<state, paused, registered, client, counts, session, thread, queue, answers, card,
                  locks, todo, aborted>>

Init ==
  /\ state = "IDLE" /\ paused = FALSE /\ devs = {} /\ registered = FALSE
  /\ opens = [d \in Devices |-> 0] /\ starts = [d \in Devices |-> 0]
  /\ votes = 0 /\ leaked = 0
  /\ compress = "null" /\ playing = FALSE /\ gapless = FALSE
  /\ worker = "none" /\ queue = <<>> /\ event = "write" /\ drained = FALSE /\ ret = "ok"
  /\ owed = 0 /\ unasked = FALSE
  /\ mutex = "none" /\ activeMutex = "none"
  /\ todo = [t \in Threads |-> <<>>]
  /\ told = "none"
  /\ dsp = TRUE /\ cardState = "online" /\ down = FALSE
  /\ erred = FALSE /\ aborted = FALSE
  /\ opened = 0 /\ offs = 0

------------------------------------------------------------------------------
(* Threads run sections: what happens between two waits for a mutex. *)
At(t, section) == todo[t] # <<>> /\ Head(todo[t]) = section
Then(t, more)  == todo' = [todo EXCEPT ![t] = more \o Tail(@)]
Free(t)        == mutex \in {"none", t}
Tell(t, what)  == told' = IF t = "ssr" THEN told ELSE what
Add(f, D)      == [d \in Devices |-> IF d \in D THEN f[d] + 1 ELSE f[d]]
Take(f, D)     == [d \in Devices |-> IF d \in D /\ f[d] > 0 THEN f[d] - 1 ELSE f[d]]
Push(msgs)     == queue' = queue \o msgs

(* What start() leaves behind when the session fails. *)
Hollow == state \in {"INIT", "STOPPED"}

(* The client's calls; a close waits for the other thread to be out of its *)
(* own and deletes the stream.                                             *)
Call(t, c) ==
  /\ todo[t] = <<>> /\ ~aborted
  /\ CASE c = "open"             -> t = "control" /\ told = "none" /\ opened < MaxOpens
       [] c = "start"            -> t = "control" /\ (told = "open" \/ (Abortable /\ told = "stopped"))
       [] c = "pause"            -> t = "control" /\ told = "started" /\ ~erred /\ ~paused
                                      /\ (Blind \/ cardState = "offline" \/ ~Hollow)
       [] c \in {"resume", "flush"} -> t = "control" /\ told = "started" /\ ~erred /\ paused
       [] c = "stop"             -> t = "control" /\ told = "started"
       [] c = "close"            -> t = "control" /\ told \in {"open", "started", "stopped"}
       [] c = "write"            -> t = "writer" /\ told = "started"
       [] c \in {"drain", "partial"} -> t = "writer" /\ told = "started" /\ owed = 0
  /\ told' = IF c = "close" THEN "closing" ELSE told
  /\ todo' = [todo EXCEPT ![t] = IF c = "close" THEN <<"close", "delete">> ELSE <<c>>]
  /\ opened' = IF c = "open" THEN opened + 1 ELSE opened
  /\ UNCHANGED <<state, paused, registered, counts, session, thread, queue, answers, card, locks, aborted>>

(* open(): the constructor names the devices; the session gets a front end *)
(* and each device is opened.                                              *)
Open(t) ==
  /\ At(t, "open") /\ Free(t)
  /\ \/ /\ cardState = "offline"
        /\ Tell(t, "none")
        /\ UNCHANGED <<state, paused, devs, opens, gapless>>
     \/ /\ cardState = "online"
        /\ state' = "INIT" /\ paused' = FALSE
        /\ devs' = Devices /\ opens' = Add(opens, Devices)
        /\ gapless' \in Formats
        /\ Tell(t, "open")
  /\ Then(t, <<>>)
  /\ UNCHANGED <<registered, starts, votes, leaked, compress, playing, thread, queue,
                 answers, card, locks, opened, aborted>>

(* SessionAlsaCompress::start() creates the worker before it opens the     *)
(* driver. A thread object that is replaced while it is joinable ends the  *)
(* process.                                                                *)
SessionStart(outcome) ==
  /\ worker' = "idle" /\ event' = "write" /\ drained' = FALSE /\ ret' = "ok"
  /\ aborted' = (worker # "none")
  /\ compress' = IF outcome = "no driver" THEN "null" ELSE "open"
  /\ votes' = IF outcome = "ok" THEN votes + 1 ELSE votes

(* start(): devices that fail to start are closed and dropped; one that    *)
(* starts is enough. When the session fails, those that started are        *)
(* stopped, and the status of the last stop(), always 0, is what the       *)
(* client gets: it takes a stream that stays where it was for started.     *)
Start(t) ==
  /\ At(t, "start") /\ Free(t) /\ Then(t, <<>>)
  /\ \/ /\ cardState = "offline" \/ state \notin {"INIT", "STOPPED"}
        /\ told' = IF state \in {"OPENED", "STARTED"} THEN "started" ELSE told
        /\ UNCHANGED <<state, counts, session, thread, aborted>>
     \/ /\ cardState = "online" /\ state \in {"INIT", "STOPPED"}
        /\ \E working \in SUBSET devs :
             /\ devs' = working
             /\ opens' = Take(opens, devs \ working)
             /\ \/ /\ working = {}
                   /\ UNCHANGED <<state, told, starts, votes, session, thread, aborted>>
                \/ /\ working # {}
                   /\ \E outcome \in {"ok", "failed"} \cup (IF Abortable THEN {"no driver"} ELSE {}) :
                        /\ dsp \/ outcome # "ok"
                        /\ SessionStart(outcome)
                        /\ starts' = IF outcome = "ok" THEN Add(starts, working) ELSE starts
                        /\ state' = IF outcome = "ok" THEN "OPENED" ELSE state
                        /\ told' = "started"
                   /\ UNCHANGED <<playing, gapless>>
        /\ UNCHANGED leaked
  /\ UNCHANGED <<paused, registered, queue, answers, card, locks, opened>>

(* write(): a buffer that does not fit has the worker wait for the driver; *)
(* the first data starts the driver, and a failure of that leaves the      *)
(* stream as it was. A failed compress_write() is not taken for one: the   *)
(* stream goes on to STREAM_STARTED. Its devices are registered after      *)
(* mStreamMutex was given up.                                              *)
Writable == cardState = "online" /\ state \in {"OPENED", "STARTED", "PAUSED"} /\ compress # "null"

Write(t) ==
  /\ At(t, "write") /\ Free(t)
  /\ \/ ~Writable /\ Then(t, <<>>) /\ UNCHANGED <<state, playing, queue>>
     \/ /\ Writable
        /\ \E written \in (IF dsp THEN {"all", "part"} ELSE {"error"}) :
             /\ written = "part" => Len(queue) < MaxQueue
             /\ queue' = IF written = "part" THEN Append(queue, "wait") ELSE queue
             /\ \/ /\ ~playing /\ written # "error"
                   /\ Then(t, <<>>) /\ UNCHANGED <<state, playing>>
                \/ /\ playing' = (playing \/ written # "error")
                   /\ IF state = "STARTED" \/ (state = "PAUSED" /\ paused)
                      THEN Then(t, <<>>) /\ UNCHANGED state
                      ELSE Then(t, <<"register">>) /\ state' = "STARTED"
  /\ UNCHANGED <<paused, registered, client, counts, compress, gapless, thread, answers,
                 card, locks, aborted>>

Register(t) ==
  /\ At(t, "register") /\ Free(t) /\ activeMutex = "none"
  /\ registered' = (registered \/ devs # {})
  /\ Then(t, <<>>)
  /\ UNCHANGED <<state, paused, client, counts, session, thread, queue, answers, card, locks, aborted>>

(* drain() takes no mutex. *)
Drain(t) ==
  /\ \E how \in {"drain", "partial"} :
       /\ At(t, how)
       /\ IF cardState = "online" /\ compress # "null"
          THEN Len(queue) < MaxQueue /\ Push(<<how>>) /\ owed' = owed + 1
          ELSE UNCHANGED <<queue, owed>>
  /\ Then(t, <<>>)
  /\ UNCHANGED <<state, paused, registered, client, counts, session, thread, unasked, erred, card,
                 locks, aborted>>

(* pause(): when the card is off only the wish is kept. A session that is  *)
(* closed refuses the tag.                                                 *)
Pause(t) ==
  /\ At(t, "pause") /\ Free(t) /\ Then(t, <<>>)
  /\ \/ /\ cardState = "offline"
        /\ paused' = TRUE
        /\ UNCHANGED state
     \/ /\ cardState = "online" /\ ~paused /\ (state = "IDLE" \/ ~dsp)
        /\ UNCHANGED <<state, paused>>
     \/ /\ cardState = "online" /\ (paused \/ (state # "IDLE" /\ dsp))
        /\ paused' = TRUE /\ state' = "PAUSED"
  /\ UNCHANGED <<registered, client, counts, compress, playing, gapless, thread, queue, answers,
                 card, locks, aborted>>

(* resume() leaves the state at STREAM_PAUSED: the next write starts it. *)
Resume(t) ==
  /\ At(t, "resume") /\ Free(t) /\ Then(t, <<>>)
  /\ IF cardState = "online" /\ state # "IDLE" /\ dsp
     THEN paused' = FALSE
     ELSE UNCHANGED paused
  /\ UNCHANGED <<state, registered, client, counts, compress, playing, gapless, thread, queue,
                 answers, card, locks, aborted>>

(* flush() acts only on a paused stream; the front end drops its data. *)
Flush(t) ==
  /\ At(t, "flush") /\ Free(t) /\ Then(t, <<>>)
  /\ UNCHANGED <<state, paused, registered, client, counts, session, thread, queue, answers, card,
                 locks, aborted>>

(* stop() gives mStreamMutex up to take mActiveStreamMutex first. *)
Halfway(t) == At(t, "register") \/ At(t, "stopped")
Whole(t)   == \/ Window
              \/ t = "ssr"
              \/ todo["ssr"] = <<>> /\ \A u \in Threads \ {t} : ~Halfway(u)

Stop(t) ==
  /\ At(t, "stop") /\ Free(t) /\ Whole(t)
  /\ IF state \in {"STARTED", "PAUSED"} THEN Then(t, <<"stopped">>) ELSE Then(t, <<>>)
  /\ IF t = "control" /\ Len(todo[t]) = 1 /\ state \in {"STARTED", "PAUSED", "STOPPED", "IDLE"}
     THEN Tell(t, "stopped") ELSE UNCHANGED told
  /\ UNCHANGED <<state, paused, registered, counts, session, thread, queue, answers, card, locks,
                 opened, aborted>>

(* Seeded fault: the sleep vote outlives the stop. *)
StopsVoting(t) ==
  /\ At(t, "stopped") /\ Free(t) /\ activeMutex = "none" /\ Then(t, <<>>)
  /\ Whole(t)
  /\ state' = "STOPPED"
  /\ registered' = FALSE
  /\ starts' = Take(starts, devs)
  /\ UNCHANGED <<paused, client, devs, opens, leaked, votes, session, thread, queue, answers, card,
                 locks, aborted>>

Stopped(t) ==
  /\ At(t, "stopped") /\ Free(t) /\ activeMutex = "none" /\ Then(t, <<>>)
  /\ Whole(t)
  /\ state' = "STOPPED"
  /\ registered' = FALSE
  /\ starts' = Take(starts, devs)
  /\ votes' = IF votes > 0 THEN votes - 1 ELSE 0
  /\ UNCHANGED <<paused, client, devs, opens, leaked, session, thread, queue, answers, card, locks,
                 aborted>>

(* close() stops a stream that runs, and does not look at its state again. *)
CloseTests(t) ==
  /\ At(t, "close") /\ Free(t) /\ state \in {"IDLE", "STARTED", "PAUSED"}
  /\ Then(t, IF state = "IDLE" THEN <<>> ELSE <<"stop", "end">>)
  /\ UNCHANGED <<state, paused, registered, client, counts, session, thread, queue, answers, card,
                 locks, aborted>>

(* Seeded fault: nobody is told that the card is off. *)
ClosesSilently(t) ==
  /\ Free(t)
  /\ At(t, "end") \/ (At(t, "close") /\ state \in {"INIT", "OPENED", "STOPPED"})
  /\ Then(t, <<"finish">>)
  /\ mutex' = t
  /\ leaked' = IF state = "OPENED" THEN leaked + 1 ELSE leaked
  /\ IF compress = "null" THEN UNCHANGED <<compress, queue>>
     ELSE compress' = "stale" /\ Push(<<"exit">>)
  /\ UNCHANGED <<state, paused, registered, client, devs, opens, starts, votes, playing, gapless,
                 thread, answers, card, activeMutex, aborted>>

(* close(), up to the wait for the worker. In STREAM_OPENED there was no   *)
(* stop: what start() counted stays counted. The driver's handle is closed *)
(* before the worker is told to leave.                                     *)
Close(t) ==
  /\ Free(t)
  /\ At(t, "end") \/ (At(t, "close") /\ state \in {"INIT", "OPENED", "STOPPED"})
  /\ Then(t, <<"finish">>)
  /\ mutex' = t
  /\ leaked' = IF state = "OPENED" THEN leaked + 1 ELSE leaked
  /\ IF compress = "null" THEN UNCHANGED <<compress, queue>>
     ELSE /\ compress' = "stale"
          /\ Push(IF cardState = "offline" THEN <<"error", "exit">> ELSE <<"exit">>)
  /\ UNCHANGED <<state, paused, registered, client, devs, opens, starts, votes, playing, gapless,
                 thread, answers, card, activeMutex, aborted>>

(* The rest of close(): the worker is joined if there is a driver, the     *)
(* front end is freed and the devices are closed.                          *)
Finish(t) ==
  /\ At(t, "finish") /\ mutex = t
  /\ compress # "null" => worker = "exited"
  /\ worker' = IF compress = "null" THEN worker ELSE "none"
  /\ queue' = IF compress = "null" THEN queue ELSE <<>>
  /\ compress' = "null"
  /\ opens' = Take(opens, devs)
  /\ state' = "IDLE"
  /\ mutex' = "none"
  /\ Then(t, <<>>)
  /\ event' = "write" /\ drained' = FALSE /\ ret' = "ok"
  /\ UNCHANGED <<paused, registered, client, devs, starts, votes, leaked, playing, gapless, answers,
                 card, activeMutex, aborted>>

(* The end of pal_stream_close(): the calls in progress are waited for.    *)
(* The session's thread object is destroyed with it.                       *)
Delete(t) ==
  /\ At(t, "delete") /\ \A u \in Threads \ {t} : todo[u] = <<>>
  /\ activeMutex = "none"
  /\ Then(t, <<>>)
  /\ Tell(t, "none")
  /\ aborted' = (worker # "none")
  /\ state' = "IDLE" /\ devs' = {} /\ playing' = FALSE /\ owed' = 0 /\ paused' = FALSE
  /\ erred' = FALSE
  /\ gapless' = FALSE
  /\ UNCHANGED <<registered, opens, starts, votes, leaked, compress, thread,
                 queue, unasked, card, locks, opened>>

------------------------------------------------------------------------------
(* ssrDownHandler(), under mActiveStreamMutex; ssrUpHandler() does nothing: *)
(* the client opens a new stream.                                           *)
Down(t) ==
  /\ At(t, "down") /\ Free(t)
  /\ Then(t, CASE state \in {"INIT", "STOPPED", "OPENED"} -> <<"close", "idle">>
               [] state \in {"STARTED", "PAUSED"} -> <<"release", "stop", "relock", "close", "idle">>
               [] OTHER -> <<"idle">>)
  /\ UNCHANGED <<state, paused, registered, client, counts, session, thread, queue, answers, card,
                 locks, aborted>>

HandOver(t) ==
  /\ \/ At(t, "release") /\ activeMutex' = "none"
     \/ At(t, "relock") /\ activeMutex = "none" /\ activeMutex' = t
  /\ Then(t, <<>>)
  /\ UNCHANGED <<state, paused, registered, client, counts, session, thread, queue, answers, card,
                 mutex, aborted>>

Idle(t) ==
  /\ At(t, "idle") /\ Then(t, <<>>)
  /\ state' = "IDLE" /\ activeMutex' = "none"
  /\ UNCHANGED <<paused, registered, client, counts, session, thread, queue, answers, card, mutex,
                 aborted>>

(* ssrHandlingLoop() takes the message, and visits the stream if there is  *)
(* one.                                                                    *)
Listed == told # "none" /\ ~At("control", "delete")

Walk ==
  /\ todo["ssr"] = <<>> /\ activeMutex = "none"
  /\ \/ /\ down /\ cardState = "online"
        /\ Window \/ \A t \in Threads : ~Halfway(t)
        /\ cardState' = "offline" /\ down' = FALSE
        /\ todo' = [todo EXCEPT !["ssr"] = IF Listed THEN <<"down">> ELSE <<>>]
        /\ activeMutex' = IF Listed THEN "ssr" ELSE "none"
     \/ /\ cardState = "offline" /\ dsp
        /\ cardState' = "online"
        /\ UNCHANGED <<down, todo, activeMutex>>
  /\ UNCHANGED <<state, paused, registered, client, counts, session, thread, queue, answers, dsp,
                 offs, mutex, aborted>>

Dsp ==
  /\ \/ dsp /\ ~down /\ cardState = "online" /\ offs < MaxOffs /\ offs' = offs + 1 /\ down' = TRUE /\ dsp' = FALSE
     \/ ~dsp /\ cardState = "offline" /\ dsp' = TRUE /\ UNCHANGED <<down, offs>>
  /\ UNCHANGED <<state, paused, registered, client, counts, session, thread, queue, answers, cardState,
                 locks, todo, aborted>>

------------------------------------------------------------------------------
(* offloadThreadLoop(). What a message needs of the driver takes as long   *)
(* as the driver does; then the client is called back, with the event of   *)
(* the message before when this one set none.                              *)
Asks(cmd) ==
  CASE cmd = "wait"    -> cardState = "online"
    [] cmd = "drain"   -> ~drained /\ cardState = "online" /\ compress # "null"
    [] cmd = "partial" -> cardState = "online"
    [] OTHER           -> FALSE

Sets(cmd, asked) ==
  CASE cmd = "wait"    -> IF asked THEN "write" ELSE event
    [] cmd = "drain"   -> "drain"
    [] cmd = "partial" -> IF ~asked THEN event ELSE IF gapless THEN "partial" ELSE "drain"
    [] OTHER           -> "error"

Answer(cmd, asked, r) ==
  LET e == Sets(cmd, asked)
      silent == cmd \in {"drain", "partial"} /\ r = "reset"
  IN /\ ret' = r
     /\ event' = IF silent /\ cmd = "drain" THEN event ELSE e
     /\ drained' = CASE cmd = "drain" /\ ~silent -> FALSE
                     [] cmd = "partial" /\ asked /\ ~gapless -> TRUE
                     [] OTHER -> drained
     /\ owed' = IF ~silent /\ e \in {"drain", "partial"} /\ owed > 0 THEN owed - 1 ELSE owed
     /\ unasked' = (unasked \/ (~silent /\ e \in {"drain", "partial"} /\ owed = 0 /\ cardState = "online"))
     /\ erred' = (erred \/ e = "error")

TakeMessage ==
  LET cmd == Head(queue) IN
  /\ worker = "idle" /\ queue # <<>> /\ queue' = Tail(queue)
  /\ \/ cmd = "exit" /\ worker' = "exited" /\ UNCHANGED <<event, drained, ret, answers>>
     \/ cmd # "exit" /\ Asks(cmd) /\ worker' = cmd /\ UNCHANGED <<event, drained, ret, answers>>
     \/ cmd # "exit" /\ ~Asks(cmd) /\ Answer(cmd, FALSE, ret) /\ UNCHANGED worker
  /\ UNCHANGED <<state, paused, registered, client, counts, session, card, locks, todo, aborted>>

(* The driver answers when it has played, unless it is paused; and at once *)
(* when it was stopped or closed, or the DSP is gone.                      *)
DriverReturns ==
  /\ worker \in {"wait", "drain", "partial"}
  /\ ~dsp \/ compress = "stale" \/ ~playing \/ ~paused \/ state = "STOPPED"
  /\ Answer(worker, TRUE, IF dsp THEN "ok" ELSE "reset")
  /\ worker' = "idle"
  /\ UNCHANGED <<state, paused, registered, client, counts, session, queue, card, locks, todo, aborted>>

Section(t) ==
  /\ ~aborted
  /\ \/ Open(t) \/ Start(t) \/ Write(t) \/ Register(t) \/ Drain(t) \/ Pause(t) \/ Resume(t)
     \/ Flush(t) \/ Stop(t) \/ Stopped(t) \/ CloseTests(t) \/ Close(t) \/ Finish(t) \/ Delete(t)
     \/ Down(t) \/ HandOver(t) \/ Idle(t)

Worker == ~aborted /\ (TakeMessage \/ DriverReturns)

Calls == {"open", "start", "stop", "pause", "resume", "flush", "close",
                  "write", "drain", "partial"}

Next ==
  \/ \E t \in {"control", "writer"}, c \in Calls : Call(t, c)
  \/ \E t \in Threads : Section(t)
  \/ Worker
  \/ ~aborted /\ (Walk \/ Dsp)

Spec == Init /\ [][Next]_vars

------------------------------------------------------------------------------
(* Type invariant. *)
TypeOK ==
  /\ state \in {"IDLE", "INIT", "OPENED", "STARTED", "PAUSED", "STOPPED"}
  /\ paused \in BOOLEAN /\ registered \in BOOLEAN /\ playing \in BOOLEAN /\ gapless \in BOOLEAN
  /\ devs \subseteq Devices /\ opens \in [Devices -> Nat] /\ starts \in [Devices -> Nat]
  /\ votes \in Nat /\ leaked \in Nat /\ owed \in Nat
  /\ compress \in {"null", "open", "stale"}
  /\ worker \in {"none", "idle", "exited", "wait", "drain", "partial"}
  /\ mutex \in Threads \cup {"none"} /\ activeMutex \in {"none", "ssr"}
  /\ told \in {"none", "open", "started", "stopped", "closing"}

Quiet == mutex = "none" /\ \A t \in Threads : todo[t] = <<>>

(***************************************************************************)
(* The sleep vote, the device's counts and its registration follow the     *)
(* stream's state, but for what a close without a first write leaves       *)
(* behind.                                                                 *)
(***************************************************************************)
CountsExact ==
  Quiet =>
    /\ votes = leaked + (IF state \in {"OPENED", "STARTED", "PAUSED"} THEN 1 ELSE 0)
    /\ \A d \in devs : opens[d] = (IF state = "IDLE" THEN 0 ELSE 1)
    /\ leaked = 0 => \A d \in Devices :
         starts[d] = (IF d \in devs /\ state \in {"OPENED", "STARTED", "PAUSED"} THEN 1 ELSE 0)
    /\ registered => state \in {"STARTED", "PAUSED"}

(***************************************************************************)
(* pal_stream_start(): "return 0 on success, error code otherwise"         *)
(* (PalApi.h): a client that was told its stream runs has one that was     *)
(* started.                                                                *)
(***************************************************************************)
StartedAsTold == Quiet /\ told = "started" => ~Hollow

(***************************************************************************)
(* The worker lives as long as the driver's handle: none is left when the  *)
(* stream is closed, and none is destroyed while it runs.                  *)
(***************************************************************************)
NoOrphan ==
  /\ ~aborted
  /\ Quiet /\ state = "IDLE" => worker = "none" /\ compress = "null"

(***************************************************************************)
(* While the card is on, a drain is reported to a client that waits for    *)
(* one, once, and none is lost while the DSP is up. A client whose stream  *)
(* a restart has closed is told of an error: "stream hit some error, let   *)
(* AF take action" (PalDefs.h).                                            *)
(***************************************************************************)
CallbacksRight ==
  /\ ~unasked
  /\ owed > 0 /\ compress = "open" /\ dsp /\ cardState = "online" =>
       worker \in {"drain", "partial"} \/ \E i \in DOMAIN queue : queue[i] \in {"drain", "partial"}
  /\ Quiet /\ told = "started" /\ state = "IDLE" => erred
===============================================================================
