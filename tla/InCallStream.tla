---------------------------- MODULE InCallStream ----------------------------
(***************************************************************************)
(* The streams that record a voice call or play music into it. They have   *)
(* no devices: a session takes a front end of their list, connects it to   *)
(* the call's graph and votes for the processor while it runs. The sound   *)
(* card may go and come back under them; the worker that closes and        *)
(* reopens them gives up the stream's mutex between its calls.             *)
(***************************************************************************)
EXTENDS Integers, FiniteSets

CONSTANTS
  Records, Musics,  \* the streams of each kind
  Ends,             \* how many front ends each list has
  MaxDowns,         \* how often the sound card goes
  Hasty             \* may clients call out of turn, or while the card is restarted?

InCallAssumption ==
  /\ IsFiniteSet(Records) /\ IsFiniteSet(Musics) /\ Records \cap Musics = {}
  /\ Ends \in Nat \ {0} /\ MaxDowns \in Nat /\ Hasty \in BOOLEAN

Streams == Records \cup Musics
States  == {"IDLE", "INIT", "STARTED", "PAUSED", "STOPPED"}

VARIABLES
  str,    \* of each stream: its states, its session, and what its client was told
  votes,  \* nlpi_counter_
  card,   \* cardState
  work,   \* the worker: the streams it has yet to handle, and the calls it is in
  downs   \* how often the card went
vars == <<str, votes, card, work, downs>>

New == [st |-> "IDLE", cached |-> "IDLE", fe |-> FALSE, pcm |-> FALSE, run |-> FALSE,
        paused |-> FALSE, ask |-> "IDLE", vol |-> 0, dsp |-> 0, wild |-> FALSE]
Idle == [kind |-> "none", todo |-> {}, s |-> {}, at |-> "none"]

Init ==
  /\ str = [s \in Streams |-> New] /\ votes = 0 /\ card = "ON" /\ work = Idle /\ downs = 0

W == [str |-> str, votes |-> votes]
Becomes(w) == str' = w.str /\ votes' = w.votes
Kin(s)  == IF s \in Records THEN Records ELSE Musics
Spare(w, s) == Ends - Cardinality({t \in Kin(s) : w.str[t].fe})
Less(n) == IF n > 0 THEN n - 1 ELSE 0
Calm == Hasty \/ (card = "ON" /\ work.kind = "none")

------------------------------------------------------------------------------
(* The stream's operations, each whole under the stream's mutex.           *)
OpenIt(w, s) ==
  IF card = "OFF" \/ w.str[s].st # "IDLE" \/ Spare(w, s) = 0 THEN w
  ELSE [w EXCEPT !.str[s] = [@ EXCEPT !.st = "INIT", !.fe = TRUE]]

(* The session opens its handle, applies the converter and the renderer,   *)
(* and starts: any of it may fail, and the vote is taken back.             *)
SessionStart(w, s, ok) ==
  IF ok THEN [w EXCEPT !.votes = @ + 1,
                       !.str[s] = [@ EXCEPT !.pcm = TRUE, !.run = TRUE,
                                            !.dsp = IF s \in Records THEN w.str[s].vol ELSE w.str[s].dsp]]
  ELSE [w EXCEPT !.str[s].pcm = TRUE]
KeepsVote(w, s) ==  \* seeded fault: a stop keeps its vote
  [w EXCEPT !.str[s].run = FALSE]
SessionStop(w, s) == [w EXCEPT !.votes = Less(@), !.str[s].run = FALSE]
SessionClose(w, s) ==
  [w EXCEPT !.str[s] = [@ EXCEPT !.fe = FALSE, !.pcm = FALSE, !.run = FALSE, !.dsp = 0]]

(* Without the card the start is remembered, and answered as done.         *)
StartIt(w, s, ok) ==
  IF card = "OFF" THEN [w EXCEPT !.str[s].cached = "STARTED"]
  ELSE IF w.str[s].st \notin {"INIT", "STOPPED"} THEN w
  ELSE LET v == SessionStart(w, s, ok) IN IF ok THEN [v EXCEPT !.str[s].st = "STARTED"] ELSE v
Started(w, s, ok) == card = "OFF" \/ w.str[s].st = "STARTED" \/ (ok /\ w.str[s].st \in {"INIT", "STOPPED"})

(* A record whose handle fails to stop stays started, its vote gone.       *)
StopIt(w, s, ok) ==
  IF w.str[s].st \notin {"STARTED", "PAUSED"} THEN w
  ELSE LET v == SessionStop(w, s)
       IN IF ok \/ s \in Musics THEN [v EXCEPT !.str[s].st = "STOPPED"] ELSE v
CloseIt(w, s) ==
  IF w.str[s].st = "IDLE" THEN w
  ELSE [SessionClose(StopIt(w, s, TRUE), s) EXCEPT !.str[s].st = "IDLE"]

PauseIt(w, s, ok) ==
  IF card = "OFF" THEN [w EXCEPT !.str[s] = [@ EXCEPT !.cached = "PAUSED", !.paused = TRUE]]
  ELSE IF ok /\ w.str[s].fe THEN [w EXCEPT !.str[s] = [@ EXCEPT !.paused = TRUE, !.st = "PAUSED"]] ELSE w
ResumeIt(w, s, ok) ==
  IF card = "OFF" THEN [w EXCEPT !.str[s].cached = "STARTED"]
  ELSE IF ok /\ w.str[s].fe THEN [w EXCEPT !.str[s] = [@ EXCEPT !.paused = FALSE, !.st = "STARTED"]] ELSE w

------------------------------------------------------------------------------
(* The clients.                                                            *)
Client(w, s) == Becomes(w) /\ UNCHANGED <<card, work, downs>>
Asks(w, s, a) == Client([w EXCEPT !.str[s].ask = a], s)

Open(s) ==
  /\ Calm /\ str[s].ask = "IDLE" /\ str[s].st = "IDLE" /\ card = "ON"
  /\ LET w == OpenIt(W, s)
     IN IF w.str[s].st = "INIT" THEN Asks(w, s, "INIT") ELSE Client(w, s)
Start(s) ==
  /\ str[s].ask \in {"INIT", "STOPPED"} /\ (Hasty \/ work.kind = "none")
  /\ (card = "OFF" /\ ~Hasty => str[s].cached = "INIT")
  /\ (~Hasty => str[s].st \in {"INIT", "STOPPED"} \/ card = "OFF")
  /\ \E ok \in BOOLEAN :
       LET w == StartIt(W, s, ok)
       IN IF Started(W, s, ok) THEN Asks(w, s, "STARTED") ELSE Client(w, s)
Stop(s) ==
  /\ Calm /\ str[s].ask \in {"STARTED", "PAUSED"}
  /\ \E ok \in {TRUE} \cup {~Hasty} : Asks(StopIt(W, s, ok), s, "STOPPED")
Close(s) ==
  /\ Calm /\ str[s].ask # "IDLE"
  /\ Becomes([CloseIt(W, s) EXCEPT !.str[s] = [New EXCEPT !.wild = @ \/ str[s].wild,
                                                          !.fe = CloseIt(W, s).str[s].fe]])
  /\ UNCHANGED <<card, work, downs>>

(* Neither asks whether the stream runs.                                   *)
Pause(s) ==
  /\ Hasty \/ (work.kind = "none" /\ str[s].ask = "STARTED")
  /\ (~Hasty /\ card = "OFF" => str[s].cached = "STARTED")
  /\ \E ok \in {TRUE} \cup {card = "OFF"} :
       IF ok THEN Asks(PauseIt(W, s, ok), s, "PAUSED") ELSE Client(PauseIt(W, s, FALSE), s)
Resume(s) ==
  /\ Hasty \/ (work.kind = "none" /\ str[s].ask = "PAUSED")
  /\ (~Hasty /\ card = "OFF" => str[s].cached = "PAUSED")
  /\ \E ok \in {TRUE} \cup {card = "OFF"} :
       IF ok THEN Asks(ResumeIt(W, s, ok), s, "STARTED") ELSE Client(ResumeIt(W, s, FALSE), s)

(* The volume is remembered; a stream that was started takes it at once, a *)
(* record when it starts.                                                  *)
SetVolume(s) ==
  /\ \E v \in 1..2 :
       LET w == [W EXCEPT !.str[s].vol = v]
       IN Client(IF card = "ON" /\ str[s].st \notin {"IDLE", "INIT"} THEN [w EXCEPT !.str[s].dsp = v] ELSE w, s)

(* Without the card, or while the stream is restored, a buffer is taken    *)
(* for transferred; a read of a stream that never started has no handle.   *)
Transfer(s) ==
  /\ card = "ON" /\ str[s].cached = "IDLE" /\ str[s].st = "STARTED"
  /\ Client([W EXCEPT !.str[s].wild = @ \/ (s \in Records /\ ~str[s].pcm)], s)

------------------------------------------------------------------------------
(* The restart of the card.                                                *)
Goes ==
  /\ card = "ON" /\ work.kind = "none" /\ downs < MaxDowns
  /\ card' = "OFF" /\ downs' = downs + 1 /\ work' = [Idle EXCEPT !.kind = "down", !.todo = Streams]
  /\ UNCHANGED <<str, votes>>
Returns ==
  /\ card = "OFF" /\ work.kind = "none"
  /\ card' = "ON" /\ work' = [Idle EXCEPT !.kind = "up", !.todo = Streams]
  /\ UNCHANGED <<str, votes, downs>>
Finishes ==
  /\ work.kind # "none" /\ work.todo = {} /\ work.s = {} /\ work' = Idle
  /\ UNCHANGED <<str, votes, card, downs>>

(* What a stream was is remembered unless its client said more.            *)
Goes_(s, at) == work' = [work EXCEPT !.todo = @ \ {s}, !.s = IF at = "done" THEN {} ELSE {s}, !.at = at]
ssrDownHandler(s) ==
  /\ work.kind = "down" /\ work.s = {} /\ s \in work.todo
  /\ LET x == str[s]
     IN /\ str' = [str EXCEPT ![s].cached = IF @ = "IDLE" THEN x.st ELSE @]
        /\ Goes_(s, IF x.st \in {"STARTED", "PAUSED"} THEN "stop"
                    ELSE IF x.st = "IDLE" THEN "done" ELSE "close")
  /\ UNCHANGED <<votes, card, downs>>
DownStops(s) ==
  /\ work.kind = "down" /\ work.s = {s} /\ work.at = "stop"
  /\ Becomes(StopIt(W, s, TRUE)) /\ Goes_(s, "close") /\ UNCHANGED <<card, downs>>
DownCloses(s) ==
  /\ work.kind = "down" /\ work.s = {s} /\ work.at = "close"
  /\ LET w == CloseIt(W, s) IN Becomes([w EXCEPT !.str[s].st = "IDLE"])
  /\ Goes_(s, "done") /\ UNCHANGED <<card, downs>>

Forgets(w, s) == Becomes([w EXCEPT !.str[s].cached = "IDLE"]) /\ Goes_(s, "done")
ssrUpHandler(s) ==
  /\ work.kind = "up" /\ work.s = {} /\ s \in work.todo
  /\ IF str[s].cached \in {"INIT", "STARTED", "PAUSED"}
     THEN Goes_(s, "open") /\ UNCHANGED <<str, votes>>
     ELSE Forgets(W, s)
  /\ UNCHANGED <<card, downs>>
ForgetsPause(c) == c = "STARTED"  \* seeded fault: a paused stream is only started
Starts(c) == c \in {"STARTED", "PAUSED"}
UpOpens(s) ==
  /\ work.kind = "up" /\ work.s = {s} /\ work.at = "open"
  /\ LET w == OpenIt(W, s)
     IN IF w.str[s].st = "INIT" /\ Starts(str[s].cached)
        THEN Becomes(w) /\ Goes_(s, "start") ELSE Forgets(w, s)
  /\ UNCHANGED <<card, downs>>
UpStarts(s) ==
  /\ work.kind = "up" /\ work.s = {s} /\ work.at = "start"
  /\ LET w == StartIt(W, s, TRUE)
     IN IF w.str[s].st = "STARTED" /\ str[s].cached = "PAUSED"
        THEN Becomes(w) /\ Goes_(s, "pause") ELSE Forgets(w, s)
  /\ UNCHANGED <<card, downs>>
UpPauses(s) ==
  /\ work.kind = "up" /\ work.s = {s} /\ work.at = "pause"
  /\ Forgets(PauseIt(W, s, TRUE), s) /\ UNCHANGED <<card, downs>>

Step(s) ==
  \/ Open(s) \/ Start(s) \/ Stop(s) \/ Close(s) \/ Pause(s) \/ Resume(s) \/ SetVolume(s)
  \/ Transfer(s) \/ ssrDownHandler(s) \/ DownStops(s) \/ DownCloses(s) \/ ssrUpHandler(s)
  \/ UpOpens(s) \/ UpStarts(s) \/ UpPauses(s)
Next == Goes \/ Returns \/ Finishes \/ \E s \in Streams : Step(s)
Spec == Init /\ [][Next]_vars

------------------------------------------------------------------------------
(* The shape of the state.                                                 *)
TypeOK ==
  /\ \A s \in Streams :
       /\ str[s].st \in States /\ str[s].cached \in States /\ str[s].ask \in States
       /\ str[s].vol \in 0..2 /\ str[s].dsp \in 0..2
  /\ votes \in Nat /\ card \in {"ON", "OFF"} /\ work.todo \subseteq Streams /\ downs \in 0..MaxDowns

(* One vote for each stream that was started and not stopped, and a front  *)
(* end for no more streams than there are.                                 *)
CountsExact ==
  /\ votes = Cardinality({s \in Streams : str[s].st \in {"STARTED", "PAUSED"}})
  /\ \A s \in Streams : Spare(W, s) >= 0 /\ (str[s].fe <=> str[s].st # "IDLE")

(* Once the restart is over a stream is what its client was told it is,    *)
(* and its graph has the volume the client set.                            *)
PromisesKept ==
  work.kind = "none" /\ card = "ON" =>
    \A s \in Streams :
      /\ str[s].ask = "STARTED" => str[s].st = "STARTED" /\ str[s].run
      /\ str[s].ask = "PAUSED"  => str[s].st = "PAUSED"
      /\ str[s].ask \in {"STOPPED", "INIT"} => ~str[s].run
      /\ s \in Records /\ str[s].run => str[s].dsp = str[s].vol

(* A stream the client sees as started has a handle to read from.          *)
NeverReadsPast == \A s \in Streams : ~str[s].wild
=============================================================================
