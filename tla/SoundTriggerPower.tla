-------------------------- MODULE SoundTriggerPower --------------------------
(***************************************************************************)
(* The wake locks and the vote of the sleep monitor of a sound trigger     *)
(* stream. The first stage's thread takes a wake lock with a detection of  *)
(* the DSP and gives it up when it has handled it; the stream takes one    *)
(* when it hears of the detection and gives it up in whichever call ends   *)
(* the detection: a start, a stop, the deferred stop, a rejection, a       *)
(* change of the microphone or of the capture profile, a restart of the    *)
(* DSP, the end of the stream. The inductive invariant says which calls    *)
(* are in progress when the lock is still to be given up, which state the  *)
(* stream is in meanwhile, and that the lock is counted once in the state  *)
(* or once in the list of the thread that ends the detection.              *)
(***************************************************************************)
EXTENDS SoundTriggerVerdicts

------------------------------------------------------------------------------
(***************************************************************************)
(* The sections of calls on the engines: those that stop or unload them;   *)
(***************************************************************************)
EndCalls == {<<n>> : n \in {"exit", "gslStop", "gslClose"}} \cup ({"quit", "await",
  "join"} \X Engines)

(***************************************************************************)
(* those that start recognition again after a detection;                   *)
(***************************************************************************)
RestartCalls == {<<n>> : n \in {"exit", "gslRestart", "restartFails"}}
                \cup ({"quit", "await"} \X Engines)

(***************************************************************************)
(* those that start it;                                                    *)
(***************************************************************************)
StartCalls == {<<n>> : n \in {"exit", "gslStart", "capiStart", "startFails"}}

(***************************************************************************)
(* those that load the sound model;                                        *)
(***************************************************************************)
LoadCalls == {"gslLoad", "loadFails"} \X {"new", "same"}

(***************************************************************************)
(* what ResourceManager's thread does before the stream is offline;        *)
(***************************************************************************)
DownCalls == EndCalls \cup {<<"unloaded">>, <<"handle", "unload">>}

(***************************************************************************)
(* the events that are handled again once the stream has been stopped for  *)
(* them;                                                                   *)
(***************************************************************************)
Again == {"handle"} \X {"unload", "config", "concurrent", "disconnect"}

(***************************************************************************)
(* and what may come later, when no such calls are in progress.            *)
(***************************************************************************)
Later == ({"handle"} \X Events) \cup {<<"online">>, <<"unlock">>} \cup Leaves(AllOps)
         \cup Outcomes("answer") \cup Outcomes("done")

(***************************************************************************)
(* Calls, then a section that marks their end, then one of the lists       *)
(* rests.                                                                  *)
(***************************************************************************)
Before(calls, mark, rests) == UNION {After(calls, <<<<mark>>>> \o r) : r \in rests}

(***************************************************************************)
(* What a thread with the mutex has still to do: only what comes later;    *)
(***************************************************************************)
Laters == Seq(Later)

(***************************************************************************)
(* first what takes the stream offline;                                    *)
(***************************************************************************)
Downs == Before(DownCalls, "offline", Laters)

(***************************************************************************)
(* first the stop of the stream, then what takes it offline.               *)
(***************************************************************************)
Cuts == {<<<<"handle", "stop">>>> \o r : r \in Downs}

(***************************************************************************)
(* The same for a thread that has to give up a wake lock: an event again,  *)
(* and then the lock;                                                      *)
(***************************************************************************)
Owing == Before(Again, "unwake", Laters)

(***************************************************************************)
(* the lock, and then what comes later;                                    *)
(***************************************************************************)
Wakes == {<<<<"unwake">>>> \o r : r \in Laters}

(***************************************************************************)
(* the lock, and then what takes the stream offline.                       *)
(***************************************************************************)
WakesDown == {<<<<"unwake">>>> \o r : r \in Downs}

(***************************************************************************)
(* Every section that these lists hold.                                    *)
(***************************************************************************)
Sections == EndCalls \cup RestartCalls \cup StartCalls \cup LoadCalls \cup DownCalls \cup Again
            \cup Later \cup {<<"handle", "stop">>}
            \cup {<<n>> : n \in {"offline", "unwake", "halted", "started", "connected"}}
            \cup {<<n>> : n \in {"restarted", "loaded", "unloaded", "reconfigured"}}

(***************************************************************************)
(* A section in front of a list.                                           *)
(***************************************************************************)
LEMMA PutFirst ==
  ASSUME NEW T, NEW r \in Seq(T), NEW x
  PROVE  LET q == <<x>> \o r IN
         /\ q # <<>> /\ Head(q) = x /\ Tail(q) = r /\ q \in Seq({x} \cup T)
<1> DEFINE q == <<x>> \o r
           U == {x} \cup T
<1>1. <<x>> \in Seq(U) /\ r \in Seq(U) /\ Len(<<x>>) = 1
  BY SeqMonotonic
<1>2. /\ q \in Seq(U) /\ Len(q) = 1 + Len(r)
      /\ \A i \in 1..(1 + Len(r)) : q[i] = IF i <= 1 THEN <<x>>[i] ELSE r[i - 1]
  BY <1>1, ConcatProperties
<1>3. Len(r) \in Nat /\ r = [i \in 1..Len(r) |-> r[i]]
  BY LenProperties, IsASeq, SeqDef
<1>4. q # <<>>
  BY <1>2, <1>3
<1>5. Head(q) = x
  BY <1>2, <1>3, <1>4
<1>6. /\ Tail(q) \in Seq(U) /\ Len(Tail(q)) = Len(r)
      /\ \A i \in 1..Len(r) : Tail(q)[i] = r[i]
  <2>1. Tail(q) \in Seq(U) /\ Len(Tail(q)) = Len(q) - 1
          /\ \A i \in 1..Len(Tail(q)) : Tail(q)[i] = q[i + 1]
    BY <1>2, <1>4, HeadTailProperties
  <2> QED
    BY <1>2, <1>3, <2>1
<1>7. Tail(q) = r
  BY <1>1, <1>6, SeqEqual
<1> QED
  BY <1>2, <1>4, <1>5, <1>7

(***************************************************************************)
(* One list after the other, and lists in a row, whichever are joined      *)
(* first.                                                                  *)
(***************************************************************************)
Join(a, b) == a \o b

LEMMA Joins ==
  ASSUME NEW U, NEW a \in Seq(U), NEW b \in Seq(U), NEW c \in Seq(U)
  PROVE  Join(a, b) \in Seq(U) /\ Join(Join(a, b), c) = Join(a, Join(b, c))
<1>1. a \o b \in Seq(U)
  BY ConcatProperties
<1>2. (a \o b) \o c = a \o (b \o c)
  BY ConcatAssociative
<1> QED
  BY <1>1, <1>2 DEF Join

(***************************************************************************)
(* A list that starts with a section.                                      *)
(***************************************************************************)
LEMMA NextIs ==
  ASSUME NEW x, NEW T, NEW R \in SUBSET Seq(T), NEW q \in {<<x>> \o r : r \in R}
  PROVE  q # <<>> /\ Head(q) = x /\ Tail(q) \in R
<1>1. PICK r \in R : q = <<x>> \o r
  OBVIOUS
<1>2. r \in Seq(T)
  OBVIOUS
<1> QED
  BY <1>1, <1>2, PutFirst

(***************************************************************************)
(* A list with a mark: the mark is next, or a call is.                     *)
(***************************************************************************)
LEMMA MarkNext ==
  ASSUME NEW C, NEW m, NEW T, NEW R \in SUBSET Seq(T), NEW q \in Before(C, m, R)
  PROVE  /\ q # <<>> /\ q \in Seq(C \cup ({<<m>>} \cup T))
         /\ \/ Head(q) = <<m>> /\ Tail(q) \in R
            \/ Head(q) \in C /\ Tail(q) \in Before(C, m, R)
<1>1. PICK r \in R : q \in After(C, <<<<m>>>> \o r)
  BY DEF Before
<1> DEFINE z == <<<<m>>>> \o r
<1>2. z # <<>> /\ Head(z) = <<m>> /\ Tail(z) = r /\ z \in Seq({<<m>>} \cup T)
  BY PutFirst
<1> HIDE DEF z
<1>3. q \in Seq(C \cup ({<<m>>} \cup T)) /\ q # <<>>
  BY <1>1, <1>2, AfterIsList DEF z
<1>4. CASE q = z
  BY <1>2, <1>3, <1>4
<1>5. CASE q # z
  <2>1. Head(q) \in C /\ Tail(q) \in After(C, z)
    BY <1>1, <1>2, <1>5, AfterTail DEF z
  <2> QED
    BY <1>3, <2>1 DEF Before, z
<1> QED
  BY <1>4, <1>5

(***************************************************************************)
(* Calls and a mark put in front of a list.                                *)
(***************************************************************************)
LEMMA MarkPut ==
  ASSUME NEW C, NEW m, NEW T, NEW R \in SUBSET Seq(T), NEW r \in R, NEW c \in Seq(C)
  PROVE  /\ <<<<m>>>> \o r \in Before(C, m, R)
         /\ c \o (<<<<m>>>> \o r) \in Before(C, m, R)
         /\ (c \o <<<<m>>>>) \o r \in Before(C, m, R)
<1> DEFINE z == <<<<m>>>> \o r
           U == C \cup ({<<m>>} \cup T)
<1>1. z \in Seq({<<m>>} \cup T)
  BY PutFirst
<1>2. z \in After(C, z) /\ c \o z \in After(C, z)
  BY <1>1, AfterNothing DEF After
<1>3. c \in Seq(U) /\ <<<<m>>>> \in Seq(U) /\ r \in Seq(U)
  BY SeqMonotonic
<1>4. (c \o <<<<m>>>>) \o r = c \o z
  <2> HIDE DEF U
  <2>1. PICK x \in Seq(U) : x = <<<<m>>>>
    BY <1>3
  <2>2. Join(Join(c, x), r) = Join(c, Join(x, r))
    BY <1>3, Joins
  <2> QED
    BY <2>1, <2>2 DEF Join
<1> QED
  BY <1>2, <1>4 DEF Before

(***************************************************************************)
(* Calls put in front of a list with a mark.                               *)
(***************************************************************************)
LEMMA CallsPut ==
  ASSUME NEW C, NEW m, NEW T, NEW R \in SUBSET Seq(T), NEW q \in Before(C, m, R),
         NEW c \in Seq(C)
  PROVE  c \o q \in Before(C, m, R)
<1>1. PICK r \in R : q \in After(C, <<<<m>>>> \o r)
  BY DEF Before
<1>2. <<<<m>>>> \o r \in Seq({<<m>>} \cup T)
  BY PutFirst
<1>3. c \o q \in After(C, <<<<m>>>> \o r)
  BY <1>1, <1>2, AfterMore
<1> QED
  BY <1>3 DEF Before

(***************************************************************************)
(* All of them are lists of sections.                                      *)
(***************************************************************************)
LEMMA RestsAreLists ==
  /\ Laters \in SUBSET Seq(Sections) /\ Downs \in SUBSET Seq(Sections)
  /\ Cuts \in SUBSET Seq(Sections)
  /\ Owing \in SUBSET Seq(Sections) /\ Wakes \in SUBSET Seq(Sections)
  /\ WakesDown \in SUBSET Seq(Sections)
<1>1. Later \subseteq Sections /\ DownCalls \subseteq Sections /\ Again \subseteq Sections
      /\ <<"offline">> \in Sections /\ <<"unwake">> \in Sections
      /\ <<"handle", "stop">> \in Sections
  BY DEF Sections
<1>2. Laters \in SUBSET Seq(Sections)
  BY <1>1, SeqMonotonic DEF Laters
<1>3. ASSUME NEW x \in Sections, NEW r \in Seq(Sections)
      PROVE  <<x>> \o r \in Seq(Sections)
  <2>1. {x} \cup Sections = Sections
    OBVIOUS
  <2> QED
    BY <2>1, PutFirst
<1>4. Downs \in SUBSET Seq(Sections)
  <2>1. \A q \in Downs : q \in Seq(DownCalls \cup ({<<"offline">>} \cup Sections))
    BY <1>2, MarkNext DEF Downs
  <2>2. DownCalls \cup ({<<"offline">>} \cup Sections) = Sections
    BY <1>1
  <2> QED
    BY <2>1, <2>2
<1>5. Owing \in SUBSET Seq(Sections)
  <2>1. \A q \in Owing : q \in Seq(Again \cup ({<<"unwake">>} \cup Sections))
    BY <1>2, MarkNext DEF Owing
  <2>2. Again \cup ({<<"unwake">>} \cup Sections) = Sections
    BY <1>1
  <2> QED
    BY <2>1, <2>2
<1>6. Cuts \in SUBSET Seq(Sections)
  BY <1>1, <1>3, <1>4 DEF Cuts
<1>7. Wakes \in SUBSET Seq(Sections) /\ WakesDown \in SUBSET Seq(Sections)
  BY <1>1, <1>2, <1>3, <1>4 DEF Wakes, WakesDown
<1> QED
  BY <1>2, <1>4, <1>5, <1>6, <1>7


------------------------------------------------------------------------------
(***************************************************************************)
(* The lists of calls on the engines.                                      *)
(***************************************************************************)
LEMMA CallLists2 ==
  ASSUME config \in Configs
  PROVE  /\ StopEngines \in Seq(EndCalls) /\ UnloadEngines \in Seq(EndCalls)
         /\ Stage1("gslClose") \in Seq(EndCalls) /\ RestartEngines \in Seq(RestartCalls)
         /\ StartEngines \in Seq(StartCalls)
<1>1. IsFiniteSet(config.second) /\ config.second \subseteq Engines
  BY SecondFinite
<1>2. /\ Stage2(config.second, "await") \in Seq(EndCalls)
      /\ Stage2(config.second, "join") \in Seq(EndCalls)
  BY <1>1, Stage2Is DEF EndCalls
<1>3. Stage2(config.second, "await") \in Seq(RestartCalls)
  BY <1>1, Stage2Is DEF RestartCalls
<1>4. Stage1("gslStop") \in Seq(EndCalls) /\ Stage1("gslClose") \in Seq(EndCalls)
  BY Stage1Is DEF EndCalls
<1>5. Stage1("gslRestart") \in Seq(RestartCalls) /\ Stage1("gslStart") \in Seq(StartCalls)
  BY Stage1Is DEF RestartCalls, StartCalls
<1>6. <<<<"capiStart">>>> \in Seq(StartCalls)
  BY DEF StartCalls
<1> QED
  BY <1>2, <1>3, <1>4, <1>5, <1>6, ConcatProperties DEF StopEngines, UnloadEngines,
     RestartEngines, StartEngines

(***************************************************************************)
(* The last sections come later, and stay when the call fails.             *)
(***************************************************************************)
LEMMA LastLater ==
  ASSUME NEW l, (\E ops \in SUBSET AllOps : l \in Leaves(ops))
                  \/ l \in Outcomes("answer") \/ l \in Outcomes("done")
  PROVE  /\ l \in Later /\ [l EXCEPT ![2] = FALSE] \in Later
         /\ <<l>> \in Laters /\ <<[l EXCEPT ![2] = FALSE]>> \in Laters
         /\ Last(<<l>>) = l
<1>1. ASSUME NEW ops \in SUBSET AllOps, NEW m \in Leaves(ops)
      PROVE  m \in Leaves(AllOps)
  <2>1. m \in [1..4 -> {"leave"} \cup BOOLEAN \cup AllOps \cup CallStates]
    BY <1>1 DEF Leaves
  <2> QED
    BY <1>1, <2>1 DEF Leaves
<1>2. l \in Leaves(AllOps) => [l EXCEPT ![2] = FALSE] \in Leaves(AllOps)
  BY LeaveFails
<1>3. /\ l \in Outcomes("answer") => [l EXCEPT ![2] = FALSE] \in Outcomes("answer")
      /\ l \in Outcomes("done") => [l EXCEPT ![2] = FALSE] \in Outcomes("done")
  BY OutcomeFails
<1> DEFINE f == [l EXCEPT ![2] = FALSE]
<1>4. l \in Later /\ f \in Later
  BY <1>1, <1>2, <1>3 DEF Later
<1> HIDE DEF f
<1>5. <<l>> \in Laters /\ <<f>> \in Laters /\ Last(<<l>>) = l
  BY <1>4 DEF Laters, Last
<1> QED
  BY <1>4, <1>5 DEF f

(***************************************************************************)
(* The head and the tail of what comes later, and a section in front of    *)
(* it.                                                                     *)
(***************************************************************************)
LEMMA LaterNext ==
  ASSUME NEW q \in Laters, q # <<>>
  PROVE  Head(q) \in Later /\ Tail(q) \in Laters
BY HeadTailProperties DEF Laters

(***************************************************************************)
(* One list of what comes later in front of another.                       *)
(***************************************************************************)
LEMMA LaterPut ==
  ASSUME NEW r \in Laters, NEW c \in Laters
  PROVE  c \o r \in Laters
BY ConcatProperties DEF Laters

(***************************************************************************)
(* How many of the wake locks the first stage's thread holds.              *)
(***************************************************************************)
Holding == IF todo[Gsl] = <<>> THEN 0 ELSE 1

(***************************************************************************)
(* How many are held if the stream holds n. A client that hears of         *)
(* rejections may have given one up too early.                             *)
(***************************************************************************)
Level(n) == wake_lock_cnt \in 0..(Holding + n)
  /\ (~config.notify => wake_lock_cnt = Holding + n)

(***************************************************************************)
(* The stream holds one in the states in which it has heard of a           *)
(* detection.                                                              *)
(***************************************************************************)
Awake == (State(Told) => Level(1)) /\ (~State(Told) => Level(0))

(***************************************************************************)
(* The stream has not voted against the low power island. A client that    *)
(* hears of rejections may leave a vote behind.                            *)
(***************************************************************************)
NoVote == ~config.notify => ~force_nlpi_vote

(***************************************************************************)
(* If it has, there is sound to read, and no engine may still reject it.   *)
(***************************************************************************)
Sound ==
  ~config.notify =>
    /\ State(Told) /\ ~second_stage_processing =>
         (\A k \in Engines : ~Rejects(k)) /\ (State({"BUFFERING"}) => config.capture)
    /\ force_nlpi_vote => State({"BUFFERING"}) /\ ~second_stage_processing

(***************************************************************************)
(* The stream has an engine unless it is idle or offline.                  *)
(***************************************************************************)
HasEngine == eng_state = "NONE" => State({"IDLE", "SSR"})

(***************************************************************************)
(* What a thread with the mutex may have to do, in which state of the      *)
(* stream, when it has no wake lock of the stream to give up;              *)
(***************************************************************************)
Dry(t) ==
  \/ todo[t] \in Laters
  \/ todo[t] \in Downs /\ ~State(Running)
  \/ todo[t] \in Cuts
  \/ State({"ACTIVE"}) /\ todo[t] \in Before(EndCalls, "halted", Laters \cup Downs)
  \/ State({"LOADED"}) /\ todo[t] \in Before(StartCalls, "started", Laters)
  \/ State({"LOADED"}) /\ todo[t] \in Before(StartCalls, "connected", Laters)
  \/ /\ State({"IDLE"}) /\ todo[t] \in Before(LoadCalls, "loaded", Laters)
     /\ Head(todo[t]) = <<"loaded">> => eng_state # "NONE"
  \/ State({"IDLE", "LOADED"}) /\ todo[t] \in Before(EndCalls, "unloaded", Laters)
  \/ State({"IDLE", "LOADED"}) /\ todo[t] \in Before(EndCalls, "reconfigured", Laters)

(***************************************************************************)
(* and when it has.                                                        *)
(***************************************************************************)
Wet(t) ==
  \/ State({"IDLE", "LOADED"}) /\ todo[t] \in Owing
  \/ State({"IDLE", "LOADED"}) /\ todo[t] \in WakesDown
  \/ State({"ACTIVE"}) /\ todo[t] \in Wakes
  \/ State({"IDLE", "LOADED"}) /\ todo[t] \in Before(EndCalls, "unloaded", Owing)
  \/ State({"IDLE", "LOADED"}) /\ todo[t] \in Before(EndCalls, "reconfigured", Owing)
  \/ State(Told) /\ todo[t] \in Before(EndCalls, "halted", Owing \cup WakesDown)
  \/ State(Told) /\ todo[t] \in Before(RestartCalls, "restarted", Wakes)

(***************************************************************************)
(* The two cases with the wake locks and the vote: they are as the state   *)
(* of the stream says;                                                     *)
(***************************************************************************)
DryHeld(t) == Sound /\ Awake /\ Dry(t)

(***************************************************************************)
(* the wake lock is still to be given up, and the vote has been taken      *)
(* back.                                                                   *)
(***************************************************************************)
WetHeld(t) == NoVote /\ Level(1) /\ Wet(t)

(***************************************************************************)
(* The callback that tells of a rejection, and gives up a wake lock, is    *)
(* for clients that want to hear of rejections.                            *)
(***************************************************************************)
Unheard == ~config.notify =>
  \A t \in Pollers : At(t, "callback") \/ At(t, "relock") => Arg(t) = "detected"

(***************************************************************************)
(* The thread that has the mutex has something to do with it.              *)
(***************************************************************************)
Holder == \A t \in Threads : mutex = t =>
  todo[t] # <<>> /\ Head(todo[t])[1] \notin FreeNames

(***************************************************************************)
(* The inductive invariant: nobody has the mutex, or the destructor; or    *)
(* the first stage's thread, that engages the others; or an engine that    *)
(* has rejected and stops the others; or a thread that works on the        *)
(* stream, with a wake lock to give up or without.                         *)
(***************************************************************************)
PInv ==
  /\ HasEngine /\ Unheard /\ Holder
  /\ \/ Sound /\ Awake /\ (mutex = None \/ Leaving)
     \/ Sound /\ Awake /\ mutex = Gsl /\ second_stage_processing /\ State({"BUFFERING"})
     \/ \E k \in Engines :
          mutex = k /\ Rejecting(k) /\ State({"BUFFERING"}) /\ NoVote /\ Level(1)
     \/ \E t \in Threads \ {Gsl} : mutex = t /\ (DryHeld(t) \/ WetHeld(t))

(***************************************************************************)
(* What does not touch the wake locks or the vote keeps them as they are.  *)
(***************************************************************************)
LEMMA LevelKept ==
  ASSUME UNCHANGED <<config, wake_lock_cnt>>, Holding' = Holding
  PROVE  \A n : Level(n)' = Level(n)
BY DEF Level

(***************************************************************************)
(* The stream gives its wake lock up.                                      *)
(***************************************************************************)
LEMMA LevelGiven ==
  ASSUME UNCHANGED config, releaseWakeLock, Holding' = Holding, Level(1)
  PROVE  Level(0)'
BY DEF Level, releaseWakeLock, Less, Holding

(***************************************************************************)
(* A vote that nobody casts anew stays right while the stream stays in its *)
(* state.                                                                  *)
(***************************************************************************)
LEMMA SoundKept ==
  ASSUME Sound, UNCHANGED <<config, cur_state, second_stage_processing>>,
         force_nlpi_vote' => force_nlpi_vote,
         \A k \in Engines : Rejects(k)' => Rejects(k)
  PROVE  Sound'
BY DEF Sound, State

(***************************************************************************)
(* Out of the states after a detection there must be no vote.              *)
(***************************************************************************)
LEMMA SoundOff ==
  ASSUME ~State(Told)'
  PROVE  Sound' <=> NoVote'
BY DEF Sound, NoVote, State, Told

(***************************************************************************)
(* There is none before the sound may be read.                             *)
(***************************************************************************)
LEMMA SoundSilent ==
  ASSUME Sound, ~State({"BUFFERING"}) \/ second_stage_processing
  PROVE  NoVote
BY DEF Sound, NoVote


------------------------------------------------------------------------------
(***************************************************************************)
(* A thread that works with the mutex, and is not the first stage's: it    *)
(* keeps the mutex, its step is on its own list, and no engine comes       *)
(* nearer to a rejection by it.                                            *)
(***************************************************************************)
LEMMA Worker ==
  ASSUME IInv, UNCHANGED config, NEW t \in Threads \ {Gsl}, Works(t)
  PROVE  /\ mutex = t /\ mutex' = t /\ todo[t] # <<>> /\ config \in Configs
         /\ Holding' = Holding
         /\ \A k \in Engines : Rejects(k)' => Rejects(k)
         /\ Head(todo[t])[1] \in Names /\ ~Leaving
         /\ \A u \in Pollers \ {t} : todo'[u] = todo[u]
         /\ t \in Pollers => todo'[t] # <<>> /\ Head(todo'[t])[1] \notin {"callback", "relock"}
<1>1. /\ mutex = t /\ Runs(t) /\ ~Leaving /\ todo[t] # <<>>
      /\ Head(todo[t])[1] # "engage" /\ Head(todo[t])[1] \in Names
  BY WorkerRuns
<1>2. DOMAIN todo = Threads /\ config \in Configs
  BY Given
<1>3. mutex' = t
  BY <1>1, WorksKeep
<1>4. Frame(t)
  BY <1>1, <1>2, WorksFrame
<1>5. \A u \in Pollers \ {t} : todo'[u] = todo[u]
  BY <1>4, PollerThreads, ThreadsAssumption DEF Frame
<1>6. Holding' = Holding
  BY <1>5, PollerThreads DEF Holding
<1>7. t \in Engines => todo'[t] # <<>> /\ Head(todo'[t])[1] \notin Dull \cup {"relock"}
  BY WorkingEngine
<1>8. \A k \in Engines : Rejects(k)' => Rejects(k)
  <2> SUFFICES ASSUME NEW k \in Engines, Rejects(k)' PROVE Rejects(k)
    OBVIOUS
  <2>1. k # t
    BY <1>7 DEF Rejects, At, Dull
  <2>2. todo'[k] = todo[k]
    BY <1>5, <2>1, PollerThreads
  <2> QED
    BY <2>2 DEF Rejects, At, Arg
<1>9. t \in Pollers => todo'[t] # <<>> /\ Head(todo'[t])[1] \notin {"callback", "relock"}
  BY <1>7 DEF Pollers, Dull
<1> QED
  BY <1>1, <1>2, <1>3, <1>5, <1>6, <1>8, <1>9

(***************************************************************************)
(* Where it goes: on to what it puts in front of its list, or to the end   *)
(* of a call that fails.                                                   *)
(***************************************************************************)
LEMMA WorkerGoes ==
  ASSUME IInv, NEW t \in Threads \ {Gsl}, Works(t)
  PROVE  /\ \A m : Then(t, m) => todo'[t] = m \o Tail(todo[t])
         /\ \A q : Goes(t, q) => todo'[t] = q
         /\ Then(t, <<>>) => todo'[t] = Tail(todo[t])
         /\ <<[Last(todo[t]) EXCEPT ![2] = FALSE]>> \in Laters
         /\ Fail(t) => todo'[t] \in Laters
<1>1. Runs(t) /\ ~Leaving /\ DOMAIN todo = Threads /\ todo[t] # <<>>
  BY WorkerRuns, Given
<1>2. \A m : Then(t, m) => todo'[t] = m \o Tail(todo[t])
  BY <1>1 DEF Then, Goes
<1>3. \A q : Goes(t, q) => todo'[t] = q
  BY <1>1 DEF Goes
<1>4. (\E ops \in SUBSET AllOps : Last(todo[t]) \in Leaves(ops))
        \/ Last(todo[t]) \in Outcomes("done")
  BY <1>1, RunsTyped
<1>5. <<[Last(todo[t]) EXCEPT ![2] = FALSE]>> \in Laters
  BY <1>4, LastLater
<1>6. Fail(t) => todo'[t] \in Laters
  BY <1>3, <1>5 DEF Fail
<1>7. Then(t, <<>>) => todo'[t] = Tail(todo[t])
  <2>1. PICK S : todo[t] \in Seq(S)
    BY <1>1, RunsTyped
  <2>2. Tail(todo[t]) \in Seq(S)
    BY <1>1, <2>1, HeadTailProperties
  <2> QED
    BY <1>2, <2>2, ConcatEmptySeq
<1> QED
  BY <1>2, <1>3, <1>5, <1>6, <1>7

(***************************************************************************)
(* Stopping and restarting an engine puts sections in front of the list:   *)
(* it never is the list of a timer that sleeps.                            *)
(***************************************************************************)
LEMMA Ended ==
  ASSUME IInv, NEW t \in Threads \ {Gsl}, Works(t)
  PROVE  /\ Halt(t) => todo'[t] = HaltList(t) \o Tail(todo[t])
         /\ Restart(t) => todo'[t] = (RestartEngines \o <<<<"restarted">>,
              <<"unwake">>>>) \o Tail(todo[t])
<1>1. DOMAIN todo = Threads /\ config \in Configs
  BY Given
<1>2. Runs(t) /\ ~Leaving /\ todo[t] # <<>>
  BY WorkerRuns
<1>3. PICK S : todo[t] \in Seq(S)
  BY <1>2, RunsTyped
<1>4. Tail(todo[t]) \in Seq(S)
  BY <1>2, <1>3, HeadTailProperties
<1>5. HaltList(t) \o Tail(todo[t]) # <<<<"sleep">>>>
  BY <1>1, <1>4, HaltBusy, NotAsleep
<1>6. Halt(t) => todo'[t] = HaltList(t) \o Tail(todo[t])
  BY <1>1, <1>5, HaltGoes
<1> DEFINE q == (RestartEngines \o <<<<"restarted">>, <<"unwake">>>>) \o Tail(todo[t])
<1>7. q # <<<<"sleep">>>>
  BY <1>1, <1>4, RestartBusy, NotAsleep
<1>8. Restart(t) => todo' = Disarmed([todo EXCEPT ![t] = q])
  BY DEF Restart
<1> HIDE DEF q
<1>9. Restart(t) => todo'[t] = q
  BY <1>1, <1>7, <1>8 DEF Disarmed
<1> QED
  BY <1>6, <1>9 DEF q

(***************************************************************************)
(* The sections by which Halt() stops recognition, in front of what the    *)
(* thread has left.                                                        *)
(***************************************************************************)
LEMMA HaltLists ==
  ASSUME NEW t, NEW T, NEW z \in Seq(T), config \in Configs
  PROVE  HaltList(t) \o z =
           (StopEngines \o <<<<"halted">>>>) \o
             (IF Arg(t) \in {"stop", "pause"}
                THEN (IF State(Told) THEN <<<<"unwake">>>> \o z ELSE z)
                ELSE IF State(Told) THEN <<Head(todo[t])>> \o (<<<<"unwake">>>> \o z)
                     ELSE <<Head(todo[t])>> \o z)
<1> DEFINE h == Head(todo[t])
           a == StopEngines \o <<<<"halted">>>>
           u == <<<<"unwake">>>>
           U == EndCalls \cup {<<"halted">>, <<"unwake">>, h} \cup T
<1>1. a \in Seq(U) /\ u \in Seq(U) /\ <<h>> \in Seq(U) /\ z \in Seq(U) /\ <<>> \in Seq(U)
  <2>1. StopEngines \in Seq(U) /\ z \in Seq(U)
    BY CallLists2, SeqMonotonic
  <2>2. <<<<"halted">>>> \in Seq(U) /\ u \in Seq(U) /\ <<h>> \in Seq(U) /\ <<>> \in Seq(U)
    OBVIOUS
  <2> QED
    BY <2>1, <2>2, ConcatProperties
<1>2. HaltList(t) = a \o (IF Arg(t) \in {"stop", "pause"} THEN <<>> ELSE <<h>>)
                      \o (IF State(Told) THEN u ELSE <<>>)
  BY DEF HaltList
<1> HIDE DEF h, a, u, U
<1>3. \A x \in Seq(U) : \A y \in Seq(U) : (x \o y) \o z = x \o (y \o z) /\ x \o <<>> = x
        /\ x \o y \in Seq(U)
  <2>1. ASSUME NEW x \in Seq(U), NEW y \in Seq(U)
        PROVE  (x \o y) \o z = x \o (y \o z) /\ x \o y \in Seq(U)
    <3>1. Join(x, y) \in Seq(U) /\ Join(Join(x, y), z) = Join(x, Join(y, z))
      BY <1>1, Joins
    <3> QED
      BY <3>1 DEF Join
  <2>2. ASSUME NEW x \in Seq(U)
        PROVE  x \o <<>> = x
    BY ConcatEmptySeq
  <2> QED
    BY <2>1, <2>2
<1>4. ((a \o <<h>>) \o u) \o z = a \o (<<h>> \o (u \o z))
  <2>1. a \o <<h>> \in Seq(U) /\ u \o z \in Seq(U)
    BY <1>1, ConcatProperties
  <2>2. ((a \o <<h>>) \o u) \o z = (a \o <<h>>) \o (u \o z)
    BY <1>1, <1>3, <2>1
  <2>3. (a \o <<h>>) \o (u \o z) = a \o (<<h>> \o (u \o z))
    <3>1. PICK x \in Seq(U) : x = <<h>>
      BY <1>1
    <3>2. Join(Join(a, x), Join(u, z)) = Join(a, Join(x, Join(u, z)))
      BY <1>1, Joins
    <3> QED
      BY <3>1, <3>2 DEF Join
  <2> QED
    BY <2>2, <2>3
<1>5. (a \o u) \o z = a \o (u \o z) /\ (a \o <<h>>) \o z = a \o (<<h>> \o z)
  BY <1>1, <1>3
<1>6. a \o <<>> = a /\ (a \o <<h>>) \o <<>> = a \o <<h>>
  BY <1>1, <1>3
<1>7. CASE Arg(t) \in {"stop", "pause"}
  BY <1>2, <1>5, <1>6, <1>7 DEF h, a, u
<1>8. CASE Arg(t) \notin {"stop", "pause"}
  BY <1>2, <1>4, <1>5, <1>6, <1>8 DEF h, a, u
<1> QED
  BY <1>7, <1>8


------------------------------------------------------------------------------
(***************************************************************************)
(* The first section tells which of the other actions it is.               *)
(***************************************************************************)
LEMMA SectionStarts ==
  ASSUME NEW t, Works(t), NEW n, n = Head(todo[t])[1]
  PROVE  /\ n = "gslStart" => StartRecognition(t) /\ UNCHANGED stream
         /\ n = "capiStart" => StartSoundEngine(t) /\ UNCHANGED stream
         /\ n = "gslLoad" => (LoadNew(t) \/ LoadAgain(t)) /\ UNCHANGED stream
         /\ n = "startFails" => StartFails(t)
         /\ n = "loadFails" => LoadFails(t)
         /\ n = "loaded" => Loaded(t)
         /\ n = "reconfigured" => Reconfigured(t)
         /\ n \in {"started", "connected"} => Started(t)
         /\ n = "online" => WentOnline(t)
<1>1. CASE EngineCall(t) /\ UNCHANGED stream
  <2>1. Exit(t) => At(t, "exit")
    BY DEF Exit
  <2>2. LoadNew(t) \/ LoadAgain(t) => At(t, "gslLoad")
    BY DEF LoadNew, LoadAgain
  <2>3. Close(t) => At(t, "gslClose")
    BY DEF Close
  <2>4. StartRecognition(t) => At(t, "gslStart")
    BY DEF StartRecognition
  <2>5. StopRecognition(t) => At(t, "gslStop")
    BY DEF StopRecognition
  <2>6. RestartRecognition(t) => At(t, "gslRestart")
    BY DEF RestartRecognition
  <2>7. Quit(t) => At(t, "quit")
    BY DEF Quit
  <2>8. Await(t) => At(t, "await") \/ At(t, "join")
    BY DEF Await
  <2>9. StartSoundEngine(t) => At(t, "capiStart")
    BY DEF StartSoundEngine
  <2>10. SetDetected(t) => At(t, "engage")
    BY DEF SetDetected
  <2> QED
    BY <1>1, <2>1, <2>2, <2>3, <2>4, <2>5, <2>6, <2>7, <2>8, <2>9, <2>10 DEF EngineCall, At
<1>2. CASE Handling(t)
  <2>1. HandlesEvent(t) => At(t, "handle")
    BY DEF HandlesEvent, Halt, StartLater, Start, Restart, Load, Unload, Configure, Pause,
       Resume, Reconfigure, Reload, Disconnect, Connect, Offline, Online, CallOffline,
       Nothing, Handles
  <2>2. Halted(t) => At(t, "halted")
    BY DEF Halted
  <2>3. Unwake(t) => At(t, "unwake")
    BY DEF Unwake
  <2>4. StartFails(t) => At(t, "startFails")
    BY DEF StartFails
  <2>5. RestartFails(t) => At(t, "restartFails")
    BY DEF RestartFails
  <2>6. Started(t) => At(t, "started") \/ At(t, "restarted") \/ At(t, "connected")
    BY DEF Started
  <2>7. LoadFails(t) => At(t, "loadFails")
    BY DEF LoadFails
  <2>8. Loaded(t) => At(t, "loaded")
    BY DEF Loaded
  <2>9. Unloaded(t) => At(t, "unloaded")
    BY DEF Unloaded
  <2>10. Reconfigured(t) => At(t, "reconfigured")
    BY DEF Reconfigured
  <2>11. WentOffline(t) => At(t, "offline")
    BY DEF WentOffline
  <2>12. WentOnline(t) => At(t, "online")
    BY DEF WentOnline
  <2> QED
    BY <1>2, <2>1, <2>2, <2>3, <2>4, <2>5, <2>6, <2>7, <2>8, <2>9, <2>10, <2>11, <2>12
       DEF Handling, HandlesEvent, At
<1> QED
  BY <1>1, <1>2 DEF Works

(***************************************************************************)
(* The stream's part of the invariant.                                     *)
(***************************************************************************)
Part == <<cur_state, second_stage_processing, force_nlpi_vote>>

(***************************************************************************)
(* A call that stops or unloads an engine is done with.                    *)
(***************************************************************************)
LEMMA EndCallDone ==
  ASSUME NEW t, Works(t), Head(todo[t]) \in EndCalls
  PROVE  /\ Then(t, <<>>) /\ UNCHANGED <<Part, wake_lock_cnt>>
         /\ eng_state' = "NONE" => eng_state = "NONE"
<1> DEFINE n == Head(todo[t])[1]
<1>1. n \in {"exit", "gslStop", "gslClose", "quit", "await", "join"}
  BY DEF EndCalls
<1>2. UNCHANGED Part
  BY <1>1, SectionDone DEF Part, stream, states, verdicts
<1>3. CASE n = "exit"
  BY <1>2, <1>3, SectionDone DEF Exit
<1>4. CASE n = "gslStop"
  BY <1>2, <1>4, SectionDone DEF StopRecognition
<1>5. CASE n = "gslClose"
  BY <1>2, <1>5, SectionDone DEF Close
<1>6. CASE n = "quit"
  BY <1>2, <1>6, SectionDone DEF Quit, gsl
<1>7. CASE n \in {"await", "join"}
  BY <1>2, <1>7, SectionDone DEF Await, gsl
<1> QED
  BY <1>1, <1>3, <1>4, <1>5, <1>6, <1>7

(***************************************************************************)
(* A call that starts recognition again is done with, or fails.            *)
(***************************************************************************)
LEMMA RestartCallDone ==
  ASSUME NEW t, Works(t), Head(todo[t]) \in RestartCalls
  PROVE  \/ RestartFails(t)
         \/ /\ Then(t, <<>>) \/ Then(t, <<<<"restartFails">>>>)
            /\ UNCHANGED <<Part, wake_lock_cnt>>
            /\ eng_state' = "NONE" => eng_state = "NONE"
<1> DEFINE n == Head(todo[t])[1]
<1>1. n \in {"exit", "gslRestart", "restartFails", "quit", "await"}
  BY DEF RestartCalls
<1>2. n # "restartFails" => UNCHANGED Part
  BY <1>1, SectionDone DEF Part, stream, states, verdicts
<1>3. CASE n = "exit"
  BY <1>2, <1>3, SectionDone DEF Exit
<1>4. CASE n = "gslRestart"
  <2>1. RestartRecognition(t)
    BY <1>4, SectionDone
  <2>2. SessionRestarts \/ SessionFails => (eng_state' = "NONE" => eng_state = "NONE")
    BY DEF SessionRestarts, SessionFails, gsl
  <2> QED
    BY <1>2, <1>4, <2>1, <2>2 DEF RestartRecognition
<1>5. CASE n = "restartFails"
  BY <1>5, SectionDone
<1>6. CASE n = "quit"
  BY <1>2, <1>6, SectionDone DEF Quit, gsl
<1>7. CASE n = "await"
  BY <1>2, <1>7, SectionDone DEF Await, gsl
<1> QED
  BY <1>1, <1>3, <1>4, <1>5, <1>6, <1>7

(***************************************************************************)
(* A call that starts it likewise.                                         *)
(***************************************************************************)
LEMMA StartCallDone ==
  ASSUME NEW t, Works(t), Head(todo[t]) \in StartCalls
  PROVE  /\ Then(t, <<>>) \/ Then(t, <<<<"startFails">>>>) \/ Fail(t)
         /\ UNCHANGED <<Part, wake_lock_cnt>>
         /\ eng_state' = "NONE" => eng_state = "NONE"
<1> DEFINE n == Head(todo[t])[1]
<1>1. n \in {"exit", "gslStart", "capiStart", "startFails"}
  BY DEF StartCalls
<1>2. CASE n = "exit"
  BY <1>2, SectionDone DEF Exit, Part, stream, states, verdicts
<1>3. CASE n = "gslStart"
  <2>1. StartRecognition(t) /\ UNCHANGED stream
    BY <1>3, SectionStarts
  <2>2. UNCHANGED Part
    BY <2>1 DEF Part, stream, states, verdicts
  <2> QED
    BY <2>1, <2>2 DEF StartRecognition
<1>4. CASE n = "capiStart"
  <2>1. StartSoundEngine(t) /\ UNCHANGED stream
    BY <1>4, SectionStarts
  <2> QED
    BY <2>1 DEF StartSoundEngine, gsl, Part, stream, states, verdicts
<1>5. CASE n = "startFails"
  <2>1. StartFails(t)
    BY <1>5, SectionStarts
  <2> QED
    BY <2>1 DEF StartFails, engines, gsl, Part, states, verdicts
<1> QED
  BY <1>1, <1>2, <1>3, <1>4, <1>5

(***************************************************************************)
(* A call that loads the model is done with, with an engine, or fails; an  *)
(* engine that takes the place of another gives up the wake lock that this *)
(* one's thread held.                                                      *)
(***************************************************************************)
LEMMA LoadCallDone ==
  ASSUME NEW t, Works(t), Head(todo[t]) \in LoadCalls
  PROVE  /\ \/ Then(t, <<>>) /\ eng_state' # "NONE"
            \/ \E s \in {"new", "same"} : Then(t, <<<<"loadFails", s>>>>)
            \/ Fail(t) /\ eng_state' = eng_state
         /\ UNCHANGED Part
         /\ UNCHANGED wake_lock_cnt \/ wake_lock_cnt' = Less(wake_lock_cnt)
              \/ wake_lock_cnt' = Less(Less(wake_lock_cnt))
         /\ wake_lock_cnt' # wake_lock_cnt => todo[Gsl] = <<>>
<1> DEFINE n == Head(todo[t])[1]
<1>1. n \in {"gslLoad", "loadFails"}
  BY DEF LoadCalls
<1>2. CASE n = "gslLoad"
  <2>1. (LoadNew(t) \/ LoadAgain(t)) /\ UNCHANGED stream
    BY <1>2, SectionStarts
  <2>2. UNCHANGED Part
    BY <2>1 DEF Part, stream, states, verdicts
  <2>3. CASE LoadNew(t)
    BY <2>2, <2>3 DEF LoadNew, AfterOld
  <2>4. CASE LoadAgain(t)
    BY <2>2, <2>4 DEF LoadAgain
  <2> QED
    BY <2>1, <2>3, <2>4
<1>3. CASE n = "loadFails"
  <2>1. LoadFails(t)
    BY <1>3, SectionStarts
  <2> QED
    BY <2>1 DEF LoadFails, engines, gsl, Part, states, verdicts
<1> QED
  BY <1>1, <1>2, <1>3


------------------------------------------------------------------------------
(***************************************************************************)
(* What the invariant says of the thread with the mutex, when it works.    *)
(***************************************************************************)
Held(t) == HasEngine /\ (DryHeld(t) \/ WetHeld(t))

(***************************************************************************)
(* A step that leaves the stream as it is;                                 *)
(***************************************************************************)
LEMMA StaysDry ==
  ASSUME IInv, UNCHANGED config, NEW t \in Threads \ {Gsl}, Works(t), HasEngine, Sound, Awake,
         UNCHANGED <<Part, wake_lock_cnt>>, eng_state' = "NONE" => eng_state = "NONE", Dry(t)'
  PROVE  Held(t)'
<1>1. Holding' = Holding /\ \A k \in Engines : Rejects(k)' => Rejects(k)
  BY Worker
<1>2. UNCHANGED <<cur_state, second_stage_processing, force_nlpi_vote>>
  BY DEF Part
<1>3. Sound'
  BY <1>1, <1>2, SoundKept
<1>4. Awake'
  BY <1>1, <1>2 DEF Awake, Level, State, Told
<1>5. HasEngine'
  BY <1>2 DEF HasEngine, State
<1> QED
  BY <1>3, <1>4, <1>5 DEF Held, DryHeld

(***************************************************************************)
(* one that leads from a state in which nobody was told to such a state;   *)
(***************************************************************************)
LEMMA MovesDry ==
  ASSUME IInv, UNCHANGED config, NEW t \in Threads \ {Gsl}, Works(t), Awake, NoVote',
         ~State(Told), ~State(Told)', UNCHANGED wake_lock_cnt, HasEngine', Dry(t)'
  PROVE  Held(t)'
<1>1. Holding' = Holding
  BY Worker
<1>2. Level(0) /\ (Level(0)' = Level(0))
  BY <1>1, LevelKept DEF Awake
<1>3. Sound' /\ Awake'
  BY <1>2, SoundOff DEF Awake
<1> QED
  BY <1>3 DEF Held, DryHeld

(***************************************************************************)
(* one after which the lock is still to be given up.                       *)
(***************************************************************************)
LEMMA StaysWet ==
  ASSUME IInv, UNCHANGED config, NEW t \in Threads \ {Gsl}, Works(t), Level(1), NoVote',
         UNCHANGED wake_lock_cnt, HasEngine', Wet(t)'
  PROVE  Held(t)'
<1>1. Holding' = Holding
  BY Worker
<1>2. Level(1)'
  BY <1>1, LevelKept
<1> QED
  BY <1>2 DEF Held, WetHeld

(***************************************************************************)
(* The stream goes offline.                                                *)
(***************************************************************************)
LEMMA DownsDry ==
  ASSUME IInv, UNCHANGED config, NEW t \in Threads \ {Gsl}, Works(t), HasEngine, Sound, Awake,
         ~State(Running), todo[t] \in Downs
  PROVE  Held(t)'
<1>1. \/ Head(todo[t]) = <<"offline">> /\ Tail(todo[t]) \in Laters
      \/ Head(todo[t]) \in DownCalls /\ Tail(todo[t]) \in Downs
  BY RestsAreLists, MarkNext DEF Downs
<1>2. ~State(Told) /\ NoVote
  BY SoundSilent DEF State, Running, Told
<1>3. CASE Head(todo[t]) = <<"offline">> /\ Tail(todo[t]) \in Laters
  <2>1. WentOffline(t)
    BY <1>3, SectionDone
  <2>2. /\ Then(t, <<>>) /\ cur_state' = "SSR"
        /\ UNCHANGED <<wake_lock_cnt, force_nlpi_vote, eng_state>>
    BY <2>1 DEF WentOffline, TransitTo, engines, gsl
  <2>3. Dry(t)'
    BY <1>3, <2>2, WorkerGoes DEF Dry
  <2>4. ~State(Told)' /\ NoVote' /\ HasEngine'
    BY <1>2, <2>2 DEF State, Told, NoVote, HasEngine
  <2> QED
    BY <1>2, <2>2, <2>3, <2>4, MovesDry
<1>4. CASE Head(todo[t]) \in EndCalls /\ Tail(todo[t]) \in Downs
  <2>1. /\ Then(t, <<>>) /\ UNCHANGED <<Part, wake_lock_cnt>>
        /\ eng_state' = "NONE" => eng_state = "NONE"
    BY <1>4, EndCallDone
  <2>2. todo'[t] \in Downs
    BY <1>4, <2>1, WorkerGoes
  <2>3. Dry(t)'
    BY <2>1, <2>2 DEF Dry, Part, State
  <2> QED
    BY <2>1, <2>3, StaysDry
<1>5. CASE Head(todo[t]) = <<"unloaded">> /\ Tail(todo[t]) \in Downs
  <2>1. Unloaded(t)
    BY <1>5, SectionDone
  <2>2. /\ Then(t, <<>>) /\ cur_state' = "IDLE"
        /\ UNCHANGED <<wake_lock_cnt, force_nlpi_vote, eng_state>>
    BY <2>1 DEF Unloaded, TransitTo, engines, gsl
  <2>3. todo'[t] \in Downs
    BY <1>5, <2>2, WorkerGoes
  <2>4. ~State(Told)' /\ NoVote' /\ HasEngine' /\ ~State(Running)'
    BY <1>2, <2>2 DEF State, Told, NoVote, HasEngine, Running
  <2>5. Dry(t)'
    BY <2>3, <2>4 DEF Dry
  <2> QED
    BY <1>2, <2>2, <2>4, <2>5, MovesDry
<1>6. CASE Head(todo[t]) = <<"handle", "unload">> /\ Tail(todo[t]) \in Downs
  <2>1. HandlesEvent(t) /\ Arg(t) = "unload"
    BY <1>6, SectionDone DEF Arg
  <2>2. Unload(t) \/ CallOffline(t) \/ Nothing(t)
    BY <2>1 DEF HandlesEvent, Halt, StartLater, Start, Restart, Load, Configure, Pause,
       Resume, Reconfigure, Reload, Disconnect, Connect, Offline, Online, Handles, Stops,
       State
  <2>3. UNCHANGED <<Part, wake_lock_cnt, eng_state>>
    BY <2>2 DEF Unload, CallOffline, Nothing, Part, engines, gsl, states, verdicts, stream
  <2>4. \/ Then(t, UnloadEngines \o <<<<"unloaded">>>>)
        \/ Then(t, <<>>)
        \/ Fail(t)
    BY <2>2 DEF Unload, CallOffline, Nothing
  <2>5. todo'[t] \in Downs \/ todo'[t] \in Laters
    <3>1. UnloadEngines \o <<<<"unloaded">>>> \in Seq(DownCalls)
      <4>1. UnloadEngines \in Seq(DownCalls)
        BY Worker, CallLists2, SeqMonotonic DEF DownCalls
      <4>2. <<<<"unloaded">>>> \in Seq(DownCalls)
        BY DEF DownCalls
      <4> QED
        BY <4>1, <4>2, ConcatProperties
    <3>2. (UnloadEngines \o <<<<"unloaded">>>>) \o Tail(todo[t]) \in Downs
      BY <1>6, <3>1, CallsPut, RestsAreLists DEF Downs
    <3> QED
      BY <1>6, <2>4, <3>2, WorkerGoes
  <2>6. Dry(t)'
    BY <2>3, <2>5 DEF Dry, Part, State
  <2> QED
    BY <2>3, <2>6, StaysDry
<1> QED
  BY <1>1, <1>3, <1>4, <1>5, <1>6 DEF DownCalls


------------------------------------------------------------------------------
(***************************************************************************)
(* Halt() sends the stream on to be stopped; what it has been told of is   *)
(* still to be ended, with its wake lock.                                  *)
(***************************************************************************)
LEMMA HaltHeld ==
  ASSUME IInv, UNCHANGED config, NEW t \in Threads \ {Gsl}, Works(t), HasEngine, Sound, Awake,
         Halt(t), NEW r \in Seq(Sections),
         HaltList(t) \o Tail(todo[t]) = (StopEngines \o <<<<"halted">>>>) \o r,
         State(Told) => r \in Owing \cup WakesDown, ~State(Told) => r \in Laters \cup Downs
  PROVE  Held(t)'
<1>1. /\ UNCHANGED <<cur_state, wake_lock_cnt, eng_state>> /\ State(Running)
      /\ force_nlpi_vote' = FALSE
  BY DEF Halt, Handles, Stops, engines, gsl, states, State, Running, Told
<1>2. HasEngine' /\ NoVote'
  BY <1>1 DEF HasEngine, NoVote, State
<1>3. todo'[t] \in Before(EndCalls, "halted", {r})
  <2>1. (StopEngines \o <<<<"halted">>>>) \o r \in Before(EndCalls, "halted", {r})
    <3>1. StopEngines \in Seq(EndCalls) /\ {r} \in SUBSET Seq(Sections)
      BY Worker, CallLists2
    <3>2. PICK a \in Seq(EndCalls) : a = StopEngines
      BY <3>1
    <3>3. (a \o <<<<"halted">>>>) \o r \in Before(EndCalls, "halted", {r})
      BY <3>1, MarkPut
    <3> QED
      BY <3>2, <3>3
  <2> QED
    BY <2>1, Ended
<1>4. CASE State(Told)
  <2>1. Wet(t)'
    BY <1>1, <1>3, <1>4 DEF Wet, Before, State
  <2> QED
    BY <1>1, <1>2, <1>4, <2>1, StaysWet DEF Awake
<1>5. CASE ~State(Told)
  <2>1. State({"ACTIVE"})
    BY <1>1, <1>5 DEF State, Running, Told
  <2>2. Dry(t)'
    BY <1>1, <1>3, <1>5, <2>1 DEF Dry, Before, State
  <2>3. ~State(Told)'
    BY <1>1, <1>5 DEF State
  <2> QED
    BY <1>1, <1>2, <1>5, <2>2, <2>3, MovesDry
<1> QED
  BY <1>4, <1>5

(***************************************************************************)
(* The stop before that.                                                   *)
(***************************************************************************)
LEMMA CutsDry ==
  ASSUME IInv, UNCHANGED config, NEW t \in Threads \ {Gsl}, Works(t), HasEngine, Sound, Awake,
         todo[t] \in Cuts
  PROVE  Held(t)'
<1>1. Head(todo[t]) = <<"handle", "stop">> /\ Tail(todo[t]) \in Downs
  BY NextIs, RestsAreLists DEF Cuts
<1>2. HandlesEvent(t) /\ Arg(t) = "stop"
  BY <1>1, SectionDone DEF Arg
<1>3. Halt(t) \/ CallOffline(t) \/ Nothing(t)
  BY <1>2 DEF HandlesEvent, StartLater, Start, Restart, Load, Unload, Configure, Pause,
     Resume, Reconfigure, Reload, Disconnect, Connect, Offline, Online, Handles
<1>4. CASE Halt(t)
  <2>1. /\ <<<<"unwake">>>> \o Tail(todo[t]) \in WakesDown
        /\ <<<<"unwake">>>> \o Tail(todo[t]) \in Seq(Sections)
        /\ Tail(todo[t]) \in Seq(Sections)
    <3>1. <<<<"unwake">>>> \o Tail(todo[t]) \in WakesDown
      BY <1>1 DEF WakesDown
    <3> QED
      BY <1>1, <3>1, RestsAreLists
  <2>2. config \in Configs
    BY Worker
  <2>3. HaltList(t) \o Tail(todo[t]) = (StopEngines \o <<<<"halted">>>>) \o
          (IF State(Told) THEN <<<<"unwake">>>> \o Tail(todo[t]) ELSE Tail(todo[t]))
    BY <1>2, <2>1, <2>2, HaltLists
  <2>4. CASE State(Told)
    BY <1>4, <2>1, <2>3, <2>4, HaltHeld
  <2>5. CASE ~State(Told)
    BY <1>1, <1>4, <2>1, <2>3, <2>5, HaltHeld
  <2> QED
    BY <2>4, <2>5
<1>5. CASE CallOffline(t) \/ Nothing(t)
  <2>1. UNCHANGED <<Part, wake_lock_cnt, eng_state>> /\ (Then(t, <<>>) \/ Fail(t))
          /\ ~State(Running)
    BY <1>2, <1>5 DEF CallOffline, Nothing, Part, engines, gsl, states, verdicts, stream,
       Handles, State, Running
  <2>2. todo'[t] \in Downs \/ todo'[t] \in Laters
    BY <1>1, <2>1, WorkerGoes
  <2>3. Dry(t)'
    BY <2>1, <2>2 DEF Dry, Part, State
  <2> QED
    BY <2>1, <2>3, StaysDry
<1> QED
  BY <1>3, <1>4, <1>5

(***************************************************************************)
(* The stream has been stopped.                                            *)
(***************************************************************************)
LEMMA HaltedDry ==
  ASSUME IInv, UNCHANGED config, NEW t \in Threads \ {Gsl}, Works(t), HasEngine, Sound, Awake,
         State({"ACTIVE"}), todo[t] \in Before(EndCalls, "halted", Laters \cup Downs)
  PROVE  Held(t)'
<1>1. \/ Head(todo[t]) = <<"halted">> /\ Tail(todo[t]) \in Laters \cup Downs
      \/ Head(todo[t]) \in EndCalls
           /\ Tail(todo[t]) \in Before(EndCalls, "halted", Laters \cup Downs)
  <2>1. Laters \cup Downs \in SUBSET Seq(Sections)
    BY RestsAreLists
  <2> QED
    BY <2>1, MarkNext
<1>2. CASE Head(todo[t]) = <<"halted">> /\ Tail(todo[t]) \in Laters \cup Downs
  <2>1. Halted(t)
    BY <1>2, SectionDone
  <2>2. /\ Then(t, <<>>) /\ cur_state' = "LOADED"
        /\ UNCHANGED <<wake_lock_cnt, force_nlpi_vote, eng_state>>
    BY <2>1 DEF Halted, TransitTo, engines, gsl
  <2>3. ~State(Told)' /\ NoVote' /\ HasEngine' /\ ~State(Running)' /\ ~State(Told)
    BY <2>2, SoundSilent DEF State, Told, NoVote, HasEngine, Running
  <2>4. Dry(t)'
    BY <1>2, <2>2, <2>3, WorkerGoes DEF Dry
  <2> QED
    BY <2>2, <2>3, <2>4, MovesDry
<1>3. CASE Head(todo[t]) \in EndCalls
          /\ Tail(todo[t]) \in Before(EndCalls, "halted", Laters \cup Downs)
  <2>1. /\ Then(t, <<>>) /\ UNCHANGED <<Part, wake_lock_cnt>>
        /\ eng_state' = "NONE" => eng_state = "NONE"
    BY <1>3, EndCallDone
  <2>2. todo'[t] \in Before(EndCalls, "halted", Laters \cup Downs)
    BY <1>3, <2>1, WorkerGoes
  <2>3. Dry(t)'
    BY <2>1, <2>2 DEF Dry, Part, State
  <2> QED
    BY <2>1, <2>3, StaysDry
<1> QED
  BY <1>1, <1>2, <1>3

(***************************************************************************)
(* The stream starts.                                                      *)
(***************************************************************************)
LEMMA StartsDry ==
  ASSUME IInv, UNCHANGED config, NEW t \in Threads \ {Gsl}, Works(t), HasEngine, Sound, Awake,
         State({"LOADED"}), NEW m \in {"started", "connected"},
           todo[t] \in Before(StartCalls, m, Laters)
  PROVE  Held(t)'
<1>1. \/ Head(todo[t]) = <<m>> /\ Tail(todo[t]) \in Laters
      \/ Head(todo[t]) \in StartCalls /\ Tail(todo[t]) \in Before(StartCalls, m, Laters)
  BY RestsAreLists, MarkNext
<1>2. CASE Head(todo[t]) = <<m>> /\ Tail(todo[t]) \in Laters
  <2>1. Started(t)
    BY <1>2, SectionStarts
  <2>2. /\ Then(t, <<>>) /\ cur_state' = "ACTIVE"
        /\ UNCHANGED <<wake_lock_cnt, force_nlpi_vote, eng_state>>
    BY <2>1 DEF Started, TransitTo, engines, gsl
  <2>3. ~State(Told)' /\ NoVote' /\ HasEngine' /\ ~State(Told)
    BY <2>2, SoundSilent DEF State, Told, NoVote, HasEngine
  <2>4. Dry(t)'
    BY <1>2, <2>2, WorkerGoes DEF Dry
  <2> QED
    BY <2>2, <2>3, <2>4, MovesDry
<1>3. CASE Head(todo[t]) \in StartCalls /\ Tail(todo[t]) \in Before(StartCalls, m, Laters)
  <2>1. /\ Then(t, <<>>) \/ Then(t, <<<<"startFails">>>>) \/ Fail(t)
        /\ UNCHANGED <<Part, wake_lock_cnt>>
        /\ eng_state' = "NONE" => eng_state = "NONE"
    BY <1>3, StartCallDone
  <2>2. <<<<"startFails">>>> \in Seq(StartCalls)
    BY DEF StartCalls
  <2>3. <<<<"startFails">>>> \o Tail(todo[t]) \in Before(StartCalls, m, Laters)
    BY <1>3, <2>2, CallsPut, RestsAreLists
  <2>4. todo'[t] \in Before(StartCalls, m, Laters) \/ todo'[t] \in Laters
    BY <1>3, <2>1, <2>3, WorkerGoes
  <2>5. Dry(t)'
    BY <2>1, <2>4 DEF Dry, Part, State
  <2> QED
    BY <2>1, <2>5, StaysDry
<1> QED
  BY <1>1, <1>2, <1>3

(***************************************************************************)
(* The model is loaded.                                                    *)
(***************************************************************************)
LEMMA LoadsDry ==
  ASSUME IInv, UNCHANGED config, NEW t \in Threads \ {Gsl}, Works(t), HasEngine, Sound, Awake,
         State({"IDLE"}), todo[t] \in Before(LoadCalls, "loaded", Laters),
         Head(todo[t]) = <<"loaded">> => eng_state # "NONE"
  PROVE  Held(t)'
<1>1. \/ Head(todo[t]) = <<"loaded">> /\ Tail(todo[t]) \in Laters
      \/ Head(todo[t]) \in LoadCalls /\ Tail(todo[t]) \in Before(LoadCalls, "loaded", Laters)
  BY RestsAreLists, MarkNext
<1>2. CASE Head(todo[t]) = <<"loaded">> /\ Tail(todo[t]) \in Laters
  <2>1. Loaded(t)
    BY <1>2, SectionStarts
  <2>2. /\ Then(t, <<>>) /\ cur_state' = "LOADED"
        /\ UNCHANGED <<wake_lock_cnt, force_nlpi_vote, eng_state>>
    BY <2>1 DEF Loaded, TransitTo, engines, gsl
  <2>3. ~State(Told)' /\ NoVote' /\ HasEngine' /\ ~State(Told)
    BY <1>2, <2>2, SoundSilent DEF State, Told, NoVote, HasEngine
  <2>4. Dry(t)'
    BY <1>2, <2>2, WorkerGoes DEF Dry
  <2> QED
    BY <2>2, <2>3, <2>4, MovesDry
<1>3. CASE Head(todo[t]) \in LoadCalls /\ Tail(todo[t]) \in Before(LoadCalls, "loaded", Laters)
  <2>1. /\ \/ Then(t, <<>>) /\ eng_state' # "NONE"
           \/ \E s \in {"new", "same"} : Then(t, <<<<"loadFails", s>>>>)
           \/ Fail(t) /\ eng_state' = eng_state
        /\ UNCHANGED Part
        /\ UNCHANGED wake_lock_cnt \/ wake_lock_cnt' = Less(wake_lock_cnt)
             \/ wake_lock_cnt' = Less(Less(wake_lock_cnt))
        /\ wake_lock_cnt' # wake_lock_cnt => todo[Gsl] = <<>>
    BY <1>3, LoadCallDone
  <2>2. cur_state' = cur_state /\ ~State(Told) /\ ~State(Told)' /\ NoVote' /\ HasEngine'
    BY <2>1, SoundSilent DEF State, Told, NoVote, HasEngine, Part
  <2>3. UNCHANGED wake_lock_cnt
    <3>1. Level(0)
      BY <2>2 DEF Awake
    <3> QED
      BY <2>1, <3>1 DEF Level, Holding, Less
  <2>4. ASSUME NEW s \in {"new", "same"}, Then(t, <<<<"loadFails", s>>>>)
        PROVE  todo'[t] \in Before(LoadCalls, "loaded", Laters)
                 /\ Head(todo'[t]) = <<"loadFails", s>>
    <3> DEFINE x == <<"loadFails", s>>
    <3>1. <<x>> \in Seq(LoadCalls)
      BY DEF LoadCalls
    <3>2. Tail(todo[t]) \in Seq(LoadCalls \cup ({<<"loaded">>} \cup Sections))
      BY <1>3, MarkNext, RestsAreLists
    <3> HIDE DEF x
    <3>3. <<x>> \o Tail(todo[t]) \in Before(LoadCalls, "loaded", Laters)
      BY <1>3, <3>1, CallsPut, RestsAreLists
    <3>4. Head(<<x>> \o Tail(todo[t])) = x
      BY <3>2, PutFirst
    <3>5. todo'[t] = <<x>> \o Tail(todo[t])
      BY <2>4, WorkerGoes DEF x
    <3> QED
      BY <3>3, <3>4, <3>5 DEF x
  <2>5. \/ todo'[t] \in Laters
        \/ /\ todo'[t] \in Before(LoadCalls, "loaded", Laters)
           /\ Head(todo'[t]) = <<"loaded">> => eng_state' # "NONE"
    <3>1. CASE Then(t, <<>>) /\ eng_state' # "NONE"
      BY <1>3, <3>1, WorkerGoes
    <3>2. CASE \E s \in {"new", "same"} : Then(t, <<<<"loadFails", s>>>>)
      <4>1. PICK s \in {"new", "same"} : Then(t, <<<<"loadFails", s>>>>)
        BY <3>2
      <4> QED
        BY <2>4, <4>1
    <3>3. CASE Fail(t)
      BY <3>3, WorkerGoes
    <3> QED
      BY <2>1, <3>1, <3>2, <3>3
  <2>6. Dry(t)'
    BY <2>2, <2>5 DEF Dry, State
  <2> QED
    BY <2>2, <2>3, <2>6, MovesDry
<1> QED
  BY <1>1, <1>2, <1>3

(***************************************************************************)
(* It is unloaded, or the graph is closed.                                 *)
(***************************************************************************)
LEMMA EndsDry ==
  ASSUME IInv, UNCHANGED config, NEW t \in Threads \ {Gsl}, Works(t), HasEngine, Sound, Awake,
         State({"IDLE", "LOADED"}), NEW m \in {"unloaded", "reconfigured"},
         todo[t] \in Before(EndCalls, m, Laters)
  PROVE  Held(t)'
<1>1. \/ Head(todo[t]) = <<m>> /\ Tail(todo[t]) \in Laters
      \/ Head(todo[t]) \in EndCalls /\ Tail(todo[t]) \in Before(EndCalls, m, Laters)
  BY RestsAreLists, MarkNext
<1>2. CASE Head(todo[t]) = <<m>> /\ Tail(todo[t]) \in Laters
  <2>1. Unloaded(t) \/ Reconfigured(t)
    BY <1>2, SectionDone, SectionStarts
  <2>2. /\ Then(t, <<>>) /\ cur_state' = "IDLE"
        /\ UNCHANGED <<wake_lock_cnt, force_nlpi_vote, eng_state>>
    BY <2>1 DEF Unloaded, Reconfigured, TransitTo, engines, gsl
  <2>3. ~State(Told)' /\ NoVote' /\ HasEngine' /\ ~State(Told)
    BY <2>2, SoundSilent DEF State, Told, NoVote, HasEngine
  <2>4. Dry(t)'
    BY <1>2, <2>2, WorkerGoes DEF Dry
  <2> QED
    BY <2>2, <2>3, <2>4, MovesDry
<1>3. CASE Head(todo[t]) \in EndCalls /\ Tail(todo[t]) \in Before(EndCalls, m, Laters)
  <2>1. /\ Then(t, <<>>) /\ UNCHANGED <<Part, wake_lock_cnt>>
        /\ eng_state' = "NONE" => eng_state = "NONE"
    BY <1>3, EndCallDone
  <2>2. todo'[t] \in Before(EndCalls, m, Laters)
    BY <1>3, <2>1, WorkerGoes
  <2>3. Dry(t)'
    BY <2>1, <2>2 DEF Dry, Part, State
  <2> QED
    BY <2>1, <2>3, StaysDry
<1> QED
  BY <1>1, <1>2, <1>3


------------------------------------------------------------------------------
(***************************************************************************)
(* What a thread with the mutex has next, of what comes later, is an       *)
(* event, or the end of a restart of the DSP.                              *)
(***************************************************************************)
LEMMA LaterHead ==
  ASSUME IInv, UNCHANGED config, NEW t \in Threads \ {Gsl}, Works(t), todo[t] \in Laters
  PROVE  /\ Tail(todo[t]) \in Laters /\ Tail(todo[t]) \in Seq(Sections)
         /\ \/ Head(todo[t]) = <<"online">>
            \/ Head(todo[t]) = <<"handle", Arg(t)>> /\ Arg(t) \in Events
<1>1. todo[t] # <<>> /\ Head(todo[t])[1] \in Names
  BY Worker
<1>2. Head(todo[t]) \in Later /\ Tail(todo[t]) \in Laters
  BY <1>1, LaterNext
<1>3. Head(todo[t]) \notin Leaves(AllOps) \cup Outcomes("answer") \cup Outcomes("done")
  BY <1>1 DEF Leaves, Outcomes, Names, Plain
<1>4. Head(todo[t]) # <<"unlock">>
  BY <1>1 DEF Names, Plain
<1>5. Head(todo[t]) \in ({"handle"} \X Events) \cup {<<"online">>}
  BY <1>2, <1>3, <1>4 DEF Later
<1>6. Tail(todo[t]) \in Seq(Sections)
  BY <1>2, RestsAreLists
<1>7. Head(todo[t]) = <<"online">> \/ \E e \in Events : Head(todo[t]) = <<"handle", e>>
  BY <1>5
<1>8. \A e : Head(todo[t]) = <<"handle", e>> => Arg(t) = e
  BY DEF Arg
<1> QED
  BY <1>2, <1>6, <1>7, <1>8

(***************************************************************************)
(* An event that leaves the stream as it is, and puts nothing but events   *)
(* in front of the list.                                                   *)
(***************************************************************************)
LEMMA QuietLater ==
  ASSUME IInv, UNCHANGED config, NEW t \in Threads \ {Gsl}, Works(t), HasEngine, Sound, Awake,
         todo[t] \in Laters, UNCHANGED <<Part, wake_lock_cnt, eng_state>>,
         Then(t, <<>>) \/ Then(t, <<<<"handle", "start">>>>) \/ Fail(t)
  PROVE  Held(t)'
<1>1. Tail(todo[t]) \in Laters
  BY LaterHead
<1>2. <<<<"handle", "start">>>> \o Tail(todo[t]) \in Laters
  <2>1. <<<<"handle", "start">>>> \in Laters
    BY DEF Laters, Later, Events
  <2> QED
    BY <1>1, <2>1, LaterPut
<1>3. todo'[t] \in Laters
  BY <1>1, <1>2, WorkerGoes
<1>4. Dry(t)'
  BY <1>3 DEF Dry
<1> QED
  BY <1>4, StaysDry

(***************************************************************************)
(* An event that is handled by stopping the stream.                        *)
(***************************************************************************)
LEMMA HaltLater ==
  ASSUME IInv, UNCHANGED config, NEW t \in Threads \ {Gsl}, Works(t), HasEngine, Sound, Awake,
         todo[t] \in Laters, Halt(t)
  PROVE  Held(t)'
<1>1. /\ Tail(todo[t]) \in Laters /\ Tail(todo[t]) \in Seq(Sections)
      /\ Head(todo[t]) = <<"handle", Arg(t)>> /\ Arg(t) \in Events
  BY LaterHead DEF Halt, Handles, At
<1>2. Arg(t) \in {"stop", "pause"}
        \/ Arg(t) \in {"unload", "config", "concurrent", "disconnect"}
  BY DEF Halt, Handles, Stops
<1>3. config \in Configs
  BY Worker
<1> DEFINE u == <<<<"unwake">>>> \o Tail(todo[t])
           h == <<Head(todo[t])>>
<1>4. u \in Wakes /\ u \in Owing /\ u \in Seq(Sections)
  <2>1. u \in Wakes
    BY <1>1 DEF Wakes
  <2>2. u \in Owing
    BY <1>1, MarkPut, RestsAreLists, EmptySeq DEF Owing
  <2> QED
    BY <2>1, <2>2, RestsAreLists
<1>5. HaltList(t) \o Tail(todo[t]) =
        (StopEngines \o <<<<"halted">>>>) \o
          (IF Arg(t) \in {"stop", "pause"}
             THEN (IF State(Told) THEN u ELSE Tail(todo[t]))
             ELSE IF State(Told) THEN h \o u ELSE h \o Tail(todo[t]))
  BY <1>1, <1>3, HaltLists
<1>6. CASE Arg(t) \in {"stop", "pause"}
  <2> HIDE DEF u, h
  <2>1. CASE State(Told)
    BY <1>4, <1>5, <1>6, <2>1, HaltHeld
  <2>2. CASE ~State(Told)
    BY <1>1, <1>5, <1>6, <2>2, HaltHeld
  <2> QED
    BY <2>1, <2>2
<1>7. CASE Arg(t) \notin {"stop", "pause"}
  <2>1. h \in Seq(Again) /\ h \in Laters
    <3>1. Head(todo[t]) \in Again /\ Head(todo[t]) \in Later
      <4>1. PICK e : e = Arg(t)
        OBVIOUS
      <4>2. e \in {"unload", "config", "concurrent", "disconnect"} /\ e \in Events
        BY <1>1, <1>2, <1>7, <4>1
      <4>3. <<"handle", e>> \in Again /\ <<"handle", e>> \in Later
        BY <4>2 DEF Again, Later
      <4> QED
        BY <1>1, <4>1, <4>3
    <3> QED
      BY <3>1 DEF Laters
  <2> HIDE DEF u, h
  <2>2. h \o u \in Owing /\ h \o Tail(todo[t]) \in Laters
    BY <1>1, <1>4, <2>1, CallsPut, LaterPut, RestsAreLists DEF Owing
  <2>3. h \o u \in Seq(Sections) /\ h \o Tail(todo[t]) \in Seq(Sections)
    BY <2>2, RestsAreLists
  <2>4. CASE State(Told)
    BY <1>5, <1>7, <2>2, <2>3, <2>4, HaltHeld
  <2>5. CASE ~State(Told)
    BY <1>5, <1>7, <2>2, <2>3, <2>5, HaltHeld
  <2> QED
    BY <2>4, <2>5
<1> QED
  BY <1>6, <1>7

(***************************************************************************)
(* The sections of a restart of recognition.                               *)
(***************************************************************************)
LEMMA RestartList ==
  ASSUME config \in Configs, NEW z \in Laters
  PROVE  (RestartEngines \o <<<<"restarted">>, <<"unwake">>>>) \o z
           \in Before(RestartCalls, "restarted", Wakes)
<1> DEFINE u == <<<<"unwake">>>> \o z
           m == <<<<"restarted">>>>
           n == <<<<"unwake">>>>
           U == RestartCalls \cup {<<"restarted">>, <<"unwake">>} \cup Later
<1>1. u \in Wakes
  BY DEF Wakes
<1>2. (RestartEngines \o m) \o u \in Before(RestartCalls, "restarted", Wakes)
  <2> HIDE DEF u
  <2> QED
    BY <1>1, CallLists2, MarkPut, RestsAreLists
<1>3. RestartEngines \in Seq(U) /\ m \in Seq(U) /\ n \in Seq(U) /\ z \in Seq(U)
  <2>1. RestartEngines \in Seq(U) /\ z \in Seq(U)
    BY CallLists2, SeqMonotonic DEF Laters
  <2>2. m \in Seq(U) /\ n \in Seq(U)
    OBVIOUS
  <2> QED
    BY <2>1, <2>2
<1>4. <<<<"restarted">>, <<"unwake">>>> = m \o n
  OBVIOUS
<1> HIDE DEF m, n, U
<1>5. PICK a : a = RestartEngines
  OBVIOUS
<1>6. a \in Seq(U) /\ m \in Seq(U) /\ n \in Seq(U) /\ z \in Seq(U)
  BY <1>3, <1>5
<1>7. (a \o (m \o n)) \o z = (a \o m) \o (n \o z)
  <2>1. Join(Join(a, Join(m, n)), z) = Join(Join(a, m), Join(n, z))
    BY <1>6, Joins
  <2> QED
    BY <2>1 DEF Join
<1> QED
  BY <1>2, <1>4, <1>5, <1>7 DEF n

(***************************************************************************)
(* A start after a detection starts recognition again.                     *)
(***************************************************************************)
LEMMA RestartLater ==
  ASSUME IInv, UNCHANGED config, NEW t \in Threads \ {Gsl}, Works(t), HasEngine, Sound, Awake,
         todo[t] \in Laters, Restart(t)
  PROVE  Held(t)'
<1>1. /\ UNCHANGED <<cur_state, wake_lock_cnt, eng_state>> /\ State(Told)
      /\ force_nlpi_vote' = FALSE
  BY DEF Restart, engines, gsl, states
<1>2. HasEngine' /\ NoVote' /\ Level(1)
  BY <1>1 DEF HasEngine, NoVote, State, Awake
<1>3. todo'[t] \in Before(RestartCalls, "restarted", Wakes)
  <2>1. Tail(todo[t]) \in Laters /\ config \in Configs
    BY LaterHead, Worker
  <2> QED
    BY <2>1, RestartList, Ended
<1>4. Wet(t)'
  BY <1>1, <1>3 DEF Wet, State
<1> QED
  BY <1>1, <1>2, <1>4, StaysWet


------------------------------------------------------------------------------
(***************************************************************************)
(* The DSP has gone down: what the thread does first depends on the state. *)
(***************************************************************************)
LEMMA OfflineLater ==
  ASSUME IInv, UNCHANGED config, NEW t \in Threads \ {Gsl}, Works(t), HasEngine, Sound, Awake,
         todo[t] \in Laters, Offline(t)
  PROVE  Held(t)'
<1>1. UNCHANGED <<Part, wake_lock_cnt, eng_state>>
  BY DEF Offline, Part, engines, gsl, verdicts
<1> DEFINE s == <<<<"handle", "stop">>>>
           u == <<<<"handle", "unload">>>>
           o == <<<<"offline">>>>
           z == Tail(todo[t])
           U == DownCalls \cup {<<"handle", "stop">>, <<"offline">>} \cup Later
<1>2. todo'[t] = (((IF State(Running) THEN s ELSE <<>>) \o (IF State({"IDLE"}) THEN <<>> ELSE u))
                   \o o) \o z
  <2>1. Then(t, ((IF State(Running) THEN s ELSE <<>>) \o (IF State({"IDLE"}) THEN <<>> ELSE u))
                 \o o)
    BY DEF Offline
  <2> HIDE DEF s, u, o
  <2> QED
    BY <2>1, WorkerGoes
<1>3. z \in Laters /\ z \in Seq(Sections)
  BY LaterHead
<1>4. <<>> \in Seq(DownCalls) /\ u \in Seq(DownCalls)
  BY DEF DownCalls
<1>5. s \in Seq(U) /\ u \in Seq(U) /\ o \in Seq(U) /\ <<>> \in Seq(U) /\ z \in Seq(U)
  <2>1. s \in Seq(U) /\ o \in Seq(U) /\ <<>> \in Seq(U)
    OBVIOUS
  <2>2. u \in Seq(U) /\ z \in Seq(U)
    BY <1>3, <1>4, SeqMonotonic DEF Laters
  <2> QED
    BY <2>1, <2>2
<1> HIDE DEF s, u, z, U
<1>6. (o \o z) \in Downs /\ ((u \o o) \o z) \in Downs
  BY <1>3, <1>4, MarkPut, RestsAreLists DEF Downs, o
<1> HIDE DEF o
<1>7. <<>> \o <<>> = <<>> /\ <<>> \o u = u /\ <<>> \o o = o
  BY <1>5, ConcatEmptySeq
<1>8. CASE ~State(Running)
  <2>1. todo'[t] \in Downs
    <3>1. CASE State({"IDLE"})
      BY <1>2, <1>6, <1>7, <1>8, <3>1
    <3>2. CASE ~State({"IDLE"})
      BY <1>2, <1>6, <1>7, <1>8, <3>2
    <3> QED
      BY <3>1, <3>2
  <2>2. Dry(t)'
    BY <1>1, <1>8, <2>1 DEF Dry, Part, State
  <2> QED
    BY <1>1, <2>2, StaysDry
<1>9. CASE State(Running)
  <2>1. ~State({"IDLE"})
    BY <1>9 DEF State, Running
  <2>2. todo'[t] = ((s \o u) \o o) \o z
    BY <1>2, <1>9, <2>1
  <2> HIDE DEF o
  <2>3. ((s \o u) \o o) \o z = s \o ((u \o o) \o z)
    <3>1. Join(Join(Join(s, u), o), z) = Join(s, Join(Join(u, o), z))
      BY <1>5, Joins
    <3> QED
      BY <3>1 DEF Join
  <2>4. todo'[t] \in Cuts
    BY <1>6, <2>2, <2>3 DEF Cuts, s
  <2>5. Dry(t)'
    BY <2>4 DEF Dry
  <2> QED
    BY <1>1, <2>5, StaysDry
<1> QED
  BY <1>8, <1>9

(***************************************************************************)
(* The stream is to start, because of a start or with a new microphone.    *)
(***************************************************************************)
LEMMA StartLists ==
  ASSUME IInv, UNCHANGED config, NEW t \in Threads \ {Gsl}, Works(t), HasEngine, Sound, Awake,
         todo[t] \in Laters, State({"LOADED"}), UNCHANGED <<Part, wake_lock_cnt, eng_state>>,
         NEW m \in {"started", "connected"}, Then(t, StartEngines \o <<<<m>>>>)
  PROVE  Held(t)'
<1>1. Tail(todo[t]) \in Laters /\ config \in Configs
  BY LaterHead, Worker
<1>2. (StartEngines \o <<<<m>>>>) \o Tail(todo[t]) \in Before(StartCalls, m, Laters)
  BY <1>1, CallLists2, MarkPut, RestsAreLists
<1>3. todo'[t] \in Before(StartCalls, m, Laters)
  BY <1>2, WorkerGoes
<1>4. Dry(t)'
  BY <1>3 DEF Dry, Part, State
<1> QED
  BY <1>4, StaysDry

(***************************************************************************)
(* It is to be unloaded, or its graph closed.                              *)
(***************************************************************************)
LEMMA EndLists ==
  ASSUME IInv, UNCHANGED config, NEW t \in Threads \ {Gsl}, Works(t), NEW L \in {Laters, Owing},
         Tail(todo[t]) \in L, Unload(t) \/ Reconfigure(t)
  PROVE  /\ \E m \in {"unloaded", "reconfigured"} : todo'[t] \in Before(EndCalls, m, L)
         /\ State({"IDLE", "LOADED"})' /\ UNCHANGED <<Part, wake_lock_cnt, eng_state>>
<1>1. State({"IDLE", "LOADED"})' /\ UNCHANGED <<Part, wake_lock_cnt, eng_state>>
  BY DEF Unload, Reconfigure, engines, gsl, states, verdicts, Part, State
<1>2. config \in Configs /\ L \in SUBSET Seq(Sections)
  BY Worker, RestsAreLists
<1>3. CASE Unload(t)
  <2>1. Then(t, UnloadEngines \o <<<<"unloaded">>>>)
    BY <1>3 DEF Unload
  <2>2. (UnloadEngines \o <<<<"unloaded">>>>) \o Tail(todo[t]) \in Before(EndCalls, "unloaded",
          L)
    BY <1>2, CallLists2, MarkPut
  <2> QED
    BY <1>1, <2>1, <2>2, WorkerGoes
<1>4. CASE Reconfigure(t)
  <2>1. Then(t, Stage1("gslClose") \o <<<<"reconfigured">>>>)
    BY <1>4 DEF Reconfigure
  <2>2. (Stage1("gslClose") \o <<<<"reconfigured">>>>) \o Tail(todo[t])
          \in Before(EndCalls, "reconfigured", L)
    BY <1>2, CallLists2, MarkPut
  <2> QED
    BY <1>1, <2>1, <2>2, WorkerGoes
<1> QED
  BY <1>3, <1>4

(***************************************************************************)
(* The model is to be loaded.                                              *)
(***************************************************************************)
LEMMA LoadLater ==
  ASSUME IInv, UNCHANGED config, NEW t \in Threads \ {Gsl}, Works(t), HasEngine, Sound, Awake,
         todo[t] \in Laters, Load(t) \/ Reload(t)
  PROVE  Held(t)'
<1>1. State({"IDLE"}) /\ UNCHANGED <<Part, wake_lock_cnt, eng_state>>
  BY DEF Load, Reload, engines, gsl, states, verdicts, Part
<1>2. Tail(todo[t]) \in Laters
  BY LaterHead
<1>3. ASSUME NEW s \in {"new", "same"}, NEW y \in Laters,
             Then(t, <<<<"gslLoad", s>>, <<"loaded">>>> \o y)
      PROVE  Dry(t)'
  <2> DEFINE g == <<"gslLoad", s>>
             l == <<<<"loaded">>>>
             z == y \o Tail(todo[t])
             U == {<<"gslLoad", s>>, <<"loaded">>} \cup Later
  <2>1. z \in Laters
    BY <1>2, LaterPut
  <2>2. <<g>> \in Seq(LoadCalls)
    BY DEF LoadCalls
  <2>3. /\ <<g>> \in Seq(U) /\ l \in Seq(U) /\ y \in Seq(U) /\ Tail(todo[t]) \in Seq(U)
        /\ <<g, <<"loaded">>>> = <<g>> \o l
    <3>1. <<g>> \in Seq(U) /\ l \in Seq(U) /\ <<g, <<"loaded">>>> = <<g>> \o l
      OBVIOUS
    <3>2. y \in Seq(U) /\ Tail(todo[t]) \in Seq(U)
      BY <1>2, SeqMonotonic DEF Laters
    <3> QED
      BY <3>1, <3>2
  <2>4. todo'[t] = (<<g, <<"loaded">>>> \o y) \o Tail(todo[t])
    BY <1>3, WorkerGoes
  <2> HIDE DEF z, U
  <2>5. l \o z \in Before(LoadCalls, "loaded", Laters)
    BY <2>1, <2>2, MarkPut, RestsAreLists
  <2>6. l \o z \in Seq(LoadCalls \cup ({<<"loaded">>} \cup Sections))
    BY <2>5, MarkNext, RestsAreLists
  <2> HIDE DEF g, l
  <2>7. <<g>> \o (l \o z) \in Before(LoadCalls, "loaded", Laters)
    BY <2>2, <2>5, CallsPut, RestsAreLists
  <2>8. Head(<<g>> \o (l \o z)) = g
    BY <2>6, PutFirst
  <2>9. todo'[t] = <<g>> \o (l \o z)
    <3>1. <<g>> \o l \in Seq(U)
      BY <2>3, ConcatProperties
    <3> DEFINE v == Tail(todo[t])
    <3>2. ((<<g>> \o l) \o y) \o v = (<<g>> \o l) \o (y \o v)
      <4>1. PICK k \in Seq(U) : k = <<g>> \o l
        BY <3>1
      <4>2. PICK w \in Seq(U) : w = v
        BY <2>3
      <4>3. Join(Join(k, y), w) = Join(k, Join(y, w))
        BY <2>3, Joins
      <4> QED
        BY <4>1, <4>2, <4>3 DEF Join
    <3>3. z \in Seq(U)
      BY <2>3, ConcatProperties DEF z
    <3>4. (<<g>> \o l) \o z = <<g>> \o (l \o z)
      <4>1. PICK x \in Seq(U) : x = <<g>>
        BY <2>3
      <4>2. Join(Join(x, l), z) = Join(x, Join(l, z))
        BY <2>3, <3>3, Joins
      <4> QED
        BY <4>1, <4>2 DEF Join
    <3> QED
      BY <2>3, <2>4, <3>2, <3>4 DEF z
  <2>10. g # <<"loaded">>
    BY DEF g
  <2> QED
    BY <1>1, <2>7, <2>8, <2>9, <2>10 DEF Dry, Part, State
<1>4. <<>> \in Laters /\ <<<<"handle", "start">>>> \in Laters
  BY DEF Laters, Later, Events
<1>5. CASE Load(t)
  <2>1. <<<<"gslLoad", "new">>, <<"loaded">>>> \o <<>> = <<<<"gslLoad", "new">>, <<"loaded">>>>
    OBVIOUS
  <2>2. Then(t, <<<<"gslLoad", "new">>, <<"loaded">>>> \o <<>>)
    BY <1>5, <2>1 DEF Load
  <2>3. Dry(t)'
    BY <1>3, <1>4, <2>2
  <2> QED
    BY <1>1, <2>3, StaysDry
<1>6. CASE Reload(t)
  <2>1. PICK y \in Laters : Then(t, <<<<"gslLoad", "same">>, <<"loaded">>>> \o y)
    BY <1>4, <1>6 DEF Reload
  <2>2. Dry(t)'
    BY <1>3, <2>1
  <2> QED
    BY <1>1, <2>2, StaysDry
<1> QED
  BY <1>5, <1>6


------------------------------------------------------------------------------
(***************************************************************************)
(* The DSP is up again: what the stream was is restored by the events that *)
(* led to it.                                                              *)
(***************************************************************************)
LEMMA OnlineLater ==
  ASSUME IInv, UNCHANGED config, NEW t \in Threads \ {Gsl}, Works(t), HasEngine, Sound, Awake,
         todo[t] \in Laters, Online(t)
  PROVE  Held(t)'
<1>1. /\ State({"SSR"}) /\ cur_state' = "IDLE"
      /\ UNCHANGED <<wake_lock_cnt, force_nlpi_vote, eng_state>>
  BY DEF Online, TransitTo, engines, gsl
<1>2. ~State(Told) /\ ~State(Told)' /\ NoVote' /\ HasEngine'
  BY <1>1, SoundSilent DEF State, Told, NoVote, HasEngine
<1>3. \E y \in Laters : Then(t, y)
  <2> DEFINE l == <<<<"handle", "load">>>>
             s == <<<<"handle", "start">>>>
             o == <<<<"online">>>>
  <2>1. <<>> \in Laters /\ l \in Laters /\ s \in Laters /\ o \in Laters
    BY DEF Laters, Later, Events
  <2> HIDE DEF l, s, o
  <2>2. \/ Then(t, <<>>)
        \/ \E a \in {<<>>, l} : \E b \in {<<>>, s} : Then(t, (a \o b) \o o)
    BY DEF Online, l, s, o
  <2>3. \A a \in {<<>>, l} : \A b \in {<<>>, s} : (a \o b) \o o \in Laters
    BY <2>1, LaterPut
  <2> QED
    BY <2>1, <2>2, <2>3
<1>4. todo'[t] \in Laters
  <2>1. PICK m \in Laters : Then(t, m)
    BY <1>3
  <2>2. todo'[t] = m \o Tail(todo[t])
    BY <2>1, WorkerGoes
  <2>3. Tail(todo[t]) \in Laters
    BY LaterHead
  <2> QED
    BY <2>2, <2>3, LaterPut
<1>5. Dry(t)'
  BY <1>4 DEF Dry
<1> QED
  BY <1>1, <1>2, <1>5, MovesDry

(***************************************************************************)
(* A new microphone is switched on, and the stream may start with it.      *)
(***************************************************************************)
LEMMA ConnectLater ==
  ASSUME IInv, UNCHANGED config, NEW t \in Threads \ {Gsl}, Works(t), HasEngine, Sound, Awake,
         todo[t] \in Laters, Connect(t)
  PROVE  Held(t)'
<1>1. UNCHANGED <<second_stage_processing, force_nlpi_vote, wake_lock_cnt>>
  BY DEF Connect, verdicts
<1>2. CASE State({"LOADED"}) /\ Then(t, StartEngines \o <<<<"connected">>>>)
             /\ UNCHANGED <<cur_state, eng_state>>
  BY <1>1, <1>2, StartLists DEF Part
<1>3. CASE Then(t, <<>>) /\ State({"LOADED"}) /\ TransitTo("ACTIVE") /\ eng_state' = "ACTIVE"
  <2>1. ~State(Told) /\ ~State(Told)' /\ NoVote' /\ HasEngine'
    BY <1>1, <1>3, SoundSilent DEF State, Told, NoVote, HasEngine, TransitTo
  <2>2. Dry(t)'
    BY <1>3, LaterHead, WorkerGoes DEF Dry
  <2> QED
    BY <1>1, <2>1, <2>2, MovesDry
<1>4. CASE Then(t, <<>>) /\ UNCHANGED <<cur_state, eng_state>>
  BY <1>1, <1>4, QuietLater DEF Part
<1> QED
  BY <1>2, <1>3, <1>4 DEF Connect

(***************************************************************************)
(* Whatever event is handled.                                              *)
(***************************************************************************)
LEMMA LatersDry ==
  ASSUME IInv, UNCHANGED config, NEW t \in Threads \ {Gsl}, Works(t), HasEngine, Sound, Awake,
         todo[t] \in Laters
  PROVE  Held(t)'
<1>1. CASE Head(todo[t]) = <<"online">>
  <2>1. WentOnline(t)
    BY <1>1, SectionStarts
  <2> QED
    BY <2>1, QuietLater DEF WentOnline, Part, engines, gsl, verdicts
<1>2. CASE Head(todo[t]) # <<"online">>
  <2>1. HandlesEvent(t)
    BY <1>2, LaterHead, SectionDone
  <2>2. CASE StartLater(t)
    BY <2>2, QuietLater DEF StartLater, Part, engines, gsl, stream, states, verdicts
  <2>3. CASE Configure(t)
    BY <2>3, QuietLater DEF Configure, Part, engines, gsl, states, verdicts
  <2>4. CASE Pause(t)
    BY <2>4, QuietLater DEF Pause, Part, engines, gsl, states, verdicts
  <2>5. CASE Resume(t)
    BY <2>5, QuietLater DEF Resume, Part, engines, gsl, verdicts
  <2>6. CASE Disconnect(t)
    BY <2>6, QuietLater DEF Disconnect, Part, engines, gsl, states, verdicts
  <2>7. CASE CallOffline(t)
    BY <2>7, QuietLater DEF CallOffline, Part, engines, gsl, verdicts
  <2>8. CASE Nothing(t)
    BY <2>8, QuietLater DEF Nothing, Part, engines, gsl, stream, states, verdicts
  <2>9. CASE Start(t)
    BY <2>9, StartLists DEF Start, Part, engines, gsl, states, verdicts
  <2>10. CASE Unload(t) \/ Reconfigure(t)
    <3>1. \E m \in {"unloaded", "reconfigured"} : todo'[t] \in Before(EndCalls, m, Laters)
      BY <2>10, LaterHead, EndLists
    <3>2. State({"IDLE", "LOADED"})' /\ UNCHANGED <<Part, wake_lock_cnt, eng_state>>
      BY <2>10, LaterHead, EndLists
    <3>3. Dry(t)'
      BY <3>1, <3>2 DEF Dry
    <3> QED
      BY <3>2, <3>3, StaysDry
  <2> QED
    BY <2>1, <2>2, <2>3, <2>4, <2>5, <2>6, <2>7, <2>8, <2>9, <2>10, HaltLater, RestartLater,
       LoadLater, ConnectLater, OfflineLater, OnlineLater DEF HandlesEvent
<1> QED
  BY <1>1, <1>2


------------------------------------------------------------------------------
(***************************************************************************)
(* A worker with no wake lock of the stream to give up.                    *)
(***************************************************************************)
LEMMA DryWorks ==
  ASSUME IInv, UNCHANGED config, NEW t \in Threads \ {Gsl}, Works(t), HasEngine, DryHeld(t)
  PROVE  Held(t)'
<1>1. Sound /\ Awake /\ Dry(t)
  BY DEF DryHeld
<1>2. CASE todo[t] \in Laters
  BY <1>1, <1>2, LatersDry
<1>3. CASE todo[t] \in Downs /\ ~State(Running)
  BY <1>1, <1>3, DownsDry
<1>4. CASE todo[t] \in Cuts
  BY <1>1, <1>4, CutsDry
<1>5. CASE State({"ACTIVE"}) /\ todo[t] \in Before(EndCalls, "halted", Laters \cup Downs)
  BY <1>1, <1>5, HaltedDry
<1>6. ASSUME NEW m \in {"started", "connected"}, State({"LOADED"}),
             todo[t] \in Before(StartCalls, m, Laters)
      PROVE  Held(t)'
  BY <1>1, <1>6, StartsDry
<1>7. CASE /\ State({"IDLE"}) /\ todo[t] \in Before(LoadCalls, "loaded", Laters)
           /\ Head(todo[t]) = <<"loaded">> => eng_state # "NONE"
  BY <1>1, <1>7, LoadsDry
<1>8. ASSUME NEW m \in {"unloaded", "reconfigured"}, State({"IDLE", "LOADED"}),
             todo[t] \in Before(EndCalls, m, Laters)
      PROVE  Held(t)'
  BY <1>1, <1>8, EndsDry
<1> QED
  BY <1>1, <1>2, <1>3, <1>4, <1>5, <1>6, <1>7, <1>8 DEF Dry

------------------------------------------------------------------------------
(***************************************************************************)
(* The wake lock is given up.                                              *)
(***************************************************************************)
LEMMA GivenUp ==
  ASSUME IInv, UNCHANGED config, NEW t \in Threads \ {Gsl}, Works(t), HasEngine, NoVote,
         Level(1),
         ~State(Told), Head(todo[t]) = <<"unwake">>,
         Tail(todo[t]) \in Laters \/ (Tail(todo[t]) \in Downs /\ ~State(Running))
  PROVE  Held(t)'
<1>1. Unwake(t) /\ Holding' = Holding
  BY SectionDone, Worker
<1>2. releaseWakeLock /\ Then(t, <<>>) /\ UNCHANGED <<Part, eng_state>>
  BY <1>1 DEF Unwake, Part, gsl, stream, states, verdicts
<1>3. Level(0)'
  BY <1>1, <1>2, LevelGiven
<1>4. ~State(Told)' /\ NoVote' /\ HasEngine'
  BY <1>2 DEF State, Told, NoVote, HasEngine, Part
<1>5. Sound' /\ Awake'
  BY <1>3, <1>4, SoundOff DEF Awake
<1>6. todo'[t] \in Laters \/ (todo'[t] \in Downs /\ ~State(Running)')
  <2>1. todo'[t] = Tail(todo[t])
    BY <1>2, WorkerGoes
  <2>2. State(Running)' = State(Running)
    BY <1>2 DEF Part, State, Running
  <2>3. CASE Tail(todo[t]) \in Laters
    BY <2>1, <2>3
  <2>4. CASE Tail(todo[t]) \in Downs /\ ~State(Running)
    BY <2>1, <2>2, <2>4
  <2> QED
    BY <2>3, <2>4
<1>7. Dry(t)'
  BY <1>6 DEF Dry
<1> QED
  BY <1>4, <1>5, <1>7 DEF Held, DryHeld

(***************************************************************************)
(* What is left of the event that stopped the stream is handled first.     *)
(***************************************************************************)
LEMMA OwingWet ==
  ASSUME IInv, UNCHANGED config, NEW t \in Threads \ {Gsl}, Works(t), HasEngine, NoVote,
         Level(1),
         State({"IDLE", "LOADED"}), todo[t] \in Owing
  PROVE  Held(t)'
<1>1. \/ Head(todo[t]) = <<"unwake">> /\ Tail(todo[t]) \in Laters
      \/ Head(todo[t]) \in Again /\ Tail(todo[t]) \in Owing
  BY RestsAreLists, MarkNext DEF Owing
<1>2. CASE Head(todo[t]) = <<"unwake">> /\ Tail(todo[t]) \in Laters
  <2>1. ~State(Told)
    BY DEF State, Told
  <2> QED
    BY <1>2, <2>1, GivenUp
<1>3. CASE Head(todo[t]) \in Again /\ Tail(todo[t]) \in Owing
  <2>1. HandlesEvent(t) /\ Arg(t) \in {"unload", "config", "concurrent", "disconnect"}
    BY <1>3, SectionDone DEF Again, Arg
  <2>2. Unload(t) \/ Reconfigure(t) \/ Configure(t) \/ Disconnect(t) \/ Nothing(t)
    BY <2>1 DEF HandlesEvent, Halt, StartLater, Start, Restart, Load, Pause, Resume, Reload,
       Connect, Offline, Online, CallOffline, Handles, State, Running, Told
  <2>3. CASE Unload(t) \/ Reconfigure(t)
    <3>1. \E m \in {"unloaded", "reconfigured"} : todo'[t] \in Before(EndCalls, m, Owing)
      BY <1>3, <2>3, EndLists
    <3>2. State({"IDLE", "LOADED"})' /\ UNCHANGED <<Part, wake_lock_cnt, eng_state>>
      BY <1>3, <2>3, EndLists
    <3>3. Wet(t)'
      BY <3>1, <3>2 DEF Wet
    <3>4. NoVote' /\ HasEngine'
      BY <3>2 DEF NoVote, HasEngine, State, Part
    <3> QED
      BY <3>2, <3>3, <3>4, StaysWet
  <2>4. CASE Configure(t) \/ Disconnect(t) \/ Nothing(t)
    <3>1. UNCHANGED <<cur_state, force_nlpi_vote, wake_lock_cnt, eng_state>> /\ Then(t, <<>>)
      BY <2>4 DEF Configure, Disconnect, Nothing, engines, gsl, stream, states
    <3>2. todo'[t] \in Owing
      BY <1>3, <3>1, WorkerGoes
    <3>3. NoVote' /\ HasEngine' /\ Wet(t)'
      BY <3>1, <3>2 DEF NoVote, HasEngine, State, Wet
    <3> QED
      BY <3>1, <3>3, StaysWet
  <2> QED
    BY <2>2, <2>3, <2>4
<1> QED
  BY <1>1, <1>2, <1>3

(***************************************************************************)
(* The stream is stopped or unloaded first.                                *)
(***************************************************************************)
LEMMA EndsWet ==
  ASSUME IInv, UNCHANGED config, NEW t \in Threads \ {Gsl}, Works(t), HasEngine, NoVote,
         Level(1),
         NEW m, NEW L \in SUBSET Seq(Sections), todo[t] \in Before(EndCalls, m, L),
         \/ State({"IDLE", "LOADED"}) /\ m \in {"unloaded", "reconfigured"} /\ L = Owing
         \/ State(Told) /\ m = "halted" /\ L = Owing \cup WakesDown
  PROVE  Held(t)'
<1>1. \/ Head(todo[t]) = <<m>> /\ Tail(todo[t]) \in L
      \/ Head(todo[t]) \in EndCalls /\ Tail(todo[t]) \in Before(EndCalls, m, L)
  BY MarkNext
<1>2. CASE Head(todo[t]) = <<m>> /\ Tail(todo[t]) \in L
  <2>1. Unloaded(t) \/ Reconfigured(t) \/ Halted(t)
    BY <1>2, SectionDone, SectionStarts
  <2>2. /\ Then(t, <<>>) /\ State({"IDLE", "LOADED"})'
        /\ UNCHANGED <<wake_lock_cnt, force_nlpi_vote, eng_state>>
    BY <2>1 DEF Unloaded, Reconfigured, Halted, TransitTo, engines, gsl, State
  <2>3. NoVote' /\ HasEngine'
    <3>1. State(Told) => eng_state # "NONE"
      BY DEF HasEngine, State, Told
    <3>2. CASE m \in {"unloaded", "reconfigured"}
      <4>1. Unloaded(t) \/ Reconfigured(t)
        BY <1>2, <3>2, SectionDone, SectionStarts
      <4>2. cur_state' = "IDLE"
        BY <4>1 DEF Unloaded, Reconfigured, TransitTo
      <4> QED
        BY <2>2, <4>2 DEF NoVote, HasEngine, State
    <3>3. CASE State(Told)
      BY <2>2, <3>1, <3>3 DEF NoVote, HasEngine
    <3> QED
      BY <3>2, <3>3
  <2>4. todo'[t] \in Owing \cup WakesDown
    <3>1. todo'[t] = Tail(todo[t])
      BY <2>2, WorkerGoes
    <3>2. Tail(todo[t]) \in Owing \cup WakesDown
      BY <1>2
    <3> QED
      BY <3>1, <3>2
  <2>5. Wet(t)'
    BY <2>2, <2>4 DEF Wet
  <2> QED
    BY <2>2, <2>3, <2>5, StaysWet
<1>3. CASE Head(todo[t]) \in EndCalls /\ Tail(todo[t]) \in Before(EndCalls, m, L)
  <2>1. /\ Then(t, <<>>) /\ UNCHANGED <<Part, wake_lock_cnt>>
        /\ eng_state' = "NONE" => eng_state = "NONE"
    BY <1>3, EndCallDone
  <2>2. todo'[t] \in Before(EndCalls, m, L)
    BY <1>3, <2>1, WorkerGoes
  <2>3. NoVote' /\ HasEngine'
    BY <2>1 DEF NoVote, HasEngine, State, Part
  <2>4. Wet(t)'
    BY <2>1, <2>2 DEF Wet, State, Part
  <2> QED
    BY <2>1, <2>3, <2>4, StaysWet
<1> QED
  BY <1>1, <1>2, <1>3

(***************************************************************************)
(* Recognition starts again first, or fails to.                            *)
(***************************************************************************)
LEMMA RestartsWet ==
  ASSUME IInv, UNCHANGED config, NEW t \in Threads \ {Gsl}, Works(t), HasEngine, NoVote,
         Level(1),
         State(Told), todo[t] \in Before(RestartCalls, "restarted", Wakes)
  PROVE  Held(t)'
<1> DEFINE B == Before(RestartCalls, "restarted", Wakes)
<1>1. \/ Head(todo[t]) = <<"restarted">> /\ Tail(todo[t]) \in Wakes
      \/ Head(todo[t]) \in RestartCalls /\ Tail(todo[t]) \in B
  BY RestsAreLists, MarkNext
<1>2. eng_state # "NONE"
  BY DEF HasEngine, State, Told
<1>3. CASE Head(todo[t]) = <<"restarted">> /\ Tail(todo[t]) \in Wakes
  <2>1. Started(t)
    BY <1>3, SectionDone
  <2>2. /\ Then(t, <<>>) /\ cur_state' = "ACTIVE"
        /\ UNCHANGED <<wake_lock_cnt, force_nlpi_vote, eng_state>>
    BY <2>1 DEF Started, TransitTo, engines, gsl
  <2>3. NoVote' /\ HasEngine'
    BY <1>2, <2>2 DEF NoVote, HasEngine
  <2>4. Wet(t)'
    BY <1>3, <2>2, WorkerGoes DEF Wet, State
  <2> QED
    BY <2>2, <2>3, <2>4, StaysWet
<1>4. CASE Head(todo[t]) \in RestartCalls /\ Tail(todo[t]) \in B
  <2>1. ASSUME Then(t, <<>>) \/ Then(t, <<<<"restartFails">>>>),
               UNCHANGED <<cur_state, force_nlpi_vote, wake_lock_cnt>>, eng_state' # "NONE"
        PROVE  Held(t)'
    <3>1. <<<<"restartFails">>>> \in Seq(RestartCalls)
      BY DEF RestartCalls
    <3>2. <<<<"restartFails">>>> \o Tail(todo[t]) \in B
      BY <1>4, <3>1, CallsPut, RestsAreLists
    <3>3. todo'[t] \in B
      BY <1>4, <2>1, <3>2, WorkerGoes
    <3>4. NoVote' /\ HasEngine' /\ Wet(t)'
      BY <2>1, <3>3 DEF NoVote, HasEngine, Wet, State
    <3> QED
      BY <2>1, <3>4, StaysWet
  <2>2. CASE RestartFails(t)
    <3>1. UNCHANGED <<wake_lock_cnt, force_nlpi_vote, eng_state>>
      BY <2>2 DEF RestartFails, engines, gsl
    <3>2. CASE Then(t, <<>>) /\ UNCHANGED cur_state
      BY <1>2, <2>1, <3>1, <3>2
    <3>3. CASE ~(Then(t, <<>>) /\ UNCHANGED cur_state)
      <4> DEFINE f == <<[Last(todo[t]) EXCEPT ![2] = FALSE]>>
                 u == <<<<"unwake">>>>
                 k == <<<<"unlock">>>>
                 U == {<<"unwake">>} \cup Later
      <4>1. f \in Laters /\ k \in Laters
        BY WorkerGoes DEF Laters, Later
      <4>2. /\ u \in Seq(U) /\ k \in Seq(U) /\ f \in Seq(U)
            /\ <<<<"unwake">>, <<"unlock">>>> = u \o k
        <5>1. f \in Seq(U) /\ k \in Seq(U)
          BY <4>1, SeqMonotonic DEF Laters
        <5>2. u \in Seq(U) /\ <<<<"unwake">>, <<"unlock">>>> = u \o k
          OBVIOUS
        <5> QED
          BY <5>1, <5>2
      <4>3. /\ cur_state' = "LOADED"
            /\ Goes(t, u \o f) \/ Goes(t, <<<<"unwake">>, <<"unlock">>>> \o f)
        BY <2>2, <3>3 DEF RestartFails, TransitTo
      <4> HIDE DEF f, k, U
      <4>4. (u \o k) \o f = u \o (k \o f)
        <5> HIDE DEF u
        <5> QED
          <6>1. Join(Join(u, k), f) = Join(u, Join(k, f))
            BY <4>2, Joins
          <6> QED
            BY <6>1 DEF Join
      <4>5. k \o f \in Laters
        BY <4>1, LaterPut
      <4>6. todo'[t] \in Wakes
        BY <4>1, <4>2, <4>3, <4>4, <4>5, WorkerGoes DEF Wakes
      <4>7. todo'[t] \in Owing
        <5>1. PICK r \in Laters : todo'[t] = u \o r
          BY <4>6 DEF Wakes
        <5>2. u \o r \in Owing
          BY <5>1, MarkPut, RestsAreLists, EmptySeq DEF Owing
        <5> QED
          BY <5>1, <5>2
      <4>8. NoVote' /\ HasEngine' /\ Wet(t)'
        BY <1>2, <3>1, <4>3, <4>7 DEF NoVote, HasEngine, Wet, State
      <4> QED
        BY <3>1, <4>8, StaysWet
    <3> QED
      BY <3>2, <3>3
  <2> QED
    BY <1>2, <1>4, <2>1, <2>2, RestartCallDone DEF Part
<1> QED
  BY <1>1, <1>3, <1>4

(***************************************************************************)
(* A worker with a wake lock of the stream to give up.                     *)
(***************************************************************************)
LEMMA WetWorks ==
  ASSUME IInv, UNCHANGED config, NEW t \in Threads \ {Gsl}, Works(t), HasEngine, WetHeld(t)
  PROVE  Held(t)'
<1>1. NoVote /\ Level(1) /\ Wet(t)
  BY DEF WetHeld
<1>2. CASE State({"IDLE", "LOADED"}) /\ todo[t] \in Owing
  BY <1>1, <1>2, OwingWet
<1>3. CASE State({"IDLE", "LOADED"}) /\ todo[t] \in WakesDown
  <2>1. Head(todo[t]) = <<"unwake">> /\ Tail(todo[t]) \in Downs
    BY <1>3, NextIs, RestsAreLists DEF WakesDown
  <2>2. ~State(Told) /\ ~State(Running)
    BY <1>3 DEF State, Told, Running
  <2> QED
    BY <1>1, <2>1, <2>2, GivenUp
<1>4. CASE State({"ACTIVE"}) /\ todo[t] \in Wakes
  <2>1. Head(todo[t]) = <<"unwake">> /\ Tail(todo[t]) \in Laters
    BY <1>4, NextIs, RestsAreLists DEF Wakes
  <2>2. ~State(Told)
    BY <1>4 DEF State, Told
  <2> QED
    BY <1>1, <2>1, <2>2, GivenUp
<1>5. ASSUME NEW m \in {"unloaded", "reconfigured"}, State({"IDLE", "LOADED"}),
             todo[t] \in Before(EndCalls, m, Owing)
      PROVE  Held(t)'
  BY <1>1, <1>5, EndsWet, RestsAreLists
<1>6. CASE State(Told) /\ todo[t] \in Before(EndCalls, "halted", Owing \cup WakesDown)
  <2>1. Owing \cup WakesDown \in SUBSET Seq(Sections)
    BY RestsAreLists
  <2> QED
    BY <1>1, <1>6, <2>1, EndsWet
<1>7. CASE State(Told) /\ todo[t] \in Before(RestartCalls, "restarted", Wakes)
  BY <1>1, <1>7, RestartsWet
<1> QED
  BY <1>1, <1>2, <1>3, <1>4, <1>5, <1>6, <1>7 DEF Wet


------------------------------------------------------------------------------
------------------------------------------------------------------------------
(***************************************************************************)
(* A list that begins with a section of a call, or goes on with one that   *)
(* needs the mutex, is for a thread that has it.                           *)
(***************************************************************************)
LEMMA FirstHeld ==
  ASSUME NEW S \in SUBSET Section, NEW T, NEW r \in Seq(T), r # <<>>, Head(r)[1] \in HeldNames,
         NEW q \in After(S, r)
  PROVE  q # <<>> /\ Head(q)[1] \notin FreeNames
<1>1. q # <<>> /\ (q = r \/ Head(q) \in S)
  BY AfterHeads
<1>2. Head(q)[1] \in HeldNames
  BY <1>1, SectionNames DEF HeldNames
<1> QED
  BY <1>1, <1>2, NamesApart

(***************************************************************************)
(* A working thread goes on working, or returns: it never is without a     *)
(* section for the mutex.                                                  *)
(***************************************************************************)
LEMMA WorkerBusy ==
  ASSUME IInv, UNCHANGED config, NEW t \in Threads \ {Gsl}, Works(t)
  PROVE  todo'[t] # <<>> /\ Head(todo'[t])[1] \notin FreeNames
<1>1. Runs(t) /\ ~Leaving /\ DOMAIN todo = Threads /\ config \in Configs
  BY WorkerRuns, Given
<1> DEFINE Good(q) == q # <<>> /\ Head(q)[1] \notin FreeNames
<1>2. CASE t = Timer
  <2>1. pending_stop \in BOOLEAN /\ (pending_stop => State(Told)) /\ TimerRuns
    BY <1>1, <1>2 DEF IInv, Kept, Types, Pending, Runs
  <2>2. TimerRuns' /\ ~pending_stop'
    BY <1>1, <1>2, <2>1, TimerGoesOn
  <2>3. PICK l \in Leaves({"lateStop"}) :
           \/ todo'[Timer] \in After(Ending, <<<<"halted">>, <<"unwake">>, l>>)
           \/ todo'[Timer] \in After(Ending, <<l>>)
    BY <2>2 DEF TimerRuns
  <2>4. l[1] = "leave" /\ <<l>> \in Seq({l}) /\ <<l>> # <<>> /\ Head(<<l>>) = l
    BY LeafLists
  <2> DEFINE r == <<<<"halted">>, <<"unwake">>, l>>
  <2>5. r \in Seq({<<"halted">>, <<"unwake">>, l}) /\ r # <<>> /\ Head(r)[1] = "halted"
    OBVIOUS
  <2> HIDE DEF r
  <2>6. Ending \in SUBSET Section /\ "halted" \in HeldNames /\ "leave" \in HeldNames
    BY SectionSets DEF HeldNames, Names, Plain
  <2>7. CASE todo'[Timer] \in After(Ending, r)
    BY <1>2, <2>5, <2>6, <2>7, FirstHeld
  <2>8. CASE todo'[Timer] \in After(Ending, <<l>>)
    BY <1>2, <2>4, <2>6, <2>8, FirstHeld
  <2> QED
    BY <2>3, <2>7, <2>8 DEF r
<1>3. CASE t \in Engines
  <2>1. t # Timer /\ t # Gsl
    BY <1>3, ThreadsAssumption
  <2>2. ASSUME NEW S \in SUBSET Section, NEW first, NEW e, todo'[t] \in After(S, <<first, e>>),
               first[1] \in HeldNames
        PROVE  Good(todo'[t])
    <3> DEFINE r == <<first, e>>
    <3>1. r \in Seq({first, e}) /\ r # <<>> /\ Head(r) = first
      OBVIOUS
    <3> HIDE DEF r
    <3>2. Head(r)[1] \in HeldNames /\ todo'[t] \in After(S, r)
      BY <2>2, <3>1 DEF r
    <3> QED
      BY <3>1, <3>2, FirstHeld
  <2>3. Deciding \in SUBSET Section /\ Renewing \in SUBSET Section
        /\ <<"rejected">>[1] \in HeldNames /\ <<"unlock">>[1] \in HeldNames
    BY SectionSets DEF HeldNames
  <2>4. CASE Rejecting(t)
    <3>1. Rejecting(t)'
      BY <1>1, <1>3, <2>4, RejectingGoesOn
    <3>2. PICK e \in Outcomes("done") : todo'[t] \in After(Deciding, <<<<"rejected">>, e>>)
      BY <3>1 DEF Rejecting
    <3> QED
      BY <2>2, <2>3, <3>2
  <2>5. CASE Renews(t)
    <3>1. Renews(t)'
      BY <1>1, <1>3, <2>5, RenewsGoesOn
    <3>2. PICK e \in Outcomes("done") : todo'[t] \in After(Renewing, <<<<"unlock">>, e>>)
      BY <3>1 DEF Renews
    <3> QED
      BY <2>2, <2>3, <3>2
  <2> QED
    BY <1>1, <1>3, <2>1, <2>4, <2>5 DEF Runs
<1>4. CASE t \notin {Timer} \cup Engines
  <2>1. todo[t] \in CallLists(Ops(t))
    BY <1>1, <1>4 DEF Runs
  <2>2. PICK ops : ops = Ops(t)
    OBVIOUS
  <2>3. todo'[t] \in CallLists(ops)
    BY <1>1, <1>4, <2>1, <2>2, CallsGoOn DEF Works
  <2>4. PICK q : q = todo'[t]
    OBVIOUS
  <2>5. q # <<>> /\ (Head(q)[1] \in Names \/ \E l \in Leaves(ops) : q = <<l>>)
    BY <2>3, <2>4, LeaveHead
  <2>6. \A l \in Leaves(ops) : l[1] = "leave" /\ Head(<<l>>) = l
    BY LeafLists
  <2>7. Head(q)[1] \in HeldNames
    BY <2>5, <2>6 DEF HeldNames
  <2> QED
    BY <2>4, <2>5, <2>7, NamesApart
<1> QED
  BY <1>2, <1>3, <1>4

(***************************************************************************)
(* A worker keeps the invariant.                                           *)
(***************************************************************************)
LEMMA WorksPower ==
  ASSUME IInv, PInv, UNCHANGED config, NEW t \in Threads \ {Gsl}, Works(t)
  PROVE  PInv'
<1>1. /\ mutex = t /\ mutex' = t /\ ~Leaving /\ config \in Configs
      /\ Holding' = Holding /\ Head(todo[t])[1] \in Names
      /\ \A u \in Pollers \ {t} : todo'[u] = todo[u]
      /\ t \in Pollers => todo'[t] # <<>> /\ Head(todo'[t])[1] \notin {"callback", "relock"}
  BY Worker
<1>2. t # None /\ t # Gsl
  BY EnginesAssumption
<1>3. Unheard'
  BY <1>1 DEF PInv, Unheard, At, Arg
<1>4. Holder'
  BY <1>1, WorkerBusy DEF Holder
<1>5. CASE DryHeld(t) \/ WetHeld(t)
  <2>1. Held(t)'
    BY <1>5, DryWorks, WetWorks DEF PInv
  <2> QED
    BY <1>1, <1>3, <1>4, <2>1 DEF PInv, Held
<1>6. CASE t \in Engines /\ Rejecting(t) /\ State({"BUFFERING"}) /\ NoVote /\ Level(1)
  <2>1. Rejecting(t)' /\ UNCHANGED stream
    BY <1>6, RejectingGoesOn, Given
  <2>2. Head(todo[t]) \in EndCalls
    <3>1. PICK e \in Outcomes("done") : todo[t] \in After(Deciding, <<<<"rejected">>, e>>)
      BY <1>6 DEF Rejecting
    <3> DEFINE z == <<<<"rejected">>, e>>
    <3>2. z # <<>> /\ Head(z) = <<"rejected">> /\ z \in Seq({<<"rejected">>, e})
      OBVIOUS
    <3> HIDE DEF z
    <3>4. todo[t] = z \/ Head(todo[t]) \in Deciding
      BY <3>1, <3>2, AfterHeads DEF z
    <3>5. "rejected" \notin Names
      BY DEF Names, Plain
    <3>3. Head(todo[t]) \in Deciding
      BY <1>1, <3>2, <3>4, <3>5
    <3> QED
      BY <3>3 DEF Deciding, EndCalls
  <2>3. UNCHANGED <<Part, wake_lock_cnt>> /\ (eng_state' = "NONE" => eng_state = "NONE")
    BY <2>2, EndCallDone
  <2>4. State({"BUFFERING"})' /\ NoVote' /\ HasEngine'
    BY <1>6, <2>3 DEF PInv, State, NoVote, HasEngine, Part
  <2>5. Level(1)'
    BY <1>1, <1>6, <2>3, LevelKept
  <2> QED
    BY <1>1, <1>3, <1>4, <1>6, <2>1, <2>4, <2>5 DEF PInv
<1> QED
  BY <1>1, <1>2, <1>5, <1>6 DEF PInv

(***************************************************************************)
(* So does the first stage's thread, that engages the others.              *)
(***************************************************************************)
LEMMA EngagesPower ==
  ASSUME IInv, PInv, UNCHANGED config, Works(Gsl)
  PROVE  PInv'
<1>1. /\ todo[Gsl] # <<>> /\ Head(todo[Gsl])[1] \in HeldNames \cup {"engage"}
      /\ Gsl \in Threads /\ Gsl \notin Engines
  BY WorkNames, PollerThreads
<1>2. mutex = Gsl /\ GslRuns /\ DOMAIN todo = Threads /\ config \in Configs
  BY <1>1, WhoseTurn, Given, ThreadsAssumption DEF Runs
<1>3. /\ UNCHANGED stream
      /\ \A u \in Threads \ {Gsl} : todo'[u] = todo[u] \/ todo'[u] = <<<<"run">>>>
  BY <1>2, GslGoesOn
<1>4. SetDetected(Gsl) /\ todo'[Gsl] # <<>> /\ Head(todo'[Gsl])[1] \in {"engage", "unlock"}
  BY <1>2, EngagingGoesOn
<1>5. UNCHANGED <<Part, mutex, wake_lock_cnt, eng_state>>
  BY <1>3, <1>4 DEF SetDetected, gsl, stream, states, verdicts, locks, Part
<1>6. Sound /\ Awake /\ second_stage_processing /\ State({"BUFFERING"})
  <2>1. Gsl # None /\ ~Leaving
    BY <1>1, <1>2, EnginesAssumption, LeavingHolds, Given, ThreadsAssumption
  <2> QED
    BY <1>1, <1>2, <2>1 DEF PInv
<1>7. Sound'
  BY <1>5, <1>6 DEF Sound, State, Part
<1>8. Awake'
  BY <1>1, <1>4, <1>5, <1>6 DEF Awake, Level, Holding, State, Part
<1>9. Unheard'
  <2>1. Pollers \subseteq Threads
    BY PollerThreads
  <2> QED
    BY <1>3, <1>4, <2>1 DEF PInv, Unheard, At, Arg
<1>10. Holder'
  BY <1>2, <1>4, <1>5 DEF Holder, FreeNames
<1> QED
  BY <1>2, <1>5, <1>6, <1>7, <1>8, <1>9, <1>10 DEF PInv, HasEngine, State, Part


------------------------------------------------------------------------------
------------------------------------------------------------------------------
(***************************************************************************)
(* A step that leaves the stream, and the list of the thread with the      *)
(* mutex, as they are.                                                     *)
(***************************************************************************)
LEMMA QuietPower ==
  ASSUME IInv, PInv, UNCHANGED <<config, Part, mutex>>,
         eng_state' = "NONE" => eng_state = "NONE",
         Level(0) => Level(0)', Level(1) => Level(1)',
         \A k \in Engines : Rejects(k)' => Rejects(k),
         Unheard', \A t \in Threads : mutex = t => todo'[t] = todo[t]
  PROVE  PInv'
<1>1. \A s : State(s)' = State(s)
  BY DEF State, Part
<1>2. HasEngine'
  BY <1>1 DEF PInv, HasEngine
<1>3. Holder'
  BY DEF PInv, Holder
<1>4. Sound => Sound'
  BY SoundKept DEF Part
<1>5. Awake => Awake'
  BY <1>1 DEF Awake
<1>6. NoVote => NoVote'
  BY DEF NoVote, Part
<1>7. CASE Sound /\ Awake /\ (mutex = None \/ Leaving)
  <2>1. Leaving => todo'[Client] = todo[Client]
    BY LeavingHolds, Given DEF Threads
  <2>2. Leaving => Leaving'
    BY <2>1 DEF Leaving
  <2> QED
    BY <1>2, <1>3, <1>4, <1>5, <1>7, <2>2 DEF PInv
<1>8. CASE Sound /\ Awake /\ mutex = Gsl /\ second_stage_processing /\ State({"BUFFERING"})
  BY <1>1, <1>2, <1>3, <1>4, <1>5, <1>8 DEF PInv, Part
<1>9. ASSUME NEW k \in Engines, mutex = k, Rejecting(k), State({"BUFFERING"}), NoVote, Level(1)
      PROVE  PInv'
  <2>1. todo'[k] = todo[k]
    BY <1>9 DEF Threads
  <2>2. Rejecting(k)'
    BY <1>9, <2>1 DEF Rejecting
  <2> QED
    BY <1>1, <1>2, <1>3, <1>6, <1>9, <2>2 DEF PInv
<1>10. ASSUME NEW t \in Threads \ {Gsl}, mutex = t, DryHeld(t) \/ WetHeld(t)
       PROVE  PInv'
  <2>1. todo'[t] = todo[t] /\ mutex' = t
    BY <1>10
  <2>2. Dry(t) => Dry(t)'
    BY <1>1, <2>1 DEF Dry
  <2>3. Wet(t) => Wet(t)'
    BY <1>1, <2>1 DEF Wet
  <2>4. (DryHeld(t) \/ WetHeld(t))'
    BY <1>4, <1>5, <1>6, <1>10, <2>2, <2>3 DEF DryHeld, WetHeld
  <2> QED
    BY <1>2, <1>3, <1>10, <2>1, <2>4 DEF PInv
<1> QED
  BY <1>7, <1>8, <1>9, <1>10 DEF PInv

(***************************************************************************)
(* A step of one thread without the mutex.                                 *)
(***************************************************************************)
LEMMA FreePower ==
  ASSUME IInv, PInv, UNCHANGED <<config, Part, mutex>>,
         eng_state' = "NONE" => eng_state = "NONE",
         NEW t \in Threads, todo[t] = <<>> \/ Head(todo[t])[1] \in FreeNames,
         \A u \in Threads \ {t} : todo'[u] = todo[u],
         Rejects(t)' => Rejects(t),
         ~config.notify /\ t \in Pollers =>
           ((At(t, "callback") \/ At(t, "relock"))' => Arg(t)' = "detected"),
         Level(0) => Level(0)', Level(1) => Level(1)'
  PROVE  PInv'
<1>1. mutex # t
  BY DEF PInv, Holder
<1>2. \A u \in Threads : mutex = u => todo'[u] = todo[u]
  BY <1>1
<1>3. \A k \in Engines : Rejects(k)' => Rejects(k)
  <2> SUFFICES ASSUME NEW k \in Engines, k # t, Rejects(k)' PROVE Rejects(k)
    OBVIOUS
  <2>1. todo'[k] = todo[k]
    BY DEF Threads
  <2> QED
    BY <2>1 DEF Rejects, At, Arg
<1>4. Unheard'
  <2> SUFFICES ASSUME ~config.notify, NEW u \in Pollers, u # t,
                      (At(u, "callback") \/ At(u, "relock"))'
               PROVE  Arg(u)' = "detected"
    BY DEF Unheard
  <2>1. todo'[u] = todo[u]
    BY PollerThreads
  <2> QED
    BY <2>1 DEF PInv, Unheard, At, Arg
<1> QED
  BY <1>2, <1>3, <1>4, QuietPower

(***************************************************************************)
(* The same for a thread that is no engine's, and neither takes nor gives  *)
(* up a wake lock.                                                         *)
(***************************************************************************)
LEMMA CallerPower ==
  ASSUME IInv, PInv, UNCHANGED <<config, Part, mutex, wake_lock_cnt, eng_state>>,
         NEW t \in Callers, todo[t] = <<>> \/ Head(todo[t])[1] \in FreeNames, NEW q, Goes(t, q),
         Head(q)[1] \notin {"run", "poll"}
  PROVE  PInv'
<1>1. t \in Threads /\ t \notin Pollers /\ t # Gsl /\ DOMAIN todo = Threads /\ Gsl \in Threads
  BY Given, ThreadsAssumption DEF Callers, Pollers, Threads
<1>2. todo'[t] = q /\ \A u \in Threads \ {t} : todo'[u] = todo[u]
  BY <1>1 DEF Goes
<1>3. Holding' = Holding
  BY <1>1, <1>2 DEF Holding
<1>4. (Level(0) => Level(0)') /\ (Level(1) => Level(1)')
  BY <1>3, LevelKept
<1>5. ~Rejects(t)'
  BY <1>2 DEF Rejects, At
<1> QED
  BY <1>1, <1>2, <1>4, <1>5, FreePower

(***************************************************************************)
(* The timer's own steps,                                                  *)
(***************************************************************************)
LEMMA TimerPower ==
  ASSUME IInv, PInv, UNCHANGED config, Arm \/ Wake
  PROVE  PInv'
<1>1. UNCHANGED <<Part, mutex, wake_lock_cnt, eng_state>>
  BY DEF Arm, Wake, engines, gsl, stream, states, verdicts, locks, Part
<1>2. Timer \in Callers /\ Head(todo[Timer])[1] \in FreeNames
  BY DEF Arm, Wake, At, Callers, FreeNames
<1>3. CASE Arm
  <2>1. Goes(Timer, <<<<"sleep">>>>)
    BY <1>3 DEF Arm
  <2> QED
    BY <1>1, <1>2, <2>1, CallerPower
<1>4. CASE Wake /\ timer_stop_waiting
  <2>1. Goes(Timer, <<>>)
    BY <1>4 DEF Wake
  <2>2. Timer \in Threads /\ Timer \notin Pollers /\ DOMAIN todo = Threads
    BY Given, ThreadsAssumption DEF Pollers, Threads
  <2>3. todo'[Timer] = <<>> /\ \A u \in Threads \ {Timer} : todo'[u] = todo[u]
    BY <2>1, <2>2 DEF Goes
  <2>4. Holding' = Holding
    BY <2>2, <2>3, PollerThreads DEF Holding
  <2>5. (Level(0) => Level(0)') /\ (Level(1) => Level(1)')
    BY <1>1, <2>4, LevelKept
  <2>6. ~Rejects(Timer)'
    BY <2>3 DEF Rejects, At
  <2> QED
    BY <1>1, <1>2, <2>2, <2>3, <2>5, <2>6, FreePower
<1>5. CASE Wake /\ ~timer_stop_waiting
  <2> DEFINE q == <<<<"enter", "lateStop">>, <<"leave">>>>
  <2>1. Goes(Timer, q)
    BY <1>5 DEF Wake
  <2>2. Head(q)[1] \notin {"run", "poll"}
    OBVIOUS
  <2> HIDE DEF q
  <2> QED
    BY <1>1, <1>2, <2>1, <2>2, CallerPower
<1> QED
  BY <1>3, <1>4, <1>5

(***************************************************************************)
(* a call,                                                                 *)
(***************************************************************************)
LEMMA CallPower ==
  ASSUME IInv, PInv, UNCHANGED config, NEW op, Call(op)
  PROVE  PInv'
<1>1. UNCHANGED <<Part, mutex, wake_lock_cnt, eng_state>>
  BY DEF Call, engines, gsl, states, verdicts, Part
<1> DEFINE q == <<<<"enter", op>>, <<"leave">>>>
<1>2. Client \in Callers /\ todo[Client] = <<>> /\ Goes(Client, q)
  BY DEF Call, Callers
<1>3. Head(q)[1] \notin {"run", "poll"}
  OBVIOUS
<1> HIDE DEF q
<1> QED
  BY <1>1, <1>2, <1>3, CallerPower

(***************************************************************************)
(* a request of ResourceManager,                                           *)
(***************************************************************************)
LEMMA RequestPower ==
  ASSUME IInv, PInv, UNCHANGED config, NEW r \in Requests, Request(r)
  PROVE  PInv'
<1>1. UNCHANGED <<Part, mutex, wake_lock_cnt, eng_state>>
  BY DEF Request, engines, gsl, states, verdicts, Part
<1>2. PICK q : q = Steps(r)
  OBVIOUS
<1>3. Server \in Callers /\ todo[Server] = <<>> /\ Goes(Server, q)
  BY <1>2 DEF Request, Callers
<1>4. Head(q)[1] = "enter"
  BY <1>2 DEF Steps, Requests
<1> QED
  BY <1>1, <1>3, <1>4, CallerPower


------------------------------------------------------------------------------
(***************************************************************************)
(* What a step of an engine's thread does to the wake locks: none, or it   *)
(* ends and gives one up.                                                  *)
(***************************************************************************)
LEMMA LevelEnds ==
  ASSUME UNCHANGED config, releaseWakeLock, todo[Gsl] # <<>>, todo'[Gsl] = <<>>
  PROVE  (Level(0) => Level(0)') /\ (Level(1) => Level(1)')
<1>1. Holding = 1 /\ Holding' = 0
  BY DEF Holding
<1> QED
  BY <1>1 DEF Level, releaseWakeLock, Less

(***************************************************************************)
(* A detection that no state can use is given up.                          *)
(***************************************************************************)
LEMMA IgnoredPower ==
  ASSUME IInv, PInv, UNCHANGED config, NEW t \in Pollers, Ignored(t)
  PROVE  PInv'
<1>1. At(t, "poll") /\ Fail(t) /\ UNCHANGED <<engines, stream>>
  BY DEF Ignored
<1>2. UNCHANGED <<Part, mutex, wake_lock_cnt, eng_state>>
  BY <1>1 DEF engines, gsl, stream, states, verdicts, locks, Part
<1>3. todo[t] # <<>> /\ Last(todo[t]) \in Outcome(t) /\ Head(todo[t])[1] \in FreeNames
  BY <1>1, Polling DEF At, FreeNames
<1> DEFINE f == [Last(todo[t]) EXCEPT ![2] = FALSE]
<1>4. f \in Outcome(t) /\ Goes(t, <<f>>)
  BY <1>1, <1>3, OutcomeOf DEF Fail
<1> HIDE DEF f
<1>5. t \in Threads /\ DOMAIN todo = Threads
  BY PollerThreads, Given
<1>6. todo'[t] = <<f>> /\ \A u \in Threads \ {t} : todo'[u] = todo[u]
  BY <1>4, <1>5 DEF Goes
<1>7. f[1] \in {"answer", "done"} /\ Head(todo'[t]) = f /\ todo'[t] # <<>>
  BY <1>4, <1>6, OutcomeOf
<1>8. ~Rejects(t)' /\ ~At(t, "callback")' /\ ~At(t, "relock")'
  BY <1>7 DEF Rejects, At
<1>9. Holding' = Holding
  BY <1>3, <1>6, <1>7, PollerThreads DEF Holding
<1>10. (Level(0) => Level(0)') /\ (Level(1) => Level(1)')
  BY <1>2, <1>9, LevelKept
<1> QED
  BY <1>2, <1>3, <1>5, <1>6, <1>8, <1>10, FreePower

(***************************************************************************)
(* The client's callback returns, and the rest of notifyClient() gives up  *)
(* a wake lock only for a client that hears of rejections.                 *)
(***************************************************************************)
LEMMA CallbackPower ==
  ASSUME IInv, PInv, UNCHANGED config, NEW t \in Pollers, Callback(t) \/ Relock(t)
  PROVE  PInv'
<1>1. (At(t, "callback") \/ At(t, "relock")) /\ Then(t, <<>>) /\ UNCHANGED <<gsl, capi, stream>>
  BY DEF Callback, Relock, engines
<1>2. UNCHANGED <<Part, mutex, eng_state>>
  BY <1>1 DEF gsl, stream, states, verdicts, locks, Part
<1>3. t \in Threads /\ DOMAIN todo = Threads
  BY PollerThreads, Given
<1> DEFINE n == Head(todo[t])[1]
<1>4. todo[t] # <<>> /\ n \in {"callback", "relock"} /\ n \in FreeNames /\ todo[t] \in Free(t)
  BY <1>1, <1>3, WhoseTurn, Given DEF At, FreeNames
<1>5. PICK e \in Outcome(t) : \E w \in {"detected", "rejected"} :
         \/ todo[t] = <<<<"callback", w>>, <<"relock", w>>, e>>
         \/ todo[t] = <<<<"relock", w>>, e>>
  BY <1>4, PollerShapes
<1>6. PICK w \in {"detected", "rejected"} :
         \/ todo[t] = <<<<"callback", w>>, <<"relock", w>>, e>>
         \/ todo[t] = <<<<"relock", w>>, e>>
  BY <1>5
<1> DEFINE r == <<<<"relock", w>>, e>>
<1>7. Tail(todo[t]) = r \/ Tail(todo[t]) = <<e>>
  <2>1. Tail(<<<<"callback", w>>, <<"relock", w>>, e>>) = r /\ Tail(r) = <<e>>
    OBVIOUS
  <2> QED
    BY <1>6, <2>1, Zenon
<1>8. Arg(t) = w
  BY <1>6 DEF Arg
<1>9. r \in Seq({<<"relock", w>>, e}) /\ Head(r) = <<"relock", w>> /\ r # <<>>
  OBVIOUS
<1>10. <<e>> \in Seq({e}) /\ <<e>> # <<>> /\ Head(<<e>>) = e /\ e[1] \in {"answer", "done"}
  BY OutcomeOf
<1> HIDE DEF r
<1>11. todo'[t] = Tail(todo[t])
  BY <1>1, <1>3, <1>7, <1>9, <1>10, ThenTail
<1>12. \A u \in Threads \ {t} : todo'[u] = todo[u]
  BY <1>1, <1>3 DEF Then, Goes
<1>13. todo'[t] # <<>> /\ ~Rejects(t)'
         /\ ((At(t, "callback") \/ At(t, "relock"))' => Arg(t)' = w)
  <2>1. CASE todo'[t] = r
    BY <1>9, <2>1 DEF Rejects, At, Arg
  <2>2. CASE todo'[t] = <<e>>
    BY <1>10, <2>2 DEF Rejects, At, Arg
  <2> QED
    BY <1>7, <1>11, <2>1, <2>2
<1>14. ~config.notify => w = "detected"
  BY <1>1, <1>8 DEF PInv, Unheard
<1>15. Holding' = Holding
  BY <1>4, <1>12, <1>13, PollerThreads DEF Holding
<1>16. wake_lock_cnt' = wake_lock_cnt \/ (config.notify /\ wake_lock_cnt' = Less(wake_lock_cnt))
  <2>1. CASE Callback(t)
    BY <2>1 DEF Callback, engines
  <2>2. CASE Relock(t)
    BY <1>8, <1>14, <2>2 DEF Relock
  <2> QED
    BY <2>1, <2>2
<1>17. (Level(0) => Level(0)') /\ (Level(1) => Level(1)')
  <2>1. CASE wake_lock_cnt' = wake_lock_cnt
    BY <1>15, <2>1, LevelKept
  <2>2. CASE config.notify /\ wake_lock_cnt' = Less(wake_lock_cnt)
    BY <1>15, <2>2 DEF Level, Less, Holding
  <2> QED
    BY <1>16, <2>1, <2>2
<1> QED
  BY <1>2, <1>3, <1>4, <1>12, <1>13, <1>14, <1>17, FreePower

(***************************************************************************)
(* The first stage's own steps: its thread gives up the wake lock of its   *)
(* event when it ends.                                                     *)
(***************************************************************************)
LEMMA FirstStagePower ==
  ASSUME IInv, PInv, UNCHANGED config, FirstStage, UNCHANGED stream
  PROVE  PInv'
<1>1. Gsl \in Threads /\ Gsl \notin Engines /\ DOMAIN todo = Threads
  BY PollerThreads, Given
<1>2. UNCHANGED <<Part, mutex>>
  BY DEF stream, states, verdicts, locks, Part
<1>3. todo[Gsl] # <<>> /\ Head(todo[Gsl])[1] \in FreeNames
  BY DEF FirstStage, Skip, NoBuffering, StartBuffering, Buffered, StopBuffering, Answered,
     Refused, At, FreeNames
<1>4. eng_state' = "NONE" => eng_state = "NONE"
  BY DEF FirstStage, Skip, NoBuffering, StartBuffering, Buffered, StopBuffering, Answered,
     Refused, SessionRestarts, SessionFails, gsl
<1>5. Ends \/ (UNCHANGED wake_lock_cnt /\ \E q : Goes(Gsl, q) /\ q # <<>>
                 /\ Head(q)[1] \in {"poll", "buffer", "drain"}
                      /\ (Head(q)[1] = "poll" => Head(q)[2] = "gmm"))
  <2> DEFINE Goal == \E q : Goes(Gsl, q) /\ q # <<>>
                 /\ Head(q)[1] \in {"poll", "buffer", "drain"}
                      /\ (Head(q)[1] = "poll" => Head(q)[2] = "gmm")
  <2>1. Goes(Gsl, <<<<"buffer">>>>) => Goal
    OBVIOUS
  <2>2. Goes(Gsl, <<<<"drain">>>>) => Goal
    OBVIOUS
  <2>3. Tell(Gsl, "gmm") => Goal
    BY DEF Tell
  <2> HIDE DEF Goal
  <2>4. Ends \/ (UNCHANGED wake_lock_cnt /\ Goal)
    BY <2>1, <2>2, <2>3 DEF FirstStage, Skip, NoBuffering, StartBuffering, Buffered,
       StopBuffering, Answered, Refused
  <2> QED
    BY <2>4 DEF Goal
<1>6. CASE Ends
  <2>1. todo'[Gsl] = <<>> /\ \A u \in Threads \ {Gsl} : todo'[u] = todo[u]
    BY <1>1, <1>6 DEF Ends, Goes
  <2>2. (Level(0) => Level(0)') /\ (Level(1) => Level(1)')
    BY <1>3, <1>6, <2>1, LevelEnds DEF Ends
  <2>3. ~Rejects(Gsl)' /\ ~At(Gsl, "callback")' /\ ~At(Gsl, "relock")'
    BY <2>1 DEF Rejects, At
  <2> QED
    BY <1>1, <1>2, <1>3, <1>4, <2>1, <2>2, <2>3, FreePower
<1>7. ASSUME UNCHANGED wake_lock_cnt, NEW q, Goes(Gsl, q), q # <<>>,
             Head(q)[1] \in {"poll", "buffer", "drain"}, Head(q)[1] = "poll"
               => Head(q)[2] = "gmm"
      PROVE  PInv'
  <2>1. todo'[Gsl] = q /\ \A u \in Threads \ {Gsl} : todo'[u] = todo[u]
    BY <1>1, <1>7 DEF Goes
  <2>2. Holding' = Holding
    BY <1>3, <1>7, <2>1 DEF Holding
  <2>3. (Level(0) => Level(0)') /\ (Level(1) => Level(1)')
    BY <1>7, <2>2, LevelKept
  <2>4. ~Rejects(Gsl)' /\ ~At(Gsl, "callback")' /\ ~At(Gsl, "relock")'
    BY <1>7, <2>1 DEF Rejects, At, Arg
  <2> QED
    BY <1>1, <1>2, <1>3, <1>4, <2>1, <2>3, <2>4, FreePower
<1> QED
  BY <1>5, <1>6, <1>7

(***************************************************************************)
(* A second stage's own steps: no engine that has decided rejects again.   *)
(***************************************************************************)
LEMMA SecondStagePower ==
  ASSUME IInv, PInv, UNCHANGED config, NEW k \in Engines, SecondStage(k), UNCHANGED stream
  PROVE  PInv'
<1>1. k \in Threads /\ k # Gsl /\ Gsl \in Threads /\ DOMAIN todo = Threads
  BY PollerThreads, Given
<1>2. UNCHANGED <<Part, mutex, wake_lock_cnt, eng_state>>
  BY DEF stream, states, verdicts, locks, Part, SecondStage, Judge, Interrupted, Judged, gsl
<1>3. /\ todo[k] # <<>> /\ Head(todo[k])[1] \in FreeNames
      /\ Head(todo[k])[1] = "run" => Rejects(k)
  BY DEF SecondStage, Judge, Interrupted, Judged, At, Rejects, FreeNames
<1>4. ASSUME NEW q, Goes(k, q), q = <<>> \/ (Rejects(k) /\ Head(q)[1] = "poll") PROVE PInv'
  <2>1. todo'[k] = q /\ \A u \in Threads \ {k} : todo'[u] = todo[u]
    BY <1>1, <1>4 DEF Goes
  <2>2. Holding' = Holding
    BY <1>1, <2>1 DEF Holding
  <2>3. (Level(0) => Level(0)') /\ (Level(1) => Level(1)')
    BY <1>2, <2>2, LevelKept
  <2>4. (Rejects(k)' => Rejects(k)) /\ ~At(k, "callback")' /\ ~At(k, "relock")'
    BY <1>4, <2>1 DEF Rejects, At
  <2> QED
    BY <1>1, <1>2, <1>3, <2>1, <2>3, <2>4, FreePower
<1>5. ASSUME NEW verdict \in {"success", "reject"}, Judge(k, verdict) PROVE PInv'
  <2> DEFINE q == <<<<"poll", verdict>>, <<"done", TRUE>>>>
  <2>1. Goes(k, q) /\ Rejects(k)
    BY <1>1, <1>5 DEF Judge, Rejects, Tell
  <2>2. Head(q)[1] = "poll"
    OBVIOUS
  <2> HIDE DEF q
  <2> QED
    BY <1>4, <2>1, <2>2
<1>6. CASE Interrupted(k) \/ Judged(k)
  BY <1>4, <1>6 DEF Interrupted, Judged
<1> QED
  BY <1>5, <1>6 DEF SecondStage

(***************************************************************************)
(* A detection of the DSP, when the thread of the first stage waits for    *)
(* one: it takes a wake lock, and wakes the thread.                        *)
(***************************************************************************)
LEMMA DetectPower ==
  ASSUME IInv, PInv, UNCHANGED config, Detect, UNCHANGED stream, "detection" \notin Overlap
  PROVE  PInv'
<1>1. Gsl \in Threads /\ Gsl \notin Engines /\ DOMAIN todo = Threads
  BY PollerThreads, Given
<1>2. UNCHANGED <<Part, mutex>> /\ eng_state' # "NONE"
  BY DEF stream, states, verdicts, locks, Part, Detect
<1>3. todo[Gsl] = <<>> /\ todo' = [todo EXCEPT ![Gsl] = <<<<"woken">>>>]
  BY DEF Detect
<1>4. todo'[Gsl] = <<<<"woken">>>> /\ \A u \in Threads \ {Gsl} : todo'[u] = todo[u]
  BY <1>1, <1>3
<1>5. ~Rejects(Gsl)' /\ ~At(Gsl, "callback")' /\ ~At(Gsl, "relock")'
  BY <1>4 DEF Rejects, At
<1>6. Holding = 0 /\ Holding' = 1
  BY <1>3, <1>4 DEF Holding
<1>7. (Level(0) => Level(0)') /\ (Level(1) => Level(1)')
  BY <1>6 DEF Level, Detect
<1> QED
  BY <1>1, <1>2, <1>3, <1>4, <1>5, <1>7, FreePower

(***************************************************************************)
(* And no step at all.                                                     *)
(***************************************************************************)
LEMMA StutterPower ==
  ASSUME IInv, PInv, UNCHANGED vars
  PROVE  PInv'
<1>1. UNCHANGED <<config, todo, Part, mutex, wake_lock_cnt, eng_state>>
  BY DEF vars, engines, gsl, stream, states, verdicts, locks, Part
<1>2. Holding' = Holding
  BY <1>1 DEF Holding
<1>3. (Level(0) => Level(0)') /\ (Level(1) => Level(1)')
  BY <1>1, <1>2, LevelKept
<1>4. \A k \in Engines : Rejects(k)' => Rejects(k)
  BY <1>1 DEF Rejects, At, Arg
<1>5. Unheard'
  BY <1>1 DEF PInv, Unheard, At, Arg
<1> QED
  BY <1>1, <1>3, <1>4, <1>5, QuietPower


------------------------------------------------------------------------------
------------------------------------------------------------------------------
(***************************************************************************)
(* A thread with the mutex and no wake lock to give up begins with one of  *)
(* the sections; one that has a wake lock to give up, with a section of a  *)
(* call.                                                                   *)
(***************************************************************************)
LEMMA DryHead ==
  ASSUME NEW t, Dry(t)
  PROVE  todo[t] = <<>> \/ Head(todo[t]) \in Sections
<1>1. todo[t] \in Laters \cup Downs \cup Cuts => todo[t] \in Seq(Sections)
  BY RestsAreLists
<1>2. ASSUME NEW C \in SUBSET Sections, NEW m, <<m>> \in Sections,
             NEW R \in SUBSET Seq(Sections),
             todo[t] \in Before(C, m, R)
      PROVE  Head(todo[t]) \in Sections
  BY <1>2, MarkNext
<1>3. /\ EndCalls \in SUBSET Sections /\ StartCalls \in SUBSET Sections
      /\ LoadCalls \in SUBSET Sections
      /\ <<"halted">> \in Sections /\ <<"started">> \in Sections /\ <<"connected">> \in Sections
      /\ <<"loaded">> \in Sections /\ <<"unloaded">> \in Sections
      /\ <<"reconfigured">> \in Sections
  BY DEF Sections
<1>4. Laters \cup Downs \in SUBSET Seq(Sections)
  BY RestsAreLists
<1>5. todo[t] \in Seq(Sections) /\ todo[t] # <<>> => Head(todo[t]) \in Sections
  BY HeadTailProperties
<1>6. todo[t] \in Before(EndCalls, "halted", Laters \cup Downs) => Head(todo[t]) \in Sections
  BY <1>2, <1>3, <1>4
<1>7. /\ todo[t] \in Before(StartCalls, "started", Laters) => Head(todo[t]) \in Sections
      /\ todo[t] \in Before(StartCalls, "connected", Laters) => Head(todo[t]) \in Sections
      /\ todo[t] \in Before(LoadCalls, "loaded", Laters) => Head(todo[t]) \in Sections
      /\ todo[t] \in Before(EndCalls, "unloaded", Laters) => Head(todo[t]) \in Sections
      /\ todo[t] \in Before(EndCalls, "reconfigured", Laters) => Head(todo[t]) \in Sections
  BY <1>2, <1>3, RestsAreLists
<1> QED
  BY <1>1, <1>5, <1>6, <1>7 DEF Dry

(***************************************************************************)
(* No section has the name of one that an engine that rejects waits for.   *)
(***************************************************************************)
LEMMA NotRejected ==
  ASSUME NEW s \in Sections
  PROVE  s[1] # "rejected"
<1>1. \A l \in Leaves(AllOps) : l[1] = "leave"
  BY DEF Leaves
<1>2. \A l \in Outcomes("answer") \cup Outcomes("done") : l[1] \in {"answer", "done"}
  BY DEF Outcomes
<1> QED
  BY <1>1, <1>2 DEF Sections, EndCalls, RestartCalls, StartCalls, LoadCalls, DownCalls,
     Again, Later

(***************************************************************************)
(* What begins the list of a thread with a wake lock to give up.           *)
(***************************************************************************)
LEMMA WetHead ==
  ASSUME NEW t, Wet(t)
  PROVE  todo[t] # <<>> /\ Head(todo[t])[1] \in Names
<1>1. ASSUME NEW C, \A s \in C : s[1] \in Names, NEW m \in Names,
             NEW R \in SUBSET Seq(Sections),
             todo[t] \in Before(C, m, R)
      PROVE  todo[t] # <<>> /\ Head(todo[t])[1] \in Names
  <2>1. todo[t] # <<>> /\ (Head(todo[t]) = <<m>> \/ Head(todo[t]) \in C)
    BY <1>1, MarkNext
  <2> QED
    BY <1>1, <2>1
<1>2. \A s \in EndCalls \cup RestartCalls \cup Again : s[1] \in Names
  BY DEF EndCalls, RestartCalls, Again, Names, Plain
<1>3. {"unwake", "unloaded", "reconfigured", "halted", "restarted"} \subseteq Names
  BY DEF Names, Plain
<1>4. ASSUME todo[t] \in Wakes \cup WakesDown
      PROVE  todo[t] # <<>> /\ Head(todo[t])[1] \in Names
  <2>1. PICK r \in Seq(Sections) : todo[t] = <<<<"unwake">>>> \o r
    BY <1>4, RestsAreLists DEF Wakes, WakesDown
  <2> QED
    BY <1>3, <2>1, PutFirst
<1>5. Owing \cup WakesDown \in SUBSET Seq(Sections)
  BY RestsAreLists
<1>6. todo[t] \in Owing => todo[t] # <<>> /\ Head(todo[t])[1] \in Names
  BY <1>1, <1>2, <1>3, RestsAreLists DEF Owing
<1>7. /\ todo[t] \in Before(EndCalls, "unloaded", Owing) => todo[t] # <<>>
           /\ Head(todo[t])[1] \in Names
      /\ todo[t] \in Before(EndCalls, "reconfigured", Owing) => todo[t] # <<>>
           /\ Head(todo[t])[1] \in Names
  BY <1>1, <1>2, <1>3, RestsAreLists
<1>8. todo[t] \in Before(EndCalls, "halted", Owing \cup WakesDown)
        => todo[t] # <<>> /\ Head(todo[t])[1] \in Names
  BY <1>1, <1>2, <1>3, <1>5
<1>9. todo[t] \in Before(RestartCalls, "restarted", Wakes) => todo[t] # <<>>
        /\ Head(todo[t])[1] \in Names
  BY <1>1, <1>2, <1>3, RestsAreLists
<1> QED
  BY <1>4, <1>6, <1>7, <1>8, <1>9 DEF Wet

(***************************************************************************)
(* With the mutex free nobody owes a wake lock.                            *)
(***************************************************************************)
LEMMA FreeSound ==
  ASSUME PInv, mutex = None
  PROVE  Sound /\ Awake
<1>1. None \notin Threads /\ Engines \subseteq Threads /\ Gsl \in Threads
  BY EnginesAssumption DEF Threads
<1> QED
  BY <1>1 DEF PInv

(***************************************************************************)
(* When the mutex is given up nobody may owe one.                          *)
(***************************************************************************)
LEMMA FreedPower ==
  ASSUME mutex' = None, HasEngine', Unheard', Sound', Awake'
  PROVE  PInv'
<1>1. Holder'
  BY EnginesAssumption DEF Holder
<1> QED
  BY <1>1 DEF PInv

(***************************************************************************)
(* A thread that calls the client.                                         *)
(***************************************************************************)
LEMMA NotifyPower ==
  ASSUME IInv, PInv, UNCHANGED config, NEW t \in Pollers, todo[t] # <<>>,
         NEW what, Notify(t, what), ~config.notify => what = "detected"
  PROVE  /\ mutex' = None /\ Unheard' /\ Holding' = Holding
         /\ ~Rejects(t)' /\ \A k \in Engines : Rejects(k)' => Rejects(k)
<1>1. /\ mutex' = None /\ todo'[t] # <<>> /\ Head(todo'[t]) = <<"callback", what>>
      /\ \A u \in Threads \ {t, Timer} : todo'[u] = todo[u]
  BY NotifyLists
<1>2. /\ t \in Threads /\ Gsl \in Threads /\ Gsl # Timer /\ Pollers \subseteq Threads
      /\ Timer \notin Pollers
  BY PollerThreads, ThreadsAssumption DEF Pollers
<1>3. \A u \in Pollers \ {t} : todo'[u] = todo[u]
  BY <1>1, <1>2
<1>4. Holding' = Holding
  BY <1>1, <1>3 DEF Holding, Pollers
<1>5. Unheard'
  <2> SUFFICES ASSUME ~config.notify, NEW u \in Pollers, (At(u, "callback") \/ At(u, "relock"))'
               PROVE  Arg(u)' = "detected"
    BY DEF Unheard
  <2>1. CASE u = t
    BY <1>1, <2>1 DEF Arg
  <2>2. CASE u # t
    BY <1>3, <2>2 DEF PInv, Unheard, At, Arg
  <2> QED
    BY <2>1, <2>2
<1>6. ~Rejects(t)'
  BY <1>1 DEF Rejects, At
<1>7. \A k \in Engines : Rejects(k)' => Rejects(k)
  <2> SUFFICES ASSUME NEW k \in Engines, Rejects(k)' PROVE Rejects(k)
    OBVIOUS
  <2>1. todo'[k] = todo[k]
    BY <1>3, <1>6 DEF Pollers
  <2> QED
    BY <2>1 DEF Rejects, At, Arg
<1> QED
  BY <1>1, <1>4, <1>5, <1>6, <1>7


------------------------------------------------------------------------------
(***************************************************************************)
(* A detection without second stages: the stream takes its wake lock, and  *)
(* the client is told.                                                     *)
(***************************************************************************)
LEMMA FirstStageOnlyPower ==
  ASSUME IInv, PInv, UNCHANGED config, NEW t \in Pollers, FirstStageOnly(t)
  PROVE  PInv'
<1>1. /\ At(t, "poll") /\ mutex = None /\ State({"ACTIVE"}) /\ config.second = {}
      /\ Notify(t, "detected") /\ todo[t] # <<>>
      /\ wake_lock_cnt' = wake_lock_cnt + 1
      /\ UNCHANGED <<eng_state, force_nlpi_vote, second_stage_processing>>
  BY DEF FirstStageOnly, gsl, verdicts, At
<1>2. cur_state' = IF config.capture THEN "BUFFERING" ELSE "DETECTED"
  BY DEF FirstStageOnly, TransitTo
<1>3. mutex' = None /\ Unheard' /\ Holding' = Holding
        /\ \A k \in Engines : Rejects(k)' => Rejects(k)
  BY <1>1, NotifyPower
<1>4. Sound /\ Awake
  BY <1>1, FreeSound
<1>5. Level(0)
  BY <1>1, <1>4 DEF Awake, State, Told
<1>6. Level(1)'
  BY <1>1, <1>3, <1>5 DEF Level, Holding
<1>7. State(Told)'
  BY <1>2 DEF State, Told
<1>8. Awake'
  BY <1>6, <1>7 DEF Awake
<1>9. \A k \in Engines : ~Rejects(k)'
  BY <1>1, <1>3, IdleRejectsNothing
<1>10. ~config.notify => ~force_nlpi_vote
  BY <1>1, <1>4 DEF Sound, State
<1>11. Sound'
  BY <1>1, <1>2, <1>9, <1>10 DEF Sound, State
<1>12. HasEngine'
  BY <1>1 DEF PInv, HasEngine, State
<1> QED
  BY <1>3, <1>8, <1>11, <1>12, FreedPower

(***************************************************************************)
(* A detection with second stages: the stream takes its wake lock, and the *)
(* mutex is kept to engage them.                                           *)
(***************************************************************************)
LEMMA FirstStageDetectedPower ==
  ASSUME IInv, PInv, UNCHANGED config, NEW t \in Pollers, FirstStageDetected(t)
  PROVE  PInv'
<1> DEFINE E == config.second
           e == Last(todo[t])
           q == EngageThen(E, e)
<1>1. /\ At(t, "poll") /\ Arg(t) = "gmm" /\ mutex = None /\ State({"ACTIVE"}) /\ mutex' = t
      /\ cur_state' = "BUFFERING" /\ second_stage_processing' = TRUE
      /\ wake_lock_cnt' = wake_lock_cnt + 1
      /\ UNCHANGED <<eng_state, force_nlpi_vote>>
      /\ Goes(t, q)
  BY DEF FirstStageDetected, TransitTo, gsl, EngageThen
<1>2. e \in Outcome(t) /\ Arg(t) \in Asks(t) /\ todo[t] # <<>>
  BY <1>1, Polling
<1>3. t = Gsl /\ Gsl \in Threads /\ Gsl # None /\ DOMAIN todo = Threads /\ Gsl \notin Engines
      /\ Pollers \subseteq Threads
  BY <1>1, <1>2, PollerThreads, EnginesAssumption, Given DEF Asks, Pollers
<1>4. e[1] = "answer" /\ IsFiniteSet(E)
  BY <1>2, <1>3, SecondFinite, Given DEF Outcome, Outcomes
<1> HIDE DEF e, E, q
<1>5. q # <<>> /\ Head(q)[1] \in {"engage", "unlock"}
  BY <1>4, EngageList DEF q
<1>6. todo'[Gsl] = q /\ \A u \in Threads \ {Gsl} : todo'[u] = todo[u]
  <2>1. todo' = [todo EXCEPT ![Gsl] = q]
    BY <1>1, <1>3 DEF Goes
  <2> QED
    BY <1>3, <2>1
<1>7. Sound /\ Awake
  BY <1>1, FreeSound
<1>8. Holding' = Holding
  BY <1>2, <1>3, <1>5, <1>6 DEF Holding
<1>9. Level(0)
  BY <1>1, <1>7 DEF Awake, State, Told
<1>10. Level(1)'
  BY <1>1, <1>8, <1>9 DEF Level, Holding
<1>11. State({"BUFFERING"})' /\ State(Told)'
  BY <1>1 DEF State, Told
<1>12. Awake'
  BY <1>10, <1>11 DEF Awake
<1>13. ~config.notify => ~force_nlpi_vote
  BY <1>1, <1>7 DEF Sound, State
<1>14. Sound'
  BY <1>1, <1>13 DEF Sound
<1>15. HasEngine'
  BY <1>1 DEF PInv, HasEngine, State
<1>16. Unheard'
  <2> SUFFICES ASSUME ~config.notify, NEW u \in Pollers, (At(u, "callback") \/ At(u, "relock"))'
               PROVE  Arg(u)' = "detected"
    BY DEF Unheard
  <2>1. u # Gsl
    BY <1>5, <1>6 DEF At
  <2>2. todo'[u] = todo[u]
    BY <1>3, <1>6, <2>1
  <2> QED
    BY <2>2 DEF PInv, Unheard, At, Arg
<1>17. Holder'
  BY <1>1, <1>3, <1>5, <1>6 DEF Holder, FreeNames
<1> QED
  BY <1>1, <1>3, <1>11, <1>12, <1>14, <1>15, <1>16, <1>17 DEF PInv

(***************************************************************************)
(* The mutex is given up by the thread that has engaged all engines, or by *)
(* one that has restarted recognition and given its wake lock up.          *)
(***************************************************************************)
LEMMA UnlockPower ==
  ASSUME IInv, PInv, UNCHANGED config, NEW t \in Pollers, Unlock(t)
  PROVE  PInv'
<1>1. /\ At(t, "unlock") /\ Then(t, <<>>) /\ mutex' = None
      /\ UNCHANGED <<Part, wake_lock_cnt, eng_state>>
  BY DEF Unlock, engines, gsl, states, verdicts, Part
<1>2. t \in Threads /\ DOMAIN todo = Threads /\ t # None /\ Pollers \subseteq Threads
  BY PollerThreads, Given, EnginesAssumption
<1>3. mutex = t /\ Runs(t)
  BY <1>1, <1>2, WhoseTurn, Given DEF At, HeldNames
<1>4. PICK e \in Outcome(t) : todo[t] = <<<<"unlock">>, e>>
  BY <1>1, <1>3, HeldShapes DEF At
<1>5. t \in Engines => ~Rejecting(t)
  BY <1>1, <1>3, HeldShapes DEF At
<1>6. ~Leaving
  BY <1>3, HeldPoller
<1>7. ~Wet(t)
  BY <1>4, WetHead DEF Names, Plain
<1>8. Sound /\ Awake
  BY <1>2, <1>3, <1>5, <1>6, <1>7 DEF PInv, DryHeld, WetHeld
<1>9. Tail(todo[t]) = <<e>> /\ <<e>> \in Seq({e}) /\ todo[t] # <<>>
  BY <1>4
<1>10. todo'[t] = <<e>> /\ \A u \in Threads \ {t} : todo'[u] = todo[u]
  BY <1>1, <1>2, <1>9, ThenTail DEF Then, Goes
<1>11. Head(<<e>>) = e /\ <<e>> # <<>> /\ e[1] \in {"answer", "done"}
  BY OutcomeOf
<1>12. ~Rejects(t)' /\ ~At(t, "callback")' /\ ~At(t, "relock")'
  BY <1>10, <1>11 DEF Rejects, At
<1>13. \A k \in Engines : Rejects(k)' => Rejects(k)
  <2> SUFFICES ASSUME NEW k \in Engines, Rejects(k)' PROVE Rejects(k)
    OBVIOUS
  <2>1. todo'[k] = todo[k]
    BY <1>2, <1>10, <1>12 DEF Pollers
  <2> QED
    BY <2>1 DEF Rejects, At, Arg
<1>14. Unheard'
  <2> SUFFICES ASSUME ~config.notify, NEW u \in Pollers, (At(u, "callback") \/ At(u, "relock"))'
               PROVE  Arg(u)' = "detected"
    BY DEF Unheard
  <2>1. todo'[u] = todo[u]
    BY <1>2, <1>10, <1>12
  <2> QED
    BY <2>1 DEF PInv, Unheard, At, Arg
<1>15. Holding' = Holding
  BY <1>2, <1>9, <1>10, <1>11, PollerThreads DEF Holding
<1>16. Sound'
  BY <1>1, <1>8, <1>13, SoundKept DEF Part
<1>17. Awake'
  BY <1>1, <1>8, <1>15, LevelKept DEF Awake, State, Part
<1>18. HasEngine'
  BY <1>1 DEF PInv, HasEngine, State, Part
<1> QED
  BY <1>1, <1>14, <1>16, <1>17, <1>18, FreedPower

(***************************************************************************)
(* An engine's step with the mutex free after which it has nothing to say. *)
(***************************************************************************)
LEMMA SaidPower ==
  ASSUME IInv, PInv, UNCHANGED <<config, Part, mutex, wake_lock_cnt, eng_state>>,
         NEW t \in Pollers,
         At(t, "poll"), Then(t, <<>>)
  PROVE  PInv'
<1>1. t \in Threads /\ Gsl \in Threads /\ DOMAIN todo = Threads
  BY PollerThreads, Given
<1>2. /\ todo[t] # <<>> /\ Last(todo[t]) \in Outcome(t) /\ Tail(todo[t]) = <<Last(todo[t])>>
      /\ Head(todo[t])[1] \in FreeNames
  BY Polling DEF At, FreeNames
<1>3. PICK e \in Outcome(t) : Tail(todo[t]) = <<e>>
  BY <1>2
<1>4. <<e>> \in Seq({e}) /\ Head(<<e>>) = e /\ <<e>> # <<>> /\ e[1] \in {"answer", "done"}
  BY OutcomeOf
<1>5. todo'[t] = <<e>> /\ \A u \in Threads \ {t} : todo'[u] = todo[u]
  BY <1>1, <1>3, <1>4, ThenTail DEF Then, Goes
<1>6. ~Rejects(t)' /\ ~At(t, "callback")' /\ ~At(t, "relock")'
  BY <1>4, <1>5 DEF Rejects, At
<1>7. Holding' = Holding
  BY <1>1, <1>2, <1>4, <1>5 DEF Holding
<1>8. (Level(0) => Level(0)') /\ (Level(1) => Level(1)')
  BY <1>7, LevelKept
<1> QED
  BY <1>1, <1>2, <1>5, <1>6, <1>8, FreePower


------------------------------------------------------------------------------
(***************************************************************************)
(* An engine accepts: it is the last one and the client is told, or its    *)
(* verdict is kept.                                                        *)
(***************************************************************************)
LEMMA AcceptPower ==
  ASSUME IInv, PInv, UNCHANGED config, NEW t \in Pollers, Accept(t)
  PROVE  PInv'
<1>1. /\ At(t, "poll") /\ mutex = None /\ State({"BUFFERING"}) /\ todo[t] # <<>>
      /\ UNCHANGED <<wake_lock_cnt, eng_state, force_nlpi_vote>>
  BY DEF Accept, engines, gsl, At
<1>2. CASE detection_state \cup {t} # config.second
  <2>1. Then(t, <<>>) /\ UNCHANGED <<cur_state, second_stage_processing, mutex>>
    BY <1>2 DEF Accept
  <2> QED
    BY <1>1, <2>1, SaidPower DEF Part
<1>3. CASE detection_state \cup {t} = config.second
  <2>1. /\ second_stage_processing' = FALSE /\ Notify(t, "detected")
        /\ cur_state' = IF config.capture THEN "BUFFERING" ELSE "DETECTED"
    BY <1>3 DEF Accept, TransitTo
  <2>2. /\ mutex' = None /\ Unheard' /\ Holding' = Holding /\ ~Rejects(t)'
        /\ \A k \in Engines : Rejects(k)' => Rejects(k)
    BY <1>1, <2>1, NotifyPower
  <2>3. Sound /\ Awake
    BY <1>1, FreeSound
  <2>4. \A k \in Engines : ~Rejects(k)'
    <3> SUFFICES ASSUME NEW k \in Engines, Rejects(k) PROVE k = t
      BY <2>2
    <3>1. \A j \in detection_state : ~Rejects(j)
      BY <1>1, NotLeaving DEF Verdicts
    <3>2. k \in detection_state \cup {t}
      BY <1>3, IdleRejectsNothing
    <3> QED
      BY <3>1, <3>2
  <2>5. State(Told)' /\ State(Told)
    BY <1>1, <2>1 DEF State, Told
  <2>6. Awake'
    BY <1>1, <2>2, <2>3, <2>5, LevelKept DEF Awake
  <2>7. ~config.notify /\ force_nlpi_vote => config.capture
    BY <1>1, <2>3, <2>5 DEF Sound
  <2>8. Sound'
    BY <1>1, <2>1, <2>4, <2>7 DEF Sound, State
  <2>9. HasEngine'
    BY <1>1 DEF PInv, HasEngine, State
  <2> QED
    BY <2>2, <2>6, <2>8, <2>9, FreedPower
<1> QED
  BY <1>2, <1>3

(***************************************************************************)
(* An engine rejects: nobody reads the sound that it still judges. It      *)
(* keeps the mutex to stop the others.                                     *)
(***************************************************************************)
LEMMA RejectPower ==
  ASSUME IInv, PInv, UNCHANGED config, NEW t \in Pollers, Reject(t)
  PROVE  PInv'
<1>1. /\ At(t, "poll") /\ Arg(t) = "reject" /\ mutex = None /\ State({"BUFFERING"})
      /\ UNCHANGED <<Part, wake_lock_cnt, eng_state>>
  BY DEF Reject, engines, gsl, states, verdicts, Part
<1>2. CASE rejection_notified
  BY <1>1, <1>2, SaidPower DEF Reject
<1>3. CASE ~rejection_notified
  <2>1. /\ todo[t] # <<>> /\ Arg(t) \in Asks(t) /\ Last(todo[t]) \in Outcome(t)
        /\ Tail(todo[t]) = <<Last(todo[t])>>
    BY <1>1, Polling
  <2>2. /\ t \in Engines /\ t \in Threads /\ t # Gsl /\ Engines \subseteq Threads
        /\ Pollers \subseteq Threads
        /\ Gsl \in Threads
    BY <1>1, <2>1, PollerThreads DEF Asks, Pollers
  <2> DEFINE e == Last(todo[t])
             z == <<<<"rejected">>, e>>
             s == Stage2(config.second \ {t}, "await")
  <2>3. Then(t, s \o <<<<"rejected">>>>) /\ mutex' = t
    BY <1>3 DEF Reject
  <2>4. DOMAIN todo = Threads /\ config \in Configs
    BY Given
  <2>5. <<e>> \in Seq({e}) /\ <<<<"rejected">>>> \o <<e>> = z
    BY Joined2
  <2>6. s \in Seq(Deciding)
    BY <2>4, ListsOfEngines
  <2>7. z \in Seq({<<"rejected">>, e}) /\ z # <<>> /\ Head(z)[1] = "rejected"
    OBVIOUS
  <2>8. e \in Outcomes("done")
    BY <2>1, <2>2 DEF Outcome
  <2> HIDE DEF e, s, z
  <2>9. todo'[t] \in After(Deciding, z)
    BY <2>1, <2>2, <2>3, <2>4, <2>5, <2>6, Pushes DEF e
  <2>10. Rejecting(t)'
    BY <2>8, <2>9 DEF Rejecting, z
  <2>11. todo'[t] # <<>> /\ Head(todo'[t])[1] \notin FreeNames
    <3>1. Deciding \in SUBSET Section /\ "rejected" \in HeldNames
      BY SectionSets DEF HeldNames
    <3> QED
      BY <2>7, <2>9, <3>1, FirstHeld
  <2>12. \A u \in Threads \ {t} : todo'[u] = todo[u]
    BY <2>2, <2>3, <2>4 DEF Then, Goes
  <2>13. Sound /\ Awake
    BY <1>1, FreeSound
  <2>14. NoVote'
    <3>1. Rejects(t) /\ State(Told)
      BY <1>1 DEF Rejects, State, Told
    <3> QED
      BY <1>1, <2>2, <2>13, <3>1 DEF Sound, NoVote, Part
  <2>15. Holding' = Holding
    BY <2>2, <2>12 DEF Holding
  <2>16. Level(1)'
    BY <1>1, <2>13, <2>15, LevelKept DEF Awake, State, Told
  <2>17. HasEngine' /\ State({"BUFFERING"})'
    BY <1>1 DEF PInv, HasEngine, State, Part
  <2>18. Unheard'
    <3> SUFFICES ASSUME ~config.notify, NEW u \in Pollers,
          (At(u, "callback") \/ At(u, "relock"))'
                 PROVE  Arg(u)' = "detected"
      BY DEF Unheard
    <3>1. u # t
      BY <2>11 DEF At, FreeNames
    <3>2. todo'[u] = todo[u]
      BY <2>2, <2>12, <3>1
    <3> QED
      BY <3>2 DEF PInv, Unheard, At, Arg
  <2>19. Holder'
    BY <2>2, <2>3, <2>11 DEF Holder
  <2> QED
    BY <2>2, <2>3, <2>10, <2>14, <2>16, <2>17, <2>18, <2>19 DEF PInv
<1> QED
  BY <1>2, <1>3

(***************************************************************************)
(* A list that restarts the engines has sections for a thread with the     *)
(* mutex.                                                                  *)
(***************************************************************************)
LEMMA RestartsHeld ==
  ASSUME NEW q \in Before(RestartCalls, "restarted", Wakes)
  PROVE  q # <<>> /\ Head(q)[1] \notin FreeNames
<1>1. q # <<>> /\ (Head(q) = <<"restarted">> \/ Head(q) \in RestartCalls)
  BY MarkNext, RestsAreLists
<1>2. \A s \in RestartCalls : s[1] \notin FreeNames
  BY DEF RestartCalls, FreeNames
<1> QED
  BY <1>1, <1>2 DEF FreeNames

(***************************************************************************)
(* The list of an engine that has rejected and restarts recognition.       *)
(***************************************************************************)
LEMMA RenewList ==
  ASSUME config \in Configs, NEW e \in Outcomes("done")
  PROVE  (RestartEngines \o <<<<"restarted">>, <<"unwake">>, <<"unlock">>>>) \o <<e>>
           \in Before(RestartCalls, "restarted", Wakes)
<1> DEFINE a == <<"restarted">>
           b == <<"unwake">>
           c == <<"unlock">>
           q == RestartEngines
           f == q \o <<a, b>>
           U == RestartCalls \cup {a, b, c, e}
<1>1. <<c, e>> \in Laters
  <2>1. c \in Later /\ e \in Later
    BY DEF Later
  <2> QED
    BY <2>1 DEF Laters
<1>2. f \o <<c, e>> \in Before(RestartCalls, "restarted", Wakes)
  BY <1>1, RestartList
<1>3. q \in Seq(U) /\ <<a, b>> \in Seq(U) /\ <<c>> \in Seq(U) /\ <<e>> \in Seq(U)
  <2>1. q \in Seq(RestartCalls)
    BY CallLists2
  <2>2. <<a, b>> \in Seq(U) /\ <<c>> \in Seq(U) /\ <<e>> \in Seq(U)
    OBVIOUS
  <2> HIDE DEF q
  <2> QED
    BY <2>1, <2>2, SeqMonotonic
<1>4. <<a, b>> \o <<c>> = <<a, b, c>>
  <2> HIDE DEF a, b, c
  <2>1. /\ <<a>> \o <<b>> = <<a, b>> /\ <<b>> \o <<c>> = <<b, c>>
        /\ <<a>> \o <<b, c>> = <<a, b, c>>
    BY Joined2, Joined3
  <2>2. <<a>> \in Seq({a, b, c}) /\ <<b>> \in Seq({a, b, c}) /\ <<c>> \in Seq({a, b, c})
    OBVIOUS
  <2>3. (<<a>> \o <<b>>) \o <<c>> = <<a>> \o (<<b>> \o <<c>>)
    <3>1. PICK x \in Seq({a, b, c}), y \in Seq({a, b, c}), z \in Seq({a, b, c}) :
                 x = <<a>> /\ y = <<b>> /\ z = <<c>>
      BY <2>2
    <3>2. Join(Join(x, y), z) = Join(x, Join(y, z))
      BY Joins
    <3> QED
      BY <3>1, <3>2 DEF Join
  <2> QED
    BY <2>1, <2>3
<1>5. <<c>> \o <<e>> = <<c, e>>
  BY Joined2
<1> HIDE DEF U, q, a, b, c
<1>6. (q \o <<a, b>>) \o <<c>> = q \o (<<a, b>> \o <<c>>)
  <2>1. PICK x \in Seq(U), z \in Seq(U) : x = <<a, b>> /\ z = <<c>>
    BY <1>3
  <2>2. Join(Join(q, x), z) = Join(q, Join(x, z))
    BY <1>3, Joins
  <2> QED
    BY <2>1, <2>2 DEF Join
<1>7. f \in Seq(U)
  BY <1>3, ConcatProperties
<1> HIDE DEF f
<1>8. (f \o <<c>>) \o <<e>> = f \o (<<c>> \o <<e>>)
  <2>1. PICK x \in Seq(U), z \in Seq(U) : x = <<c>> /\ z = <<e>>
    BY <1>3
  <2>2. Join(Join(f, x), z) = Join(f, Join(x, z))
    BY <1>7, Joins
  <2> QED
    BY <2>1, <2>2 DEF Join
<1>9. q \o <<a, b, c>> = f \o <<c>>
  BY <1>4, <1>6 DEF f
<1>10. (q \o <<a, b, c>>) \o <<e>> = f \o <<c, e>>
  BY <1>5, <1>8, <1>9
<1> QED
  BY <1>2, <1>10 DEF q, a, b, c

(***************************************************************************)
(* The others are stopped: the client is told, or recognition starts again *)
(* and then the wake lock is given up.                                     *)
(***************************************************************************)
LEMMA RejectedPower ==
  ASSUME IInv, PInv, UNCHANGED config, NEW t \in Pollers, Rejected(t)
  PROVE  PInv'
<1>1. /\ At(t, "rejected") /\ todo[t] # <<>>
      /\ UNCHANGED <<cur_state, wake_lock_cnt, eng_state, force_nlpi_vote>>
  BY DEF Rejected, engines, gsl, At
<1>2. /\ t \in Threads /\ DOMAIN todo = Threads /\ config \in Configs /\ t # None
      /\ Pollers \subseteq Threads
  BY PollerThreads, Given, EnginesAssumption
<1>3. mutex = t /\ Runs(t)
  BY <1>1, <1>2, WhoseTurn, Given DEF At, HeldNames
<1>4. /\ t \in Engines /\ t # Gsl /\ State({"BUFFERING"}) /\ Gsl \in Threads
      /\ \E e \in Outcome(t) : todo[t] = <<<<"rejected">>, e>>
  BY <1>1, <1>3, HeldShapes, PollerThreads DEF At
<1>5. PICK e \in Outcomes("done") : todo[t] = <<<<"rejected">>, e>>
  BY <1>4 DEF Outcome
<1>6. ~Leaving
  BY <1>3, HeldPoller
<1>7. ~Dry(t) /\ ~Wet(t)
  <2>1. Head(todo[t])[1] = "rejected"
    BY <1>5
  <2>2. "rejected" \notin Names
    BY DEF Names, Plain
  <2> QED
    BY <1>1, <2>1, <2>2, DryHead, NotRejected, WetHead
<1>8. NoVote /\ Level(1)
  BY <1>2, <1>3, <1>4, <1>6, <1>7 DEF PInv, DryHeld, WetHeld
<1>9. State({"BUFFERING"})' /\ State(Told)' /\ HasEngine' /\ NoVote'
  BY <1>1, <1>4, <1>8 DEF PInv, HasEngine, State, Told, NoVote
<1>10. CASE config.notify
  <2>1. Notify(t, "rejected")
    BY <1>10 DEF Rejected
  <2>2. mutex' = None /\ Unheard' /\ Holding' = Holding
    BY <1>1, <1>10, <2>1, NotifyPower
  <2>3. Awake'
    BY <1>1, <1>8, <1>9, <2>2, LevelKept DEF Awake
  <2>4. Sound'
    BY <1>10 DEF Sound
  <2> QED
    BY <1>9, <2>2, <2>3, <2>4, FreedPower
<1>11. CASE ~config.notify
  <2> DEFINE q == RestartEngines \o <<<<"restarted">>, <<"unwake">>, <<"unlock">>>>
  <2>1. Then(t, q) /\ mutex' = t
    BY <1>3, <1>11 DEF Rejected
  <2>2. Tail(todo[t]) = <<e>>
    BY <1>5
  <2>3. q \o <<e>> \in Before(RestartCalls, "restarted", Wakes)
    BY <1>2, RenewList
  <2> HIDE DEF q
  <2>4. todo'[t] = q \o <<e>> /\ \A u \in Threads \ {t} : todo'[u] = todo[u]
    BY <1>2, <2>1, <2>2 DEF Then, Goes
  <2>5. todo'[t] # <<>> /\ Head(todo'[t])[1] \notin FreeNames
    BY <2>3, <2>4, RestartsHeld
  <2>6. Wet(t)'
    BY <1>9, <2>3, <2>4 DEF Wet
  <2>7. Holding' = Holding
    BY <1>4, <2>4 DEF Holding
  <2>8. WetHeld(t)'
    BY <1>1, <1>8, <1>9, <2>6, <2>7, LevelKept DEF WetHeld
  <2>9. Unheard'
    <3> SUFFICES ASSUME ~config.notify, NEW u \in Pollers,
          (At(u, "callback") \/ At(u, "relock"))'
                 PROVE  Arg(u)' = "detected"
      BY DEF Unheard
    <3>1. u # t
      BY <2>5 DEF At, FreeNames
    <3>2. todo'[u] = todo[u]
      BY <1>2, <2>4, <3>1
    <3> QED
      BY <3>2 DEF PInv, Unheard, At, Arg
  <2>10. Holder'
    BY <1>2, <2>1, <2>5 DEF Holder
  <2> QED
    BY <1>2, <1>4, <1>9, <2>1, <2>8, <2>9, <2>10 DEF PInv
<1> QED
  BY <1>10, <1>11


------------------------------------------------------------------------------
------------------------------------------------------------------------------
(***************************************************************************)
(* While the engines' threads rest nothing is told, taken or rejected.     *)
(***************************************************************************)
LEMMA PollersRest ==
  ASSUME PInv, UNCHANGED config, \A u \in Pollers : todo'[u] = todo[u]
  PROVE  Unheard' /\ Holding' = Holding /\ \A k \in Engines : Rejects(k)' => Rejects(k)
<1>1. Gsl \in Pollers /\ Engines \subseteq Pollers
  BY PollerThreads
<1>2. Holding' = Holding
  BY <1>1 DEF Holding
<1>3. Unheard'
  BY DEF PInv, Unheard, At, Arg
<1>4. \A k \in Engines : Rejects(k)' => Rejects(k)
  BY <1>1 DEF Rejects, At, Arg
<1> QED
  BY <1>2, <1>3, <1>4

(***************************************************************************)
(* A call that enters has only sections that may come later, and one at    *)
(* least.                                                                  *)
(***************************************************************************)
LEMMA EnterLater ==
  ASSUME IInv, NEW t \in Callers, Enter(t)
  PROVE  todo'[t] \in Laters /\ todo'[t] # <<>> /\ Head(todo'[t])[1] \notin FreeNames
<1>1. /\ At(t, "enter") /\ Planned /\ DOMAIN todo = Threads /\ currentState \in CallStates
      /\ pending_stop \in BOOLEAN
  BY DEF Enter, IInv, Kept, Types
<1> DEFINE op == Arg(t)
           l == Leave(op)
           Good == {q \in Laters : q # <<>> /\ Head(q)[1] \notin FreeNames}
<1>2. op \in AllOps
  <2>1. op \in Ops(t)
    BY <1>1, Entering
  <2> QED
    BY <2>1 DEF Ops, AllOps
<1>3. l \in Leaves(AllOps) /\ l[1] = "leave"
  BY <1>1, <1>2, LeaveIs DEF Leave
<1>4. /\ op = "lateStop" => todo'[t] = IF pending_stop THEN <<<<"handle", "stop">>,
           l>> ELSE <<l>>
      /\ op = "stopBuffering" => todo'[t] \in {<<<<"handle", "stop">>, l>>, <<l>>}
      /\ op = "concurrent" => todo'[t] = <<<<"handle", op>>, <<"handle", "concurrentEnd">>, l>>
      /\ op = "disconnect" => todo'[t] = <<<<"handle", op>>, <<"handle", "connect">>, l>>
      /\ op \notin {"lateStop", "stopBuffering", "concurrent", "disconnect"}
           => todo'[t] = <<<<"handle", op>>, l>>
  BY <1>1, EnterLists
<1> HIDE DEF op, l
<1>5. l \in Later /\ \A e \in Events : <<"handle", e>> \in Later
  BY <1>3 DEF Later
<1>6. "leave" \notin FreeNames /\ "handle" \notin FreeNames
  BY DEF FreeNames
<1>7. <<l>> \in Good
  BY <1>3, <1>5, <1>6 DEF Laters
<1>8. ASSUME NEW e \in Events PROVE <<<<"handle", e>>, l>> \in Good
  <2> DEFINE h == <<"handle", e>>
  <2>1. h \in Later /\ h[1] = "handle"
    BY <1>5
  <2> HIDE DEF h
  <2>2. <<h, l>> \in Seq(Later) /\ <<h, l>> # <<>> /\ Head(<<h, l>>) = h
    BY <1>5, <2>1
  <2> QED
    BY <1>6, <2>1, <2>2 DEF Laters, h
<1>9. ASSUME NEW e \in Events, NEW f \in Events
      PROVE  <<<<"handle", e>>, <<"handle", f>>, l>> \in Good
  <2> DEFINE h == <<"handle", e>>
             i == <<"handle", f>>
  <2>1. h \in Later /\ h[1] = "handle" /\ i \in Later
    BY <1>5
  <2> HIDE DEF h, i
  <2>2. <<h, i, l>> \in Seq(Later) /\ <<h, i, l>> # <<>> /\ Head(<<h, i, l>>) = h
    BY <1>5, <2>1
  <2> QED
    BY <1>6, <2>1, <2>2 DEF Laters, h, i
<1>10. op \notin {"lateStop", "stopBuffering"} => op \in Events
  BY <1>2 DEF AllOps, ClientOps, ServerOps, Events
<1>11. {"stop", "concurrentEnd", "connect"} \subseteq Events
  BY DEF Events
<1> HIDE DEF Good
<1>12. ASSUME op = "lateStop" PROVE todo'[t] \in Good
  BY <1>4, <1>7, <1>8, <1>11, <1>12
<1>13. ASSUME op = "stopBuffering" PROVE todo'[t] \in Good
  BY <1>4, <1>7, <1>8, <1>11, <1>13
<1>14. ASSUME op = "concurrent" PROVE todo'[t] \in Good
  BY <1>4, <1>9, <1>10, <1>11, <1>14
<1>15. ASSUME op = "disconnect" PROVE todo'[t] \in Good
  BY <1>4, <1>9, <1>10, <1>11, <1>15
<1>16. ASSUME op \notin {"lateStop", "stopBuffering", "concurrent", "disconnect"}
       PROVE  todo'[t] \in Good
  BY <1>4, <1>8, <1>10, <1>16
<1>17. todo'[t] \in Good
  BY <1>12, <1>13, <1>14, <1>15, <1>16
<1> QED
  BY <1>17 DEF Good

(***************************************************************************)
(* A call takes the mutex.                                                 *)
(***************************************************************************)
LEMMA EnterPower ==
  ASSUME IInv, PInv, UNCHANGED config, NEW t \in Callers, Enter(t)
  PROVE  PInv'
<1>1. mutex = None /\ mutex' = t /\ UNCHANGED <<Part, wake_lock_cnt, eng_state>>
  BY DEF Enter, engines, gsl, Part
<1>2. /\ t \in Threads \ {Gsl} /\ t \notin Pollers /\ DOMAIN todo = Threads
      /\ Pollers \subseteq Threads
  BY PollerThreads, Given
<1>3. \A u \in Threads \ {t} : todo'[u] = todo[u]
  BY <1>2 DEF Enter, Goes
<1>4. Unheard' /\ Holding' = Holding /\ \A k \in Engines : Rejects(k)' => Rejects(k)
  BY <1>2, <1>3, PollersRest
<1>5. Sound /\ Awake
  BY <1>1, FreeSound
<1>6. Sound'
  BY <1>1, <1>4, <1>5, SoundKept DEF Part
<1>7. Awake'
  BY <1>1, <1>4, <1>5, LevelKept DEF Awake, State, Part
<1>8. HasEngine'
  BY <1>1 DEF PInv, HasEngine, State, Part
<1>9. todo'[t] \in Laters /\ todo'[t] # <<>> /\ Head(todo'[t])[1] \notin FreeNames
  BY EnterLater
<1>10. Holder'
  BY <1>1, <1>2, <1>9 DEF Holder
<1>11. DryHeld(t)'
  BY <1>6, <1>7, <1>9 DEF DryHeld, Dry
<1> QED
  BY <1>1, <1>2, <1>4, <1>8, <1>10, <1>11 DEF PInv

(***************************************************************************)
(* A thread with the mutex that is no engine's, and is about to return or  *)
(* to wait for the timer, owes nothing.                                    *)
(***************************************************************************)
LEMMA CallerSound ==
  ASSUME PInv, NEW t \in Callers, mutex = t, todo[t] # <<>>,
         Head(todo[t])[1] \in {"leave", "joinTimer"}
  PROVE  Sound /\ Awake
<1>1. t \in Threads /\ t # Gsl /\ t \notin Engines /\ t # None
  BY PollerThreads, EnginesAssumption
<1>2. ~Wet(t)
  BY WetHead DEF Names, Plain
<1> QED
  BY <1>1, <1>2 DEF PInv, DryHeld, WetHeld

(***************************************************************************)
(* A call returns.                                                         *)
(***************************************************************************)
LEMMA ReturnPower ==
  ASSUME IInv, PInv, UNCHANGED config, NEW t \in Callers, Return(t)
  PROVE  PInv'
<1>1. At(t, "leave") /\ mutex' = None /\ UNCHANGED <<Part, wake_lock_cnt, eng_state>>
  BY DEF Return, engines, gsl, verdicts, Part
<1>2. /\ t \in Threads \ {Gsl} /\ t \notin Pollers /\ DOMAIN todo = Threads
      /\ Pollers \subseteq Threads
  BY PollerThreads, Given
<1>3. \A u \in Threads \ {t} : todo'[u] = todo[u]
  BY <1>2 DEF Return, Goes
<1>4. Unheard' /\ Holding' = Holding /\ \A k \in Engines : Rejects(k)' => Rejects(k)
  BY <1>2, <1>3, PollersRest
<1>5. mutex = t
  BY <1>1, ReturnLists, Given
<1>6. Sound /\ Awake
  BY <1>1, <1>5, CallerSound DEF At
<1>7. Sound'
  BY <1>1, <1>4, <1>6, SoundKept DEF Part
<1>8. Awake'
  BY <1>1, <1>4, <1>6, LevelKept DEF Awake, State, Part
<1>9. HasEngine'
  BY <1>1 DEF PInv, HasEngine, State, Part
<1> QED
  BY <1>1, <1>4, <1>7, <1>8, <1>9, FreedPower

(***************************************************************************)
(* The destructor begins to wait for the timer,                            *)
(***************************************************************************)
LEMMA DestroyPower ==
  ASSUME IInv, PInv, UNCHANGED config, Destroy
  PROVE  PInv'
<1>1. /\ mutex = None /\ mutex' = Client /\ Goes(Client, <<<<"joinTimer">>>>)
      /\ UNCHANGED <<Part, wake_lock_cnt, eng_state>>
  BY DEF Destroy, engines, gsl, states, verdicts, Part
<1>2. /\ Client \in Threads /\ Client \notin Pollers /\ DOMAIN todo = Threads
      /\ Pollers \subseteq Threads
  BY PollerThreads, Given DEF Threads
<1>3. todo'[Client] = <<<<"joinTimer">>>> /\ \A u \in Threads \ {Client} : todo'[u] = todo[u]
  BY <1>1, <1>2 DEF Goes
<1>4. Unheard' /\ Holding' = Holding /\ \A k \in Engines : Rejects(k)' => Rejects(k)
  BY <1>2, <1>3, PollersRest
<1>5. Sound /\ Awake
  BY <1>1, FreeSound
<1>6. Sound'
  BY <1>1, <1>4, <1>5, SoundKept DEF Part
<1>7. Awake'
  BY <1>1, <1>4, <1>5, LevelKept DEF Awake, State, Part
<1>8. HasEngine'
  BY <1>1 DEF PInv, HasEngine, State, Part
<1>9. Leaving'
  BY <1>3 DEF Leaving
<1>10. Holder'
  BY <1>1, <1>2, <1>3 DEF Holder, FreeNames
<1> QED
  BY <1>4, <1>6, <1>7, <1>8, <1>9, <1>10 DEF PInv

(***************************************************************************)
(* and ends: the old engine gives up its wake lock, which is the stream's  *)
(* when it was told of a detection.                                        *)
(***************************************************************************)
LEMMA DestroyedPower ==
  ASSUME IInv, PInv, UNCHANGED config, Destroyed
  PROVE  PInv'
<1>1. /\ At(Client, "joinTimer") /\ mutex' = None /\ force_nlpi_vote' = FALSE
      /\ wake_lock_cnt' = AfterOld /\ cur_state' \in {"IDLE", "SSR"}
      /\ todo' = [todo EXCEPT ![Client] = <<>>, ![Timer] = <<>>]
      /\ todo[Gsl] = <<>>
  BY DEF Destroyed, Born
<1>2. /\ Client \in Threads /\ Client \in Callers /\ DOMAIN todo = Threads
      /\ Pollers \subseteq Threads
      /\ Client \notin Pollers /\ Timer \notin Pollers
  BY PollerThreads, Given DEF Callers
<1>3. \A u \in Pollers : todo'[u] = todo[u]
  BY <1>1, <1>2
<1>4. Unheard' /\ Holding' = Holding
  BY <1>3, PollersRest
<1>5. mutex = Client
  BY <1>1, <1>2, WhoseTurn, Given DEF At, HeldNames
<1>6. Sound /\ Awake
  BY <1>1, <1>2, <1>5, CallerSound DEF At
<1>7. ~State(Told)' /\ HasEngine'
  BY <1>1 DEF State, Told, HasEngine
<1>8. Sound'
  BY <1>1, <1>7, SoundOff DEF NoVote
<1>9. Level(0)'
  <2>1. Holding = 0
    BY <1>1 DEF Holding
  <2>2. CASE State(Told)
    <3>1. eng_state # "NONE"
      BY <2>2 DEF PInv, HasEngine, State, Told
    <3>2. wake_lock_cnt' = Less(wake_lock_cnt) /\ Level(1)
      BY <1>1, <1>6, <2>2, <3>1 DEF AfterOld, Awake
    <3> QED
      BY <1>4, <2>1, <3>2 DEF Level, Less
  <2>3. CASE ~State(Told)
    <3>1. Level(0) /\ wake_lock_cnt' \in {wake_lock_cnt, Less(wake_lock_cnt)}
      BY <1>1, <1>6, <2>3 DEF AfterOld, Awake
    <3> QED
      BY <1>4, <2>1, <3>1 DEF Level, Less
  <2> QED
    BY <2>2, <2>3
<1>10. Awake'
  BY <1>7, <1>9 DEF Awake
<1> QED
  BY <1>1, <1>4, <1>7, <1>8, <1>10, FreedPower

(***************************************************************************)
(* The client reads sound, and the sleep monitor's vote is cast.           *)
(***************************************************************************)
LEMMA ReadPower ==
  ASSUME IInv, PInv, UNCHANGED config, Read
  PROVE  PInv'
<1>1. /\ mutex = None /\ mutex' = None /\ State({"BUFFERING"}) /\ ~second_stage_processing
      /\ todo' = Disarmed(todo)
      /\ UNCHANGED <<cur_state, second_stage_processing, wake_lock_cnt, eng_state>>
  BY DEF Read, engines, gsl, states, verdicts, locks
<1>2. DOMAIN todo = Threads /\ Pollers \subseteq Threads /\ Timer \notin Pollers
  BY PollerThreads, Given, ThreadsAssumption DEF Pollers
<1>3. \A u \in Pollers : todo'[u] = todo[u]
  BY <1>1, <1>2 DEF Disarmed
<1>4. Unheard' /\ Holding' = Holding /\ \A k \in Engines : Rejects(k)' => Rejects(k)
  BY <1>3, PollersRest
<1>5. Sound /\ Awake
  BY <1>1, FreeSound
<1>6. Sound'
  BY <1>1, <1>4, <1>5 DEF Sound, State
<1>7. Awake'
  BY <1>1, <1>4, <1>5, LevelKept DEF Awake, State
<1>8. HasEngine'
  BY <1>1 DEF PInv, HasEngine, State
<1> QED
  BY <1>1, <1>4, <1>6, <1>7, <1>8, FreedPower


------------------------------------------------------------------------------
------------------------------------------------------------------------------
(***************************************************************************)
(* The invariant holds at first,                                           *)
(***************************************************************************)
LEMMA InitPower ==
  ASSUME Init
  PROVE  PInv
<1>1. /\ todo = [t \in Threads |-> <<>>] /\ wake_lock_cnt = 0 /\ mutex = None
      /\ cur_state = "IDLE"
      /\ force_nlpi_vote = FALSE
  BY DEF Init, InitEngines
<1>2. \A t \in Threads : todo[t] = <<>> /\ t # None
  BY <1>1, EnginesAssumption
<1>3. Holder
  BY <1>1, <1>2 DEF Holder
<1>4. Unheard
  BY <1>2, PollerThreads DEF Unheard, At
<1>5. HasEngine /\ Sound
  BY <1>1 DEF HasEngine, Sound, State, Told
<1>6. Awake
  <2>1. Holding = 0
    BY <1>2, PollerThreads DEF Holding
  <2> QED
    BY <1>1, <2>1 DEF Awake, Level, State, Told
<1> QED
  BY <1>1, <1>3, <1>4, <1>5, <1>6 DEF PInv

(***************************************************************************)
(* and after every step.                                                   *)
(***************************************************************************)
LEMMA NextPower ==
  ASSUME IInv, PInv, [Next]_vars, "detection" \notin Overlap
  PROVE  PInv'
<1>1. CASE UNCHANGED vars
  BY <1>1, StutterPower
<1>2. CASE Next
  <2>1. UNCHANGED config
    BY <1>2 DEF Next
  <2>2. ASSUME NEW t \in Threads, Works(t) PROVE PInv'
    <3>1. CASE t = Gsl
      BY <2>1, <2>2, <3>1, EngagesPower
    <3>2. CASE t # Gsl
      BY <2>1, <2>2, <3>2, WorksPower
    <3> QED
      BY <3>1, <3>2
  <2>3. ASSUME NEW t \in Pollers, Engine(t) PROVE PInv'
    <3>1. t \in Threads
      BY PollerThreads
    <3>2. CASE (EngineCall(t) /\ UNCHANGED stream) \/ Handling(t)
      BY <2>2, <3>1, <3>2 DEF Works
    <3>3. CASE Detection(t)
      <4>1. CASE Ignored(t)
        BY <2>1, <4>1, IgnoredPower
      <4>2. CASE FirstStageOnly(t)
        BY <2>1, <4>2, FirstStageOnlyPower
      <4>3. CASE FirstStageDetected(t)
        BY <2>1, <4>3, FirstStageDetectedPower
      <4>4. CASE Unlock(t)
        BY <2>1, <4>4, UnlockPower
      <4>5. CASE Accept(t)
        BY <2>1, <4>5, AcceptPower
      <4>6. CASE Reject(t)
        BY <2>1, <4>6, RejectPower
      <4>7. CASE Rejected(t)
        BY <2>1, <4>7, RejectedPower
      <4>8. CASE Callback(t) \/ Relock(t)
        BY <2>1, <4>8, CallbackPower
      <4> QED
        BY <3>3, <4>1, <4>2, <4>3, <4>4, <4>5, <4>6, <4>7, <4>8 DEF Detection
    <3>4. CASE t = Gsl /\ FirstStage /\ UNCHANGED stream
      BY <2>1, <3>4, FirstStagePower
    <3>5. CASE t \in Engines /\ SecondStage(t) /\ UNCHANGED stream
      BY <2>1, <3>5, SecondStagePower
    <3> QED
      BY <2>3, <3>2, <3>3, <3>4, <3>5 DEF Engine
  <2>4. ASSUME NEW t \in Callers, Caller(t) PROVE PInv'
    <3>1. t \in Threads
      BY PollerThreads
    <3>2. CASE (EngineCall(t) /\ UNCHANGED stream) \/ Handling(t)
      BY <2>2, <3>1, <3>2 DEF Works
    <3>3. CASE Enter(t)
      BY <2>1, <3>3, EnterPower
    <3>4. CASE Return(t)
      BY <2>1, <3>4, ReturnPower
    <3>5. CASE Destroy \/ Destroyed
      BY <2>1, <3>5, DestroyPower, DestroyedPower
    <3>6. CASE Arm \/ Wake
      BY <2>1, <3>6, TimerPower
    <3> QED
      BY <2>4, <3>2, <3>3, <3>4, <3>5, <3>6 DEF Caller
  <2>5. CASE Outside
    <3>1. ASSUME NEW op \in {"load", "config", "start", "stop", "stopBuffering", "unload"},
                 Call(op)
          PROVE  PInv'
      BY <2>1, <3>1, CallPower
    <3>2. ASSUME NEW r \in Requests, Request(r) PROVE PInv'
      BY <2>1, <3>2, RequestPower
    <3>3. CASE Read
      BY <2>1, <3>3, ReadPower
    <3>4. CASE Detect /\ UNCHANGED stream
      BY <2>1, <3>4, DetectPower
    <3> QED
      BY <2>5, <3>1, <3>2, <3>3, <3>4 DEF Outside
  <2> QED
    BY <1>2, <2>3, <2>4, <2>5 DEF Next
<1> QED
  BY <1>1, <1>2

(***************************************************************************)
(* When no call is in progress the count is that of who holds a wake lock. *)
(***************************************************************************)
LEMMA Counted ==
  ASSUME PInv
  PROVE  PowerExact
<1> DEFINE Holders == {x \in {"engine", "stream"} :
                         IF x = "engine" THEN todo[Gsl] # <<>> ELSE State(Told)}
<1>1. SUFFICES ASSUME Quiet, ~config.notify
               PROVE  /\ wake_lock_cnt = Cardinality(Holders)
                      /\ force_nlpi_vote => State({"BUFFERING"})
  BY DEF PowerExact
<1> HIDE DEF Holders
<1>2. Sound /\ Awake
  BY <1>1, FreeSound DEF Quiet
<1>3. force_nlpi_vote => State({"BUFFERING"})
  BY <1>1, <1>2 DEF Sound
<1>4. /\ Cardinality({}) = 0 /\ Cardinality({"engine"}) = 1 /\ Cardinality({"stream"}) = 1
      /\ Cardinality({"engine", "stream"}) = 2
  <2>1. Cardinality({}) = 0 /\ IsFiniteSet({"engine"}) /\ Cardinality({"engine"}) = 1
        /\ Cardinality({"stream"}) = 1
    BY FS_EmptySet, FS_Singleton
  <2>2. Cardinality({"engine"} \cup {"stream"}) = 2
    BY <2>1, FS_AddElement
  <2>3. {"engine"} \cup {"stream"} = {"engine", "stream"}
    OBVIOUS
  <2> QED
    BY <2>1, <2>2, <2>3
<1>5. Holding = IF todo[Gsl] = <<>> THEN 0 ELSE 1
  BY DEF Holding
<1>6. CASE State(Told)
  <2>1. wake_lock_cnt = Holding + 1
    BY <1>1, <1>2, <1>6 DEF Awake, Level
  <2>2. CASE todo[Gsl] = <<>>
    <3>1. Holders = {"stream"}
      BY <1>6, <2>2 DEF Holders
    <3> QED
      BY <1>3, <1>4, <1>5, <2>1, <2>2, <3>1
  <2>3. CASE todo[Gsl] # <<>>
    <3>1. Holders = {"engine", "stream"}
      BY <1>6, <2>3 DEF Holders
    <3> QED
      BY <1>3, <1>4, <1>5, <2>1, <2>3, <3>1
  <2> QED
    BY <2>2, <2>3
<1>7. CASE ~State(Told)
  <2>1. wake_lock_cnt = Holding
    BY <1>1, <1>2, <1>5, <1>7 DEF Awake, Level
  <2>2. CASE todo[Gsl] = <<>>
    <3>1. Holders = {}
      BY <1>7, <2>2 DEF Holders
    <3> QED
      BY <1>3, <1>4, <1>5, <2>1, <2>2, <3>1
  <2>3. CASE todo[Gsl] # <<>>
    <3>1. Holders = {"engine"}
      BY <1>7, <2>3 DEF Holders
    <3> QED
      BY <1>3, <1>4, <1>5, <2>1, <2>3, <3>1
  <2> QED
    BY <2>2, <2>3
<1> QED
  BY <1>6, <1>7

(***************************************************************************)
(* Every reachable state of a sound trigger stream satisfies the invariant *)
(* on the wake locks, when no call comes between the verdicts of two       *)
(* engines and no detection while the last one is handled.                 *)
(***************************************************************************)
THEOREM PowerInvariant ==
  ASSUME "verdict" \notin Overlap, "detection" \notin Overlap
  PROVE  Spec => [](IInv /\ PInv)
<1>1. Init => IInv /\ PInv
  BY InitInv, InitPower
<1>2. IInv /\ PInv /\ [Next]_vars => (IInv /\ PInv)'
  BY NextInv, NextPower
<1> QED
  BY <1>1, <1>2, PTL DEF Spec

(***************************************************************************)
(* Whenever no call is in progress, suspend is held off once for the first *)
(* stage's thread while it handles a detection of the DSP and once for the *)
(* stream from when it is told of the detection until its client starts or *)
(* stops it, or the deferred stop does, and by nothing else; and the sleep *)
(* monitor's vote lasts only while there is sound to read. So it is for    *)
(* every number of second stage engines, every failing session call and    *)
(* every request of ResourceManager, for a client that does not hear of    *)
(* rejections.                                                             *)
(***************************************************************************)
THEOREM PowerIsExact ==
  ASSUME "verdict" \notin Overlap, "detection" \notin Overlap
  PROVE  Spec => []PowerExact
<1>1. Spec => [](IInv /\ PInv)
  BY PowerInvariant
<1>2. IInv /\ PInv => PowerExact
  BY Counted
<1> QED
  BY <1>1, <1>2, PTL
==============================================================================
