------------------------- MODULE SoundTriggerVerdicts -------------------------
(***************************************************************************)
(* The verdicts of second stage engines. After the first stage's detection *)
(* each engine decides on its own thread, and the client is told when all  *)
(* have accepted; the stream keeps the verdicts in detection_state, and    *)
(* drops them when one rejects or when the stream is stopped or starts     *)
(* again. The inductive invariant says that while the stream is buffering, *)
(* and nobody is about to end the detection, every engine without a        *)
(* verdict still decides (Undecided), so that the verdicts kept are always *)
(* those of the current detection (Settled).                               *)
(***************************************************************************)
EXTENDS SoundTriggerProofs

(***************************************************************************)
(* A client that hears of rejections has at most one second stage engine.  *)
(* With two, a rejection empties detection_state while the verdict of the  *)
(* other engine may still come, in a stream that goes on buffering.        *)
(***************************************************************************)
DecidesAlone == \A c \in Configs : c.notify => \A j \in c.second : \A k \in c.second : j = k

(***************************************************************************)
(* With these sections a thread ends the detection: the stream leaves      *)
(* BUFFERING, or its verdicts are dropped.                                 *)
(***************************************************************************)
Out == {"halted", "restarted", "rejected"}

(***************************************************************************)
(* What may be left before that one: sections that no other thread of the  *)
(* stream runs between.                                                    *)
(***************************************************************************)
Work == Out \cup {"exit", "gslStop", "gslClose", "gslRestart", "restartFails", "unwake",
                  "quit", "await", "join"}

(***************************************************************************)
(* A list that ends the detection before anything else;                    *)
(***************************************************************************)
Busy(q) == \E i \in 1..Len(q) : q[i][1] \in Out /\ \A j \in 1..i : q[j][1] \in Work

(***************************************************************************)
(* and one that asks no second stage engine to leave its loop.             *)
(***************************************************************************)
NoQuit(q) == \A i \in 1..Len(q) : q[i][1] # "quit"

(***************************************************************************)
(* A list that ends the detection begins with work,                        *)
(***************************************************************************)
LEMMA BusyHead ==
  ASSUME NEW q, Busy(q)
  PROVE  q # <<>> /\ Head(q)[1] \in Work
<1>1. PICK i \in 1..Len(q) : q[i][1] \in Out /\ \A j \in 1..i : q[j][1] \in Work
  BY DEF Busy
<1>2. q # <<>>
  BY <1>1
<1>3. i \in Int /\ 1 <= i
  BY <1>1
<1>4. 1 \in 1..i
  BY <1>3
<1>5. Head(q) = q[1]
  OBVIOUS
<1> QED
  BY <1>1, <1>2, <1>4, <1>5

(***************************************************************************)
(* is one still when that section is done,                                 *)
(***************************************************************************)
LEMMA BusyTail ==
  ASSUME NEW S, NEW q \in Seq(S), Busy(q), Head(q)[1] \notin Out
  PROVE  Busy(Tail(q))
<1>1. PICK i \in 1..Len(q) : q[i][1] \in Out /\ \A j \in 1..i : q[j][1] \in Work
  BY DEF Busy
<1>2. q # <<>>
  BY BusyHead
<1>3. /\ Head(q) = q[1] /\ Len(q) \in Nat /\ Len(Tail(q)) = Len(q) - 1
      /\ \A j \in 1..Len(Tail(q)) : Tail(q)[j] = q[j + 1]
  BY <1>2, HeadTailProperties
<1>4. i # 1
  BY <1>1, <1>3
<1>5. i - 1 \in 1..Len(Tail(q)) /\ Tail(q)[i - 1] = q[i]
  BY <1>1, <1>3, <1>4
<1>6. \A j \in 1..(i - 1) : j \in 1..Len(Tail(q)) /\ j + 1 \in 1..i /\ Tail(q)[j] = q[j + 1]
  BY <1>1, <1>3, <1>4
<1> QED
  BY <1>1, <1>5, <1>6 DEF Busy

(***************************************************************************)
(* when more work is put in front of it,                                   *)
(***************************************************************************)
LEMMA BusyFront ==
  ASSUME NEW S, NEW T, NEW m \in Seq(S), NEW r \in Seq(T), \A s \in S : s[1] \in Work, Busy(r)
  PROVE  Busy(m \o r)
<1>1. PICK i \in 1..Len(r) : r[i][1] \in Out /\ \A j \in 1..i : r[j][1] \in Work
  BY DEF Busy
<1>2. m \in Seq(S \cup T) /\ r \in Seq(S \cup T)
  BY SeqMonotonic
<1>3. /\ Len(m \o r) = Len(m) + Len(r)
      /\ \A j \in 1..(Len(m) + Len(r)) :
           (m \o r)[j] = IF j <= Len(m) THEN m[j] ELSE r[j - Len(m)]
  BY <1>2, ConcatProperties
<1>4. Len(m) \in Nat /\ Len(r) \in Nat /\ \A j \in 1..Len(m) : m[j] \in S
  BY LenProperties, ElementOfSeq
<1>5. i + Len(m) \in 1..Len(m \o r) /\ (m \o r)[i + Len(m)] = r[i]
  BY <1>1, <1>3, <1>4
<1>6. ASSUME NEW j \in 1..(i + Len(m)) PROVE (m \o r)[j][1] \in Work
  <2>1. CASE j <= Len(m)
    BY <1>1, <1>3, <1>4, <2>1
  <2>2. CASE ~(j <= Len(m))
    <3>1. j - Len(m) \in 1..i /\ (m \o r)[j] = r[j - Len(m)]
      BY <1>1, <1>3, <1>4, <2>2
    <3> QED
      BY <1>1, <3>1
  <2> QED
    BY <2>1, <2>2
<1> QED
  BY <1>1, <1>5, <1>6 DEF Busy

(***************************************************************************)
(* and when something follows it.                                          *)
(***************************************************************************)
LEMMA BusyBack ==
  ASSUME NEW S, NEW T, NEW q \in Seq(S), NEW r \in Seq(T), Busy(q)
  PROVE  Busy(q \o r)
<1>1. PICK i \in 1..Len(q) : q[i][1] \in Out /\ \A j \in 1..i : q[j][1] \in Work
  BY DEF Busy
<1>2. q \in Seq(S \cup T) /\ r \in Seq(S \cup T)
  BY SeqMonotonic
<1>3. /\ Len(q \o r) = Len(q) + Len(r)
      /\ \A j \in 1..(Len(q) + Len(r)) :
           (q \o r)[j] = IF j <= Len(q) THEN q[j] ELSE r[j - Len(q)]
  BY <1>2, ConcatProperties
<1>4. Len(q) \in Nat /\ Len(r) \in Nat
  BY LenProperties
<1>5. i \in 1..Len(q \o r) /\ \A j \in 1..i : (q \o r)[j] = q[j]
  BY <1>1, <1>3, <1>4
<1>6. i \in 1..i
  BY <1>1, <1>4
<1> QED
  BY <1>1, <1>5, <1>6 DEF Busy

(***************************************************************************)
(* A section that ends the detection may be the first.                     *)
(***************************************************************************)
LEMMA BusyOut ==
  ASSUME NEW S, NEW r \in Seq(S), r # <<>>, Head(r)[1] \in Out
  PROVE  Busy(r)
<1>1. Len(r) \in Nat \ {0} /\ Head(r) = r[1]
  BY EmptySeq
<1>2. 1 \in 1..Len(r) /\ \A j \in 1..1 : j = 1
  BY <1>1
<1> QED
  BY <1>1, <1>2 DEF Busy, Work

(***************************************************************************)
(* Without its first section a list asks no more of engines than with it,  *)
(***************************************************************************)
LEMMA NoQuitTail ==
  ASSUME NEW S, NEW q \in Seq(S), q # <<>>, NoQuit(q)
  PROVE  NoQuit(Tail(q)) /\ Head(q)[1] # "quit"
<1>1. /\ Head(q) = q[1] /\ Len(q) \in Nat \ {0} /\ Len(Tail(q)) = Len(q) - 1
      /\ \A j \in 1..Len(Tail(q)) : Tail(q)[j] = q[j + 1]
  BY HeadTailProperties, EmptySeq
<1>2. \A j \in 1..Len(Tail(q)) : j + 1 \in 1..Len(q)
  BY <1>1
<1>3. 1 \in 1..Len(q)
  BY <1>1
<1> QED
  BY <1>1, <1>2, <1>3 DEF NoQuit

(***************************************************************************)
(* nor do two that ask nothing.                                            *)
(***************************************************************************)
LEMMA NoQuitFront ==
  ASSUME NEW S, NEW T, NEW m \in Seq(S), NEW r \in Seq(T), \A s \in S : s[1] # "quit", NoQuit(r)
  PROVE  NoQuit(m \o r)
<1>1. m \in Seq(S \cup T) /\ r \in Seq(S \cup T)
  BY SeqMonotonic
<1>2. /\ Len(m \o r) = Len(m) + Len(r)
      /\ \A j \in 1..(Len(m) + Len(r)) :
           (m \o r)[j] = IF j <= Len(m) THEN m[j] ELSE r[j - Len(m)]
  BY <1>1, ConcatProperties
<1>3. Len(m) \in Nat /\ Len(r) \in Nat /\ \A j \in 1..Len(m) : m[j] \in S
  BY LenProperties, ElementOfSeq
<1>4. ASSUME NEW j \in 1..Len(m \o r) PROVE (m \o r)[j][1] # "quit"
  <2>1. CASE j <= Len(m)
    BY <1>2, <1>3, <2>1
  <2>2. CASE ~(j <= Len(m))
    <3>1. j - Len(m) \in 1..Len(r) /\ (m \o r)[j] = r[j - Len(m)]
      BY <1>2, <1>3, <2>2
    <3> QED
      BY <3>1 DEF NoQuit
  <2> QED
    BY <2>1, <2>2
<1> QED
  BY <1>4 DEF NoQuit

(***************************************************************************)
(* The sections that stop, restart and decide are work.                    *)
(***************************************************************************)
LEMMA WorkSections ==
  /\ \A s \in Ending \cup Renewing \cup Deciding : s[1] \in Work
  /\ Work \cap FreeNames = {} /\ Out \cap Names = {"halted", "restarted"}
BY DEF Ending, Renewing, Deciding, Work, Out, FreeNames, Names, Plain

(***************************************************************************)
(* A thread without the mutex does not end the detection.                  *)
(***************************************************************************)
LEMMA NotBusy ==
  ASSUME NEW t \in Threads, NEW q \in Free(t)
  PROVE  ~Busy(q)
<1>1. ASSUME Busy(q) PROVE FALSE
  <2>1. q # <<>> /\ Head(q)[1] \in Work
    BY <1>1, BusyHead
  <2>2. Head(q)[1] \in FreeNames
    BY <2>1, FreeHeads
  <2> QED
    BY <2>1, <2>2, WorkSections
<1> QED
  BY <1>1

(***************************************************************************)
(* A second stage engine that looks at the sound, or has its verdict;      *)
(***************************************************************************)
Judges(k) == At(k, "run") \/ At(k, "poll")

(***************************************************************************)
(* and one whose verdict still comes: it has not been told to leave its    *)
(* loop, or it is rejecting.                                               *)
(***************************************************************************)
Decides(k) == (At(k, "run") /\ ~capi_exit[k]) \/ At(k, "poll") \/ Rejecting(k)

(***************************************************************************)
(* The verdicts that are kept (detection_state) are some of those given    *)
(* since the detection (accepted), not all; and an engine that gave its    *)
(* verdict does not look at the sound again until it is engaged.           *)
(***************************************************************************)
Settled ==
  /\ processing_started \in [Engines -> BOOLEAN] /\ capi_exit \in [Engines -> BOOLEAN]
  /\ detection_state \subseteq accepted /\ accepted \subseteq config.second
  /\ detection_state = {} \/ detection_state # config.second
  /\ rejection_notified => config.notify
  /\ \A k \in Engines : /\ At(k, "poll") /\ Arg(k) = "success" => k \in accepted
                        /\ todo[k] = <<>> => ~processing_started[k]
                        /\ k \in detection_state => ~Judges(k)

(***************************************************************************)
(* While the first stage's thread has a detection that is not handled yet, *)
(* no second stage engine has anything left of the one before.             *)
(***************************************************************************)
Fresh == At(Gsl, "woken") \/ At(Gsl, "buffer") \/ At(Gsl, "poll") =>
           \A k \in Engines : todo[k] = <<>>

(***************************************************************************)
(* The first stage's thread does not have engine k still to engage.        *)
(***************************************************************************)
Engaged(k) == \A i \in 1..Len(todo[Gsl]) : todo[Gsl][i] # <<"engage", k>>

(***************************************************************************)
(* A thread that has the mutex and runs a section that needs it.           *)
(***************************************************************************)
Holds(t) == mutex = t /\ todo[t] # <<>> /\ Head(todo[t])[1] \notin FreeNames

(***************************************************************************)
(* While the first stage's thread engages the engines, those that it has   *)
(* engaged decide and the others are idle.                                 *)
(***************************************************************************)
Engaging ==
  Holds(Gsl) =>
    /\ State({"BUFFERING"})
    /\ \A k \in config.second : IF Engaged(k) THEN Decides(k) ELSE todo[k] = <<>>
    /\ \A i \in 1..Len(todo[Gsl]) : \A j \in 1..Len(todo[Gsl]) :
         todo[Gsl][i] = todo[Gsl][j] => i = j

(***************************************************************************)
(* The stream is buffering, and whoever has the mutex does not end the     *)
(* detection.                                                              *)
(***************************************************************************)
Open == State({"BUFFERING"}) /\ mutex # Gsl /\ (mutex = None \/ ~Busy(todo[mutex]))

(***************************************************************************)
(* Then every engine without a verdict that is kept decides, once one has  *)
(* judged.                                                                 *)
(***************************************************************************)
Undecided ==
  Open /\ (detection_state # {} \/ \E k \in Engines : Judges(k)) =>
    \A k \in config.second \ detection_state : Decides(k)

(***************************************************************************)
(* Whoever has the mutex while the stream is buffering does not ask an     *)
(* engine to leave its loop unless the detection ends with it.             *)
(***************************************************************************)
Stopping ==
  \A t \in Threads : State({"BUFFERING"}) /\ Holds(t) => NoQuit(todo[t]) \/ Busy(todo[t])

(***************************************************************************)
(* Verdicts are kept only while the stream is buffering.                   *)
(***************************************************************************)
InBuffer == detection_state # {} => State({"BUFFERING"})

(***************************************************************************)
(* The inductive invariant, beside IInv: why the callback that tells of a  *)
(* detection finds all engines' verdicts given.                            *)
(***************************************************************************)
VInv == /\ Settled /\ BothVerdicts /\ Fresh /\ Engaging /\ Undecided /\ Stopping /\ InBuffer
        /\ mutex \in Threads \cup {None}

(***************************************************************************)
(* The first sections that the invariant distinguishes in an engine's      *)
(* list.                                                                   *)
(***************************************************************************)
Dull == {"run", "poll", "callback", "woken", "buffer"}

(***************************************************************************)
(* A step after which no engine judges that did not, that drops the        *)
(* verdicts or keeps them, and that tells nobody.                          *)
(***************************************************************************)
LEMMA SettledKept ==
  ASSUME Settled, BothVerdicts, Fresh, UNCHANGED <<config, accepted>>,
         detection_state' \in {detection_state, {}}, rejection_notified' => rejection_notified,
         processing_started' \in [Engines -> BOOLEAN], capi_exit' \in [Engines -> BOOLEAN],
         \A k \in Engines : processing_started'[k] => processing_started[k],
         \A k \in Pollers :
           \/ todo'[k] = todo[k]
           \/ /\ todo[k] # <<>>
              /\ todo'[k] # <<>> => Head(todo'[k])[1] \notin Dull
              /\ todo'[k] = <<>> /\ k \in Engines => ~processing_started'[k]
  PROVE  Settled' /\ BothVerdicts' /\ Fresh'
<1>1. Engines \subseteq Pollers /\ Gsl \in Pollers
  BY PollerThreads
<1>2. ASSUME NEW k \in Pollers, NEW n \in Dull, At(k, n)'
      PROVE  todo'[k] = todo[k] /\ At(k, n) /\ Arg(k)' = Arg(k)
  BY <1>2 DEF At, Arg
<1>3. Settled'
  <2>1. ASSUME NEW k \in Engines
        PROVE  /\ (At(k, "poll") /\ Arg(k) = "success" => k \in accepted)'
               /\ (todo[k] = <<>> => ~processing_started[k])'
               /\ (k \in detection_state => ~Judges(k))'
    <3>1. At(k, "poll") /\ Arg(k) = "success" => k \in accepted
      BY DEF Settled
    <3>2. todo[k] = <<>> => ~processing_started[k]
      BY DEF Settled
    <3>3. k \in detection_state => ~Judges(k)
      BY DEF Settled
    <3>4. (At(k, "poll") /\ Arg(k) = "success" => k \in accepted)'
      BY <1>1, <1>2, <3>1 DEF Dull
    <3>5. (todo[k] = <<>> => ~processing_started[k])'
      BY <1>1, <3>2
    <3>6. (k \in detection_state => ~Judges(k))'
      BY <1>1, <1>2, <3>3 DEF Dull, Judges
    <3> QED
      BY <3>4, <3>5, <3>6
  <2> QED
    BY <2>1 DEF Settled
<1>4. BothVerdicts'
  BY <1>2 DEF BothVerdicts, Dull
<1>5. Fresh'
  <2>1. ASSUME NEW n \in {"woken", "buffer", "poll"}, At(Gsl, n)'
        PROVE  \A k \in Engines : todo'[k] = <<>>
    <3>1. At(Gsl, n)
      BY <1>1, <1>2, <2>1 DEF Dull
    <3>2. \A k \in Engines : todo[k] = <<>>
      BY <3>1 DEF Fresh
    <3> QED
      BY <1>1, <3>2
  <2> QED
    BY <2>1 DEF Fresh
<1> QED
  BY <1>3, <1>4, <1>5

(***************************************************************************)
(* A step of a thread without the mutex.                                   *)
(***************************************************************************)
LEMMA FreeKept ==
  ASSUME NEW t \in Threads, todo[t] \in Free(t), todo'[t] \in Free(t),
         \A u \in Threads \ {t} : todo'[u] = todo[u], mutex \in Threads \cup {None},
         UNCHANGED <<cur_state, mutex>>
  PROVE  /\ Open' => Open
         /\ Stopping => Stopping'
         /\ Holds(Gsl)' => Holds(Gsl)
<1>1. Gsl \in Threads
  BY DEF Threads
<1>2. ~Holds(t)'
  BY FreeHeads DEF Holds
<1>3. \A u \in Threads : Holds(u)' => u # t /\ Holds(u) /\ todo'[u] = todo[u]
  BY <1>2 DEF Holds
<1>4. Stopping => Stopping'
  BY <1>3 DEF Stopping, State
<1>5. Open' => Open
  <2>1. ~Busy(todo[t])
    BY NotBusy
  <2>2. ASSUME mutex \in Threads \ {t} PROVE todo'[mutex] = todo[mutex]
    BY <2>2
  <2> QED
    BY <2>1, <2>2 DEF Open, State
<1> QED
  BY <1>1, <1>3, <1>4, <1>5

(***************************************************************************)
(* An engine whose list and exit flag stay the same judges and decides as  *)
(* before,                                                                 *)
(***************************************************************************)
LEMMA EnginesSame ==
  ASSUME NEW k \in Engines, todo'[k] = todo[k], capi_exit'[k] = capi_exit[k]
  PROVE  Judges(k)' = Judges(k) /\ Decides(k)' = Decides(k)
BY DEF Judges, Decides, At, Rejecting

(***************************************************************************)
(* and a step that stops no engine from deciding keeps what is undecided.  *)
(***************************************************************************)
LEMMA UndecidedKept ==
  ASSUME Undecided, UNCHANGED <<config, detection_state>>, config.second \subseteq Engines,
         Open' => Open,
         \A k \in Engines : Judges(k)' => Judges(k),
         \A k \in config.second \ detection_state : Open /\ Decides(k) => Decides(k)'
  PROVE  Undecided'
BY DEF Undecided

(***************************************************************************)
(* What the invariant of the deferred stop says of lists and engines.      *)
(***************************************************************************)
LEMMA Given ==
  ASSUME IInv
  PROVE  /\ Planned /\ DOMAIN todo = Threads /\ config \in Configs
         /\ config.second \subseteq Engines /\ detection_state \subseteq config.second
         /\ \A k \in Engines : todo[k] # <<>> => k \in config.second
         /\ \A k \in Engines : Judges(k) => k \in config.second
BY SecondFinite DEF IInv, Kept, Types, EnginesIdle, Judges, At

(***************************************************************************)
(* An engine's thread that gives something up without the mutex, and was   *)
(* not about to decide.                                                    *)
(***************************************************************************)
LEMMA GivesUpFree ==
  ASSUME IInv, VInv, UNCHANGED config, NEW t \in Pollers, todo[t] \in Free(t), todo[t] # <<>>,
         NEW q \in Free(t), Goes(t, q),
         UNCHANGED <<cur_state, mutex, detection_state, rejection_notified, accepted,
           capi_exit>>,
         processing_started' \in [Engines -> BOOLEAN],
         \A k \in Engines : processing_started'[k] => processing_started[k],
         q # <<>> => Head(q)[1] \notin Dull,
         q = <<>> /\ t \in Engines => ~processing_started'[t],
         t \in Engines /\ State({"BUFFERING"}) => ~Decides(t)
  PROVE  VInv'
<1>1. t \in Threads /\ Engines \subseteq Threads /\ Gsl \in Threads /\ Gsl \notin Engines
  BY PollerThreads DEF Pollers
<1>2. todo'[t] = q /\ \A u \in Threads \ {t} : todo'[u] = todo[u]
  BY <1>1, Given DEF Goes
<1>3. capi_exit' \in [Engines -> BOOLEAN]
  BY DEF VInv, Settled
<1>4. \A k \in Pollers : k \in Threads
  BY PollerThreads
<1>5. Settled' /\ BothVerdicts' /\ Fresh'
  BY <1>2, <1>3, <1>4, SettledKept DEF VInv
<1>6. (Open' => Open) /\ Stopping' /\ (Holds(Gsl)' => Holds(Gsl))
  BY <1>1, <1>2, FreeKept DEF VInv
<1>7. \A k \in Engines \ {t} : Judges(k)' = Judges(k) /\ Decides(k)' = Decides(k)
  BY <1>1, <1>2, EnginesSame
<1>8. t \in Engines => ~Judges(t)'
  BY <1>2 DEF Judges, At, Dull
<1>9. Undecided'
  BY <1>6, <1>7, <1>8, Given, UndecidedKept DEF VInv, Open
<1>10. Engaging'
  <2> SUFFICES ASSUME Holds(Gsl)'
               PROVE  /\ State({"BUFFERING"})'
                      /\ \A k \in config.second :
                           IF Engaged(k)' THEN Decides(k)' ELSE todo'[k] = <<>>
                      /\ \A i \in 1..Len(todo'[Gsl]) : \A j \in 1..Len(todo'[Gsl]) :
                           todo'[Gsl][i] = todo'[Gsl][j] => i = j
    BY DEF Engaging
  <2>1. /\ State({"BUFFERING"})
        /\ \A k \in config.second : IF Engaged(k) THEN Decides(k) ELSE todo[k] = <<>>
        /\ \A i \in 1..Len(todo[Gsl]) : \A j \in 1..Len(todo[Gsl]) :
             todo[Gsl][i] = todo[Gsl][j] => i = j
    BY <1>6 DEF VInv, Engaging
  <2>2. t # Gsl
    BY <1>1, <1>2, FreeHeads DEF Holds
  <2>3. todo'[Gsl] = todo[Gsl] /\ t \in Engines
    BY <1>1, <1>2, <2>2 DEF Pollers
  <2>4. t \notin config.second
    BY <2>1, <2>3
  <2>5. \A k \in config.second : Engaged(k)' = Engaged(k) /\ Decides(k)' = Decides(k)
          /\ todo'[k] = todo[k]
    BY <1>1, <1>2, <1>7, <2>3, <2>4, Given DEF Engaged
  <2> QED
    BY <2>1, <2>3, <2>5 DEF State
<1>11. InBuffer' /\ (mutex \in Threads \cup {None})'
  BY DEF VInv, InBuffer, State
<1> QED
  BY <1>5, <1>6, <1>9, <1>10, <1>11 DEF VInv

(***************************************************************************)
(* A thread that does neither of the two, and has no mutex, does not       *)
(* decide.                                                                 *)
(***************************************************************************)
LEMMA NotDeciding ==
  ASSUME NEW k \in Engines, todo[k] \in Free(k), NEW n, At(k, n), n \notin {"run", "poll"}
  PROVE  ~Decides(k)
BY NotFree, PollerThreads DEF At, Decides

(***************************************************************************)
(* A detection that no state can use is given up,                          *)
(***************************************************************************)
LEMMA IgnoredJudges ==
  ASSUME IInv, VInv, UNCHANGED config, NEW t \in Pollers, Ignored(t)
  PROVE  VInv'
<1>1. /\ At(t, "poll") /\ Fail(t) /\ cur_state # Wanted(t)
      /\ UNCHANGED <<cur_state, mutex, detection_state, rejection_notified, accepted, capi_exit,
           processing_started>>
  BY DEF Ignored, engines, capi, stream, states, verdicts, locks
<1>2. /\ todo[t] \in Free(t) /\ todo[t] # <<>> /\ Last(todo[t]) \in Outcome(t)
      /\ Arg(t) \in Asks(t)
  BY <1>1, Polling
<1> DEFINE f == [Last(todo[t]) EXCEPT ![2] = FALSE]
<1>3. f \in Outcome(t)
  BY <1>2, OutcomeOf
<1>4. Goes(t, <<f>>)
  BY <1>1 DEF Fail
<1> HIDE DEF f
<1>5. <<f>> \in Free(t) /\ <<f>> # <<>> /\ Head(<<f>>)[1] \in {"answer", "done"}
  BY <1>3, FreeLists, OutcomeOf
<1>6. t \in Engines => ~State({"BUFFERING"})
  BY <1>1, <1>2, PollerThreads DEF Asks, Wanted, State
<1> QED
  BY <1>1, <1>2, <1>4, <1>5, <1>6, GivesUpFree DEF Dull, VInv, Settled

(***************************************************************************)
(* the client's callback returns, and the rest of notifyClient() runs.     *)
(***************************************************************************)
LEMMA CallbackJudges ==
  ASSUME IInv, VInv, UNCHANGED config, NEW t \in Pollers, Callback(t) \/ Relock(t)
  PROVE  VInv'
<1>1. /\ At(t, "callback") \/ At(t, "relock")
      /\ Then(t, <<>>)
      /\ UNCHANGED <<cur_state, mutex, detection_state, rejection_notified, accepted, capi_exit,
           processing_started>>
  BY DEF Callback, Relock, engines, capi, stream, states, verdicts, locks
<1>2. t \in Threads
  BY PollerThreads
<1> DEFINE n == Head(todo[t])[1]
<1>3. todo[t] # <<>> /\ n \in {"callback", "relock"} /\ todo[t] \in Free(t)
  BY <1>1, <1>2, WhoseTurn, Given DEF At, FreeNames
<1>4. PICK e \in Outcome(t) : \E w \in {"detected", "rejected"} :
         \/ todo[t] = <<<<"callback", w>>, <<"relock", w>>, e>>
         \/ todo[t] = <<<<"relock", w>>, e>>
  BY <1>3, PollerShapes
<1>5. PICK w \in {"detected", "rejected"} :
         \/ todo[t] = <<<<"callback", w>>, <<"relock", w>>, e>>
         \/ todo[t] = <<<<"relock", w>>, e>>
  BY <1>4
<1> DEFINE r == <<<<"relock", w>>, e>>
<1>6. Tail(todo[t]) = r \/ Tail(todo[t]) = <<e>>
  <2>1. Tail(<<<<"callback", w>>, <<"relock", w>>, e>>) = r /\ Tail(r) = <<e>>
    OBVIOUS
  <2> QED
    BY <1>5, <2>1, Zenon
<1>7. r \in Seq({<<"relock", w>>, e}) /\ Head(r)[1] = "relock" /\ r # <<>>
  OBVIOUS
<1>8. <<e>> \in Seq({e})
  OBVIOUS
<1>9. /\ r \in Free(t) /\ <<e>> \in Free(t) /\ <<e>> # <<>>
      /\ Head(<<e>>)[1] \in {"answer", "done"}
  BY FreeLists, OutcomeOf
<1> HIDE DEF r
<1>10. Goes(t, Tail(todo[t]))
  <2>1. <<>> \o r = r /\ <<>> \o <<e>> = <<e>>
    BY <1>7, <1>8, ConcatEmptySeq
  <2> QED
    BY <1>1, <1>6, <2>1 DEF Then
<1>11. Tail(todo[t]) \in Free(t) /\ Tail(todo[t]) # <<>> /\ Head(Tail(todo[t]))[1] \notin Dull
  <2>1. CASE Tail(todo[t]) = r
    BY <1>7, <1>9, <2>1 DEF Dull
  <2>2. CASE Tail(todo[t]) = <<e>>
    BY <1>9, <2>2 DEF Dull
  <2> QED
    BY <1>6, <2>1, <2>2
<1>12. t \in Engines => ~Decides(t)
  BY <1>1, <1>3, NotDeciding
<1> QED
  BY <1>1, <1>3, <1>10, <1>11, <1>12, GivesUpFree DEF VInv, Settled

(***************************************************************************)
(* A second stage engine leaves its loop as it was told to, or comes to    *)
(* its end after its verdict;                                              *)
(***************************************************************************)
LEMMA EndsJudging ==
  ASSUME IInv, VInv, UNCHANGED config, NEW k \in Engines, Interrupted(k) \/ Judged(k),
         UNCHANGED stream
  PROVE  VInv'
<1>1. /\ todo[k] # <<>> /\ Goes(k, <<>>)
      /\ processing_started' = [processing_started EXCEPT ![k] = FALSE]
      /\ UNCHANGED <<cur_state, mutex, detection_state, rejection_notified, accepted,
           capi_exit>>
  BY DEF Interrupted, Judged, At, stream, states, verdicts, locks
<1>2. k \in Pollers /\ k \in Threads
  BY PollerThreads
<1>3. Head(todo[k])[1] \in {"run", "done"}
  BY DEF Interrupted, Judged, At
<1>4. todo[k] \in Free(k)
  BY <1>1, <1>2, <1>3, WhoseTurn, Given DEF FreeNames
<1>5. <<>> \in Free(k)
  BY <1>2, PollerThreads DEF PollerFree
<1>6. ~Decides(k)
  <2>1. CASE Interrupted(k)
    <3>1. At(k, "run") /\ capi_exit[k]
      BY <2>1 DEF Interrupted
    <3> QED
      BY <1>2, <1>4, <3>1, NotFree DEF At, Decides
  <2>2. CASE Judged(k)
    BY <1>4, <2>2, NotDeciding DEF Judged
  <2> QED
    BY <2>1, <2>2
<1>7. /\ processing_started' \in [Engines -> BOOLEAN] /\ ~processing_started'[k]
      /\ \A j \in Engines : processing_started'[j] => processing_started[j]
  BY <1>1 DEF VInv, Settled
<1> QED
  BY <1>1, <1>2, <1>4, <1>5, <1>6, <1>7, GivesUpFree

(***************************************************************************)
(* or it looks at the sound and comes to a verdict,                        *)
(***************************************************************************)
LEMMA JudgeJudges ==
  ASSUME IInv, VInv, UNCHANGED config, NEW k \in Engines, NEW verdict \in {"success", "reject"},
         Judge(k, verdict), UNCHANGED stream
  PROVE  VInv'
<1>1. /\ At(k, "run") /\ Tell(k, verdict)
      /\ accepted' = IF verdict = "success" THEN accepted \cup {k} ELSE accepted
      /\ UNCHANGED <<cur_state, mutex, detection_state, rejection_notified, processing_started>>
  BY DEF Judge, stream, states, verdicts, locks
<1>2. k \in Pollers /\ k \in Threads /\ Engines \subseteq Threads /\ Gsl \in Threads /\ k # Gsl
  BY PollerThreads DEF Pollers
<1>3. todo[k] \in Free(k) /\ todo[k] # <<>>
  BY <1>1, <1>2, WhoseTurn, Given DEF At, FreeNames
<1>4. verdict \in Asks(k)
  BY <1>2 DEF Asks
<1>5. PICK q \in Free(k) : Goes(k, q) /\ Head(q) = <<"poll", verdict>>
  BY <1>1, <1>2, <1>4, TellIs
<1>6. q # <<>>
  <2>1. Tell(k, verdict) => Goes(k, <<<<"poll", verdict>>, <<"done", TRUE>>>>)
    BY <1>2 DEF Tell
  <2>2. todo'[k] = <<<<"poll", verdict>>, <<"done", TRUE>>>> /\ todo'[k] = q
    BY <1>1, <1>2, <1>5, <2>1, Given DEF Goes
  <2> QED
    BY <2>2
<1>7. todo'[k] = q /\ \A u \in Threads \ {k} : todo'[u] = todo[u]
  BY <1>2, <1>5, Given DEF Goes
<1>8. k \in config.second /\ k \notin detection_state
  BY <1>1, <1>3, Given DEF VInv, Settled, Judges
<1>9. At(k, "poll")' /\ Arg(k)' = verdict
  BY <1>5, <1>6, <1>7 DEF At, Arg
<1>10. capi_exit' = [capi_exit EXCEPT ![k] = @ \/ verdict = "success"]
  BY DEF Judge
<1>11. /\ capi_exit' \in [Engines -> BOOLEAN]
       /\ \A j \in Engines \ {k} : capi_exit'[j] = capi_exit[j]
  BY <1>10 DEF VInv, Settled
<1>12. \A j \in Engines \ {k} : Judges(j)' = Judges(j) /\ Decides(j)' = Decides(j)
  BY <1>2, <1>7, <1>11, EnginesSame
<1>13. Decides(k)' /\ Judges(k)' /\ Judges(k)
  BY <1>1, <1>9 DEF Decides, Judges
<1>14. Settled'
  <2>1. accepted \subseteq accepted' /\ accepted' \subseteq config.second
    BY <1>1, <1>8 DEF VInv, Settled
  <2>2. ASSUME NEW j \in Engines
        PROVE  /\ (At(j, "poll") /\ Arg(j) = "success" => j \in accepted)'
               /\ (todo[j] = <<>> => ~processing_started[j])'
               /\ (j \in detection_state => ~Judges(j))'
    <3>1. CASE j = k
      BY <1>1, <1>6, <1>7, <1>8, <1>9, <3>1
    <3>2. CASE j # k
      <4>1. At(j, "poll") /\ Arg(j) = "success" => j \in accepted
        BY DEF VInv, Settled
      <4>2. todo[j] = <<>> => ~processing_started[j]
        BY DEF VInv, Settled
      <4>3. j \in detection_state => ~Judges(j)
        BY DEF VInv, Settled
      <4>4. todo'[j] = todo[j]
        BY <1>2, <1>7, <3>2
      <4>5. At(j, "poll")' = At(j, "poll") /\ Arg(j)' = Arg(j)
        BY <4>4 DEF At, Arg
      <4> QED
        BY <1>1, <1>12, <2>1, <3>2, <4>1, <4>2, <4>3, <4>4, <4>5
    <3> QED
      BY <3>1, <3>2
  <2> QED
    BY <1>1, <1>11, <2>1, <2>2 DEF VInv, Settled
<1>15. BothVerdicts'
  <2> SUFFICES ASSUME NEW t \in Pollers, At(t, "callback")', Arg(t)' = "detected"
               PROVE  accepted' = config.second
    BY DEF BothVerdicts
  <2>1. t # k
    BY <1>9 DEF At
  <2>2. todo'[t] = todo[t]
    BY <1>7, <2>1, PollerThreads
  <2>3. accepted = config.second
    BY <2>2 DEF VInv, BothVerdicts, At, Arg
  <2> QED
    BY <1>1, <1>8, <2>3
<1>16. Fresh'
  <2>1. ~At(Gsl, "woken") /\ ~At(Gsl, "buffer") /\ ~At(Gsl, "poll")
    BY <1>3 DEF VInv, Fresh
  <2> QED
    BY <1>2, <1>7, <2>1 DEF Fresh, At
<1>17. (Open' => Open) /\ Stopping' /\ (Holds(Gsl)' => Holds(Gsl))
  BY <1>1, <1>2, <1>3, <1>7, FreeKept DEF VInv
<1>18. Undecided'
  <2> SUFFICES ASSUME Open', NEW j \in config.second \ detection_state PROVE Decides(j)'
    BY <1>1 DEF Undecided
  <2>1. \A i \in config.second \ detection_state : Decides(i)
    BY <1>13, <1>17 DEF VInv, Undecided
  <2> QED
    BY <1>12, <1>13, <2>1, Given
<1>19. Engaging'
  <2> SUFFICES ASSUME Holds(Gsl)'
               PROVE  /\ State({"BUFFERING"})'
                      /\ \A j \in config.second :
                           IF Engaged(j)' THEN Decides(j)' ELSE todo'[j] = <<>>
                      /\ \A i \in 1..Len(todo'[Gsl]) : \A j \in 1..Len(todo'[Gsl]) :
                           todo'[Gsl][i] = todo'[Gsl][j] => i = j
    BY DEF Engaging
  <2>1. /\ State({"BUFFERING"})
        /\ \A j \in config.second : IF Engaged(j) THEN Decides(j) ELSE todo[j] = <<>>
        /\ \A i \in 1..Len(todo[Gsl]) : \A j \in 1..Len(todo[Gsl]) :
             todo[Gsl][i] = todo[Gsl][j] => i = j
    BY <1>17 DEF VInv, Engaging
  <2>2. todo'[Gsl] = todo[Gsl]
    BY <1>2, <1>7
  <2>3. \A j \in config.second : Engaged(j)' = Engaged(j)
    BY <2>2 DEF Engaged
  <2>4. ASSUME NEW j \in config.second
        PROVE  IF Engaged(j)' THEN Decides(j)' ELSE todo'[j] = <<>>
    <3>1. CASE j = k
      BY <1>3, <1>13, <2>1, <2>3, <3>1
    <3>2. CASE j # k
      <4>1. todo'[j] = todo[j] /\ Decides(j)' = Decides(j)
        BY <1>2, <1>7, <1>12, <3>2, Given
      <4>2. IF Engaged(j) THEN Decides(j) ELSE todo[j] = <<>>
        BY <2>1
      <4> QED
        BY <2>3, <4>1, <4>2
    <3> QED
      BY <3>1, <3>2
  <2> QED
    BY <1>1, <2>1, <2>2, <2>4 DEF State
<1>20. InBuffer' /\ (mutex \in Threads \cup {None})'
  BY <1>1 DEF VInv, InBuffer, State
<1> QED
  BY <1>14, <1>15, <1>16, <1>17, <1>18, <1>19, <1>20 DEF VInv

(***************************************************************************)
(* and that is all it does of its own.                                     *)
(***************************************************************************)
LEMMA SecondStageJudges ==
  ASSUME IInv, VInv, UNCHANGED config, NEW k \in Engines, SecondStage(k), UNCHANGED stream
  PROVE  VInv'
BY EndsJudging, JudgeJudges DEF SecondStage

(***************************************************************************)
(* A step that touches neither lists nor verdicts.                         *)
(***************************************************************************)
LEMMA NothingJudged ==
  ASSUME VInv, UNCHANGED <<config, todo, cur_state, mutex, detection_state, rejection_notified,
                           accepted, processing_started, capi_exit>>
  PROVE  VInv'
<1>1. \A k \in Engines : Judges(k)' = Judges(k) /\ Decides(k)' = Decides(k)
  BY EnginesSame
<1>2. /\ Open' = Open /\ Holds(Gsl)' = Holds(Gsl) /\ \A k : Engaged(k)' = Engaged(k)
      /\ \A k, n : At(k, n)' = At(k, n) /\ Arg(k)' = Arg(k)
      /\ \A t : Holds(t)' = Holds(t)
  BY DEF Open, Holds, Engaged, At, Arg, State
<1>3. /\ \A k : Judges(k)' = Judges(k)
      /\ \A k : Decides(k)' = Decides(k)
  BY DEF Judges, Decides, At, Rejecting
<1>4. Settled' /\ BothVerdicts' /\ Fresh'
  BY <1>2, <1>3 DEF VInv, Settled, BothVerdicts, Fresh
<1>5. Engaging' /\ Undecided'
  BY <1>2, <1>3 DEF VInv, Engaging, Undecided, State
<1>6. Stopping' /\ InBuffer' /\ (mutex \in Threads \cup {None})'
  BY <1>2 DEF VInv, Stopping, InBuffer, State
<1> QED
  BY <1>4, <1>5, <1>6 DEF VInv

(***************************************************************************)
(* A step without the mutex of a thread that is no second stage engine.    *)
(***************************************************************************)
LEMMA OutsideJudging ==
  ASSUME IInv, VInv, UNCHANGED config, NEW t \in Threads \ Engines,
         todo[t] \in Free(t), todo'[t] \in Free(t),
         \A u \in Threads \ {t} : todo'[u] = todo[u],
         UNCHANGED <<cur_state, mutex, detection_state, rejection_notified, accepted, capi_exit,
                     processing_started>>,
         t = Gsl => Fresh' /\ ~At(Gsl, "callback")'
  PROVE  VInv'
<1>1. Engines \subseteq Threads /\ Gsl \in Threads /\ Engines \subseteq Pollers
      /\ \A k \in Pollers : k \in Threads /\ (k \notin Engines => k = Gsl)
  BY PollerThreads DEF Pollers
<1>2. \A k \in Engines : todo'[k] = todo[k] /\ Judges(k)' = Judges(k)
        /\ Decides(k)' = Decides(k)
  BY <1>1, EnginesSame
<1>3. Settled'
  <2>1. \A k \in Engines : At(k, "poll")' = At(k, "poll") /\ Arg(k)' = Arg(k)
    BY <1>2 DEF At, Arg
  <2> QED
    BY <1>2, <2>1 DEF VInv, Settled
<1>4. BothVerdicts'
  <2> SUFFICES ASSUME NEW k \in Pollers, At(k, "callback")', Arg(k)' = "detected"
               PROVE  accepted = config.second
    BY DEF BothVerdicts
  <2>1. k # t
    BY <1>1
  <2>2. todo'[k] = todo[k]
    BY <1>1, <2>1
  <2> QED
    BY <2>2 DEF VInv, BothVerdicts, At, Arg
<1>5. Fresh'
  <2>1. CASE t # Gsl
    <3>1. todo'[Gsl] = todo[Gsl]
      BY <1>1, <2>1
    <3> QED
      BY <1>2, <3>1 DEF VInv, Fresh, At
  <2> QED
    BY <2>1
<1>6. (Open' => Open) /\ Stopping' /\ (Holds(Gsl)' => Holds(Gsl))
  BY FreeKept DEF VInv
<1>7. Undecided'
  BY <1>2, <1>6, Given, UndecidedKept DEF VInv
<1>8. Engaging'
  <2> SUFFICES ASSUME Holds(Gsl)'
               PROVE  /\ State({"BUFFERING"})'
                      /\ \A k \in config.second :
                           IF Engaged(k)' THEN Decides(k)' ELSE todo'[k] = <<>>
                      /\ \A i \in 1..Len(todo'[Gsl]) : \A j \in 1..Len(todo'[Gsl]) :
                           todo'[Gsl][i] = todo'[Gsl][j] => i = j
    BY DEF Engaging
  <2>1. /\ State({"BUFFERING"})
        /\ \A k \in config.second : IF Engaged(k) THEN Decides(k) ELSE todo[k] = <<>>
        /\ \A i \in 1..Len(todo[Gsl]) : \A j \in 1..Len(todo[Gsl]) :
             todo[Gsl][i] = todo[Gsl][j] => i = j
    BY <1>6 DEF VInv, Engaging
  <2>2. t # Gsl
    BY <1>1, FreeHeads DEF Holds
  <2>3. todo'[Gsl] = todo[Gsl]
    BY <1>1, <2>2
  <2>4. \A k \in config.second : Engaged(k)' = Engaged(k) /\ Decides(k)' = Decides(k)
          /\ todo'[k] = todo[k]
    BY <1>2, <2>3, Given DEF Engaged
  <2> QED
    BY <2>1, <2>3, <2>4 DEF State
<1>9. InBuffer' /\ (mutex \in Threads \cup {None})'
  BY DEF VInv, InBuffer, State
<1> QED
  BY <1>3, <1>4, <1>5, <1>6, <1>7, <1>8, <1>9 DEF VInv

(***************************************************************************)
(* The first stage's own steps.                                            *)
(***************************************************************************)
LEMMA FirstStageJudges ==
  ASSUME IInv, VInv, UNCHANGED config, FirstStage, UNCHANGED stream
  PROVE  VInv'
<1>1. Gsl \in Threads /\ Gsl \in Pollers /\ Gsl \notin Engines /\ Engines \subseteq Threads
  BY PollerThreads
<1>2. UNCHANGED <<cur_state, mutex, detection_state, rejection_notified, accepted, capi_exit,
                  processing_started>>
  <2>1. UNCHANGED capi
    BY DEF FirstStage, Skip, NoBuffering, StartBuffering, Buffered, StopBuffering, Answered,
       Refused
  <2> QED
    BY <2>1 DEF capi, stream, states, verdicts, locks
<1> DEFINE n == Head(todo[Gsl])[1]
           Dulls(q) == q \in Free(Gsl) /\ Goes(Gsl, q)
                       /\ (q # <<>> =>
                           \/ /\ Head(q)[1] \in {"poll", "buffer"}
                              /\ n \in {"woken", "buffer"}
                           \/ Head(q)[1] = "drain")
<1>3. /\ todo[Gsl] # <<>> /\ n \in {"woken", "buffer", "drain", "answer"}
      /\ \E q : Dulls(q)
  <2>1. PICK e \in Outcome(Gsl) : TRUE
    <3>1. <<"answer", TRUE>> \in Outcome(Gsl)
      BY Succeeds
    <3> QED
      BY <3>1
  <2>2. <<>> \in Free(Gsl) /\ <<<<"buffer">>>> \in Free(Gsl) /\ <<<<"drain">>>> \in Free(Gsl)
    BY <1>1, FreeLists
  <2>3. Goes(Gsl, <<>>) => Dulls(<<>>)
    BY <2>2
  <2>4. Goes(Gsl, <<<<"buffer">>>>) /\ n = "woken" => Dulls(<<<<"buffer">>>>)
    BY <2>2
  <2>5. Goes(Gsl, <<<<"drain">>>>) => Dulls(<<<<"drain">>>>)
    BY <2>2
  <2>6. "gmm" \in Asks(Gsl)
    BY DEF Asks
  <2>7. Tell(Gsl, "gmm") /\ n \in {"woken", "buffer"} => \E q : Dulls(q)
    <3> SUFFICES ASSUME Tell(Gsl, "gmm"), n \in {"woken", "buffer"} PROVE \E q : Dulls(q)
      OBVIOUS
    <3>1. PICK q \in Free(Gsl) : Goes(Gsl, q) /\ Head(q) = <<"poll", "gmm">>
      BY <1>1, <2>6, TellIs
    <3>2. Dulls(q)
      BY <3>1
    <3> QED
      BY <3>2
  <2> HIDE DEF Dulls
  <2>8. CASE Skip \/ StopBuffering \/ Refused
    <3>1. Goes(Gsl, <<>>)
      BY <2>8 DEF Skip, StopBuffering, Refused, Ends
    <3>2. todo[Gsl] # <<>> /\ n \in {"woken", "buffer", "drain", "answer"}
      BY <2>8 DEF Skip, StopBuffering, Refused, At
    <3> QED
      BY <2>3, <3>1, <3>2
  <2>9. CASE NoBuffering \/ Buffered
    <3>1. Tell(Gsl, "gmm") /\ todo[Gsl] # <<>> /\ n \in {"woken", "buffer"}
      BY <2>9 DEF NoBuffering, Buffered, At
    <3> QED
      BY <2>7, <3>1
  <2>10. CASE StartBuffering
    <3>1. Goes(Gsl, <<<<"buffer">>>>) /\ todo[Gsl] # <<>> /\ n = "woken"
      BY <2>10 DEF StartBuffering, At
    <3> QED
      BY <2>4, <3>1
  <2>11. CASE Answered
    <3>1. (Goes(Gsl, <<>>) \/ Goes(Gsl, <<<<"drain">>>>)) /\ todo[Gsl] # <<>> /\ n = "answer"
      BY <2>11 DEF Answered, Ends, At
    <3> QED
      BY <2>3, <2>5, <3>1
  <2> QED
    BY <2>8, <2>9, <2>10, <2>11 DEF FirstStage
<1>4. PICK q : Dulls(q)
  BY <1>3
<1>5. todo[Gsl] \in Free(Gsl)
  BY <1>1, <1>3, WhoseTurn, Given DEF FreeNames
<1>6. todo'[Gsl] = q /\ \A u \in Threads \ {Gsl} : todo'[u] = todo[u]
  BY <1>1, <1>4, Given DEF Goes
<1>7. ~At(Gsl, "callback")'
  BY <1>4, <1>6 DEF At
<1>8. Fresh'
  <2> SUFFICES ASSUME At(Gsl, "woken")' \/ At(Gsl, "buffer")' \/ At(Gsl, "poll")'
               PROVE  \A k \in Engines : todo'[k] = <<>>
    BY DEF Fresh
  <2>1. n \in {"woken", "buffer"}
    BY <1>4, <1>6 DEF At
  <2>2. \A k \in Engines : todo[k] = <<>>
    BY <1>3, <2>1 DEF VInv, Fresh, At
  <2> QED
    BY <1>1, <1>6, <2>2
<1> QED
  BY <1>1, <1>2, <1>4, <1>5, <1>6, <1>7, <1>8, OutsideJudging

(***************************************************************************)
(* A step of a caller without the mutex,                                   *)
(***************************************************************************)
LEMMA CallerStepJudges ==
  ASSUME IInv, VInv, UNCHANGED config, NEW t \in Callers, todo[t] \in Free(t),
         NEW q \in CallerFree(t), Goes(t, q),
         UNCHANGED <<cur_state, rejection_notified, detection_state, mutex, accepted, capi_exit,
                     processing_started>>
  PROVE  VInv'
<1>1. t \in Threads \ Engines /\ Free(t) = CallerFree(t) /\ t # Gsl
  BY PollerThreads DEF Pollers
<1>2. todo'[t] = q /\ \A u \in Threads \ {t} : todo'[u] = todo[u]
  BY <1>1, Given DEF Goes
<1> QED
  BY <1>1, <1>2, OutsideJudging

(***************************************************************************)
(* as the timer's thread when it begins to wait and wakes up,              *)
(***************************************************************************)
LEMMA TimerJudges ==
  ASSUME IInv, VInv, UNCHANGED config, Arm \/ Wake
  PROVE  VInv'
<1> DEFINE q == IF timer_stop_waiting THEN <<>> ELSE <<<<"enter", "lateStop">>, <<"leave">>>>
<1>1. Timer \in Callers
  BY DEF Callers
<1>2. todo[Timer] \in Free(Timer)
  <2>1. At(Timer, "arm") \/ At(Timer, "sleep") \/ At(Timer, "awake")
    BY DEF Arm, Wake
  <2> QED
    BY <1>1, <2>1, PollerThreads, WhoseTurn, Given DEF At, FreeNames
<1>3. <<<<"sleep">>>> \in CallerFree(Timer) /\ q \in CallerFree(Timer)
  <2>1. Waiting("lateStop") = <<<<"enter", "lateStop">>, <<"leave">>>>
    BY DEF Waiting
  <2>2. "lateStop" \in Ops(Timer)
    BY ThreadsAssumption DEF Ops
  <2> QED
    BY <2>1, <2>2 DEF CallerFree
<1>4. Goes(Timer, <<<<"sleep">>>>) \/ Goes(Timer, q)
  BY DEF Arm, Wake
<1>5. UNCHANGED <<cur_state, rejection_notified, detection_state, mutex, accepted, capi_exit,
                  processing_started>>
  BY DEF Arm, Wake, stream, states, verdicts, locks, engines, capi
<1> HIDE DEF q
<1> QED
  BY <1>1, <1>2, <1>3, <1>4, <1>5, CallerStepJudges

(***************************************************************************)
(* the client that calls,                                                  *)
(***************************************************************************)
LEMMA CallJudges ==
  ASSUME IInv, VInv, UNCHANGED config,
         NEW op \in {"load", "config", "start", "stop", "stopBuffering", "unload"}, Call(op)
  PROVE  VInv'
<1>1. /\ todo[Client] = <<>> /\ Goes(Client, <<<<"enter", op>>, <<"leave">>>>)
      /\ Client \in Callers
  BY DEF Call, Callers
<1>2. todo[Client] \in Free(Client)
  BY <1>1, PollerThreads DEF CallerFree
<1>3. Waiting(op) = <<<<"enter", op>>, <<"leave">>>> /\ op \in Ops(Client)
  BY DEF Waiting, Ops, ClientOps
<1>4. Waiting(op) \in CallerFree(Client)
  BY <1>3 DEF CallerFree
<1>5. UNCHANGED <<cur_state, rejection_notified, detection_state, mutex, accepted, capi_exit,
                  processing_started>>
  BY DEF Call, states, verdicts, engines, capi
<1> QED
  BY <1>1, <1>2, <1>3, <1>4, <1>5, CallerStepJudges

(***************************************************************************)
(* whose calls wait for the mutex, as those of ResourceManager do,         *)
(***************************************************************************)
LEMMA StepsWait ==
  ASSUME NEW r \in Requests
  PROVE  \E op \in ServerOps : Steps(r) = Waiting(op)
<1>1. CASE r = "pause"
  <2>1. Steps(r) = Waiting(IF paused THEN "resume" ELSE "pause")
    BY <1>1 DEF Steps, Waiting
  <2> QED
    BY <2>1 DEF ServerOps
<1>2. CASE r = "concurrent"
  BY <1>2 DEF Steps, Waiting, ServerOps
<1>3. CASE r = "switch"
  <2>1. Steps(r) = Waiting("disconnect")
    BY <1>3 DEF Steps, Waiting
  <2> QED
    BY <2>1 DEF ServerOps
<1>4. CASE r = "restart"
  <2>1. Steps(r) = Waiting(IF State({"SSR"}) THEN "online" ELSE "offline")
    BY <1>4 DEF Steps, Waiting
  <2> QED
    BY <2>1 DEF ServerOps
<1> QED
  BY <1>1, <1>2, <1>3, <1>4 DEF Requests

(***************************************************************************)
(* ResourceManager's thread that calls,                                    *)
(***************************************************************************)
LEMMA RequestJudges ==
  ASSUME IInv, VInv, UNCHANGED config, NEW r \in Requests, Request(r)
  PROVE  VInv'
<1>1. todo[Server] = <<>> /\ Goes(Server, Steps(r)) /\ Server \in Callers
  BY DEF Request, Callers
<1>2. todo[Server] \in Free(Server)
  BY <1>1, PollerThreads DEF CallerFree
<1>3. Steps(r) \in CallerFree(Server)
  BY StepsWait, ThreadsAssumption DEF CallerFree, Ops
<1>4. UNCHANGED <<cur_state, rejection_notified, detection_state, mutex, accepted, capi_exit,
                  processing_started>>
  BY DEF Request, states, verdicts, engines, capi
<1> QED
  BY <1>1, <1>2, <1>3, <1>4, CallerStepJudges

(***************************************************************************)
(* and the client that reads.                                              *)
(***************************************************************************)
LEMMA ReadJudges ==
  ASSUME IInv, VInv, UNCHANGED config, Read
  PROVE  VInv'
<1>1. todo' = Disarmed(todo) /\ mutex = None
      /\ UNCHANGED <<cur_state, rejection_notified, detection_state, mutex, accepted, capi_exit,
                     processing_started>>
  BY DEF Read, states, verdicts, locks, engines, capi
<1>2. Timer \in Callers /\ Timer \in Threads /\ None \notin Threads
  BY PollerThreads, EnginesAssumption DEF Callers
<1>3. CASE todo[Timer] = <<<<"sleep">>>>
  <2>1. Goes(Timer, <<<<"awake">>>>)
    BY <1>1, <1>3 DEF Disarmed, Goes
  <2>2. <<<<"awake">>>> \in CallerFree(Timer) /\ todo[Timer] \in Free(Timer)
    BY <1>2, <1>3, PollerThreads DEF CallerFree
  <2> QED
    BY <1>1, <1>2, <2>1, <2>2, CallerStepJudges
<1>4. CASE todo[Timer] # <<<<"sleep">>>>
  <2>1. todo' = [todo EXCEPT ![Timer] = todo[Timer]]
    BY <1>1, <1>4 DEF Disarmed
  <2>2. todo[Timer] \in Free(Timer)
    BY <1>1, <1>2, Given DEF Planned
  <2> QED
    BY <1>1, <1>2, <2>1, <2>2, PollerThreads, CallerStepJudges DEF Goes
<1> QED
  BY <1>3, <1>4

(***************************************************************************)
(* SetToSeq lists every element of a finite set, and no element twice.     *)
(***************************************************************************)
LEMMA ListsAll ==
  ASSUME NEW E, IsFiniteSet(E)
  PROVE  /\ \A i \in 1..Cardinality(E) : \A j \in 1..Cardinality(E) :
              SetToSeq(E)[i] = SetToSeq(E)[j] => i = j
         /\ \A k \in E : \E i \in 1..Cardinality(E) : SetToSeq(E)[i] = k
<1>1. Cardinality(E) \in Nat /\ ExistsBijection(1..Cardinality(E), E)
  BY FS_CardinalityType
<1>2. \E f \in [1..Cardinality(E) -> E] : IsInjective(f)
  BY <1>1 DEF ExistsBijection, Bijection, Injection
<1>3. SetToSeq(E) \in [1..Cardinality(E) -> E] /\ IsInjective(SetToSeq(E))
  BY <1>2 DEF SetToSeq
<1>4. SetToSeq(E) \in Injection(1..Cardinality(E), E)
  BY <1>3 DEF Injection
<1>5. Cardinality(1..Cardinality(E)) = Cardinality(E)
  BY <1>1, FS_Interval
<1>6. SetToSeq(E) \in Surjection(1..Cardinality(E), E)
  BY <1>4, <1>5, FS_Injection
<1> QED
  BY <1>3, <1>6 DEF IsInjective, Surjection

(***************************************************************************)
(* A step after which nobody judges and no verdict is kept.                *)
(***************************************************************************)
LEMMA NobodyJudges ==
  ASSUME Settled, UNCHANGED config,
         processing_started' \in [Engines -> BOOLEAN], capi_exit' \in [Engines -> BOOLEAN],
         detection_state' = {}, accepted' \subseteq config.second,
         rejection_notified' => config.notify,
         \A k \in Engines : /\ ~Judges(k)'
                            /\ todo'[k] = <<>> => ~processing_started'[k]
  PROVE  Settled' /\ Undecided' /\ InBuffer'
<1>1. Settled'
  BY DEF Settled, Judges
<1>2. Undecided' /\ InBuffer'
  BY DEF Undecided, InBuffer
<1> QED
  BY <1>1, <1>2

(***************************************************************************)
(* An engine that rejects has work left that drops the verdicts,           *)
(***************************************************************************)
LEMMA RejectsBusy ==
  ASSUME NEW e \in Outcomes("done"), NEW q \in After(Deciding, <<<<"rejected">>, e>>)
  PROVE  Busy(q)
<1> DEFINE r == <<<<"rejected">>, e>>
<1>1. r \in Seq({<<"rejected">>, e}) /\ r # <<>> /\ Head(r)[1] = "rejected"
  OBVIOUS
<1>2. PICK m \in Seq(Deciding) : q = m \o r
  BY DEF After
<1> HIDE DEF r
<1>3. Busy(r)
  BY <1>1, BusyOut DEF Out
<1> QED
  BY <1>1, <1>2, <1>3, WorkSections, BusyFront

(***************************************************************************)
(* and begins with it.                                                     *)
(***************************************************************************)
LEMMA RejectingHead ==
  ASSUME NEW k, Rejecting(k)
  PROVE  todo[k] # <<>> /\ Busy(todo[k])
BY RejectsBusy, BusyHead DEF Rejecting

(***************************************************************************)
(* With a verdict kept and no call in progress, some engine has still to   *)
(* decide: that is why no verdict is left over when the DSP detects again. *)
(***************************************************************************)
LEMMA SomeoneDecides ==
  ASSUME IInv, VInv, detection_state # {}, mutex \in {None, Client}
  PROVE  \E k \in Engines : Decides(k) /\ todo[k] # <<>>
<1>1. State({"BUFFERING"}) /\ Gsl # None /\ Gsl # Client /\ Client # None
  BY EnginesAssumption, ThreadsAssumption DEF VInv, InBuffer, Threads
<1>2. mutex = Client => ~Busy(todo[mutex])
  <2> SUFFICES ASSUME mutex = Client PROVE ~Busy(todo[Client])
    OBVIOUS
  <2>1. Client \in Callers
    BY DEF Callers
  <2>2. Leaving
    BY <2>1, CallerHolds
  <2>3. Head(<<<<"joinTimer">>>>)[1] = "joinTimer"
    OBVIOUS
  <2> QED
    BY <2>2, <2>3, BusyHead DEF Leaving, Work, Out
<1>3. Open
  BY <1>1, <1>2 DEF Open
<1>4. detection_state # config.second
  BY DEF VInv, Settled
<1>5. PICK k \in config.second : k \notin detection_state
  BY <1>4, Given
<1>6. Decides(k) /\ k \in Engines
  BY <1>3, <1>5, Given DEF VInv, Undecided
<1>7. ASSUME Rejecting(k) PROVE todo[k] # <<>>
  BY <1>6, <1>7, RejectingHead
<1> QED
  BY <1>6, <1>7 DEF Decides, At

(***************************************************************************)
(* A detection of the DSP. The hypothesis keeps it from the engines that   *)
(* still work on the one before, whose verdicts would count for this one.  *)
(***************************************************************************)
LEMMA DetectJudges ==
  ASSUME IInv, VInv, UNCHANGED config, Detect, UNCHANGED stream, "detection" \notin Overlap
  PROVE  VInv'
<1>1. Gsl \in Threads /\ Gsl \in Pollers /\ Gsl \notin Engines /\ Engines \subseteq Threads
      /\ Timer \in Callers /\ None \notin Threads
      /\ \A k \in Pollers : k \in Threads /\ (k \notin Engines => k = Gsl)
  BY PollerThreads, EnginesAssumption DEF Callers, Pollers
<1>2. /\ \A t \in Engines \cup {Gsl, Timer} : todo[t] = <<>>
      /\ accepted' = {}
      /\ UNCHANGED <<cur_state, mutex, detection_state, rejection_notified, processing_started,
                     capi_exit>>
  BY DEF Detect, stream, states, verdicts, locks
<1>3. todo' = [todo EXCEPT ![Gsl] = <<<<"woken">>>>]
  BY <1>2 DEF Detect
<1>4. todo'[Gsl] = <<<<"woken">>>> /\ \A u \in Threads \ {Gsl} : todo'[u] = todo[u]
  BY <1>1, <1>3, Given
<1>5. detection_state = {}
  <2> SUFFICES ASSUME detection_state # {} PROVE FALSE
    OBVIOUS
  <2>1. mutex \notin Pollers
    <3> SUFFICES ASSUME mutex \in Pollers PROVE FALSE
      OBVIOUS
    <3>1. mutex \in Engines /\ Rejecting(mutex)
      BY HeldPoller
    <3> QED
      BY <1>2, <3>1, RejectingHead
  <2>2. mutex \in Callers => mutex = Client
    BY CallerHolds, LeavingHolds, Given
  <2>3. mutex \in {None, Client}
    BY <2>1, <2>2 DEF VInv, Threads, Callers, Pollers
  <2> QED
    BY <1>2, <2>3, SomeoneDecides
<1>6. \A k \in Engines : todo'[k] = <<>> /\ ~Judges(k)' /\ ~processing_started'[k]
  BY <1>1, <1>2, <1>4 DEF Judges, At, VInv, Settled
<1>7. Settled' /\ Undecided' /\ InBuffer'
  BY <1>2, <1>5, <1>6, NobodyJudges DEF VInv, Settled
<1>8. BothVerdicts'
  BY <1>1, <1>4, <1>6 DEF BothVerdicts, At
<1>9. Fresh'
  BY <1>6 DEF Fresh
<1>10. ~Holds(Gsl)'
  BY <1>4 DEF Holds, FreeNames
<1>11. Stopping'
  <2>1. \A t \in Threads : Holds(t)' => t # Gsl /\ Holds(t) /\ todo'[t] = todo[t]
    BY <1>2, <1>4, <1>10 DEF Holds
  <2> QED
    BY <1>2, <2>1 DEF VInv, Stopping, State
<1> QED
  BY <1>2, <1>7, <1>8, <1>9, <1>10, <1>11 DEF VInv, Engaging

(***************************************************************************)
(* notifyClient(): the thread is left with the callback, and the mutex is  *)
(* free,                                                                   *)
(***************************************************************************)
LEMMA NotifyLists ==
  ASSUME IInv, NEW t \in Pollers, NEW what, Notify(t, what)
  PROVE  /\ mutex' = None /\ DOMAIN todo' = Threads
         /\ todo'[t] # <<>> /\ Head(todo'[t]) = <<"callback", what>>
         /\ \A u \in Threads \ {t, Timer} : todo'[u] = todo[u]
<1>1. t \in Threads /\ t # Timer /\ Timer \in Threads
  BY PollerThreads DEF Threads
<1> DEFINE a == <<"callback", what>>
           b == <<"relock", what>>
           e == Last(todo[t])
           T == {a, b, e}
           l == <<a, b>> \o <<e>>
<1>2. mutex' = None /\ todo' = Armed([todo EXCEPT ![t] = l])
  BY DEF Notify
<1> HIDE DEF a, b, e, T
<1>3. <<a, b>> \in Seq(T) /\ <<e>> \in Seq(T)
  BY DEF T
<1>4. Len(<<a, b>>) = 2 /\ <<a, b>>[1] = a /\ Len(<<e>>) = 1
  OBVIOUS
<1>5. Len(l) = 3 /\ l[1] = a /\ l \in Seq(T)
  BY <1>3, <1>4, ConcatProperties
<1> HIDE DEF l
<1>6. l # <<>> /\ Head(l) = a
  BY <1>5, EmptySeq
<1>7. DOMAIN todo' = Threads /\ todo'[t] = l
        /\ \A u \in Threads \ {t, Timer} : todo'[u] = todo[u]
  BY <1>1, <1>2, Given DEF Armed
<1> QED
  BY <1>2, <1>6, <1>7 DEF a

(***************************************************************************)
(* and with the mutex free nobody engages or stops engines.                *)
(***************************************************************************)
LEMMA FreeMutex ==
  ASSUME mutex' = None
  PROVE  Engaging' /\ Stopping' /\ (mutex \in Threads \cup {None})'
BY EnginesAssumption DEF Engaging, Stopping, Holds, Threads

(***************************************************************************)
(* A detection without second stages: the client is told, and there is no  *)
(* verdict to wait for.                                                    *)
(***************************************************************************)
LEMMA FirstStageOnlyJudges ==
  ASSUME IInv, VInv, UNCHANGED config, NEW t \in Pollers, FirstStageOnly(t)
  PROVE  VInv'
<1>1. /\ At(t, "poll") /\ config.second = {} /\ Notify(t, "detected")
      /\ UNCHANGED <<detection_state, rejection_notified, accepted, processing_started,
           capi_exit>>
  BY DEF FirstStageOnly, verdicts, capi
<1>2. /\ Arg(t) = "gmm" /\ Arg(t) \in Asks(t)
  BY <1>1, Polling DEF FirstStageOnly
<1>3. t = Gsl /\ Gsl \notin Engines /\ Engines \subseteq Threads /\ Timer \notin Engines
      /\ \A k \in Pollers : k \in Engines \/ k = Gsl
  BY <1>2, PollerThreads DEF Asks, Pollers, Callers
<1>4. \A k \in Engines : todo[k] = <<>> /\ todo'[k] = <<>>
  BY <1>1, <1>3, NotifyLists, Given
<1>5. detection_state = {} /\ accepted = {}
  BY <1>1, Given DEF VInv, Settled
<1>6. \A k \in Engines : ~Judges(k)' /\ ~processing_started'[k]
  BY <1>1, <1>4 DEF Judges, At, VInv, Settled
<1>7. Settled' /\ Undecided' /\ InBuffer'
  BY <1>1, <1>5, <1>6, NobodyJudges DEF VInv, Settled
<1>8. BothVerdicts' /\ Fresh'
  BY <1>1, <1>4, <1>5 DEF BothVerdicts, Fresh
<1> QED
  BY <1>1, <1>7, <1>8, NotifyLists, FreeMutex DEF VInv

(***************************************************************************)
(* A list with two more sections at its end.                               *)
(***************************************************************************)
LEMMA FollowedByTwo ==
  ASSUME NEW S, NEW s \in Seq(S), NEW a, NEW e
  PROVE  LET q == s \o <<a, e>>
         IN  /\ Len(q) = Len(s) + 2 /\ q # <<>> /\ Head(q) = q[1]
             /\ \A i \in 1..Len(s) : q[i] = s[i]
             /\ q[Len(s) + 1] = a /\ q[Len(s) + 2] = e
<1> DEFINE r == <<a, e>>
           T == {a, e}
           q == s \o r
<1>1. r \in Seq(T) /\ Len(r) = 2 /\ r[1] = a /\ r[2] = e
  OBVIOUS
<1> HIDE DEF r, T
<1>2. s \in Seq(S \cup T) /\ r \in Seq(S \cup T)
  BY <1>1, SeqMonotonic
<1>3. Len(s) \in Nat
  BY LenProperties
<1>4. /\ Len(q) = Len(s) + 2 /\ q \in Seq(S \cup T)
      /\ \A i \in 1..(Len(s) + 2) : q[i] = IF i <= Len(s) THEN s[i] ELSE r[i - Len(s)]
  BY <1>1, <1>2, ConcatProperties
<1> HIDE DEF q
<1> DEFINE n == Len(s)
<1>5. n \in Nat /\ \A i \in 1..(n + 2) : q[i] = IF i <= n THEN s[i] ELSE r[i - n]
  BY <1>3, <1>4
<1> HIDE DEF n
<1>6. q[n + 1] = r[1]
  <2>1. n + 1 \in 1..(n + 2) /\ ~(n + 1 <= n) /\ (n + 1) - n = 1
    BY <1>5
  <2> QED
    BY <1>5, <2>1
<1>7. q[n + 2] = r[2]
  <2>1. n + 2 \in 1..(n + 2) /\ ~(n + 2 <= n) /\ (n + 2) - n = 2
    BY <1>5
  <2> QED
    BY <1>5, <2>1
<1>8. \A i \in 1..n : q[i] = s[i]
  <2>1. \A i \in 1..n : i \in 1..(n + 2) /\ i <= n
    BY <1>5
  <2> QED
    BY <1>5, <2>1
<1>9. q # <<>> /\ Head(q) = q[1]
  <2>1. Len(q) # 0
    BY <1>3, <1>4
  <2> QED
    BY <1>4, <2>1, EmptySeq
<1>10. /\ Len(q) = Len(s) + 2 /\ q # <<>> /\ Head(q) = q[1]
       /\ \A i \in 1..Len(s) : q[i] = s[i]
       /\ q[Len(s) + 1] = a /\ q[Len(s) + 2] = e
  BY <1>1, <1>4, <1>6, <1>7, <1>8, <1>9 DEF n
<1> QED
  BY <1>10 DEF q, r

(***************************************************************************)
(* What a thread has to do that is about to engage the engines E and then  *)
(* to answer with e.                                                       *)
(***************************************************************************)
EngageThen(E, e) ==
  [i \in 1..Cardinality(E) |-> <<"engage", SetToSeq(E)[i]>>] \o <<<<"unlock">>, e>>

(***************************************************************************)
(* Every engine is in that list, once.                                     *)
(***************************************************************************)
LEMMA EngageList ==
  ASSUME NEW E, IsFiniteSet(E), NEW e, e[1] = "answer"
  PROVE  LET q == EngageThen(E, e)
         IN  /\ q # <<>> /\ NoQuit(q) /\ Head(q)[1] \in {"engage", "unlock"}
             /\ \A k \in E : \E i \in 1..Len(q) : q[i] = <<"engage", k>>
             /\ \A i \in 1..Len(q) : \A j \in 1..Len(q) : q[i] = q[j] => i = j
<1> DEFINE n == Cardinality(E)
           f == SetToSeq(E)
           s == [i \in 1..n |-> <<"engage", f[i]>>]
           S == {"engage"} \X E
           a == <<"unlock">>
           q == s \o <<a, e>>
<1>1. n \in Nat /\ f \in [1..n -> E]
  BY ListOf
<1>2. \A i \in 1..n : \A j \in 1..n : f[i] = f[j] => i = j
  BY ListsAll
<1>3. \A k \in E : \E i \in 1..n : f[i] = k
  BY ListsAll
<1>4. a[1] = "unlock"
  OBVIOUS
<1> HIDE DEF n, f
<1>5. s \in [1..n -> S] /\ \A i \in 1..n : s[i] = <<"engage", f[i]>>
  BY <1>1
<1> HIDE DEF s, S, a
<1>6. s \in Seq(S)
  BY <1>1, <1>5, SeqDef
<1>7. Len(s) = n
  <2>1. DOMAIN s = 1..n
    BY <1>5
  <2> QED
    BY <1>1, <1>6, <2>1, LenProperties
<1>8. /\ Len(q) = n + 2 /\ q # <<>> /\ Head(q) = q[1]
      /\ \A i \in 1..n : q[i] = s[i]
      /\ q[n + 1] = a /\ q[n + 2] = e
  BY <1>6, <1>7, FollowedByTwo
<1> HIDE DEF q
<1>9. \A i \in 1..n : q[i] = <<"engage", f[i]>>
  BY <1>5, <1>8
<1>10. q[n + 1][1] = "unlock" /\ q[n + 2][1] = "answer" /\ Len(q) = n + 2 /\ n \in Nat
  BY <1>1, <1>4, <1>8
<1>11. ASSUME NEW i \in 1..n PROVE q[i][1] = "engage" /\ q[i][2] = f[i]
  BY <1>9
<1>12. ASSUME NEW i \in 1..Len(q) PROVE i \in 1..n \/ i = n + 1 \/ i = n + 2
  BY <1>10
<1>13. NoQuit(q)
  BY <1>10, <1>11, <1>12 DEF NoQuit
<1>14. ASSUME NEW k \in E PROVE \E i \in 1..Len(q) : q[i] = <<"engage", k>>
  <2>1. PICK i \in 1..n : f[i] = k
    BY <1>3
  <2>2. i \in 1..Len(q)
    BY <1>10
  <2>3. q[i] = <<"engage", k>>
    BY <1>9, <2>1
  <2> QED
    BY <2>2, <2>3
<1>15. ASSUME NEW i \in 1..Len(q), NEW j \in 1..Len(q), q[i] = q[j] PROVE i = j
  <2>1. CASE i \in 1..n
    <3>1. j \in 1..n
      BY <1>10, <1>11, <1>12, <1>15, <2>1
    <3>2. f[i] = f[j]
      BY <1>11, <1>15, <2>1, <3>1
    <3> QED
      BY <1>2, <2>1, <3>1, <3>2
  <2>2. CASE i = n + 1
    BY <1>10, <1>11, <1>12, <1>15, <2>2
  <2>3. CASE i = n + 2
    BY <1>10, <1>11, <1>12, <1>15, <2>3
  <2> QED
    BY <1>12, <2>1, <2>2, <2>3
<1>16. q[1][1] \in {"engage", "unlock"}
  <2>1. CASE n = 0
    BY <1>10, <2>1
  <2>2. CASE n # 0
    <3>1. 1 \in 1..n
      BY <1>10, <2>2
    <3> QED
      BY <1>11, <3>1
  <2> QED
    BY <2>1, <2>2
<1>17. /\ q # <<>> /\ NoQuit(q) /\ Head(q)[1] \in {"engage", "unlock"}
       /\ \A k \in E : \E i \in 1..Len(q) : q[i] = <<"engage", k>>
       /\ \A i \in 1..Len(q) : \A j \in 1..Len(q) : q[i] = q[j] => i = j
  BY <1>8, <1>13, <1>14, <1>15, <1>16
<1> QED
  BY <1>17 DEF EngageThen, q, s, a, n, f

(***************************************************************************)
(* A detection with second stages: the mutex is taken to engage them.      *)
(***************************************************************************)
LEMMA FirstStageDetectedJudges ==
  ASSUME IInv, VInv, UNCHANGED config, NEW t \in Pollers, FirstStageDetected(t)
  PROVE  VInv'
<1> DEFINE E == config.second
           e == Last(todo[t])
           q == EngageThen(E, e)
<1>1. /\ At(t, "poll") /\ Arg(t) = "gmm" /\ State({"ACTIVE"}) /\ mutex' = t
      /\ cur_state' = "BUFFERING"
      /\ Goes(t, q)
      /\ UNCHANGED <<detection_state, rejection_notified, accepted, processing_started,
           capi_exit>>
  BY DEF FirstStageDetected, TransitTo, capi, EngageThen
<1>2. e \in Outcome(t) /\ Arg(t) \in Asks(t)
  BY <1>1, Polling
<1>3. t = Gsl /\ Gsl \in Threads /\ Gsl \notin Engines /\ Engines \subseteq Threads
      /\ \A k \in Pollers : k \in Threads /\ (k \in Engines \/ k = Gsl)
  BY <1>1, <1>2, PollerThreads DEF Asks, Pollers
<1>4. e[1] = "answer" /\ IsFiniteSet(E)
  BY <1>2, <1>3, SecondFinite, Given DEF Outcome, Outcomes
<1> HIDE DEF e, E, q
<1>5. /\ q # <<>> /\ NoQuit(q) /\ Head(q)[1] \in {"engage", "unlock"}
      /\ \A k \in E : \E i \in 1..Len(q) : q[i] = <<"engage", k>>
      /\ \A i \in 1..Len(q) : \A j \in 1..Len(q) : q[i] = q[j] => i = j
  BY <1>4, EngageList DEF q
<1>6. todo'[Gsl] = q /\ \A u \in Threads \ {Gsl} : todo'[u] = todo[u]
  BY <1>1, <1>3, Given DEF Goes
<1>7. \A k \in Engines : todo[k] = <<>> /\ todo'[k] = <<>>
  BY <1>1, <1>3, <1>6 DEF VInv, Fresh
<1>8. detection_state = {}
  BY <1>1 DEF VInv, InBuffer, State
<1>9. \A k \in Engines : ~Judges(k)' /\ ~processing_started'[k]
  BY <1>1, <1>7 DEF Judges, At, VInv, Settled
<1>10. Settled' /\ Undecided' /\ InBuffer'
  BY <1>1, <1>8, <1>9, NobodyJudges DEF VInv, Settled
<1>11. BothVerdicts' /\ Fresh'
  <2>1. ~At(Gsl, "callback")'
    BY <1>5, <1>6 DEF At
  <2> QED
    BY <1>3, <1>7, <2>1 DEF BothVerdicts, Fresh, At
<1>12. Engaging'
  <2>1. State({"BUFFERING"})'
    BY <1>1 DEF State
  <2>2. \A k \in config'.second : ~Engaged(k)' /\ todo'[k] = <<>>
    BY <1>5, <1>6, <1>7, Given DEF Engaged, E
  <2> QED
    BY <1>5, <1>6, <2>1, <2>2 DEF Engaging
<1>13. Stopping'
  BY <1>1, <1>3, <1>5, <1>6 DEF Stopping, Holds
<1>14. (mutex \in Threads \cup {None})'
  BY <1>1, <1>3
<1> QED
  BY <1>10, <1>11, <1>12, <1>13, <1>14 DEF VInv

(***************************************************************************)
(* The mutex is given up: by the thread that has engaged all engines,      *)
(* which now all decide, or by one that has restarted recognition.         *)
(***************************************************************************)
LEMMA UnlockJudges ==
  ASSUME IInv, VInv, UNCHANGED config, NEW t \in Pollers, Unlock(t)
  PROVE  VInv'
<1>1. /\ At(t, "unlock") /\ Then(t, <<>>) /\ mutex' = None
      /\ UNCHANGED <<cur_state, detection_state, rejection_notified, accepted,
           processing_started, capi_exit>>
  BY DEF Unlock, engines, capi, states, verdicts
<1>2. t \in Threads /\ Engines \subseteq Threads
      /\ \A k \in Pollers : k \in Threads /\ (k \in Engines \/ k = Gsl)
  BY PollerThreads DEF Pollers
<1>3. mutex = t /\ Runs(t)
  BY <1>1, <1>2, WhoseTurn, Given DEF At, HeldNames
<1>4. PICK e \in Outcome(t) : todo[t] = <<<<"unlock">>, e>>
  BY <1>1, <1>3, HeldShapes DEF At
<1>5. t \in Engines => ~Rejecting(t)
  BY <1>1, <1>3, HeldShapes DEF At
<1>6. /\ Tail(todo[t]) = <<e>> /\ <<e>> \in Seq({e}) /\ todo[t] # <<>>
      /\ Head(todo[t])[1] = "unlock"
  BY <1>4
<1>7. todo'[t] = <<e>>
  BY <1>1, <1>2, <1>6, ThenTail, Given
<1>8. \A u \in Threads \ {t} : todo'[u] = todo[u]
  BY <1>1, <1>2, Given DEF Then, Goes
<1>9. e[1] \in {"answer", "done"} /\ Head(<<e>>) = e /\ <<e>> # <<>>
  BY OutcomeOf
<1>10. Settled' /\ BothVerdicts' /\ Fresh'
  BY <1>1, <1>2, <1>6, <1>7, <1>8, <1>9, SettledKept DEF VInv, Settled, Dull
<1>11. \A k \in Engines \ {t} : Judges(k)' = Judges(k) /\ Decides(k)' = Decides(k)
  BY <1>1, <1>2, <1>8, EnginesSame
<1>12. ~Judges(t)' /\ ~Judges(t) /\ (t \in Engines => ~Decides(t))
  BY <1>5, <1>6, <1>7, <1>9 DEF Judges, Decides, At
<1>13. Undecided'
  <2>1. CASE t = Gsl
    <3>1. Holds(Gsl)
      BY <1>3, <1>6, <2>1 DEF Holds, FreeNames
    <3>2. \A k \in config.second : IF Engaged(k) THEN Decides(k) ELSE todo[k] = <<>>
      BY <3>1 DEF VInv, Engaging
    <3>3. \A k : Engaged(k)
      <4>1. \A i \in 1..Len(todo[Gsl]) : todo[Gsl][i] = <<"unlock">> \/ todo[Gsl][i] = e
        BY <1>4, <2>1
      <4>2. \A k : <<"engage", k>>[1] = "engage" /\ <<"unlock">>[1] = "unlock"
        OBVIOUS
      <4> QED
        BY <1>9, <4>1, <4>2 DEF Engaged
    <3>4. \A k \in config.second : Decides(k)'
      BY <1>11, <2>1, <3>2, <3>3, Given, PollerThreads
    <3> QED
      BY <3>4 DEF Undecided
  <2>2. CASE t \in Engines
    <3>1. t # Gsl /\ ~Busy(todo[t])
      BY <1>6, <2>2, BusyHead, PollerThreads DEF Work, Out
    <3>2. Open' => Open
      BY <1>1, <1>3, <3>1 DEF Open, State
    <3> QED
      BY <1>1, <1>11, <1>12, <2>2, <3>2, UndecidedKept, Given DEF VInv
  <2> QED
    BY <1>2, <2>1, <2>2
<1>14. InBuffer'
  BY <1>1 DEF VInv, InBuffer, State
<1> QED
  BY <1>1, <1>10, <1>13, <1>14, FreeMutex DEF VInv

(***************************************************************************)
(* A step after which a thread other than the first stage's has the mutex  *)
(* and ends the detection.                                                 *)
(***************************************************************************)
LEMMA BusyJudges ==
  ASSUME Settled', BothVerdicts', Fresh', NEW t \in Threads \ {Gsl}, mutex' = t, Busy(todo'[t]),
         detection_state' # {} => State({"BUFFERING"})'
  PROVE  VInv'
<1>1. t # None
  BY EnginesAssumption
<1>2. Engaging' /\ Undecided' /\ Stopping'
  BY <1>1 DEF Engaging, Undecided, Stopping, Open, Holds
<1>3. InBuffer' /\ (mutex \in Threads \cup {None})'
  BY DEF InBuffer
<1> QED
  BY <1>2, <1>3 DEF VInv

(***************************************************************************)
(* The engine that decides for a client that hears of rejections is the    *)
(* only one.                                                               *)
(***************************************************************************)
LEMMA Alone ==
  ASSUME IInv, DecidesAlone, config.notify, NEW t \in config.second
  PROVE  config.second = {t}
BY Given DEF DecidesAlone

(***************************************************************************)
(* When an engine's verdict is heard, the others that have given none      *)
(* decide, and no other detection waits.                                   *)
(***************************************************************************)
LEMMA JudgingNow ==
  ASSUME IInv, VInv, NEW t \in Engines, At(t, "poll"), mutex = None, State({"BUFFERING"})
  PROVE  /\ t \in config.second /\ t \notin detection_state /\ ~At(Gsl, "woken")
         /\ ~At(Gsl, "buffer") /\ ~At(Gsl, "poll")
         /\ \A k \in config.second \ detection_state : Decides(k)
<1>1. Judges(t) /\ Gsl # None
  BY EnginesAssumption DEF Judges, Threads
<1>2. t \in config.second /\ t \notin detection_state
  BY <1>1, Given DEF VInv, Settled
<1>3. Open
  BY <1>1 DEF Open
<1>4. todo[t] # <<>>
  BY DEF At
<1> QED
  BY <1>1, <1>2, <1>3, <1>4 DEF VInv, Undecided, Fresh

(***************************************************************************)
(* An engine accepts. If it is the last one all engines have accepted      *)
(* since the detection, and the client is told; if not, its verdict is     *)
(* kept.                                                                   *)
(***************************************************************************)
LEMMA AcceptJudges ==
  ASSUME IInv, VInv, UNCHANGED config, NEW t \in Pollers, Accept(t)
  PROVE  VInv'
<1>1. /\ At(t, "poll") /\ Arg(t) = "success" /\ mutex = None /\ State({"BUFFERING"})
      /\ UNCHANGED <<rejection_notified, accepted, processing_started, capi_exit>>
  BY DEF Accept, engines, capi
<1>2. /\ todo[t] \in Free(t) /\ todo[t] # <<>> /\ Arg(t) \in Asks(t)
      /\ Last(todo[t]) \in Outcome(t) /\ Tail(todo[t]) = <<Last(todo[t])>>
  BY <1>1, Polling
<1>3. /\ t \in Engines /\ t \in Threads /\ t # Timer /\ t # Gsl /\ Engines \subseteq Threads
      /\ Timer \notin Engines /\ Gsl \in Threads /\ Gsl # Timer
      /\ \A k \in Pollers : k \in Threads /\ (k \in Engines \/ k = Gsl)
  BY <1>1, <1>2, PollerThreads, ThreadsAssumption DEF Asks, Pollers, Callers
<1>4. t \in accepted
  BY <1>1, <1>3 DEF VInv, Settled
<1>5. /\ t \in config.second /\ t \notin detection_state /\ ~At(Gsl, "woken")
      /\ ~At(Gsl, "buffer") /\ ~At(Gsl, "poll")
      /\ \A k \in config.second \ detection_state : Decides(k)
  BY <1>1, <1>3, JudgingNow
<1>6. CASE detection_state \cup {t} = config.second
  <2>1. Notify(t, "detected") /\ detection_state' = {}
    BY <1>6 DEF Accept
  <2>2. /\ mutex' = None /\ todo'[t] # <<>> /\ Head(todo'[t])[1] = "callback"
        /\ \A u \in Threads \ {t, Timer} : todo'[u] = todo[u]
    BY <2>1, NotifyLists
  <2>3. accepted = config.second
    BY <1>4, <1>6 DEF VInv, Settled
  <2>4. ASSUME NEW k \in Engines
        PROVE  ~Judges(k)' /\ (todo'[k] = <<>> => ~processing_started'[k])
    <3>1. CASE k = t
      BY <2>2, <3>1 DEF Judges, At
    <3>2. CASE k # t
      <4>1. ~Judges(k)
        <5>1. Judges(k) => k \in config.second
          BY Given
        <5> QED
          BY <1>6, <3>2, <5>1 DEF VInv, Settled
      <4>2. todo'[k] = todo[k]
        BY <1>3, <2>2, <3>2
      <4> QED
        BY <1>1, <4>1, <4>2 DEF Judges, At, VInv, Settled
    <3> QED
      BY <3>1, <3>2
  <2>5. Settled' /\ Undecided' /\ InBuffer'
    BY <1>1, <2>1, <2>3, <2>4, NobodyJudges DEF VInv, Settled
  <2>6. BothVerdicts' /\ Fresh'
    <3>1. todo'[Gsl] = todo[Gsl]
      BY <1>3, <2>2
    <3> QED
      BY <1>1, <1>5, <2>3, <3>1 DEF BothVerdicts, Fresh, At
  <2> QED
    BY <2>2, <2>5, <2>6, FreeMutex DEF VInv
<1>7. CASE detection_state \cup {t} # config.second
  <2>1. /\ detection_state' = detection_state \cup {t} /\ Then(t, <<>>)
        /\ UNCHANGED <<cur_state, mutex>>
    BY <1>7 DEF Accept
  <2> DEFINE e == Last(todo[t])
  <2>2. <<e>> \in Seq({e}) /\ Head(<<e>>) = e /\ <<e>> # <<>> /\ e[1] \in {"answer", "done"}
    BY <1>2, OutcomeOf
  <2> HIDE DEF e
  <2>3. todo'[t] = <<e>>
    BY <1>2, <1>3, <2>1, <2>2, ThenTail, Given DEF e
  <2>4. \A u \in Threads \ {t} : todo'[u] = todo[u]
    BY <1>3, <2>1, Given DEF Then, Goes
  <2>5. \A k \in Engines \ {t} : Judges(k)' = Judges(k) /\ Decides(k)' = Decides(k)
    BY <1>1, <1>3, <2>4, EnginesSame
  <2>6. ~At(t, "poll")' /\ ~At(t, "run")' /\ ~At(t, "callback")' /\ todo'[t] # <<>>
    BY <2>2, <2>3 DEF At
  <2>7. Settled'
    <3>1. detection_state' \subseteq accepted' /\ detection_state' # config'.second
      BY <1>1, <1>4, <1>7, <2>1 DEF VInv, Settled
    <3>2. ASSUME NEW k \in Engines
          PROVE  /\ (At(k, "poll") /\ Arg(k) = "success" => k \in accepted)'
                 /\ (todo[k] = <<>> => ~processing_started[k])'
                 /\ (k \in detection_state => ~Judges(k))'
      <4>1. CASE k = t
        BY <2>6, <4>1 DEF Judges
      <4>2. CASE k # t
        <5>1. todo'[k] = todo[k] /\ Judges(k)' = Judges(k)
          BY <1>3, <2>4, <2>5, <4>2
        <5>2. (At(k, "poll") /\ Arg(k) = "success" => k \in accepted)'
          BY <1>1, <5>1 DEF VInv, Settled, At, Arg
        <5>3. (todo[k] = <<>> => ~processing_started[k])'
          BY <1>1, <5>1 DEF VInv, Settled
        <5>4. (k \in detection_state => ~Judges(k))'
          BY <2>1, <4>2, <5>1 DEF VInv, Settled
        <5> QED
          BY <5>2, <5>3, <5>4
      <4> QED
        BY <4>1, <4>2
    <3> QED
      BY <1>1, <3>1, <3>2 DEF VInv, Settled
  <2>8. BothVerdicts'
    <3> SUFFICES ASSUME NEW k \in Pollers, At(k, "callback")', Arg(k)' = "detected"
                 PROVE  accepted = config.second
      BY <1>1 DEF BothVerdicts
    <3>1. k # t
      BY <2>6
    <3>2. todo'[k] = todo[k]
      BY <1>3, <2>4, <3>1
    <3> QED
      BY <3>2 DEF VInv, BothVerdicts, At, Arg
  <2>9. Fresh'
    <3>1. todo'[Gsl] = todo[Gsl]
      BY <1>3, <2>4
    <3> QED
      BY <1>5, <3>1 DEF Fresh, At
  <2>10. Undecided'
    BY <1>5, <2>1, <2>5, Given DEF Undecided
  <2>11. InBuffer'
    BY <1>1, <2>1 DEF InBuffer, State
  <2>12. mutex' = None
    BY <1>1, <2>1
  <2> QED
    BY <2>7, <2>8, <2>9, <2>10, <2>11, <2>12, FreeMutex DEF VInv
<1> QED
  BY <1>6, <1>7

(***************************************************************************)
(* An engine rejects, and stops the others before the verdicts are         *)
(* dropped. Only a client that hears of rejections may have heard of one   *)
(* already, and then there is no other engine.                             *)
(***************************************************************************)
LEMMA RejectJudges ==
  ASSUME IInv, VInv, UNCHANGED config, NEW t \in Pollers, Reject(t), DecidesAlone
  PROVE  VInv'
<1>1. /\ At(t, "poll") /\ Arg(t) = "reject" /\ mutex = None /\ State({"BUFFERING"})
      /\ UNCHANGED <<cur_state, detection_state, rejection_notified, accepted,
           processing_started, capi_exit>>
  BY DEF Reject, engines, capi, states, verdicts
<1>2. /\ todo[t] \in Free(t) /\ todo[t] # <<>> /\ Arg(t) \in Asks(t)
      /\ Last(todo[t]) \in Outcome(t) /\ Tail(todo[t]) = <<Last(todo[t])>>
  BY <1>1, Polling
<1>3. /\ t \in Engines /\ t \in Threads /\ t # Gsl /\ Engines \subseteq Threads
      /\ \A k \in Pollers : k \in Threads
  BY <1>1, <1>2, PollerThreads DEF Asks, Pollers
<1>4. t \in config.second /\ t \notin detection_state
  BY <1>1, <1>3, JudgingNow
<1> DEFINE e == Last(todo[t])
           r == <<<<"rejected">>, e>>
           s == Stage2(config.second \ {t}, "await")
<1>5. <<e>> \in Seq({e}) /\ Head(<<e>>) = e /\ <<e>> # <<>> /\ e[1] \in {"answer", "done"}
  BY <1>2, OutcomeOf
<1>6. <<<<"rejected">>>> \o <<e>> = r
  BY Joined2
<1>7. s \in Seq(Deciding)
  BY ListsOfEngines, Given
<1>8. e \in Outcomes("done")
  BY <1>2, <1>3 DEF Outcome
<1>9. CASE rejection_notified
  <2>1. Then(t, <<>>) /\ UNCHANGED mutex
    BY <1>9 DEF Reject
  <2> HIDE DEF e
  <2>2. todo'[t] = <<e>>
    BY <1>2, <1>3, <1>5, <2>1, ThenTail, Given DEF e
  <2>3. \A u \in Threads \ {t} : todo'[u] = todo[u]
    BY <1>3, <2>1, Given DEF Then, Goes
  <2>4. Settled' /\ BothVerdicts' /\ Fresh'
    BY <1>1, <1>2, <1>3, <1>5, <2>2, <2>3, SettledKept DEF VInv, Settled, Dull
  <2>5. config.second = {t}
    BY <1>4, <1>9, Alone DEF VInv, Settled
  <2>6. detection_state = {}
    BY <1>4, <2>5, Given
  <2>7. \A k \in Engines : ~Judges(k)'
    <3>1. ~Judges(t)'
      BY <1>5, <2>2 DEF Judges, At
    <3>2. \A k \in Engines \ {t} : todo'[k] = <<>>
      BY <1>3, <2>3, <2>5, Given
    <3> QED
      BY <3>1, <3>2 DEF Judges, At
  <2>8. Undecided' /\ InBuffer'
    BY <1>1, <2>6, <2>7 DEF Undecided, InBuffer
  <2>9. mutex' = None
    BY <1>1, <2>1
  <2> QED
    BY <2>4, <2>8, <2>9, FreeMutex DEF VInv
<1>10. CASE ~rejection_notified
  <2>1. Then(t, s \o <<<<"rejected">>>>) /\ mutex' = t
    BY <1>10 DEF Reject
  <2> HIDE DEF e, s
  <2>2. todo'[t] \in After(Deciding, <<<<"rejected">>>> \o <<e>>)
    BY <1>2, <1>3, <1>5, <1>7, <2>1, Pushes, Given DEF e
  <2>3. Busy(todo'[t])
    BY <1>6, <1>8, <2>2, RejectsBusy
  <2>4. todo'[t] # <<>> /\ Head(todo'[t])[1] \notin Dull
    BY <2>3, BusyHead DEF Work, Out, Dull
  <2>5. \A u \in Threads \ {t} : todo'[u] = todo[u]
    BY <1>3, <2>1, Given DEF Then, Goes
  <2>6. Settled' /\ BothVerdicts' /\ Fresh'
    BY <1>1, <1>2, <1>3, <2>4, <2>5, SettledKept DEF VInv, Settled
  <2>7. detection_state' # {} => State({"BUFFERING"})'
    BY <1>1 DEF State
  <2> QED
    BY <1>3, <2>1, <2>3, <2>6, <2>7, BusyJudges
<1> QED
  BY <1>9, <1>10

(***************************************************************************)
(* The verdicts are dropped, with the other engines out of their loops.    *)
(***************************************************************************)
LEMMA RejectedJudges ==
  ASSUME IInv, VInv, UNCHANGED config, NEW t \in Pollers, Rejected(t), DecidesAlone
  PROVE  VInv'
<1>1. /\ At(t, "rejected") /\ detection_state' = {}
      /\ UNCHANGED <<cur_state, accepted, processing_started, capi_exit>>
  BY DEF Rejected, engines, capi
<1>2. t \in Threads /\ Engines \subseteq Threads /\ t # Timer /\ Gsl \in Threads /\ Gsl # Timer
      /\ Timer \notin Engines
      /\ \A k \in Pollers : k \in Threads /\ (k \in Engines \/ k = Gsl)
  BY PollerThreads, ThreadsAssumption DEF Pollers, Callers
<1>3. mutex = t /\ Runs(t)
  BY <1>1, <1>2, WhoseTurn, Given DEF At, HeldNames
<1>4. /\ t \in Engines /\ State({"BUFFERING"})
      /\ \E e \in Outcome(t) : todo[t] = <<<<"rejected">>, e>>
  BY <1>1, <1>3, HeldShapes DEF At
<1>5. PICK e \in Outcome(t) : todo[t] = <<<<"rejected">>, e>>
  BY <1>4
<1>6. Tail(todo[t]) = <<e>> /\ todo[t] # <<>> /\ t # Gsl
  BY <1>4, <1>5, PollerThreads
<1>7. t \in config.second
  BY <1>4, <1>6, Given
<1>8. CASE config.notify
  <2>1. Notify(t, "rejected") /\ rejection_notified'
    BY <1>8 DEF Rejected
  <2>2. /\ mutex' = None /\ todo'[t] # <<>> /\ Head(todo'[t]) = <<"callback", "rejected">>
        /\ \A u \in Threads \ {t, Timer} : todo'[u] = todo[u]
    BY <2>1, NotifyLists
  <2>3. config.second = {t}
    BY <1>7, <1>8, Alone
  <2>4. Head(todo'[t])[1] = "callback" /\ Head(todo'[t])[2] = "rejected"
    BY <2>2
  <2>5. ASSUME NEW k \in Engines
        PROVE  ~Judges(k)' /\ (todo'[k] = <<>> => ~processing_started'[k])
    <3>1. CASE k = t
      BY <2>2, <2>4, <3>1 DEF Judges, At
    <3>2. CASE k # t
      <4>1. todo[k] = <<>> /\ todo'[k] = <<>>
        BY <1>2, <2>2, <2>3, <3>2, Given
      <4> QED
        BY <1>1, <4>1 DEF Judges, At, VInv, Settled
    <3> QED
      BY <3>1, <3>2
  <2>6. Settled' /\ Undecided' /\ InBuffer'
    BY <1>1, <1>8, <2>5, NobodyJudges DEF VInv, Settled
  <2>7. todo'[Gsl] = todo[Gsl]
    BY <1>2, <1>6, <2>2
  <2>8. BothVerdicts'
    <3> SUFFICES ASSUME NEW k \in Pollers, At(k, "callback")', Arg(k)' = "detected"
                 PROVE  accepted = config.second
      BY <1>1 DEF BothVerdicts
    <3>1. k # t
      BY <2>4 DEF Arg
    <3>2. todo'[k] = todo[k]
      BY <1>2, <2>2, <2>7, <3>1
    <3> QED
      BY <3>2 DEF VInv, BothVerdicts, At, Arg
  <2>9. Fresh'
    BY <1>4, <1>6, <2>7 DEF VInv, Fresh, At
  <2> QED
    BY <2>2, <2>6, <2>8, <2>9, FreeMutex DEF VInv
<1>9. CASE ~config.notify
  <2> DEFINE a == <<"restarted">>
             b == <<"unwake">>
             c == <<"unlock">>
             r == <<a, b, c>>
             T == {a, b, c}
             q == RestartEngines
  <2>1. Then(t, q \o r) /\ UNCHANGED <<rejection_notified, mutex>>
    BY <1>9 DEF Rejected
  <2>2. q \in Seq(Renewing)
    BY ListsOfEngines, Given
  <2>3. r \in Seq(T) /\ r # <<>> /\ Head(r)[1] = "restarted"
    OBVIOUS
  <2>4. <<e>> \in Seq({e})
    OBVIOUS
  <2> HIDE DEF q, r, T
  <2>5. Busy(r)
    BY <2>3, BusyOut DEF Out
  <2>6. Busy(q \o r)
    BY <2>2, <2>3, <2>5, BusyFront, WorkSections
  <2>7. q \o r \in Seq(Renewing \cup T)
    <3>1. q \in Seq(Renewing \cup T) /\ r \in Seq(Renewing \cup T)
      BY <2>2, <2>3, SeqMonotonic
    <3> QED
      BY <3>1, ConcatProperties
  <2>8. Busy((q \o r) \o <<e>>)
    BY <2>4, <2>6, <2>7, BusyBack
  <2>9. todo'[t] = (q \o r) \o <<e>> /\ \A u \in Threads \ {t} : todo'[u] = todo[u]
    BY <1>2, <1>6, <2>1, Given DEF Then, Goes
  <2>10. Busy(todo'[t])
    BY <2>8, <2>9
  <2>11. todo'[t] # <<>> /\ Head(todo'[t])[1] \notin Dull
    BY <2>10, BusyHead DEF Work, Out, Dull
  <2>12. Settled' /\ BothVerdicts' /\ Fresh'
    BY <1>1, <1>2, <1>6, <2>1, <2>9, <2>11, SettledKept DEF VInv, Settled
  <2> QED
    BY <1>1, <1>2, <1>3, <1>6, <2>1, <2>10, <2>12, BusyJudges
<1> QED
  BY <1>8, <1>9

(***************************************************************************)
(* A step that works on the stream, other than engaging an engine, gives   *)
(* no verdict and starts no engine, and only one that asks an engine to    *)
(* leave its loop sets its exit flag.                                      *)
(***************************************************************************)
LEMMA CapiKept ==
  ASSUME NEW t, Works(t), Head(todo[t])[1] # "engage",
         processing_started \in [Engines -> BOOLEAN], capi_exit \in [Engines -> BOOLEAN]
  PROVE  /\ accepted' = accepted
         /\ processing_started' \in [Engines -> BOOLEAN] /\ capi_exit' \in [Engines -> BOOLEAN]
         /\ \A k \in Engines : processing_started'[k] => processing_started[k]
         /\ Head(todo[t])[1] # "quit" => \A k \in Engines : capi_exit'[k] => capi_exit[k]
<1> DEFINE Goal ==
             /\ accepted' = accepted
             /\ processing_started' \in [Engines -> BOOLEAN]
             /\ capi_exit' \in [Engines -> BOOLEAN]
             /\ \A k \in Engines : processing_started'[k] => processing_started[k]
             /\ Head(todo[t])[1] # "quit" => \A k \in Engines : capi_exit'[k] => capi_exit[k]
<1>1. ASSUME UNCHANGED capi PROVE Goal
  BY <1>1 DEF capi
<1>2. ASSUME EngineCall(t) PROVE Goal
  <2>1. ASSUME Quit(t) PROVE Goal
    <3>1. /\ processing_started' = [processing_started EXCEPT ![Arg(t)] = FALSE]
          /\ capi_exit' = [capi_exit EXCEPT ![Arg(t)] = TRUE]
          /\ accepted' = accepted /\ Head(todo[t])[1] = "quit"
      BY <2>1 DEF Quit, At
    <3>2. processing_started' \in [Engines -> BOOLEAN] /\ capi_exit' \in [Engines -> BOOLEAN]
      BY <3>1
    <3>3. \A k \in Engines : processing_started'[k] => processing_started[k]
      BY <3>1
    <3> QED
      BY <3>1, <3>2, <3>3
  <2>2. ASSUME StartSoundEngine(t) PROVE Goal
    BY <2>2 DEF StartSoundEngine
  <2>3. ASSUME Exit(t) \/ LoadNew(t) \/ LoadAgain(t) \/ Close(t) \/ StartRecognition(t)
                 \/ StopRecognition(t) \/ RestartRecognition(t) \/ Await(t)
        PROVE UNCHANGED capi
    BY <2>3 DEF Exit, LoadNew, LoadAgain, Close, StartRecognition, StopRecognition,
       RestartRecognition, Await
  <2>4. ~SetDetected(t)
    BY DEF SetDetected, At
  <2> HIDE DEF Goal
  <2> QED
    BY <1>1, <1>2, <2>1, <2>2, <2>3, <2>4 DEF EngineCall
<1>3. ASSUME Handling(t) PROVE Goal
  <2>1. ASSUME Halt(t) \/ Halted(t) \/ Unwake(t) \/ StartLater(t) \/ Start(t) \/ StartFails(t)
                 \/ Restart(t) \/ RestartFails(t) \/ Started(t)
        PROVE UNCHANGED capi
    BY <2>1 DEF Halt, Halted, Unwake, StartLater, Start, StartFails, Restart, RestartFails,
       Started, engines
  <2>2. ASSUME Load(t) \/ LoadFails(t) \/ Loaded(t) \/ Unload(t) \/ Unloaded(t) \/ Configure(t)
                 \/ Pause(t) \/ Resume(t) \/ Reconfigure(t) \/ Reconfigured(t) \/ Reload(t)
        PROVE UNCHANGED capi
    BY <2>2 DEF Load, LoadFails, Loaded, Unload, Unloaded, Configure, Pause, Resume,
       Reconfigure, Reconfigured, Reload, engines
  <2>3. ASSUME Disconnect(t) \/ Connect(t) \/ Offline(t) \/ WentOffline(t) \/ Online(t)
                 \/ WentOnline(t) \/ CallOffline(t) \/ Nothing(t)
        PROVE UNCHANGED capi
    BY <2>3 DEF Disconnect, Connect, Offline, WentOffline, Online, WentOnline, CallOffline,
       Nothing, engines
  <2> HIDE DEF Goal
  <2> QED
    BY <1>1, <1>3, <2>1, <2>2, <2>3 DEF Handling
<1> HIDE DEF Goal
<1>4. Goal
  BY <1>2, <1>3 DEF Works
<1> QED
  BY <1>4 DEF Goal

(***************************************************************************)
(* The list of a call in progress, and of a second stage engine with the   *)
(* mutex.                                                                  *)
(***************************************************************************)
LEMMA RunsTyped ==
  ASSUME NEW t \in Threads \ {Gsl}, Runs(t), ~Leaving
  PROVE  /\ \E S : todo[t] \in Seq(S)
         /\ \/ \E ops \in SUBSET AllOps : Last(todo[t]) \in Leaves(ops)
            \/ \E name \in {"done"} : Last(todo[t]) \in Outcomes(name)
<1> DEFINE Goal(q) == /\ \E S : q \in Seq(S)
                      /\ \/ \E ops \in SUBSET AllOps : Last(q) \in Leaves(ops)
                         \/ \E name \in {"done"} : Last(q) \in Outcomes(name)
<1>1. ASSUME NEW S, NEW ops \in SUBSET AllOps, NEW l \in Leaves(ops), NEW q \in After(S, <<l>>)
      PROVE  Goal(q)
  <2>1. <<l>> \in Seq({l}) /\ <<l>> # <<>> /\ Last(<<l>>) = l
    BY LeafLists
  <2> DEFINE r == <<l>>
  <2> HIDE DEF r
  <2>2. q \in Seq(S \cup {l}) /\ Last(q) = l
    BY <1>1, <2>1, AfterIsList DEF r
  <2> QED
    BY <2>2
<1>2. ASSUME NEW S, NEW e \in Outcomes("done"), NEW a, NEW q \in After(S, <<a, e>>)
      PROVE  Goal(q)
  <2>1. <<a, e>> \in Seq({a, e}) /\ <<a, e>> # <<>> /\ Last(<<a, e>>) = e
    BY OutcomeLists
  <2> DEFINE r == <<a, e>>
  <2> HIDE DEF r
  <2>2. q \in Seq(S \cup {a, e}) /\ Last(q) = e
    BY <1>2, <2>1, AfterIsList DEF r
  <2> QED
    BY <2>2
<1>0. {"lateStop"} \in SUBSET AllOps
  BY DEF AllOps
<1>3. CASE t = Timer
  <2>1. PICK l \in Leaves({"lateStop"}) :
        \/ todo[Timer] = <<<<"handle", "stop">>, l>>
        \/ todo[Timer] \in After(Ending, <<<<"halted">>, <<"unwake">>, l>>)
        \/ todo[Timer] \in After(Ending, <<l>>)
    BY <1>3 DEF Runs, TimerRuns
  <2>2. CASE todo[Timer] = <<<<"handle", "stop">>, l>>
    <3> DEFINE a == <<"handle", "stop">>
    <3>1. todo[Timer] = <<a, l>>
      BY <2>2
    <3> HIDE DEF a
    <3>2. todo[Timer] \in Seq({a, l}) /\ Last(todo[Timer]) = l
      BY <3>1 DEF Last
    <3> QED
      BY <1>0, <1>3, <3>2
  <2>3. CASE todo[Timer] \in After(Ending, <<<<"halted">>, <<"unwake">>, l>>)
    <3> DEFINE a == <<"halted">>
               b == <<"unwake">>
               r == <<a, b, l>>
               T == {a, b, l}
    <3>1. r \in Seq(T) /\ r # <<>> /\ r[Len(r)] = l /\ todo[Timer] \in After(Ending, r)
      BY <2>3
    <3> HIDE DEF a, b, r, T
    <3>2. Last(r) = l
      BY <3>1 DEF Last
    <3>3. ASSUME NEW q \in After(Ending, r) PROVE q \in Seq(Ending \cup T) /\ Last(q) = l
      BY <3>1, <3>2, <3>3, AfterIsList
    <3>4. todo[Timer] \in Seq(Ending \cup T) /\ Last(todo[Timer]) = l
      BY <3>1, <3>3
    <3> QED
      BY <1>0, <1>3, <3>4
  <2>4. CASE todo[Timer] \in After(Ending, <<l>>)
    BY <1>0, <1>1, <1>3, <2>4
  <2> QED
    BY <2>1, <2>2, <2>3, <2>4
<1>4. CASE t \in Engines
  <2>1. t # Timer
    BY <1>4, ThreadsAssumption
  <2>2. Rejecting(t) \/ Renews(t)
    BY <1>4, <2>1 DEF Runs
  <2>3. PICK e \in Outcomes("done") :
          \/ todo[t] \in After(Deciding, <<<<"rejected">>, e>>)
          \/ todo[t] \in After(Renewing, <<<<"unlock">>, e>>)
    BY <2>2 DEF Rejecting, Renews
  <2>4. Goal(todo[t])
    BY <1>2, <2>3
  <2> QED
    BY <2>4
<1>5. CASE t \in {Client, Server}
  <2>1. t # Timer /\ t \notin Engines
    BY <1>5, ThreadsAssumption
  <2>2. todo[t] \in CallLists(Ops(t))
    BY <2>1 DEF Runs
  <2>3. PICK l \in Leaves(Ops(t)) : todo[t] \in After(Section, <<l>>)
    BY <2>2 DEF CallLists
  <2>4. Ops(t) \in SUBSET AllOps
    BY DEF Ops, AllOps
  <2>5. Goal(todo[t])
    BY <1>1, <2>3, <2>4
  <2> QED
    BY <2>5
<1> QED
  BY <1>3, <1>4, <1>5 DEF Threads

(***************************************************************************)
(* A handler that puts sections in front of its list, none of which asks   *)
(* an engine to leave its loop.                                            *)
(***************************************************************************)
Pushing(t) ==
  /\ Head(todo[t])[1] \notin Work
  /\ \E m \in Seq({s \in Section : s[1] # "quit"}) : Then(t, m)

(***************************************************************************)
(* What a step that works on a buffering stream may do when it leaves it   *)
(* buffering: be done with its section, fail, push sections, or begin to   *)
(* halt the stream or to restart it.                                       *)
(***************************************************************************)
LEMMA StaysBuffering ==
  ASSUME NEW t \in Threads, Works(t), State({"BUFFERING"})', Head(todo[t])[1] # "engage"
  PROVE  /\ State({"BUFFERING"}) /\ Head(todo[t])[1] \notin Out
         /\ \/ Then(t, <<>>)
            \/ Then(t, <<<<"restartFails">>>>)
            \/ Pushing(t)
            \/ Head(todo[t])[1] \notin Work /\ Fail(t)
            \/ Halt(t) \/ Restart(t)
<1> DEFINE n == Head(todo[t])[1]
           Move == \/ Then(t, <<>>)
                   \/ Then(t, <<<<"restartFails">>>>)
                   \/ Pushing(t)
                   \/ n \notin Work /\ Fail(t)
                   \/ Halt(t) \/ Restart(t)
           Goal == State({"BUFFERING"}) /\ n \notin Out /\ Move
           Light == {s \in Section : s[1] # "quit"}
<1>1. /\ <<<<"loadFails", "new">>>> \in Seq(Light) /\ <<<<"loadFails", "same">>>> \in Seq(Light)
      /\ <<<<"startFails">>>> \in Seq(Light)
      /\ {"handle", "startFails", "loadFails", "gslLoad", "gslStart"} \cap Work = {}
      /\ <<<<"handle", "stop">>>> \in Seq(Light) /\ <<<<"handle", "unload">>>> \in Seq(Light)
      /\ <<<<"offline">>>> \in Seq(Light)
  BY DEF Section, Plain, Events, Work, Out
<1>2. ASSUME NEW m \in Seq(Light), n \notin Work, Then(t, m) PROVE Pushing(t)
  BY <1>2 DEF Pushing
<1>3. ASSUME EngineCall(t), UNCHANGED stream PROVE Goal
  <2>1. State({"BUFFERING"})
    BY <1>3 DEF State, stream, states
  <2>2. n \notin Out
    BY <1>3 DEF EngineCall, Exit, LoadNew, LoadAgain, Close, StartRecognition,
       StopRecognition, RestartRecognition, Quit, Await, StartSoundEngine, SetDetected, At,
       Out
  <2>3. ASSUME Exit(t) \/ Close(t) \/ StopRecognition(t) \/ Quit(t) \/ Await(t)
                 \/ StartSoundEngine(t)
        PROVE Then(t, <<>>)
    BY <2>3 DEF Exit, Close, StopRecognition, Quit, Await, StartSoundEngine
  <2>4. ASSUME LoadNew(t) PROVE Then(t, <<>>) \/ Pushing(t)
    <3>1. n = "gslLoad" /\ (Then(t, <<>>) \/ Then(t, <<<<"loadFails", "new">>>>))
      BY <2>4 DEF LoadNew, At
    <3> QED
      BY <1>1, <1>2, <3>1
  <2>5. ASSUME LoadAgain(t) PROVE Then(t, <<>>) \/ Pushing(t)
    <3>1. n = "gslLoad" /\ (Then(t, <<>>) \/ Then(t, <<<<"loadFails", "same">>>>))
      BY <2>5 DEF LoadAgain, At
    <3> QED
      BY <1>1, <1>2, <3>1
  <2>6. ASSUME StartRecognition(t) PROVE Then(t, <<>>) \/ Pushing(t)
    <3>1. n = "gslStart" /\ (Then(t, <<>>) \/ Then(t, <<<<"startFails">>>>))
      BY <2>6 DEF StartRecognition, At
    <3> QED
      BY <1>1, <1>2, <3>1
  <2>7. ASSUME RestartRecognition(t) PROVE Then(t, <<>>) \/ Then(t, <<<<"restartFails">>>>)
    BY <2>7 DEF RestartRecognition
  <2>8. ~SetDetected(t)
    BY DEF SetDetected, At
  <2> HIDE DEF n
  <2> QED
    BY <1>3, <2>1, <2>2, <2>3, <2>4, <2>5, <2>6, <2>7, <2>8 DEF EngineCall
<1>4. ASSUME \/ StartLater(t) \/ Start(t) \/ Load(t) \/ Unload(t) \/ Configure(t)
             \/ Pause(t) \/ Resume(t) \/ Reconfigure(t) \/ Reload(t) \/ Disconnect(t)
             \/ Online(t) \/ CallOffline(t)
      PROVE FALSE
  <2>1. ~StartLater(t) /\ ~Start(t) /\ ~Load(t) /\ ~Unload(t)
    BY DEF StartLater, Start, Load, Unload, State, stream, states
  <2>2. ~Configure(t) /\ ~Pause(t) /\ ~Resume(t) /\ ~Reconfigure(t)
    BY DEF Configure, Pause, Resume, Reconfigure, State, states
  <2>3. ~Reload(t) /\ ~Disconnect(t) /\ ~Online(t) /\ ~CallOffline(t)
    BY DEF Reload, Disconnect, Online, CallOffline, State, states, TransitTo
  <2> QED
    BY <1>4, <2>1, <2>2, <2>3
<1>5. ~Connect(t)
  <2> SUFFICES ASSUME Connect(t) PROVE FALSE
    OBVIOUS
  <2>1. State({"IDLE", "LOADED", "ACTIVE"}) /\ (cur_state' = cur_state \/ cur_state' = "ACTIVE")
    BY DEF Connect, TransitTo
  <2> QED
    BY <2>1 DEF State
<1>6. /\ ~Halted(t) /\ ~Started(t) /\ ~Loaded(t) /\ ~Unloaded(t) /\ ~Reconfigured(t)
      /\ ~WentOffline(t)
  BY DEF Halted, Started, Loaded, Unloaded, Reconfigured, WentOffline, TransitTo, State
<1>7. ~RestartFails(t)
  <2> SUFFICES ASSUME RestartFails(t) PROVE FALSE
    OBVIOUS
  <2>1. cur_state' = "LOADED" \/ (State({"DETECTED"}) /\ cur_state' = cur_state)
    BY DEF RestartFails, TransitTo
  <2> QED
    BY <2>1 DEF State
<1>8. ASSUME Halt(t) \/ Restart(t) PROVE Goal
  <2>1. n = "handle" /\ cur_state' = cur_state
    BY <1>8 DEF Halt, Restart, Handles, At, states
  <2>2. State({"BUFFERING"})
    BY <2>1 DEF State
  <2> QED
    BY <1>8, <2>1, <2>2 DEF Out
<1>9. ASSUME Unwake(t) \/ WentOnline(t) \/ Nothing(t) PROVE Goal
  <2>1. n \in {"unwake", "online", "handle"} /\ cur_state' = cur_state /\ Then(t, <<>>)
    BY <1>9 DEF Unwake, WentOnline, Nothing, Handles, At, stream, states
  <2>2. State({"BUFFERING"})
    BY <2>1 DEF State
  <2> QED
    BY <2>1, <2>2 DEF Out
<1>10. ASSUME StartFails(t) \/ LoadFails(t) PROVE Goal
  <2>1. n \in {"startFails", "loadFails"} /\ cur_state' = cur_state /\ Fail(t)
    BY <1>10 DEF StartFails, LoadFails, At, states
  <2>2. State({"BUFFERING"})
    BY <2>1 DEF State
  <2> QED
    BY <1>1, <2>1, <2>2 DEF Out
<1>11. ASSUME Offline(t) PROVE Goal
  <2>1. n = "handle" /\ cur_state' = cur_state
    BY <1>11 DEF Offline, Handles, At
  <2>2. State({"BUFFERING"})
    BY <2>1 DEF State
  <2>3. State(Running) /\ ~State({"IDLE"})
    BY <2>2 DEF State, Running
  <2> DEFINE a == <<<<"handle", "stop">>>>
             b == <<<<"handle", "unload">>>>
             c == <<<<"offline">>>>
  <2>4. Then(t, a \o b \o c)
    BY <1>11, <2>3 DEF Offline
  <2>5. a \in Seq(Light) /\ b \in Seq(Light) /\ c \in Seq(Light)
    BY <1>1
  <2> HIDE DEF a, b, c, Light
  <2>6. a \o b \o c \in Seq(Light)
    BY <2>5, ConcatProperties
  <2>7. Pushing(t)
    BY <1>1, <1>2, <2>1, <2>4, <2>6
  <2> QED
    BY <2>1, <2>2, <2>7 DEF Out
<1> HIDE DEF Goal
<1>12. Goal
  BY <1>3, <1>4, <1>5, <1>6, <1>7, <1>8, <1>9, <1>10, <1>11 DEF Works, Handling
<1> QED
  BY <1>12 DEF Goal

(***************************************************************************)
(* The list that stops the engines and leaves BUFFERING ends the           *)
(* detection,                                                              *)
(***************************************************************************)
LEMMA HaltBusy ==
  ASSUME config \in Configs, NEW t, NEW S, NEW r \in Seq(S)
  PROVE  Busy(HaltList(t) \o r)
<1> DEFINE h == <<<<"halted">>>>
           a == IF Arg(t) \in {"stop", "pause"} THEN <<>> ELSE <<Head(todo[t])>>
           b == IF State(Told) THEN <<<<"unwake">>>> ELSE <<>>
           A == {Head(todo[t])}
           B == {<<"unwake">>}
           H == {<<"halted">>}
           q == StopEngines
<1>1. q \in Seq(Ending)
  BY ListsOfEngines
<1>2. h \in Seq(H) /\ h # <<>> /\ Head(h)[1] = "halted"
  OBVIOUS
<1>3. a \in Seq(A) /\ b \in Seq(B)
  <2>1. <<>> \in Seq(A) /\ <<>> \in Seq(B)
    OBVIOUS
  <2>2. <<Head(todo[t])>> \in Seq(A) /\ <<<<"unwake">>>> \in Seq(B)
    OBVIOUS
  <2> QED
    BY <2>1, <2>2
<1>4. HaltList(t) = q \o h \o a \o b
  BY DEF HaltList
<1> HIDE DEF h, a, b, A, B, H, q
<1>5. Busy(h)
  BY <1>2, BusyOut DEF Out
<1>6. Busy(q \o h)
  BY <1>1, <1>2, <1>5, BusyFront, WorkSections
<1>7. q \o h \in Seq(Ending \cup H)
  <2>1. q \in Seq(Ending \cup H) /\ h \in Seq(Ending \cup H)
    BY <1>1, <1>2, SeqMonotonic
  <2> QED
    BY <2>1, ConcatProperties
<1>8. Busy(q \o h \o a) /\ q \o h \o a \in Seq(Ending \cup H \cup A)
  <2>1. q \o h \in Seq(Ending \cup H \cup A) /\ a \in Seq(Ending \cup H \cup A)
    BY <1>3, <1>7, SeqMonotonic
  <2>2. q \o h \o a \in Seq(Ending \cup H \cup A)
    BY <2>1, ConcatProperties
  <2> QED
    BY <1>3, <1>6, <1>7, <2>2, BusyBack
<1>9. Busy(q \o h \o a \o b) /\ q \o h \o a \o b \in Seq(Ending \cup H \cup A \cup B)
  <2>1. /\ q \o h \o a \in Seq(Ending \cup H \cup A \cup B)
        /\ b \in Seq(Ending \cup H \cup A \cup B)
    BY <1>3, <1>8, SeqMonotonic
  <2>2. q \o h \o a \o b \in Seq(Ending \cup H \cup A \cup B)
    BY <2>1, ConcatProperties
  <2> QED
    BY <1>3, <1>8, <2>2, BusyBack
<1> QED
  BY <1>4, <1>9, BusyBack

(***************************************************************************)
(* and so does the one that starts recognition again.                      *)
(***************************************************************************)
LEMMA RestartBusy ==
  ASSUME config \in Configs, NEW S, NEW r \in Seq(S)
  PROVE  Busy(RestartEngines \o <<<<"restarted">>, <<"unwake">>>> \o r)
<1> DEFINE h == <<<<"restarted">>, <<"unwake">>>>
           H == {<<"restarted">>, <<"unwake">>}
           q == RestartEngines
<1>1. q \in Seq(Renewing)
  BY ListsOfEngines
<1>2. h \in Seq(H) /\ h # <<>> /\ Head(h)[1] = "restarted"
  OBVIOUS
<1> HIDE DEF h, H, q
<1>3. Busy(h)
  BY <1>2, BusyOut DEF Out
<1>4. Busy(q \o h)
  BY <1>1, <1>2, <1>3, BusyFront, WorkSections
<1>5. q \o h \in Seq(Renewing \cup H)
  <2>1. q \in Seq(Renewing \cup H) /\ h \in Seq(Renewing \cup H)
    BY <1>1, <1>2, SeqMonotonic
  <2> QED
    BY <2>1, ConcatProperties
<1>6. Busy((q \o h) \o r)
  BY <1>4, <1>5, BusyBack
<1> QED
  BY <1>6 DEF q, h

(***************************************************************************)
(* A timer that waits does not end the detection.                          *)
(***************************************************************************)
LEMMA NotAsleep ==
  ASSUME NEW q, Busy(q)
  PROVE  q # <<<<"sleep">>>>
<1>1. Head(<<<<"sleep">>>>)[1] = "sleep"
  OBVIOUS
<1> QED
  BY <1>1, BusyHead DEF Work, Out

(***************************************************************************)
(* Who works on the stream has the mutex and a list with work.             *)
(***************************************************************************)
LEMMA WorkerRuns ==
  ASSUME IInv, NEW t \in Threads \ {Gsl}, Works(t)
  PROVE  /\ mutex = t /\ Runs(t) /\ ~Leaving /\ todo[t] # <<>>
         /\ Head(todo[t])[1] # "engage" /\ Head(todo[t])[1] \in Names
<1>1. /\ todo[t] # <<>> /\ Head(todo[t])[1] \in Names \cup {"engage"}
      /\ Head(todo[t])[1] \in HeldNames \cup {"engage"} /\ Head(todo[t])[1] # "joinTimer"
  BY WorkNames
<1>2. mutex = t /\ Runs(t) /\ Head(todo[t])[1] # "engage"
  BY <1>1, WhoseTurn, Given
<1>3. ~Leaving
  <2> SUFFICES ASSUME Leaving PROVE FALSE
    OBVIOUS
  <2>1. t = Client
    BY <1>2, LeavingHolds, Given
  <2>2. Head(<<<<"joinTimer">>>>)[1] = "joinTimer"
    OBVIOUS
  <2> QED
    BY <1>1, <2>1, <2>2 DEF Leaving
<1> QED
  BY <1>1, <1>2, <1>3

(***************************************************************************)
(* A step that works on a buffering stream and leaves it buffering:        *)
(* whoever ends the detection goes on to, and whoever did not does not     *)
(* stop engines unless the detection ends with it.                         *)
(***************************************************************************)
LEMMA WorksInBuffering ==
  ASSUME IInv, NEW t \in Threads \ {Gsl}, Works(t), State({"BUFFERING"})'
  PROVE  /\ State({"BUFFERING"})
         /\ Busy(todo[t]) => Busy(todo'[t])
         /\ NoQuit(todo[t]) => NoQuit(todo'[t]) \/ Busy(todo'[t])
<1> DEFINE q == todo[t]
           n == Head(q)[1]
<1>1. q # <<>> /\ n # "engage" /\ Runs(t) /\ ~Leaving
  BY WorkerRuns
<1>2. PICK S : q \in Seq(S)
  BY <1>1, RunsTyped
<1>3. (\E ops : Last(q) \in Leaves(ops)) \/ Last(q) \in Outcomes("done")
  BY <1>1, RunsTyped
<1>4. /\ State({"BUFFERING"}) /\ n \notin Out
      /\ \/ Then(t, <<>>)
         \/ Then(t, <<<<"restartFails">>>>)
         \/ Pushing(t)
         \/ n \notin Work /\ Fail(t)
         \/ Halt(t) \/ Restart(t)
  BY <1>1, StaysBuffering
<1>5. Tail(q) \in Seq(S) /\ (Busy(q) => Busy(Tail(q))) /\ (NoQuit(q) => NoQuit(Tail(q)))
  <2>1. Tail(q) \in Seq(S)
    BY <1>1, <1>2, HeadTailProperties
  <2>2. Busy(q) => Busy(Tail(q))
    BY <1>2, <1>4, BusyTail
  <2>3. NoQuit(q) => NoQuit(Tail(q))
    BY <1>1, <1>2, NoQuitTail
  <2> QED
    BY <2>1, <2>2, <2>3
<1>6. n \notin Work => ~Busy(q)
  BY BusyHead
<1>7. DOMAIN todo = Threads /\ config \in Configs
  BY Given
<1> HIDE DEF q, n
<1>8. CASE Then(t, <<>>)
  <2>1. todo'[t] = Tail(q)
    BY <1>5, <1>7, <1>8, ThenTail DEF q
  <2> QED
    BY <1>4, <1>5, <2>1 DEF q
<1>9. CASE Then(t, <<<<"restartFails">>>>)
  <2> DEFINE m == <<<<"restartFails">>>>
             M == {<<"restartFails">>}
  <2>1. m \in Seq(M) /\ \A s \in M : s[1] \in Work /\ s[1] # "quit"
    BY DEF Work
  <2>2. todo'[t] = m \o Tail(q)
    BY <1>7, <1>9 DEF Then, Goes, q
  <2> HIDE DEF m, M
  <2>3. Busy(q) => Busy(m \o Tail(q))
    BY <1>5, <2>1, BusyFront
  <2>4. NoQuit(q) => NoQuit(m \o Tail(q))
    BY <1>5, <2>1, NoQuitFront
  <2> QED
    BY <1>4, <2>2, <2>3, <2>4 DEF q
<1>10. CASE Pushing(t)
  <2> DEFINE M == {s \in Section : s[1] # "quit"}
  <2>1. PICK m \in Seq(M) : Then(t, m)
    BY <1>10 DEF Pushing
  <2>2. n \notin Work
    BY <1>10 DEF Pushing, q, n
  <2>3. todo'[t] = m \o Tail(q)
    BY <1>7, <2>1 DEF Then, Goes, q
  <2>4. \A s \in M : s[1] # "quit"
    OBVIOUS
  <2> HIDE DEF M
  <2>5. NoQuit(q) => NoQuit(m \o Tail(q))
    BY <1>5, <2>4, NoQuitFront
  <2> QED
    BY <1>4, <1>6, <2>2, <2>3, <2>5 DEF q
<1>11. CASE n \notin Work /\ Fail(t)
  <2> DEFINE f == [Last(q) EXCEPT ![2] = FALSE]
  <2>1. f[1] # "quit"
    <3>1. CASE \E ops : Last(q) \in Leaves(ops)
      <4>1. PICK ops : Last(q) \in Leaves(ops)
        BY <3>1
      <4>2. f \in Leaves(ops)
        BY <4>1, LeaveFails
      <4> HIDE DEF f
      <4> QED
        BY <4>2 DEF Leaves
    <3>2. CASE Last(q) \in Outcomes("done")
      <4>1. f \in Outcomes("done")
        BY <3>2, OutcomeFails
      <4> HIDE DEF f
      <4> QED
        BY <4>1 DEF Outcomes
    <3> QED
      BY <1>3, <3>1, <3>2
  <2>2. todo'[t] = <<f>>
    BY <1>7, <1>11 DEF Fail, Goes, q
  <2> HIDE DEF f
  <2>3. NoQuit(<<f>>)
    BY <2>1 DEF NoQuit
  <2> QED
    BY <1>4, <1>6, <1>11, <2>2, <2>3 DEF q
<1>12. CASE Halt(t)
  <2>1. Busy(HaltList(t) \o Tail(q))
    BY <1>5, <1>7, HaltBusy
  <2>2. todo'[t] = HaltList(t) \o Tail(q)
    BY <1>7, <1>12, <2>1, NotAsleep, HaltGoes DEF q
  <2> QED
    BY <1>4, <2>1, <2>2
<1>13. CASE Restart(t)
  <2> DEFINE p == RestartEngines \o <<<<"restarted">>, <<"unwake">>>>
  <2>1. Busy(p \o Tail(q))
    BY <1>5, <1>7, RestartBusy
  <2>2. todo' = Disarmed([todo EXCEPT ![t] = p \o Tail(@)])
    BY <1>13 DEF Restart
  <2> HIDE DEF p
  <2>3. p \o Tail(q) # <<<<"sleep">>>>
    BY <2>1, NotAsleep
  <2>4. todo'[t] = p \o Tail(q)
    BY <1>7, <2>2, <2>3 DEF Disarmed, q
  <2> QED
    BY <1>4, <2>1, <2>4
<1> QED
  BY <1>4, <1>8, <1>9, <1>10, <1>11, <1>12, <1>13

(***************************************************************************)
(* A second stage engine that works on the stream goes on to.              *)
(***************************************************************************)
LEMMA WorkingEngine ==
  ASSUME IInv, NEW t \in Engines, Works(t)
  PROVE  todo'[t] # <<>> /\ Head(todo'[t])[1] \notin Dull \cup {"relock"}
<1>1. t \in Threads \ {Gsl} /\ t # Timer /\ t \in Pollers
  BY PollerThreads, ThreadsAssumption
<1>2. Runs(t) /\ DOMAIN todo = Threads
  BY <1>1, WorkerRuns, Given
<1>3. Rejecting(t) \/ Renews(t)
  BY <1>1, <1>2 DEF Runs
<1>4. CASE Rejecting(t)
  <2>1. Rejecting(t)'
    BY <1>2, <1>4, RejectingGoesOn
  <2>2. Busy(todo'[t])
    BY <2>1, RejectsBusy DEF Rejecting
  <2> QED
    BY <2>2, BusyHead DEF Work, Out, Dull
<1>5. CASE Renews(t)
  <2>1. Renews(t)'
    BY <1>2, <1>5, RenewsGoesOn
  <2>2. PICK e \in Outcomes("done") : todo'[t] \in After(Renewing, <<<<"unlock">>, e>>)
    BY <2>1 DEF Renews
  <2> DEFINE r == <<<<"unlock">>, e>>
  <2>3. r \in Seq({<<"unlock">>, e}) /\ r # <<>> /\ Head(r)[1] = "unlock"
    OBVIOUS
  <2>4. todo'[t] \in After(Renewing, r)
    BY <2>2
  <2> HIDE DEF r
  <2>5. todo'[t] # <<>> /\ (todo'[t] = r \/ Head(todo'[t]) \in Renewing)
    <3>1. ASSUME NEW q \in After(Renewing, r)
          PROVE  q # <<>> /\ (q = r \/ Head(q) \in Renewing)
      BY <2>3, <3>1, AfterHeads
    <3> QED
      BY <2>4, <3>1
  <2>6. \A s \in Renewing : s[1] \notin Dull \cup {"relock"}
    BY WorkSections DEF Dull, Work, Out
  <2> QED
    BY <2>3, <2>5, <2>6 DEF Dull
<1> QED
  BY <1>3, <1>4, <1>5

(***************************************************************************)
(* Calls on engines and handlers of events, by any thread but the first    *)
(* stage's.                                                                *)
(***************************************************************************)
LEMMA WorksJudge ==
  ASSUME IInv, VInv, UNCHANGED config, NEW t \in Threads \ {Gsl}, Works(t)
  PROVE  VInv'
<1>1. /\ mutex = t /\ Runs(t) /\ ~Leaving /\ todo[t] # <<>>
      /\ Head(todo[t])[1] # "engage" /\ Head(todo[t])[1] \in Names
  BY WorkerRuns
<1>2. Frame(t) /\ mutex' = t
  <2>1. pending_stop \in BOOLEAN /\ (pending_stop => State(Told))
    BY <1>1 DEF IInv, Kept, Types, Pending
  <2> QED
    BY <2>1, Given, WorksPlanned
<1>3. UNCHANGED <<detection_state, rejection_notified>>
  BY WorksKeep
<1>4. /\ accepted' = accepted
      /\ processing_started' \in [Engines -> BOOLEAN] /\ capi_exit' \in [Engines -> BOOLEAN]
      /\ \A k \in Engines : processing_started'[k] => processing_started[k]
      /\ Head(todo[t])[1] # "quit" => \A k \in Engines : capi_exit'[k] => capi_exit[k]
  BY <1>1, CapiKept DEF VInv, Settled
<1>5. /\ Engines \subseteq Threads /\ Timer \notin Engines /\ Gsl # Timer
      /\ \A k \in Pollers : k \in Threads /\ k # Timer /\ (k \in Engines \/ k = Gsl)
  BY PollerThreads, ThreadsAssumption DEF Pollers, Callers
<1>6. \A k \in Pollers \ {t} : todo'[k] = todo[k]
  BY <1>2, <1>5 DEF Frame
<1>7. t \in Engines => todo'[t] # <<>> /\ Head(todo'[t])[1] \notin Dull
  BY WorkingEngine
<1>8. Settled' /\ BothVerdicts' /\ Fresh'
  BY <1>1, <1>3, <1>4, <1>5, <1>6, <1>7, SettledKept DEF VInv
<1>9. Engaging'
  BY <1>2 DEF Engaging, Holds
<1>10. InBuffer'
  <2> SUFFICES ASSUME detection_state # {} PROVE State({"BUFFERING"})'
    BY <1>3 DEF InBuffer
  <2>1. t \in Pollers
    BY <1>1, CallerHolds DEF Threads, Callers, Pollers
  <2>2. t \in Engines /\ Rejecting(t) /\ State({"BUFFERING"})
    BY <1>1, <2>1, HeldPoller
  <2>3. UNCHANGED stream
    BY <2>2, RejectingGoesOn, Given
  <2> QED
    BY <2>2, <2>3 DEF State, stream, states
<1>11. Holds(t)
  BY <1>1, NamesApart DEF Holds, HeldNames
<1>12. Stopping'
  <2> SUFFICES ASSUME State({"BUFFERING"})' PROVE NoQuit(todo'[t]) \/ Busy(todo'[t])
    BY <1>2 DEF Stopping, Holds
  <2>1. NoQuit(todo[t]) \/ Busy(todo[t])
    BY <1>11, WorksInBuffering DEF VInv, Stopping
  <2> QED
    BY <2>1, WorksInBuffering
<1>13. Undecided'
  <2> SUFFICES ASSUME Open' PROVE Undecided'
    BY DEF Undecided
  <2>1. State({"BUFFERING"})' /\ ~Busy(todo'[t])
    BY <1>2, EnginesAssumption DEF Open
  <2>2. State({"BUFFERING"}) /\ ~Busy(todo[t])
    BY <2>1, WorksInBuffering
  <2>3. Open
    BY <1>1, <2>2 DEF Open
  <2>4. NoQuit(todo[t])
    BY <1>11, <2>2 DEF VInv, Stopping
  <2>5. PICK S : todo[t] \in Seq(S)
    BY <1>1, RunsTyped
  <2>6. Head(todo[t])[1] # "quit"
    BY <1>1, <2>4, <2>5, NoQuitTail
  <2>7. \A k \in Engines : capi_exit'[k] => capi_exit[k]
    BY <1>4, <2>6
  <2>8. ASSUME NEW k \in Engines \ {t}
        PROVE  (Judges(k)' => Judges(k)) /\ (Decides(k) => Decides(k)')
    <3>1. todo'[k] = todo[k]
      BY <1>6, PollerThreads
    <3> QED
      BY <2>7, <3>1 DEF Judges, Decides, At, Rejecting
  <2>9. t \in Engines => ~Judges(t)' /\ ~Decides(t)
    <3>1. t \in Engines => ~Judges(t)'
      BY <1>7 DEF Judges, At, Dull
    <3>2. ~Rejecting(t)
      BY <2>2, RejectingHead
    <3>3. ~At(t, "run") /\ ~At(t, "poll")
      BY <1>1, NamesApart DEF At, HeldNames, FreeNames
    <3> QED
      BY <3>1, <3>2, <3>3 DEF Decides
  <2> QED
    BY <1>3, <2>3, <2>8, <2>9, UndecidedKept, Given DEF VInv
<1> QED
  BY <1>2, <1>8, <1>9, <1>10, <1>12, <1>13 DEF VInv

(***************************************************************************)
(* The first stage's thread works on the stream only to engage engines,    *)
(* one after the other,                                                    *)
(***************************************************************************)
LEMMA EngagingGoesOn ==
  ASSUME DOMAIN todo = Threads, config \in Configs, UNCHANGED config, GslRuns, Works(Gsl)
  PROVE  /\ \E k \in config.second : todo[Gsl] # <<>> /\ Head(todo[Gsl]) = <<"engage", k>>
              /\ Arg(Gsl) = k
         /\ SetDetected(Gsl) /\ \E S : todo[Gsl] \in Seq(S)
         /\ todo'[Gsl] # <<>> /\ Head(todo'[Gsl])[1] \in {"engage", "unlock"}
<1> DEFINE S == {"engage"} \X config.second
<1>1. PICK e \in Outcomes("answer") : todo[Gsl] \in After(S, <<<<"unlock">>, e>>)
  BY DEF GslRuns
<1> DEFINE r == <<<<"unlock">>, e>>
           R == {<<"unlock">>, e}
<1>2. r \in Seq(R) /\ Head(r) = <<"unlock">> /\ r # <<>> /\ todo[Gsl] \in After(S, r)
  BY <1>1, OutcomeLists
<1>3. <<"unlock">>[1] = "unlock" /\ "unlock" \notin Names
  BY DEF Names, Plain
<1>4. \A s \in S : s[1] = "engage" /\ \E k \in config.second : s = <<"engage", k>> /\ s[2] = k
  OBVIOUS
<1> HIDE DEF r, S, R
<1>5. todo[Gsl] # r /\ todo[Gsl] # <<>>
  BY <1>2, <1>3, SectionDone
<1>6. Head(todo[Gsl]) \in S
  BY <1>2, <1>5, AfterTail
<1>7. \E k \in config.second : Head(todo[Gsl]) = <<"engage", k>> /\ Arg(Gsl) = k
  BY <1>4, <1>6 DEF Arg
<1>8. SetDetected(Gsl)
  BY <1>4, <1>6, SectionDone
<1>9. todo[Gsl] \in Seq(S \cup R)
  <2>1. ASSUME NEW q \in After(S, r) PROVE q \in Seq(S \cup R)
    BY <1>2, <2>1, AfterIsList
  <2> QED
    BY <1>2, <2>1
<1>10. todo'[Gsl] # <<>> /\ Head(todo'[Gsl])[1] \in {"engage", "unlock"}
  <2>1. GslRuns'
    BY GslGoesOn
  <2>2. PICK f \in Outcomes("answer") :
          todo'[Gsl] \in After({"engage"} \X config'.second, <<<<"unlock">>, f>>)
    BY <2>1 DEF GslRuns
  <2> DEFINE p == <<<<"unlock">>, f>>
             P == {<<"unlock">>, f}
  <2>3. p \in Seq(P) /\ Head(p) = <<"unlock">> /\ p # <<>> /\ todo'[Gsl] \in After(S, p)
    BY <2>2, OutcomeLists DEF S
  <2> HIDE DEF p, P
  <2>4. ASSUME NEW q \in After(S, p) PROVE q # <<>> /\ (q = p \/ Head(q) \in S)
    BY <2>3, <2>4, AfterHeads
  <2> QED
    BY <1>3, <1>4, <2>3, <2>4
<1> QED
  BY <1>5, <1>7, <1>8, <1>9, <1>10

(***************************************************************************)
(* after which that engine decides as well. It was idle, so it hears that  *)
(* it is engaged.                                                          *)
(***************************************************************************)
LEMMA EngagesJudge ==
  ASSUME IInv, VInv, UNCHANGED config, Works(Gsl)
  PROVE  VInv'
<1>1. /\ Gsl \in Threads /\ Gsl \in Pollers /\ Gsl \notin Engines /\ Engines \subseteq Threads
      /\ Gsl # Timer
      /\ \A j \in Pollers : j \in Threads /\ (j \in Engines \/ j = Gsl)
  BY PollerThreads, ThreadsAssumption DEF Pollers
<1>2. mutex = Gsl /\ Runs(Gsl)
  <2>1. todo[Gsl] # <<>> /\ Head(todo[Gsl])[1] \in HeldNames \cup {"engage"}
    BY WorkNames
  <2> QED
    BY <1>1, <2>1, WhoseTurn, Given
<1>3. GslRuns
  BY <1>1, <1>2 DEF Runs
<1> DEFINE q == todo[Gsl]
<1>4. PICK k \in config.second : q # <<>> /\ Head(q) = <<"engage", k>> /\ Arg(Gsl) = k
  BY <1>3, EngagingGoesOn, Given
<1>5. SetDetected(Gsl) /\ todo'[Gsl] # <<>> /\ Head(todo'[Gsl])[1] \in {"engage", "unlock"}
  BY <1>3, EngagingGoesOn, Given
<1>6. PICK S : q \in Seq(S)
  BY <1>3, EngagingGoesOn, Given
<1>7. UNCHANGED stream
  BY <1>3, GslGoesOn, Given
<1>8. UNCHANGED <<cur_state, mutex, detection_state, rejection_notified>>
  BY <1>7 DEF stream, states, verdicts, locks
<1>9. k \in Engines /\ k # Gsl
  BY <1>1, Given
<1>10. Head(q)[1] = "engage"
  BY <1>4
<1>11. Holds(Gsl)
  BY <1>2, <1>4, <1>10 DEF Holds, FreeNames
<1>12. /\ State({"BUFFERING"})
       /\ \A j \in config.second : IF Engaged(j) THEN Decides(j) ELSE todo[j] = <<>>
       /\ \A i \in 1..Len(q) : \A j \in 1..Len(q) : q[i] = q[j] => i = j
  BY <1>11 DEF VInv, Engaging
<1>13. /\ Len(q) \in Nat \ {0} /\ 1 \in 1..Len(q) /\ q[1] = <<"engage", k>>
       /\ Len(Tail(q)) = Len(q) - 1 /\ Tail(q) \in Seq(S)
       /\ \A i \in 1..Len(Tail(q)) : Tail(q)[i] = q[i + 1] /\ i + 1 \in 1..Len(q)
  <2>1. Len(q) \in Nat \ {0} /\ q[1] = Head(q)
    BY <1>4, <1>6, EmptySeq
  <2>2. /\ Len(Tail(q)) = Len(q) - 1 /\ Tail(q) \in Seq(S)
        /\ \A i \in 1..Len(Tail(q)) : Tail(q)[i] = q[i + 1]
    BY <1>4, <1>6, HeadTailProperties
  <2>3. \A i \in 1..Len(Tail(q)) : i + 1 \in 1..Len(q)
    BY <2>1, <2>2
  <2> QED
    BY <1>4, <2>1, <2>2, <2>3
<1>14. ~Engaged(k)
  BY <1>13 DEF Engaged
<1>15. todo[k] = <<>> /\ ~processing_started[k]
  BY <1>9, <1>12, <1>14 DEF VInv, Settled
<1>16. /\ processing_started' = [processing_started EXCEPT ![k] = TRUE]
       /\ capi_exit' = [capi_exit EXCEPT ![k] = FALSE]
       /\ todo' = [todo EXCEPT ![Gsl] = Tail(@), ![k] = <<<<"run">>>>]
       /\ accepted' = accepted
  BY <1>4, <1>5, <1>9, <1>15, Given DEF SetDetected
<1>17. todo'[Gsl] = Tail(q) /\ todo'[k] = <<<<"run">>>>
       /\ \A j \in Engines \ {k} : todo'[j] = todo[j]
  BY <1>1, <1>9, <1>16, Given
<1>18. /\ processing_started' \in [Engines -> BOOLEAN] /\ capi_exit' \in [Engines -> BOOLEAN]
       /\ ~capi_exit'[k]
       /\ \A j \in Engines \ {k} : processing_started'[j] = processing_started[j]
            /\ capi_exit'[j] = capi_exit[j]
  BY <1>9, <1>16 DEF VInv, Settled
<1>19. Head(todo'[k])[1] = "run" /\ todo'[k] # <<>>
  BY <1>17
<1>20. Decides(k)' /\ \A j \in Engines \ {k} : Decides(j)' = Decides(j)
  BY <1>17, <1>18, <1>19, EnginesSame DEF Decides, At
<1>21. detection_state = {}
  BY <1>1, <1>2, HeldPoller
<1>22. Settled'
  <2>1. ASSUME NEW j \in Engines
        PROVE  /\ (At(j, "poll") /\ Arg(j) = "success" => j \in accepted)'
               /\ (todo[j] = <<>> => ~processing_started[j])'
    <3>1. CASE j = k
      BY <1>19, <3>1 DEF At
    <3>2. CASE j # k
      <4>1. todo'[j] = todo[j] /\ processing_started'[j] = processing_started[j]
        BY <1>17, <1>18, <3>2
      <4> QED
        BY <1>16, <4>1 DEF VInv, Settled, At, Arg
    <3> QED
      BY <3>1, <3>2
  <2> QED
    BY <1>8, <1>16, <1>18, <1>21, <2>1 DEF VInv, Settled
<1>23. BothVerdicts'
  <2> SUFFICES ASSUME NEW j \in Pollers, At(j, "callback")', Arg(j)' = "detected"
               PROVE  accepted = config.second
    BY <1>16 DEF BothVerdicts
  <2>1. j # k /\ j # Gsl
    BY <1>5, <1>19 DEF At
  <2>2. todo'[j] = todo[j]
    BY <1>1, <1>17, <2>1
  <2> QED
    BY <2>2 DEF VInv, BothVerdicts, At, Arg
<1>24. Fresh'
  BY <1>5 DEF Fresh, At
<1>25. Engaging'
  <2>1. State({"BUFFERING"})'
    BY <1>8, <1>12 DEF State
  <2>2. Engaged(k)'
    <3>1. \A i \in 1..Len(Tail(q)) : Tail(q)[i] # q[1]
      <4> SUFFICES ASSUME NEW i \in 1..Len(Tail(q)), q[i + 1] = q[1] PROVE FALSE
        BY <1>13
      <4>1. i + 1 = 1 /\ i \in Nat \ {0}
        BY <1>12, <1>13
      <4> QED
        BY <4>1
    <3> QED
      BY <1>13, <1>17, <3>1 DEF Engaged
  <2>3. ASSUME NEW j \in config.second \ {k} PROVE Engaged(j)' = Engaged(j)
    <3>1. q[1] # <<"engage", j>>
      BY <1>13
    <3>2. ASSUME NEW i \in 1..Len(q), i # 1
          PROVE  i - 1 \in 1..Len(Tail(q)) /\ Tail(q)[i - 1] = q[i]
      <4>1. i - 1 \in 1..Len(Tail(q)) /\ (i - 1) + 1 = i
        BY <1>13, <3>2
      <4> QED
        BY <1>13, <4>1
    <3>3. (\A i \in 1..Len(q) : q[i] # <<"engage", j>>)
            <=> (\A i \in 1..Len(Tail(q)) : Tail(q)[i] # <<"engage", j>>)
      BY <1>13, <3>1, <3>2
    <3> QED
      BY <1>17, <3>3 DEF Engaged
  <2>4. ASSUME NEW j \in config.second
        PROVE  IF Engaged(j)' THEN Decides(j)' ELSE todo'[j] = <<>>
    <3>1. CASE j = k
      BY <1>20, <2>2, <3>1
    <3>2. CASE j # k
      <4>1. todo'[j] = todo[j] /\ Decides(j)' = Decides(j)
        BY <1>17, <1>20, <3>2, Given
      <4> QED
        BY <1>12, <2>3, <3>2, <4>1
    <3> QED
      BY <3>1, <3>2
  <2>5. ASSUME NEW i \in 1..Len(Tail(q)), NEW j \in 1..Len(Tail(q)), Tail(q)[i] = Tail(q)[j]
        PROVE  i = j
    <3>1. i + 1 = j + 1
      BY <1>12, <1>13, <2>5
    <3> QED
      BY <3>1
  <2> QED
    BY <1>17, <2>1, <2>4, <2>5 DEF Engaging
<1>26. Undecided'
  BY <1>2, <1>8 DEF Undecided, Open
<1>27. Stopping'
  <2>1. ~Busy(q)
    BY <1>10, BusyHead DEF Work, Out
  <2>2. NoQuit(q)
    BY <1>1, <1>11, <1>12, <2>1 DEF VInv, Stopping
  <2>3. NoQuit(todo'[Gsl])
    BY <1>4, <1>6, <1>17, <2>2, NoQuitTail
  <2> QED
    BY <1>2, <1>8, <2>3 DEF Stopping, Holds
<1>28. InBuffer' /\ (mutex \in Threads \cup {None})'
  BY <1>1, <1>2, <1>8, <1>21 DEF InBuffer
<1> QED
  BY <1>22, <1>23, <1>24, <1>25, <1>26, <1>27, <1>28 DEF VInv

(***************************************************************************)
(* A step of a caller that has the mutex, takes it or gives it up, while   *)
(* it ends no detection.                                                   *)
(***************************************************************************)
LEMMA CallerMoves ==
  ASSUME IInv, VInv, UNCHANGED config, NEW t \in Callers, NEW q, Goes(t, q), NoQuit(q),
         mutex \in {None, t}, mutex = t => ~Busy(todo[t]), mutex' \in {None, t},
         UNCHANGED <<cur_state, detection_state, accepted, processing_started, capi_exit>>,
         rejection_notified' => rejection_notified
  PROVE  VInv'
<1>1. /\ t \in Threads /\ t # Gsl /\ t \notin Engines /\ t \notin Pollers /\ None # Gsl
      /\ None # t
      /\ Gsl \in Threads /\ Engines \subseteq Threads
      /\ \A k \in Pollers : k \in Threads
  BY PollerThreads, EnginesAssumption
<1>2. DOMAIN todo' = Threads /\ todo'[t] = q /\ \A u \in Threads \ {t} : todo'[u] = todo[u]
  BY <1>1, Given DEF Goes
<1>3. processing_started' \in [Engines -> BOOLEAN] /\ capi_exit' \in [Engines -> BOOLEAN]
  BY DEF VInv, Settled
<1>4. Settled' /\ BothVerdicts' /\ Fresh'
  BY <1>1, <1>2, <1>3, SettledKept DEF VInv
<1>5. Open' => Open
  BY <1>1 DEF Open, State
<1>6. \A k \in Engines : Judges(k)' = Judges(k) /\ Decides(k)' = Decides(k)
  BY <1>1, <1>2, EnginesSame
<1>7. Undecided'
  BY <1>5, <1>6, UndecidedKept, Given DEF VInv
<1>8. Engaging' /\ Stopping'
  BY <1>1, <1>2, EnginesAssumption DEF Engaging, Stopping, Holds
<1>9. InBuffer' /\ (mutex \in Threads \cup {None})'
  BY <1>1 DEF VInv, InBuffer, State
<1> QED
  BY <1>4, <1>7, <1>8, <1>9 DEF VInv

(***************************************************************************)
(* Short lists that ask no engine to leave its loop.                       *)
(***************************************************************************)
LEMMA ShortLists ==
  ASSUME NEW a, NEW b, NEW c, a[1] # "quit", b[1] # "quit", c[1] # "quit"
  PROVE  NoQuit(<<>>) /\ NoQuit(<<a>>) /\ NoQuit(<<a, b>>) /\ NoQuit(<<a, b, c>>)
<1>1. NoQuit(<<>>) /\ NoQuit(<<a>>)
  BY DEF NoQuit
<1>2. NoQuit(<<a, b>>)
  BY DEF NoQuit
<1>3. NoQuit(<<a, b, c>>)
  BY DEF NoQuit
<1> QED
  BY <1>1, <1>2, <1>3

(***************************************************************************)
(* A call enters: it has its events to handle and its return, and asks no  *)
(* engine to leave its loop as yet.                                        *)
(***************************************************************************)
LEMMA EnterJudges ==
  ASSUME IInv, VInv, UNCHANGED config, "verdict" \notin Overlap, NEW t \in Callers, Enter(t)
  PROVE  VInv'
<1>1. /\ At(t, "enter") /\ mutex = None /\ mutex' = t
      /\ UNCHANGED <<cur_state, detection_state, accepted, processing_started, capi_exit>>
      /\ rejection_notified' => rejection_notified
  BY DEF Enter, engines, capi
<1>2. PICK q : q = todo'[t]
  OBVIOUS
<1>3. t \in Threads /\ None # t
  BY PollerThreads, EnginesAssumption
<1>4. Goes(t, q)
  <2> DEFINE handled ==
               CASE Arg(t) = "lateStop" -> IF pending_stop THEN <<<<"handle",
                   "stop">>>> ELSE <<>>
                 [] Arg(t) = "stopBuffering" ->
                      IF State({"BUFFERING"}) THEN <<<<"handle", "stop">>>> ELSE <<>>
                 [] OTHER -> <<<<"handle", Arg(t)>>>>
             p == handled \o SubSeq(todo[t], 2, Len(todo[t]) - 1) \o <<Leave(Arg(t))>>
  <2>1. Goes(t, p)
    BY DEF Enter
  <2> HIDE DEF p
  <2>2. todo'[t] = p
    BY <1>3, <2>1, Given DEF Goes
  <2> QED
    BY <1>2, <2>1, <2>2
<1>5. PICK op : op = Arg(t)
  OBVIOUS
<1>6. PICK l : l = Leave(op)
  OBVIOUS
<1>7. PICK h : h = <<"handle", op>>
  OBVIOUS
<1>8. /\ l[1] = "leave" /\ h[1] = "handle" /\ <<"handle", "stop">>[1] = "handle"
      /\ <<"handle", "concurrentEnd">>[1] = "handle" /\ <<"handle", "connect">>[1] = "handle"
  BY <1>6, <1>7 DEF Leave
<1>9. /\ op = "lateStop" => q = IF pending_stop THEN <<<<"handle", "stop">>, l>> ELSE <<l>>
      /\ op = "stopBuffering" => q \in {<<<<"handle", "stop">>, l>>, <<l>>}
      /\ op = "concurrent" => q = <<<<"handle", op>>, <<"handle", "concurrentEnd">>, l>>
      /\ op = "disconnect" => q = <<<<"handle", op>>, <<"handle", "connect">>, l>>
      /\ op \notin {"lateStop", "stopBuffering", "concurrent", "disconnect"}
           => q = <<<<"handle", op>>, l>>
  BY <1>2, <1>5, <1>6, EnterLists, Given
<1>10. \/ q = <<l>> \/ q = <<<<"handle", "stop">>, l>> \/ q = <<h, l>>
       \/ q = <<h, <<"handle", "concurrentEnd">>, l>> \/ q = <<h, <<"handle", "connect">>, l>>
  <2>1. CASE op = "lateStop"
    BY <1>9, <2>1
  <2>2. CASE op = "stopBuffering"
    BY <1>9, <2>2
  <2>3. CASE op = "concurrent"
    BY <1>7, <1>9, <2>3
  <2>4. CASE op = "disconnect"
    BY <1>7, <1>9, <2>4
  <2>5. CASE op \notin {"lateStop", "stopBuffering", "concurrent", "disconnect"}
    BY <1>7, <1>9, <2>5
  <2> QED
    BY <2>1, <2>2, <2>3, <2>4, <2>5
<1>11. NoQuit(q)
  BY <1>8, <1>10, ShortLists
<1> QED
  BY <1>1, <1>3, <1>4, <1>11, CallerMoves

(***************************************************************************)
(* A call returns,                                                         *)
(***************************************************************************)
LEMMA ReturnJudges ==
  ASSUME IInv, VInv, UNCHANGED config, NEW t \in Callers, Return(t)
  PROVE  VInv'
<1>1. /\ At(t, "leave") /\ mutex' = None
      /\ Goes(t, <<>>) \/ Goes(t, <<<<"delete">>>>)
      /\ UNCHANGED <<cur_state, detection_state, rejection_notified, accepted,
           processing_started, capi_exit>>
  BY DEF Return, engines, capi, verdicts
<1>2. mutex = t
  BY <1>1, ReturnLists, Given
<1>3. ~Busy(todo[t])
  BY <1>1, BusyHead DEF At, Work, Out
<1>4. NoQuit(<<>>) /\ NoQuit(<<<<"delete">>>>)
  BY DEF NoQuit
<1> QED
  BY <1>1, <1>2, <1>3, <1>4, CallerMoves

(***************************************************************************)
(* the destructor begins to wait for the timer,                            *)
(***************************************************************************)
LEMMA DestroyJudges ==
  ASSUME IInv, VInv, UNCHANGED config, Destroy
  PROVE  VInv'
<1>1. /\ mutex = None /\ mutex' = Client /\ Goes(Client, <<<<"joinTimer">>>>)
      /\ UNCHANGED <<cur_state, detection_state, rejection_notified, accepted,
           processing_started, capi_exit>>
  BY DEF Destroy, engines, capi, states, verdicts
<1>2. Client \in Callers /\ Client # None
  BY EnginesAssumption DEF Callers, Threads
<1>3. NoQuit(<<<<"joinTimer">>>>)
  BY DEF NoQuit
<1> QED
  BY <1>1, <1>2, <1>3, CallerMoves

(***************************************************************************)
(* and ends; the next stream is a new one.                                 *)
(***************************************************************************)
LEMMA DestroyedJudges ==
  ASSUME IInv, VInv, UNCHANGED config, Destroyed
  PROVE  VInv'
<1>1. /\ \A t \in Engines \cup {Gsl} : todo[t] = <<>>
      /\ todo' = [todo EXCEPT ![Client] = <<>>, ![Timer] = <<>>]
      /\ mutex' = None /\ detection_state' = {} /\ rejection_notified' = FALSE
      /\ UNCHANGED <<accepted, processing_started, capi_exit>>
  BY DEF Destroyed, Born, capi
<1>2. \A k \in Pollers : k \in Engines \cup {Gsl} /\ k \in Threads
  BY PollerThreads DEF Pollers
<1>3. \A k \in Pollers : todo'[k] = <<>>
  BY <1>1, <1>2, Given
<1>4. Engines \subseteq Pollers /\ Gsl \in Pollers
  BY PollerThreads
<1>5. \A k \in Engines : ~Judges(k)' /\ ~processing_started'[k]
  BY <1>1, <1>3, <1>4 DEF VInv, Settled, Judges, At
<1>6. Settled' /\ Undecided' /\ InBuffer'
  BY <1>1, <1>5, NobodyJudges DEF VInv, Settled
<1>7. BothVerdicts' /\ Fresh'
  BY <1>3, <1>4 DEF BothVerdicts, Fresh, At
<1> QED
  BY <1>1, <1>6, <1>7, FreeMutex DEF VInv

(***************************************************************************)
(* The invariant holds at first,                                           *)
(***************************************************************************)
LEMMA InitJudges ==
  ASSUME Init
  PROVE  VInv
<1>1. /\ todo = [t \in Threads |-> <<>>] /\ mutex = None /\ detection_state = {}
      /\ accepted = {}
      /\ rejection_notified = FALSE /\ config \in Configs
      /\ processing_started = [k \in Engines |-> FALSE] /\ capi_exit = [k \in Engines |-> FALSE]
  BY DEF Init, InitEngines
<1>2. \A k \in Pollers : todo[k] = <<>>
  BY <1>1, PollerThreads
<1>3. Engines \subseteq Pollers /\ Gsl \in Pollers /\ Gsl # None /\ \A t \in Threads : t # None
  BY PollerThreads, EnginesAssumption
<1>4. Settled
  BY <1>1, <1>2, <1>3 DEF Settled, At, Judges
<1>5. BothVerdicts /\ Fresh
  BY <1>2, <1>3 DEF BothVerdicts, Fresh, At
<1>6. Engaging /\ Stopping /\ InBuffer
  BY <1>1, <1>3 DEF Engaging, Stopping, InBuffer, Holds
<1>7. Undecided
  BY <1>1, <1>2, <1>3 DEF Undecided, Judges, At
<1> QED
  BY <1>1, <1>4, <1>5, <1>6, <1>7 DEF VInv

(***************************************************************************)
(* while nothing happens,                                                  *)
(***************************************************************************)
LEMMA StutterJudges ==
  ASSUME IInv, VInv, UNCHANGED vars
  PROVE  VInv'
<1>1. UNCHANGED <<config, todo, cur_state, mutex, detection_state, rejection_notified,
                  accepted, processing_started, capi_exit>>
  BY DEF vars, engines, capi, stream, states, verdicts, locks
<1> QED
  BY <1>1, NothingJudged

(***************************************************************************)
(* and after every step.                                                   *)
(***************************************************************************)
LEMMA NextJudges ==
  ASSUME IInv, VInv, [Next]_vars, DecidesAlone, "verdict" \notin Overlap,
         "detection" \notin Overlap
  PROVE  VInv'
<1>1. CASE UNCHANGED vars
  BY <1>1, StutterJudges
<1>2. CASE Next
  <2>1. UNCHANGED config
    BY <1>2 DEF Next
  <2>2. ASSUME NEW t \in Threads, Works(t) PROVE VInv'
    <3>1. CASE t = Gsl
      BY <2>1, <2>2, <3>1, EngagesJudge
    <3>2. CASE t # Gsl
      BY <2>1, <2>2, <3>2, WorksJudge
    <3> QED
      BY <3>1, <3>2
  <2>3. ASSUME NEW t \in Pollers, Engine(t) PROVE VInv'
    <3>1. t \in Threads
      BY PollerThreads
    <3>2. CASE (EngineCall(t) /\ UNCHANGED stream) \/ Handling(t)
      BY <2>2, <3>1, <3>2 DEF Works
    <3>3. CASE Detection(t)
      <4>1. CASE Ignored(t)
        BY <2>1, <4>1, IgnoredJudges
      <4>2. CASE FirstStageOnly(t)
        BY <2>1, <4>2, FirstStageOnlyJudges
      <4>3. CASE FirstStageDetected(t)
        BY <2>1, <4>3, FirstStageDetectedJudges
      <4>4. CASE Unlock(t)
        BY <2>1, <4>4, UnlockJudges
      <4>5. CASE Accept(t)
        BY <2>1, <4>5, AcceptJudges
      <4>6. CASE Reject(t)
        BY <2>1, <4>6, RejectJudges
      <4>7. CASE Rejected(t)
        BY <2>1, <4>7, RejectedJudges
      <4>8. CASE Callback(t) \/ Relock(t)
        BY <2>1, <4>8, CallbackJudges
      <4> QED
        BY <3>3, <4>1, <4>2, <4>3, <4>4, <4>5, <4>6, <4>7, <4>8 DEF Detection
    <3>4. CASE t = Gsl /\ FirstStage /\ UNCHANGED stream
      BY <2>1, <3>4, FirstStageJudges
    <3>5. CASE t \in Engines /\ SecondStage(t) /\ UNCHANGED stream
      BY <2>1, <3>5, SecondStageJudges
    <3> QED
      BY <2>3, <3>2, <3>3, <3>4, <3>5 DEF Engine
  <2>4. ASSUME NEW t \in Callers, Caller(t) PROVE VInv'
    <3>1. t \in Threads
      BY PollerThreads
    <3>2. CASE (EngineCall(t) /\ UNCHANGED stream) \/ Handling(t)
      BY <2>2, <3>1, <3>2 DEF Works
    <3>3. CASE Enter(t)
      BY <2>1, <3>3, EnterJudges
    <3>4. CASE Return(t)
      BY <2>1, <3>4, ReturnJudges
    <3>5. CASE Destroy \/ Destroyed
      BY <2>1, <3>5, DestroyJudges, DestroyedJudges
    <3>6. CASE Arm \/ Wake
      BY <2>1, <3>6, TimerJudges
    <3> QED
      BY <2>4, <3>2, <3>3, <3>4, <3>5, <3>6 DEF Caller
  <2>5. CASE Outside
    <3>1. ASSUME NEW op \in {"load", "config", "start", "stop", "stopBuffering", "unload"},
                 Call(op)
          PROVE  VInv'
      BY <2>1, <3>1, CallJudges
    <3>2. ASSUME NEW r \in Requests, Request(r) PROVE VInv'
      BY <2>1, <3>2, RequestJudges
    <3>3. CASE Read
      BY <2>1, <3>3, ReadJudges
    <3>4. CASE Detect /\ UNCHANGED stream
      BY <2>1, <3>4, DetectJudges
    <3> QED
      BY <2>5, <3>1, <3>2, <3>3, <3>4 DEF Outside
  <2> QED
    BY <1>2, <2>3, <2>4, <2>5 DEF Next
<1> QED
  BY <1>1, <1>2

(***************************************************************************)
(* The inductive invariant holds in every reachable state: while a stream  *)
(* is buffering, no verdict of an engine is lost or left over from an      *)
(* earlier detection.                                                      *)
(***************************************************************************)
THEOREM VerdictsInvariant ==
  ASSUME "verdict" \notin Overlap, "detection" \notin Overlap, DecidesAlone
  PROVE  Spec => [](IInv /\ VInv)
<1>1. Init => IInv /\ VInv
  BY InitInv, InitJudges
<1>2. IInv /\ VInv /\ [Next]_vars => IInv' /\ VInv'
  BY NextInv, NextJudges
<1> QED
  BY <1>1, <1>2, PTL DEF Spec

(***************************************************************************)
(* The client is told of a detection only when every second stage engine   *)
(* has accepted that detection (StBuffering::ProcessEvent), whichever of   *)
(* them decides first, and although they are stopped, restarted and        *)
(* engaged again by the client, ResourceManager and each other. The        *)
(* hypotheses: no call comes between the verdicts on one detection, the    *)
(* DSP detects nothing while a thread still works on the detection before, *)
(* and a client that hears of rejections has at most one engine. Without   *)
(* the first one a verdict that is kept over a stop and a start counts for *)
(* the next detection.                                                     *)
(***************************************************************************)
THEOREM HeardOfAccepted ==
  ASSUME "verdict" \notin Overlap, "detection" \notin Overlap, DecidesAlone
  PROVE  Spec => []BothVerdicts
<1>1. Spec => [](IInv /\ VInv)
  BY VerdictsInvariant
<1>2. IInv /\ VInv => BothVerdicts
  BY DEF VInv
<1> QED
  BY <1>1, <1>2, PTL
==============================================================================
